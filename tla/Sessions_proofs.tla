--------------------------- MODULE Sessions_proofs ----------------------------
(***************************************************************************)
(* Theorems about Sessions, for every number of clients, workers and       *)
(* requests and every set of environments.                                 *)
(***************************************************************************)
EXTENDS Sessions, TLAPS

AskType ==
    [client : Clients, worker : Workers, cookie : Ids,
     answered : SUBSET Requests]
SessionType == [id : Ids, values : SUBSET Requests, pending : BOOLEAN]
FileType ==
    [state : {"missing", "empty", "garbled", "full"},
     values : SUBSET Requests]
CachedType == [cookie : Ids, state : {"none", "fresh", "encoded"}]
AnswerType ==
    [by : {"nobody", "hook", "error", "unreadable", "unsaved", "endpoint",
           "cache"},
     cookie : Ids]

TypeOK ==
    /\ env \subseteq Behaviours
    /\ files \in [Requests -> FileType]
    /\ cookie \in [Clients -> Ids]
    /\ asked \in Seq(AskType) /\ Len(asked) <= MaxRequests
    /\ at \in [Requests -> Stages]
    /\ session \in [Requests -> SessionType]
    /\ response \in [Requests -> Ids]
    /\ cached \in [Requests -> CachedType]
    /\ stored \in [Workers -> Ids]
    /\ alive \subseteq Workers
    /\ saving \in [Workers -> Ids]
    /\ answer \in [Requests -> AnswerType]

(* Requests q and r are of one client. *)
Same(q, r) ==
    /\ q \in 1..Len(asked) /\ r \in 1..Len(asked)
    /\ asked[q].client = asked[r].client

(* Whatever a client can reach, in its cookie, its requests, their         *)
(* sessions and answers and the files of its sessions, is its own.         *)
SessionsOwn ==
    \A r \in Requests : session[r] # NoSession =>
        /\ Same(session[r].id, r)
        /\ \A q \in session[r].values : Same(q, r)
FilesOwn == \A i \in Requests : \A q \in files[i].values : Same(q, i)
CookiesOwn == \A c \in Clients : cookie[c] # None => cookie[c] \in Of(c)
AskedOwn ==
    \A r \in 1..Len(asked) :
        asked[r].cookie # None => Same(asked[r].cookie, r)
AnswersOwn ==
    \A r \in Requests :
        answer[r].cookie # None => Same(answer[r].cookie, r)
SavingOwn ==
    \A w \in Workers :
        saving[w] # None => session[saving[w]] # NoSession

(* No cached response has a cookie: a session is not begun before a route  *)
(* answers from its cache, and the endpoint's response keeps its headers.  *)
NoCookieCached == \A q \in Requests : cached[q].cookie = None
NothingCached ==
    "cached" \notin env =>
        /\ \A q \in Requests : cached[q].state # "fresh"
        /\ \A w \in Workers : stored[w] = None
        /\ \A r \in Requests : response[r] = None
NoSessionFromCache ==
    "cached" \in env => \A r \in Requests :
        at[r] \in {"none", "before"} \/ response[r] # None
            => session[r] = NoSession
CacheComesLast ==
    \A r \in Requests :
        response[r] # None => at[r] \notin {"none", "before", "endpoint"}

NotYet == \A r \in Requests : r > Len(asked) => at[r] = "none"

Owned ==
    SessionsOwn /\ FilesOwn /\ CookiesOwn /\ AskedOwn /\ AnswersOwn
    /\ SavingOwn
Plain ==
    NoCookieCached /\ NothingCached /\ NoSessionFromCache
    /\ CacheComesLast
    /\ NotYet
IInv == TypeOK /\ (~Mixed => Owned /\ Plain)

(* None is no request, and requests are numbers.                           *)
LEMMA NoneIsNoRequest ==
    /\ None \notin Requests /\ Requests \subseteq Nat /\ Requests \subseteq Ids
    /\ None \in Ids /\ NoSession \in SessionType /\ Empty \in FileType
    /\ Missing \in FileType /\ Garbled \in FileType
    /\ NotCached \in CachedType /\ NoAnswer \in AnswerType
  BY BoundAssumption
  DEF None, Requests, Ids, NoSession, SessionType, Empty, Missing, Garbled,
      FileType, NotCached, CachedType, NoAnswer, AnswerType

(* What the client's other requests have is of the same client.            *)
LEMMA SameIsTransitive ==
    ASSUME NEW p, NEW q, NEW r, Same(p, q), Same(q, r)
    PROVE  Same(p, r)
  BY DEF Same

(* A request that was asked is of its own client.                          *)
LEMMA SameIsReflexive ==
    ASSUME NEW r \in 1..Len(asked)
    PROVE  Same(r, r)
  BY DEF Same

(* Nothing has been asked when the server starts. *)
LEMMA InitIInv == Init => IInv
<1> SUFFICES ASSUME Init PROVE IInv
  OBVIOUS
<1> USE NoneIsNoRequest
<1>1. TypeOK
  BY EnvAssumption, BoundAssumption DEF Init, TypeOK, Stages
<1>2. Owned
  BY DEF Init, Owned, SessionsOwn, FilesOwn, CookiesOwn, AskedOwn,
         AnswersOwn, SavingOwn, Missing, NoAnswer, TypeOK
<1>3. Plain
  BY DEF Init, Plain, NoCookieCached, NothingCached, NoSessionFromCache,
         CacheComesLast, NotCached, NotYet
<1> QED BY <1>1, <1>2, <1>3 DEF IInv
-----------------------------------------------------------------------------
(* What was of one client before a request is asked is so afterwards.      *)
LEMMA SameIsMonotone ==
    ASSUME TypeOK, NEW x, asked' = Append(asked, x), NEW q, NEW r, Same(q, r)
    PROVE  Same(q, r)'
<1>1. Len(asked') = Len(asked) + 1
  BY DEF TypeOK
<1>2. \A i \in 1..Len(asked) : i \in 1..Len(asked') /\ asked'[i] = asked[i]
  BY <1>1 DEF TypeOK
<1> QED BY <1>2 DEF Same

(* A request begins with nothing of anybody else.                          *)
LEMMA AskKeeps ==
    ASSUME IInv, ~Mixed, NEW c \in Clients, NEW w \in Workers, Ask(c, w)
    PROVE  Owned' /\ Plain'
<1> DEFINE n == Len(asked) + 1
           x == [client |-> c, worker |-> w, cookie |-> cookie[c],
                 answered |-> {r \in Of(c) : at[r] = "received"}]
<1>1. /\ asked' = Append(asked, x)
      /\ at' = [at EXCEPT ![n] = "before"]
      /\ UNCHANGED <<env, files, cookie, session, response, cached, stored,
                     alive, saving, answer>>
  BY DEF Ask, Goto, responses, processes
<1>2. /\ n \in Requests /\ n \in Nat
      /\ Len(asked') = n /\ asked'[n] = x
      /\ \A i \in 1..Len(asked) : i \in 1..n /\ asked'[i] = asked[i]
  BY <1>1, BoundAssumption DEF Ask, IInv, TypeOK, Requests
<1>3. \A q, r : Same(q, r) => Same(q, r)'
  BY <1>1, SameIsMonotone DEF IInv
<1>4. SessionsOwn' /\ FilesOwn' /\ AnswersOwn' /\ SavingOwn'
  BY <1>1, <1>3 DEF IInv, Owned, SessionsOwn, FilesOwn, AnswersOwn, SavingOwn
<1>5. \A k \in Clients : Of(k) \subseteq Of(k)'
  BY <1>2 DEF Of
<1>6. CookiesOwn'
  BY <1>1, <1>5 DEF IInv, Owned, CookiesOwn
<1>7. AskedOwn'
  <2> SUFFICES ASSUME NEW r \in 1..n, asked'[r].cookie # None
               PROVE  Same(asked[r].cookie, r)'
    BY <1>2 DEF AskedOwn
  <2>1. CASE r \in 1..Len(asked)
    BY <1>2, <1>3, <2>1 DEF IInv, Owned, AskedOwn
  <2>2. CASE r \notin 1..Len(asked)
    <3>1. r = n
      BY <1>2, <2>2 DEF IInv, TypeOK
    <3>2. cookie[c] \in Of(c)
      BY <1>2, <3>1 DEF IInv, Owned, CookiesOwn
    <3> QED BY <1>2, <3>1, <3>2 DEF Same, Of
  <2> QED BY <2>1, <2>2
<1>8. session[n] = NoSession /\ at[n] = "none"
  <2>1. n > Len(asked) /\ n \notin 1..Len(asked)
    BY DEF IInv, TypeOK
  <2> QED BY <1>2, <2>1 DEF IInv, Owned, SessionsOwn, Same, Plain, NotYet
<1>9. \A r \in Requests : at'[r] = IF r = n THEN "before" ELSE at[r]
  BY <1>1 DEF IInv, TypeOK
<1>10. NoCookieCached' /\ NothingCached'
  BY <1>1 DEF IInv, Plain, NoCookieCached, NothingCached
<1>11. NoSessionFromCache'
  BY <1>1, <1>8, <1>9 DEF IInv, Plain, NoSessionFromCache
<1>12. CacheComesLast'
  BY <1>1, <1>2, <1>8, <1>9 DEF IInv, Plain, CacheComesLast
<1>13. NotYet'
  <2>1. \A r \in Requests : r > n => r > Len(asked) /\ r # n
    BY NoneIsNoRequest DEF IInv, TypeOK
  <2> QED BY <1>2, <1>9, <2>1 DEF IInv, Plain, NotYet
<1> QED BY <1>4, <1>6, <1>7, <1>10, <1>11, <1>12, <1>13 DEF Owned, Plain
-----------------------------------------------------------------------------
(* An answer is for its client; a cookie that is set is the client's own.  *)
LEMMA ReceiveKeeps ==
    ASSUME IInv, ~Mixed, NEW r \in Requests, Receive(r)
    PROVE  Owned' /\ Plain'
<1>1. /\ at[r] = "sent" /\ at' = [at EXCEPT ![r] = "received"]
      /\ cookie' = IF answer[r].cookie = None THEN cookie
                   ELSE [cookie EXCEPT ![asked[r].client] = answer[r].cookie]
      /\ UNCHANGED <<env, files, asked, session, response, cached, stored,
                     alive, saving, answer>>
  BY DEF Receive, Goto, responses, processes
<1>2. SessionsOwn' /\ FilesOwn' /\ AskedOwn' /\ AnswersOwn' /\ SavingOwn'
  BY <1>1
  DEF IInv, Owned, SessionsOwn, FilesOwn, AskedOwn, AnswersOwn, SavingOwn,
      Same
<1>3. CookiesOwn'
  <2> SUFFICES ASSUME NEW c \in Clients, cookie'[c] # None
               PROVE  cookie'[c] \in Of(c)
    BY <1>1 DEF CookiesOwn, Of
  <2>1. CASE cookie'[c] = cookie[c]
    BY <2>1 DEF IInv, Owned, CookiesOwn
  <2>2. CASE cookie'[c] # cookie[c]
    <3>1. /\ answer[r].cookie # None /\ c = asked[r].client
          /\ cookie'[c] = answer[r].cookie
      BY <1>1, <2>2 DEF IInv, TypeOK
    <3>2. Same(answer[r].cookie, r)
      BY <3>1 DEF IInv, Owned, AnswersOwn
    <3> QED BY <3>1, <3>2 DEF Same, Of
  <2> QED BY <2>1, <2>2
<1>4. \A q \in Requests : at'[q] = IF q = r THEN "received" ELSE at[q]
  BY <1>1 DEF IInv, TypeOK
<1>5. Plain'
  BY <1>1, <1>4
  DEF IInv, Plain, NoCookieCached, NothingCached, NoSessionFromCache,
      CacheComesLast, NotYet
<1> QED BY <1>2, <1>3, <1>5 DEF Owned

(* What a handler does with its session.                                   *)
LEMMA UseKeeps ==
    ASSUME IInv, ~Mixed, NEW r \in Requests, Load(r) \/ Change(r)
    PROVE  Owned' /\ Plain'
<1>1. /\ MayUse(r) /\ r \in 1..Len(asked)
      /\ UNCHANGED <<env, files, cookie, asked, at, response, cached, stored,
                     alive, saving, answer>>
  BY NoneIsNoRequest
  DEF Load, Change, MayUse, Runs, responses, processes, IInv, TypeOK,
      Requests
<1>2. \E s \in SessionType :
         /\ session' = [session EXCEPT ![r] = s]
         /\ s # NoSession
         /\ Same(s.id, r) /\ \A q \in s.values : Same(q, r)
  <2>1. CASE Load(r)
    <3> DEFINE id == asked[r].cookie
    <3>0. /\ id \in Ids
          /\ \A i \in Requests : files[i].values \subseteq Requests
      <4>1. asked[r] \in AskType
        BY <1>1 DEF IInv, TypeOK
      <4>2. \A i \in Requests : files[i] \in FileType
        BY DEF IInv, TypeOK
      <4> QED BY <4>1, <4>2 DEF AskType, FileType
    <3>1. Loaded(r) \in SessionType
      <4>1. id # None => id \in Requests
        BY <3>0 DEF Ids
      <4> QED BY <3>0, <4>1, NoneIsNoRequest DEF Loaded, SessionType
    <3>2. Loaded(r) # NoSession
      BY <1>1, NoneIsNoRequest DEF Loaded, NoSession
    <3>3. Same(Loaded(r).id, r)
      BY <1>1, SameIsReflexive DEF Loaded, IInv, Owned, AskedOwn
    <3>4. \A q \in Loaded(r).values : Same(q, r)
      <4> SUFFICES ASSUME NEW q \in Loaded(r).values
                   PROVE  Same(q, r)
        OBVIOUS
      <4>1. /\ asked[r].cookie # None /\ q \in files[asked[r].cookie].values
            /\ asked[r].cookie \in Requests
        BY <3>0 DEF Loaded, Ids
      <4>2. Same(q, asked[r].cookie) /\ Same(asked[r].cookie, r)
        BY <1>1, <4>1 DEF IInv, Owned, FilesOwn, AskedOwn
      <4> QED BY <4>2, SameIsTransitive
    <3> QED BY <2>1, <3>1, <3>2, <3>3, <3>4 DEF Load
  <2>2. CASE Change(r)
    <3> DEFINE s == [session[r] EXCEPT !.values = @ \cup {r},
                                       !.pending = TRUE]
    <3>1. session' = [session EXCEPT ![r] = s] /\ session[r] # NoSession
      BY <2>2 DEF Change
    <3>2. /\ s \in SessionType /\ s.id = session[r].id
          /\ s.values = session[r].values \cup {r} /\ s.pending
      <4>1. session[r] \in SessionType
        BY DEF IInv, TypeOK
      <4> QED BY <4>1 DEF SessionType
    <3>3. Same(s.id, r) /\ \A q \in s.values : Same(q, r)
      BY <1>1, <3>1, <3>2, SameIsReflexive DEF IInv, Owned, SessionsOwn
    <3> QED BY <3>1, <3>2, <3>3 DEF NoSession
  <2> QED BY <2>1, <2>2
<1>3. PICK s \in SessionType :
         /\ session' = [session EXCEPT ![r] = s]
         /\ s # NoSession
         /\ Same(s.id, r) /\ \A q \in s.values : Same(q, r)
  BY <1>2
<1>4. \A q \in Requests : session'[q] = IF q = r THEN s ELSE session[q]
  BY <1>3 DEF IInv, TypeOK
<1>5. \A p, q : Same(p, q)' <=> Same(p, q)
  BY <1>1 DEF Same
<1>6. SessionsOwn'
  BY <1>3, <1>4, <1>5 DEF IInv, Owned, SessionsOwn
<1>7. FilesOwn' /\ CookiesOwn' /\ AskedOwn' /\ AnswersOwn'
  BY <1>1, <1>5
  DEF IInv, Owned, FilesOwn, CookiesOwn, AskedOwn, AnswersOwn, Of
<1>8. SavingOwn'
  BY <1>1, <1>3, <1>4 DEF IInv, TypeOK, Ids, Owned, SavingOwn
<1>9. "cached" \in env => at[r] = "endpoint" /\ response[r] = None
  BY <1>1 DEF MayUse, Runs, Mixed, IInv, Plain, CacheComesLast
<1>10. Plain'
  BY <1>1, <1>4, <1>9
  DEF IInv, Plain, NoCookieCached, NothingCached, NoSessionFromCache,
      CacheComesLast, NotYet
<1> QED BY <1>6, <1>7, <1>8, <1>10 DEF Owned

(* Answers that are made without the session.                              *)
LEMMA AnswerKeeps ==
    ASSUME IInv, ~Mixed, NEW r \in Requests, NEW who, r <= Len(asked),
           Answers(r, who, None),
           UNCHANGED <<env, files, cookie, asked, session, responses,
                       processes>>
    PROVE  Owned' /\ Plain'
<1>1. /\ \A q \in Requests : at'[q] = IF q = r THEN "sent" ELSE at[q]
      /\ \A q \in Requests : answer'[q].cookie =
                                IF q = r THEN None ELSE answer[q].cookie
      /\ UNCHANGED <<env, files, cookie, asked, session, response, cached,
                     stored, alive, saving>>
  BY DEF Answers, Goto, IInv, TypeOK, responses, processes
<1>2. Owned'
  BY <1>1
  DEF IInv, Owned, SessionsOwn, FilesOwn, CookiesOwn, AskedOwn, AnswersOwn,
      SavingOwn, Same, Of
<1>3. NoCookieCached' /\ NothingCached' /\ NoSessionFromCache'
  BY <1>1 DEF IInv, Plain, NoCookieCached, NothingCached, NoSessionFromCache
<1>4. CacheComesLast'
  BY <1>1 DEF IInv, Plain, CacheComesLast
<1>5. NotYet'
  <2>1. ~(r > Len(asked))
    BY NoneIsNoRequest DEF IInv, TypeOK
  <2> QED BY <1>1, <2>1 DEF IInv, Plain, NotYet
<1> QED BY <1>2, <1>3, <1>4, <1>5 DEF Plain
-----------------------------------------------------------------------------
(* handle_request() between its answers.                                   *)
LEMMA PassKeeps ==
    ASSUME IInv, ~Mixed, NEW r \in Requests,
           GuardPasses(r) \/ EndpointReturns(r)
    PROVE  Owned' /\ Plain'
<1>1. /\ UNCHANGED <<env, files, cookie, asked, session, alive, saving,
                     answer>>
      /\ at[r] \in {"before", "endpoint"} /\ r <= Len(asked)
  BY DEF GuardPasses, EndpointReturns, Runs, responses, processes
<1>2. Owned'
  BY <1>1
  DEF IInv, Owned, SessionsOwn, FilesOwn, CookiesOwn, AskedOwn, AnswersOwn,
      SavingOwn, Same, Of
<1>3. PICK stage \in {"endpoint", "after"} :
         \A q \in Requests : at'[q] = IF q = r THEN stage ELSE at[q]
  BY DEF GuardPasses, EndpointReturns, Goto, IInv, TypeOK
<1>4. NotYet'
  <2>1. ~(r > Len(asked))
    BY <1>1, NoneIsNoRequest DEF IInv, TypeOK
  <2> QED BY <1>1, <1>3, <2>1 DEF IInv, Plain, NotYet
<1>5. CASE GuardPasses(r)
  <2>1. /\ UNCHANGED <<cached, stored>> /\ Worker(r) \in Workers
        /\ at[r] = "before" /\ response' = [response EXCEPT
                                            ![r] = stored[Worker(r)]]
        /\ at'[r] = IF stored[Worker(r)] = None THEN "endpoint" ELSE "after"
    BY <1>5 DEF GuardPasses, Runs, Goto, IInv, TypeOK
  <2>2. \A q \in Requests : response'[q] =
           IF q = r THEN stored[Worker(r)] ELSE response[q]
    BY <2>1 DEF IInv, TypeOK
  <2>3. NoCookieCached' /\ NothingCached'
    BY <1>1, <2>1, <2>2 DEF IInv, Plain, NoCookieCached, NothingCached
  <2>4. NoSessionFromCache'
    BY <1>1, <1>3, <2>1, <2>2 DEF IInv, Plain, NoSessionFromCache
  <2>5. CacheComesLast'
    BY <1>3, <2>1, <2>2 DEF IInv, Plain, CacheComesLast
  <2> QED BY <1>2, <1>4, <2>3, <2>4, <2>5 DEF Plain
<1>6. CASE EndpointReturns(r)
  <2>1. UNCHANGED response /\ at[r] = "endpoint"
    BY <1>6 DEF EndpointReturns, Runs
  <2>2. NoCookieCached'
    BY <1>6 DEF EndpointReturns, IInv, TypeOK, CachedType, Plain,
                NoCookieCached
  <2>3. NothingCached'
    BY <1>1, <1>6 DEF EndpointReturns, IInv, Plain, NothingCached
  <2>4. NoSessionFromCache' /\ CacheComesLast'
    BY <1>1, <1>3, <2>1
    DEF IInv, Plain, NoSessionFromCache, CacheComesLast
  <2> QED BY <1>2, <1>4, <2>2, <2>3, <2>4 DEF Plain
<1> QED BY <1>5, <1>6

(* send(): the cookie in an answer is the one of its session, and none     *)
(* stays in a cached response.                                             *)
LEMMA SendKeeps ==
    ASSUME IInv, ~Mixed, NEW r \in Requests, NEW id, r <= Len(asked),
           id # None => session[r] # NoSession /\ id = session[r].id,
           SendWith(r, id),
           UNCHANGED <<env, asked, session, response, stored>>
    PROVE  AnswersOwn' /\ Plain'
<1> DEFINE q == IF response[r] = None THEN r ELSE response[r]
           changes == id # None /\ Linked(r) /\ cached[q].state = "fresh"
           flushed == IF changes THEN [cached[q] EXCEPT !.cookie = id]
                      ELSE cached[q]
<1>1. q \in Requests
  BY DEF IInv, TypeOK, Ids
<1>2. ~changes
  <2> SUFFICES ASSUME changes PROVE FALSE
    OBVIOUS
  <2>1. "cached" \in env
    BY <1>1 DEF IInv, Plain, NothingCached
  <2>2. response[r] # None
    BY <2>1 DEF Linked, Mixed
  <2> QED BY <2>1, <2>2 DEF IInv, Plain, NoSessionFromCache
<1>3. /\ at' = [at EXCEPT ![r] = "sent"]
      /\ \/ answer'[r].cookie = id
         \/ answer'[r].cookie = cached[q].cookie
      /\ \A p \in Requests \ {r} : answer'[p] = answer[p]
  BY <1>2 DEF SendWith, Answers, Goto, IInv, TypeOK
<1>4. /\ \A p \in Requests : at'[p] = IF p = r THEN "sent" ELSE at[p]
  BY <1>3 DEF IInv, TypeOK
<1>5. AnswersOwn'
  <2>1. answer'[r].cookie # None => Same(answer'[r].cookie, r)
    <3>1. cached[q].cookie = None
      BY <1>1 DEF IInv, Plain, NoCookieCached
    <3> QED BY <1>3, <3>1 DEF IInv, Owned, SessionsOwn
  <2>2. \A i, j : Same(i, j)' <=> Same(i, j)
    BY DEF Same
  <2> QED BY <1>3, <2>1, <2>2 DEF IInv, Owned, AnswersOwn
<1>6. \A p \in Requests :
         /\ cached'[p].cookie = cached[p].cookie
         /\ cached'[p].state = cached[p].state \/ cached'[p].state = "encoded"
  <2>1. \A p \in Requests : cached[p] \in CachedType
    BY DEF IInv, TypeOK
  <2>2. \/ cached' = [cached EXCEPT ![q] = cached[q]]
        \/ cached' = [cached EXCEPT
                         ![q] = [cached[q] EXCEPT !.state = "encoded"]]
    BY <1>2 DEF SendWith
  <2>3. \A p \in Requests :
           cached'[p] = cached[p] \/
           cached'[p] = [cached[p] EXCEPT !.state = "encoded"]
    BY <1>1, <2>2 DEF IInv, TypeOK
  <2> QED
    <3> TAKE p \in Requests
    <3>1. cached[p] \in CachedType
      BY <2>1
    <3>2. LET e == [cached[p] EXCEPT !.state = "encoded"]
          IN  e.cookie = cached[p].cookie /\ e.state = "encoded"
      BY <3>1 DEF CachedType
    <3> QED BY <2>3, <3>2
<1>7. NoCookieCached' /\ NothingCached'
  BY <1>6 DEF IInv, Plain, NoCookieCached, NothingCached
<1>8. NoSessionFromCache' /\ CacheComesLast'
  BY <1>4 DEF IInv, Plain, NoSessionFromCache, CacheComesLast
<1>9. NotYet'
  <2>1. ~(r > Len(asked))
    BY NoneIsNoRequest DEF IInv, TypeOK
  <2> QED BY <1>4, <2>1 DEF IInv, Plain, NotYet
<1> QED BY <1>5, <1>7, <1>8, <1>9 DEF Plain

(* flush_session: nothing to save, or the first half of a save.            *)
LEMMA FlushKeeps ==
    ASSUME IInv, ~Mixed, NEW r \in Requests, Respond(r) \/ SaveOpens(r)
    PROVE  Owned' /\ Plain'
<1>1. CASE Respond(r)
  <2>1. /\ r <= Len(asked) /\ SendWith(r, None)
        /\ UNCHANGED <<env, files, cookie, asked, session, response, stored,
                       saving>>
    BY <1>1 DEF Respond, Runs, processes
  <2>2. AnswersOwn' /\ Plain'
    BY <2>1, SendKeeps
  <2>3. SessionsOwn' /\ FilesOwn' /\ CookiesOwn' /\ AskedOwn' /\ SavingOwn'
    BY <2>1
    DEF IInv, Owned, SessionsOwn, FilesOwn, CookiesOwn, AskedOwn, SavingOwn,
        Same, Of
  <2> QED BY <2>2, <2>3 DEF Owned
<1>2. CASE SaveOpens(r)
  <2>1. /\ session[r].pending
        /\ saving' = [saving EXCEPT ![Worker(r)] = r]
        /\ files' = [files EXCEPT ![session[r].id] = Empty]
        /\ UNCHANGED <<env, cookie, asked, at, session, response, cached,
                       stored, answer>>
    BY <1>2 DEF SaveOpens, responses
  <2>2. SessionsOwn' /\ CookiesOwn' /\ AskedOwn' /\ AnswersOwn'
    BY <2>1
    DEF IInv, Owned, SessionsOwn, CookiesOwn, AskedOwn, AnswersOwn, Same, Of
  <2>3. FilesOwn'
    <3>1. \A i \in Requests :
             files'[i].values = {} \/ files'[i] = files[i]
      BY <2>1 DEF Empty, IInv, TypeOK
    <3>2. \A i, j : Same(i, j)' <=> Same(i, j)
      BY <2>1 DEF Same
    <3> QED BY <3>1, <3>2 DEF IInv, Owned, FilesOwn
  <2>4. SavingOwn'
    <3>1. session[r] # NoSession
      BY <2>1 DEF NoSession
    <3>2. \A w \in Workers : saving'[w] = r \/ saving'[w] = saving[w]
      BY <2>1 DEF IInv, TypeOK
    <3> QED BY <2>1, <3>1, <3>2 DEF IInv, Owned, SavingOwn
  <2>5. Plain'
    BY <2>1
    DEF IInv, Plain, NoCookieCached, NothingCached, NoSessionFromCache,
        CacheComesLast, NotYet
  <2> QED BY <2>2, <2>3, <2>4, <2>5 DEF Owned
<1> QED BY <1>1, <1>2

(* The second half: a file gets the values of a session with its name.     *)
LEMMA SaveWritesKeeps ==
    ASSUME IInv, ~Mixed, NEW w \in Workers, SaveWrites(w)
    PROVE  Owned' /\ Plain'
<1> DEFINE r == saving[w]
           id == session[r].id
<1>1. /\ r # None /\ SendWith(r, id)
      /\ \/ files' = [files EXCEPT ![id] = Full(session[r].values)]
         \/ files' = [files EXCEPT ![id] = Garbled]
      /\ saving' = [saving EXCEPT ![w] = None]
      /\ UNCHANGED <<env, cookie, asked, session, response, stored>>
  BY DEF SaveWrites
<1>2. r \in Requests /\ session[r] # NoSession
  BY <1>1 DEF IInv, TypeOK, Ids, Owned, SavingOwn
<1>3. /\ Same(id, r) /\ \A q \in session[r].values : Same(q, r)
      /\ r <= Len(asked)
  BY <1>2 DEF IInv, Owned, SessionsOwn, Same
<1>4. AnswersOwn' /\ Plain'
  BY <1>1, <1>2, <1>3, SendKeeps
<1>5. SessionsOwn' /\ CookiesOwn' /\ AskedOwn'
  BY <1>1 DEF IInv, Owned, SessionsOwn, CookiesOwn, AskedOwn, Same, Of
<1>6. SavingOwn'
  BY <1>1 DEF IInv, TypeOK, Owned, SavingOwn
<1>7. FilesOwn'
  <2> SUFFICES ASSUME NEW i \in Requests, NEW q \in files'[i].values
               PROVE  Same(q, i)
    BY <1>1 DEF FilesOwn, Same
  <2>1. CASE q \in files[i].values
    BY <2>1 DEF IInv, Owned, FilesOwn
  <2>2. CASE q \notin files[i].values
    <3>1. i = id /\ q \in session[r].values
      BY <1>1, <2>2 DEF IInv, TypeOK, Full, Garbled
    <3>2. Same(q, r) /\ Same(r, id)
      BY <1>3, <3>1 DEF Same
    <3> QED BY <3>1, <3>2, SameIsTransitive
  <2> QED BY <2>1, <2>2
<1> QED BY <1>4, <1>5, <1>6, <1>7 DEF Owned

(* A save that fails leaves the file as it is.                             *)
LEMMA SaveFailsKeeps ==
    ASSUME IInv, ~Mixed, NEW w \in Workers, SaveFails(w)
    PROVE  Owned' /\ Plain'
<1> DEFINE r == saving[w]
<1>1. /\ r # None /\ Answers(r, "unsaved", None)
      /\ saving' = [saving EXCEPT ![w] = None]
      /\ UNCHANGED <<env, files, cookie, asked, session, response, cached,
                     stored>>
  BY DEF SaveFails, responses
<1>2. r \in Requests /\ session[r] # NoSession
  BY <1>1 DEF IInv, TypeOK, Ids, Owned, SavingOwn
<1>3. r \in 1..Len(asked)
  BY <1>2 DEF IInv, Owned, SessionsOwn, Same
<1>4. /\ \A q \in Requests : at'[q] = IF q = r THEN "sent" ELSE at[q]
      /\ \A q \in Requests : answer'[q].cookie =
                                IF q = r THEN None ELSE answer[q].cookie
  BY <1>1 DEF Answers, Goto, IInv, TypeOK
<1>5. SessionsOwn' /\ FilesOwn' /\ CookiesOwn' /\ AskedOwn' /\ AnswersOwn'
  BY <1>1, <1>4
  DEF IInv, Owned, SessionsOwn, FilesOwn, CookiesOwn, AskedOwn, AnswersOwn,
      Same, Of
<1>6. SavingOwn'
  BY <1>1 DEF IInv, TypeOK, Owned, SavingOwn
<1>7. NoCookieCached' /\ NothingCached' /\ NoSessionFromCache'
  BY <1>1, <1>4
  DEF IInv, Plain, NoCookieCached, NothingCached, NoSessionFromCache
<1>8. CacheComesLast'
  BY <1>1, <1>4 DEF IInv, Plain, CacheComesLast
<1>9. NotYet'
  <2>1. ~(r > Len(asked))
    BY <1>3 DEF IInv, TypeOK
  <2> QED BY <1>1, <1>4, <2>1 DEF IInv, Plain, NotYet
<1> QED BY <1>5, <1>6, <1>7, <1>8, <1>9 DEF Owned, Plain

(* The death of a worker. *)
LEMMA CrashKeeps ==
    ASSUME IInv, ~Mixed, NEW w \in Workers, Crash(w)
    PROVE  Owned' /\ Plain'
<1>1. /\ saving' = [saving EXCEPT ![w] = None]
      /\ UNCHANGED <<env, files, cookie, asked, session, response, cached,
                     stored, answer>>
      /\ \A r \in Requests :
            \/ at'[r] = at[r]
            \/ at'[r] = "dead" /\ at[r] # "none"
  BY DEF Crash, responses
<1>2. Owned'
  BY <1>1
  DEF IInv, TypeOK, Owned, SessionsOwn, FilesOwn, CookiesOwn, AskedOwn,
      AnswersOwn, SavingOwn, Same, Of
<1>3. Plain'
  BY <1>1
  DEF IInv, Plain, NoCookieCached, NothingCached, NoSessionFromCache,
      CacheComesLast, NotYet
<1> QED BY <1>2, <1>3
-----------------------------------------------------------------------------
(* The types, for what the actions have in common first: one place of the  *)
(* handling of a request, one answer, one response that is sent.           *)
LEMMA GotoType ==
    ASSUME TypeOK, NEW r \in Requests, NEW stage \in Stages, Goto(r, stage)
    PROVE  at' \in [Requests -> Stages]
  BY DEF TypeOK, Goto

(* An answer has the types of answers. *)
LEMMA AnswersType ==
    ASSUME TypeOK, NEW r \in Requests, NEW id \in Ids,
           NEW who \in {"nobody", "hook", "error", "unreadable", "unsaved",
                       "endpoint", "cache"},
           Answers(r, who, id)
    PROVE  at' \in [Requests -> Stages] /\ answer' \in [Requests -> AnswerType]
<1>1. [by |-> who, cookie |-> id] \in AnswerType
  BY DEF AnswerType
<1> QED BY <1>1, GotoType DEF TypeOK, Answers, Goto, Stages

(* A response that is sent may be a cached one, encoded by this send(). *)
LEMMA SendType ==
    ASSUME TypeOK, NEW r \in Requests, NEW id \in Ids, SendWith(r, id)
    PROVE  /\ at' \in [Requests -> Stages]
           /\ answer' \in [Requests -> AnswerType]
           /\ cached' \in [Requests -> CachedType]
<1> DEFINE q == IF response[r] = None THEN r ELSE response[r]
           changes == id # None /\ Linked(r) /\ cached[q].state = "fresh"
           flushed == IF changes THEN [cached[q] EXCEPT !.cookie = id]
                      ELSE cached[q]
<1>1. q \in Requests
  BY DEF TypeOK, Ids
<1>2. flushed \in CachedType
  <2>1. cached[q] \in CachedType
    BY <1>1 DEF TypeOK
  <2> QED BY <2>1 DEF CachedType
<1>3. [flushed EXCEPT !.state = "encoded"] \in CachedType
  BY <1>2 DEF CachedType
<1>4. cached' \in [Requests -> CachedType]
  BY SMTT(20), <1>1, <1>2, <1>3 DEF TypeOK, SendWith
<1>5. flushed.cookie \in Ids
  BY <1>2 DEF CachedType
<1> QED BY <1>4, <1>5, AnswersType DEF SendWith

(* All actions keep the types. *)
LEMMA TypeNext ==
    ASSUME TypeOK, [Next]_vars
    PROVE  TypeOK'
<1> USE NoneIsNoRequest
<1>1. ASSUME NEW c \in Clients, NEW w \in Workers, Ask(c, w)
      PROVE  TypeOK'
  <2> DEFINE n == Len(asked) + 1
             x == [client |-> c, worker |-> w, cookie |-> cookie[c],
                   answered |-> {r \in Of(c) : at[r] = "received"}]
  <2>1. n \in Requests /\ Len(asked) \in Nat /\ n <= MaxRequests
    BY <1>1, BoundAssumption DEF Ask, TypeOK, Requests
  <2>2. 1..Len(asked) \subseteq Requests
    BY <2>1, BoundAssumption DEF Requests
  <2>3. x \in AskType
    BY <2>2 DEF AskType, Of, TypeOK
  <2>4. asked' = Append(asked, x) /\ Goto(n, "before")
    BY <1>1 DEF Ask
  <2>5. asked' \in Seq(AskType) /\ Len(asked') = n
    BY <2>3, <2>4 DEF TypeOK
  <2>6. at' \in [Requests -> Stages]
    BY <2>1, <2>4, GotoType DEF Stages
  <2> QED BY <1>1, <2>1, <2>5, <2>6 DEF Ask, TypeOK, responses, processes
<1>2. ASSUME NEW r \in Requests, Receive(r)
      PROVE  TypeOK'
  <2>1. at' \in [Requests -> Stages]
    BY <1>2, GotoType DEF Receive, Stages
  <2>2. cookie' \in [Clients -> Ids]
    <3>1. answer[r].cookie \in Ids
      BY DEF TypeOK, AnswerType
    <3> QED BY <1>2, <3>1 DEF Receive, TypeOK
  <2> QED BY <1>2, <2>1, <2>2 DEF Receive, TypeOK, responses, processes
<1>3. ASSUME NEW r \in Requests, Load(r)
      PROVE  TypeOK'
  <2>0. /\ r \in 1..Len(asked) /\ session' = [session EXCEPT ![r] = Loaded(r)]
        /\ UNCHANGED <<env, files, cookie, asked, at, response, cached,
                       stored, alive, saving, answer>>
    BY <1>3 DEF Load, MayUse, Runs, responses, processes, TypeOK, Requests
  <2>1. /\ asked[r].cookie \in Ids
        /\ \A i \in Requests : files[i].values \subseteq Requests
    <3>1. asked[r] \in AskType
      BY <2>0 DEF TypeOK
    <3>2. \A i \in Requests : files[i] \in FileType
      BY DEF TypeOK
    <3> QED BY <3>1, <3>2 DEF AskType, FileType
  <2>2. Loaded(r) \in SessionType
    <3>1. asked[r].cookie # None => asked[r].cookie \in Requests
      BY <2>1 DEF Ids
    <3> QED BY <2>1, <3>1 DEF Loaded, SessionType
  <2> QED BY <2>0, <2>2 DEF TypeOK
<1>4. ASSUME NEW r \in Requests, Change(r)
      PROVE  TypeOK'
  <2> DEFINE s == [session[r] EXCEPT !.values = @ \cup {r}, !.pending = TRUE]
  <2>1. s \in SessionType
    <3>1. session[r] \in SessionType
      BY DEF TypeOK
    <3> QED BY <3>1 DEF SessionType
  <2>2. session' = [session EXCEPT ![r] = s]
    BY <1>4 DEF Change
  <2> QED BY <1>4, <2>1, <2>2 DEF Change, TypeOK, responses, processes
<1>5. ASSUME NEW r \in Requests,
             LoadFails(r) \/ GuardAnswers(r) \/ EndpointRaises(r)
                \/ OtherHookAnswers(r)
      PROVE  TypeOK'
  <2>1. /\ at' \in [Requests -> Stages]
        /\ answer' \in [Requests -> AnswerType]
    BY <1>5, AnswersType
    DEF LoadFails, GuardAnswers, EndpointRaises, OtherHookAnswers
  <2> QED
    BY <1>5, <2>1
    DEF LoadFails, GuardAnswers, EndpointRaises, OtherHookAnswers, TypeOK,
        responses, processes
<1>6. ASSUME NEW r \in Requests, GuardPasses(r)
      PROVE  TypeOK'
  <2>1. Worker(r) \in Workers /\ stored[Worker(r)] \in Ids
    BY <1>6 DEF GuardPasses, Runs, TypeOK
  <2>2. at' \in [Requests -> Stages]
    BY <1>6, GotoType DEF GuardPasses, Stages
  <2> QED BY <1>6, <2>1, <2>2 DEF GuardPasses, TypeOK, processes
<1>7. ASSUME NEW r \in Requests, EndpointReturns(r)
      PROVE  TypeOK'
  <2>1. at' \in [Requests -> Stages]
    BY <1>7, GotoType DEF EndpointReturns, Stages
  <2>2. [cached[r] EXCEPT !.state = "fresh"] \in CachedType
    BY DEF TypeOK, CachedType
  <2>3. cached' \in [Requests -> CachedType]
    BY <1>7, <2>2 DEF EndpointReturns, TypeOK
  <2>4. stored' \in [Workers -> Ids]
    BY <1>7 DEF EndpointReturns, TypeOK, Ids
  <2> QED
    BY <1>7, <2>1, <2>3, <2>4 DEF EndpointReturns, TypeOK, processes
<1>8. ASSUME NEW r \in Requests, Respond(r)
      PROVE  TypeOK'
  <2>1. /\ at' \in [Requests -> Stages]
        /\ answer' \in [Requests -> AnswerType]
        /\ cached' \in [Requests -> CachedType]
    BY <1>8, SendType DEF Respond
  <2> QED BY <1>8, <2>1 DEF Respond, TypeOK, processes
<1>9. ASSUME NEW r \in Requests, SaveOpens(r)
      PROVE  TypeOK'
  <2>1. saving' \in [Workers -> Ids]
    BY <1>9 DEF SaveOpens, TypeOK
  <2>2. files' \in [Requests -> FileType]
    BY <1>9 DEF SaveOpens, TypeOK
  <2> QED BY <1>9, <2>1, <2>2 DEF SaveOpens, TypeOK, responses
<1>10. ASSUME NEW w \in Workers, SaveWrites(w)
       PROVE  TypeOK'
  <2> DEFINE r == saving[w]
  <2>1. r \in Requests /\ session[r] \in SessionType
    BY <1>10 DEF SaveWrites, TypeOK, Ids
  <2>2. session[r].id \in Ids /\ Full(session[r].values) \in FileType
    BY <2>1 DEF SessionType, FileType, Full
  <2>3. files' \in [Requests -> FileType]
    BY <1>10, <2>2 DEF SaveWrites, TypeOK
  <2>4. /\ at' \in [Requests -> Stages]
        /\ answer' \in [Requests -> AnswerType]
        /\ cached' \in [Requests -> CachedType]
    BY <1>10, <2>1, <2>2, SendType DEF SaveWrites
  <2>5. saving' \in [Workers -> Ids]
    BY <1>10 DEF SaveWrites, TypeOK
  <2> QED BY <1>10, <2>3, <2>4, <2>5 DEF SaveWrites, TypeOK
<1>11. ASSUME NEW w \in Workers, Crash(w)
       PROVE  TypeOK'
  <2>1. at' \in [Requests -> Stages]
    BY <1>11 DEF Crash, TypeOK, Stages
  <2>2. saving' \in [Workers -> Ids]
    BY <1>11 DEF Crash, TypeOK
  <2> QED BY <1>11, <2>1, <2>2 DEF Crash, TypeOK, responses
<1>12. ASSUME NEW w \in Workers, SaveFails(w)
       PROVE  TypeOK'
  <2>1. saving[w] \in Requests /\ Answers(saving[w], "unsaved", None)
    BY <1>12 DEF SaveFails, TypeOK, Ids
  <2>2. /\ at' \in [Requests -> Stages]
        /\ answer' \in [Requests -> AnswerType]
    BY <2>1, AnswersType
  <2>3. saving' \in [Workers -> Ids]
    BY <1>12 DEF SaveFails, TypeOK
  <2> QED BY <1>12, <2>2, <2>3 DEF SaveFails, TypeOK, responses
<1>13. CASE UNCHANGED vars
  BY <1>13 DEF vars, responses, processes, TypeOK
<1> QED
  BY <1>1, <1>2, <1>3, <1>4, <1>5, <1>6, <1>7, <1>8, <1>9, <1>10, <1>11,
     <1>12, <1>13
  DEF Next, UseSession, HandleRequest
-----------------------------------------------------------------------------
(* And what is owned, where it is: the environment never changes. *)
LEMMA NextIInv ==
    ASSUME IInv, [Next]_vars
    PROVE  IInv'
<1>1. TypeOK'
  BY TypeNext DEF IInv
<1>2. UNCHANGED env
  BY DEF Next, Ask, UseSession, Load, LoadFails, Change, HandleRequest,
         GuardAnswers, GuardPasses, EndpointReturns, EndpointRaises,
         OtherHookAnswers, Respond, SaveOpens, Receive, SaveWrites,
         SaveFails, Crash, vars
<1>3. ASSUME ~Mixed
      PROVE  Owned' /\ Plain'
  <2>1. ASSUME NEW r \in Requests,
               LoadFails(r) \/ GuardAnswers(r) \/ EndpointRaises(r)
                  \/ OtherHookAnswers(r)
        PROVE  Owned' /\ Plain'
    <3>1. r <= Len(asked)
      BY <2>1 DEF LoadFails, MayUse, GuardAnswers, EndpointRaises,
                  OtherHookAnswers, Runs
    <3> QED
      BY <1>3, <2>1, <3>1, AnswerKeeps
      DEF LoadFails, GuardAnswers, EndpointRaises, OtherHookAnswers
  <2>2. CASE UNCHANGED vars
    BY <1>3, <2>2
    DEF vars, responses, processes, IInv, Owned, SessionsOwn, FilesOwn,
        CookiesOwn, AskedOwn, AnswersOwn, SavingOwn, Same, Of, Plain,
        NoCookieCached, NothingCached, NoSessionFromCache, CacheComesLast,
        NotYet
  <2> QED
    BY <1>3, <2>1, <2>2, AskKeeps, ReceiveKeeps, UseKeeps, PassKeeps,
       FlushKeeps, SaveWritesKeeps, SaveFailsKeeps, CrashKeeps
    DEF Next, UseSession, HandleRequest
<1> QED BY <1>1, <1>2, <1>3 DEF IInv, Mixed

(* What is kept for a client in cookies, files, sessions and answers is    *)
(* its own, whatever happens in whatever order.                            *)
THEOREM Invariance == Spec => []IInv
  BY InitIInv, NextIInv, PTL DEF Spec

(* No session holds what another client did, unless the route caches       *)
(* responses that may have the cookie of a session.                        *)
THEOREM SessionsAreOwn == Spec => []OwnSession
<1>1. IInv => OwnSession
  <2> SUFFICES ASSUME IInv, ~Mixed, NEW r \in 1..Len(asked)
               PROVE  session[r].values \subseteq Of(asked[r].client)
    BY DEF OwnSession
  <2>1. r \in Requests
    BY BoundAssumption DEF IInv, TypeOK, Requests
  <2>2. CASE session[r] = NoSession
    BY <2>2 DEF NoSession
  <2>3. CASE session[r] # NoSession
    BY <2>1, <2>3 DEF IInv, Owned, SessionsOwn, Same, Of
  <2> QED BY <2>2, <2>3
<1> QED BY <1>1, Invariance, PTL
-----------------------------------------------------------------------------
(***************************************************************************)
(* SessionIsLatest: what is where while a save is on its way.              *)
(***************************************************************************)
Calm == env \cap {"overlap", "crash"} = {} /\ ~Mixed

(* Requests whose changes flush_session() has written or will have.        *)
Saved(q) == answer[q].by = "endpoint" /\ session[q].pending

Before(q, r) == Same(q, r) /\ q < r

(* A client has the answers to all requests before its last one, which     *)
(* knows these answers and, until it is answered itself, the last cookie.  *)
OneAtATime ==
    \A r \in 1..Len(asked) :
        /\ at[r] # "dead"
        /\ \A q \in 1..Len(asked) :
              q \in asked[r].answered <=> Before(q, r)
        /\ \A q \in asked[r].answered : Before(q, r) /\ at[q] = "received"
        /\ at[r] # "received" => asked[r].cookie = cookie[asked[r].client]

(* A worker that writes a file holds its request in flush_session().       *)
SavesArePending ==
    \A w \in Workers : saving[w] # None =>
        /\ at[saving[w]] = "after" /\ Worker(saving[w]) = w
        /\ session[saving[w]].pending
        /\ files[session[saving[w]].id] = Empty

(* Request q has left the file of session i empty. *)
Broke(q, i) == answer[q].by = "unsaved" /\ session[q].id = i

(* A file is whole unless such a worker has truncated it, or a request     *)
(* whose session could not be dumped.                                      *)
FilesAreWhole ==
    \A i \in Requests :
        /\ files[i].state # "garbled"
        /\ files[i].state = "empty" =>
              \/ \E w \in Workers :
                    saving[w] # None /\ session[saving[w]].id = i
              \/ \E q \in Requests : Broke(q, i)

(* The answer that brings a cookie comes after its session's file.         *)
SentIsSaved ==
    \A r \in 1..Len(asked) : at[r] = "sent" =>
        IF Saved(r)
        THEN /\ answer[r].cookie = session[r].id
             /\ files[session[r].id] = Full(session[r].values)
        ELSE answer[r].cookie = None

(* A cookie is the name of a file, with all changes that were answered     *)
(* unless it is being written again.                                       *)
CookieHasFile ==
    \A c \in Clients : cookie[c] # None => files[cookie[c]].state # "missing"
ReceivedIsKept ==
    \A q \in 1..Len(asked) : at[q] = "received" /\ Saved(q) =>
        LET id == cookie[asked[q].client]
        IN  /\ id # None
            /\ files[id].state = "empty" \/ q \in files[id].values

(* What a request has loaded is the latest, and its changes add to it.     *)
FilesAreRead ==
    \A r \in Requests :
        /\ at[r] \in {"none", "before", "endpoint", "after"} =>
              answer[r].by = "nobody"
        /\ answer[r].by = "unreadable" =>
              \E q \in asked[r].answered : Broke(q, asked[r].cookie)
LoadedIsLatest ==
    \A r \in 1..Len(asked) :
        /\ session[r].pending => r \in session[r].values
        /\ session[r] # NoSession =>
              \A q \in asked[r].answered :
                  Saved(q) => q \in session[r].values

Kept ==
    /\ OneAtATime /\ SavesArePending /\ FilesAreWhole /\ SentIsSaved
    /\ CookieHasFile /\ ReceivedIsKept /\ FilesAreRead /\ LoadedIsLatest
LInv == IInv /\ (Calm => Kept)

(* Requests that were asked are requests.                                  *)
LEMMA AskedAreRequests ==
    ASSUME TypeOK
    PROVE  /\ Len(asked) \in Nat /\ 1..Len(asked) \subseteq Requests
           /\ \A r \in 1..Len(asked) : asked[r] \in AskType
  BY BoundAssumption DEF TypeOK, Requests

(* A session belongs to the client of its request, and has a name.         *)
LEMMA SessionHasName ==
    ASSUME IInv, ~Mixed, NEW r \in Requests, session[r] # NoSession
    PROVE  /\ Same(session[r].id, r) /\ r \in 1..Len(asked)
           /\ session[r].id \in Requests /\ session[r].id # None
<1>1. Same(session[r].id, r)
  BY DEF IInv, Owned, SessionsOwn
<1>2. session[r].id \in Requests /\ r \in 1..Len(asked)
  BY <1>1, AskedAreRequests DEF IInv, Same
<1> QED BY <1>1, <1>2, NoneIsNoRequest

(* All requests of a client but the one in progress were answered, and it  *)
(* knows.                                                                  *)
LEMMA OthersAreAnswered ==
    ASSUME IInv, OneAtATime, NEW q, NEW r, Same(q, r), q # r,
           at[r] # "received"
    PROVE  q \in asked[r].answered /\ at[q] = "received"
<1>1. q \in 1..Len(asked) /\ r \in 1..Len(asked) /\ Same(r, q)
  BY DEF Same
<1>2. q < r \/ r < q
  BY <1>1, AskedAreRequests DEF IInv
<1>3. CASE q < r
  <2>1. Before(q, r)
    BY <1>3 DEF Before
  <2> QED BY <1>1, <2>1 DEF OneAtATime
<1>4. CASE r < q
  <2>1. Before(r, q)
    BY <1>1, <1>4 DEF Before
  <2>2. r \in asked[q].answered
    BY <1>1, <2>1 DEF OneAtATime
  <2>3. at[r] = "received"
    BY <1>1, <2>2 DEF OneAtATime
  <2> QED BY <2>3
<1> QED BY <1>2, <1>3, <1>4

(* Two requests whose sessions have the same name are of one client.       *)
LEMMA NamesAreOwn ==
    ASSUME IInv, ~Mixed, NEW q \in Requests, NEW r \in Requests,
           session[q] # NoSession, session[r] # NoSession,
           session[q].id = session[r].id
    PROVE  Same(q, r)
<1>1. Same(session[q].id, q) /\ Same(session[r].id, r)
  BY SessionHasName
<1> QED BY <1>1 DEF Same

(* No session is pending before it is loaded.                              *)
LEMMA PendingIsASession ==
    ASSUME NEW r, session[r].pending
    PROVE  session[r] # NoSession
  BY DEF NoSession

(* A worker that saves has a request that was asked, with a session.       *)
LEMMA SavingIsASession ==
    ASSUME IInv, ~Mixed, NEW w \in Workers, saving[w] # None
    PROVE  /\ saving[w] \in Requests /\ saving[w] \in 1..Len(asked)
           /\ session[saving[w]] # NoSession
<1>1. saving[w] \in Requests /\ session[saving[w]] # NoSession
  BY DEF IInv, TypeOK, Ids, Owned, SavingOwn
<1> QED BY <1>1, SessionHasName
-----------------------------------------------------------------------------
(* Steps of a handler that touch neither files nor cookies.                *)
LEMMA HandlerKeeps ==
    ASSUME IInv, ~Mixed, Kept, NEW r \in 1..Len(asked),
           UNCHANGED <<files, cookie, asked, saving>>,
           at[r] \in {"before", "endpoint", "after"},
           saving[Worker(r)] = None,
           \A q \in Requests \ {r} :
              /\ at'[q] = at[q] /\ session'[q] = session[q]
              /\ answer'[q] = answer[q],
           at'[r] \in {"before", "endpoint", "after", "sent"},
           answer'[r].by = "unreadable" =>
              \E q \in asked[r].answered : Broke(q, asked[r].cookie),
           at'[r] # "sent" => answer'[r].by = "nobody",
           session'[r].pending => r \in session'[r].values,
           session'[r] # NoSession =>
              \A q \in asked[r].answered :
                 Saved(q) => q \in session'[r].values,
           at'[r] = "sent" => ~Saved(r)' /\ answer'[r].cookie = None
    PROVE  Kept'
<1>1. /\ \A p, q : Same(p, q)' <=> Same(p, q)
      /\ \A p, q : Before(p, q)' <=> Before(p, q)
  BY DEF Same, Before
<1>2. /\ 1..Len(asked) \subseteq Requests /\ r \in Requests
      /\ \A q \in Requests \ {r} : Saved(q)' <=> Saved(q)
  BY AskedAreRequests DEF IInv, Saved
<1>3. \A p \in 1..Len(asked) : \A q \in asked[p].answered :
         /\ q \in Requests \ {r} /\ at[q] = "received"
         /\ at'[q] = "received" /\ (Saved(q)' <=> Saved(q))
  <2> TAKE p \in 1..Len(asked)
  <2> TAKE q \in asked[p].answered
  <2>1. Before(q, p) /\ at[q] = "received"
    BY DEF Kept, OneAtATime
  <2>2. q \in Requests \ {r}
    BY <1>2, <2>1 DEF Before, Same
  <2> QED BY <1>2, <2>1, <2>2
<1>4. OneAtATime'
  <2> SUFFICES ASSUME NEW p \in 1..Len(asked)
               PROVE
        /\ at'[p] # "dead"
        /\ \A q \in 1..Len(asked) :
              q \in asked[p].answered <=> Before(q, p)
        /\ \A q \in asked[p].answered : Before(q, p) /\ at'[q] = "received"
        /\ at'[p] # "received" => asked[p].cookie = cookie[asked[p].client]
    BY <1>1 DEF OneAtATime
  <2>1. at'[p] # "dead" /\ (at'[p] # "received" => at[p] # "received")
    BY <1>2 DEF Kept, OneAtATime
  <2> QED BY <1>3, <2>1 DEF Kept, OneAtATime
<1>5. \A w \in Workers : saving[w] # None =>
         /\ saving[w] \in Requests \ {r}
         /\ session'[saving[w]] = session[saving[w]]
  <2> TAKE w \in Workers
  <2> HAVE saving[w] # None
  <2>1. saving[w] \in Requests
    BY SavingIsASession
  <2>2. saving[w] # r
    BY DEF Kept, SavesArePending
  <2> QED BY <2>1, <2>2
<1>6. SavesArePending'
  BY <1>5 DEF Kept, SavesArePending, Worker
<1>13. \A q \in Requests : \A i : Broke(q, i) => q # r /\ Broke(q, i)'
  <2>1. answer[r].by = "nobody"
    BY <1>2 DEF Kept, FilesAreRead
  <2> QED BY <2>1 DEF Broke
<1>7. FilesAreWhole'
  <2> SUFFICES ASSUME NEW i \in Requests
               PROVE  /\ files[i].state # "garbled"
                      /\ files[i].state = "empty" =>
                            \/ \E w \in Workers :
                                  /\ saving[w] # None
                                  /\ session'[saving[w]].id = i
                            \/ \E q \in Requests : Broke(q, i)'
    BY DEF FilesAreWhole
  <2> QED BY <1>5, <1>13 DEF Kept, FilesAreWhole
<1>8. SentIsSaved'
  BY <1>2 DEF Kept, SentIsSaved
<1>9. CookieHasFile'
  BY DEF Kept, CookieHasFile
<1>10. ReceivedIsKept'
  BY <1>2 DEF Kept, ReceivedIsKept
<1>11. FilesAreRead'
  <2> SUFFICES ASSUME NEW p \in Requests
               PROVE
          /\ at'[p] \in {"none", "before", "endpoint", "after"} =>
                answer'[p].by = "nobody"
          /\ answer'[p].by = "unreadable" =>
                \E q \in asked[p].answered : Broke(q, asked[p].cookie)'
    BY DEF FilesAreRead
  <2>1. CASE p = r
    <3>1. \A q \in asked[r].answered : q \in Requests
      BY <1>3
    <3> QED BY <1>13, <2>1, <3>1
  <2>2. CASE p # r
    <3>1. /\ at'[p] = at[p] /\ answer'[p] = answer[p]
          /\ at[p] \in {"none", "before", "endpoint", "after"} =>
                answer[p].by = "nobody"
          /\ answer[p].by = "unreadable" =>
                \E q \in asked[p].answered : Broke(q, asked[p].cookie)
      BY <2>2 DEF Kept, FilesAreRead
    <3>2. ASSUME answer[p].by = "unreadable"
          PROVE  \E q \in asked[p].answered : Broke(q, asked[p].cookie)'
      <4>1. p \in 1..Len(asked)
        <5>1. at[p] # "none"
          BY <3>1, <3>2
        <5>2. ~(p > Len(asked)) /\ p \in Nat /\ p >= 1
          BY <5>1, BoundAssumption DEF IInv, Plain, NotYet, Requests
        <5> QED BY <5>2 DEF IInv, TypeOK
      <4>2. PICK q \in asked[p].answered : Broke(q, asked[p].cookie)
        BY <3>1, <3>2
      <4>3. q \in Requests
        BY <1>3, <4>1
      <4> QED BY <1>13, <4>2, <4>3
    <3> QED BY <3>1, <3>2
  <2> QED BY <2>1, <2>2
<1>12. LoadedIsLatest'
  BY <1>2, <1>3 DEF Kept, LoadedIsLatest
<1> QED BY <1>4, <1>6, <1>7, <1>8, <1>9, <1>10, <1>11, <1>12 DEF Kept

(* A handler that runs, by the guard of its actions.                       *)
LEMMA RunsNow ==
    ASSUME IInv, NEW r \in Requests, NEW stages, Runs(r, stages)
    PROVE  /\ r \in 1..Len(asked) /\ at[r] \in stages
           /\ saving[Worker(r)] = None /\ Worker(r) \in Workers
  BY AskedAreRequests, BoundAssumption
  DEF Runs, IInv, TypeOK, Requests

(* The file that a request reads has all that was answered, or an earlier  *)
(* request of its client has left it empty.                                *)
LEMMA FileIsLatest ==
    ASSUME IInv, ~Mixed, Kept, NEW r \in 1..Len(asked),
           at[r] \in {"before", "endpoint", "after"},
           saving[Worker(r)] = None
    PROVE  /\ Unreadable(r) =>
                 \E q \in asked[r].answered : Broke(q, asked[r].cookie)
           /\ ~Unreadable(r) =>
                 \A q \in asked[r].answered :
                    Saved(q) => q \in Loaded(r).values
<1> DEFINE c == asked[r].client
           k == asked[r].cookie
<1>1. /\ c \in Clients /\ k = cookie[c] /\ k \in Ids /\ r \in Requests
  <2>1. asked[r] \in AskType /\ r \in Requests
    BY AskedAreRequests DEF IInv
  <2>2. k = cookie[c]
    BY DEF Kept, OneAtATime
  <2> QED BY <2>1, <2>2 DEF AskType
<1>2. k # None => k \in Requests /\ Same(k, r)
  <2>1. k # None => k \in Of(c)
    BY <1>1 DEF IInv, Owned, CookiesOwn
  <2> QED BY <1>1, <2>1 DEF Ids, Of, Same
<1>3. ASSUME Unreadable(r)
      PROVE  \E q \in asked[r].answered : Broke(q, k)
  <2>1. k # None /\ files[k].state \in {"empty", "garbled"}
    BY <1>3 DEF Unreadable
  <2>2. \/ \E w \in Workers : saving[w] # None /\ session[saving[w]].id = k
        \/ \E q \in Requests : Broke(q, k)
    BY <1>2, <2>1 DEF Kept, FilesAreWhole
  <2>3. ASSUME NEW w \in Workers, saving[w] # None,
               session[saving[w]].id = k
        PROVE  FALSE
    <3> DEFINE p == saving[w]
    <3>1. p \in Requests /\ session[p] # NoSession
      BY <2>3, SavingIsASession
    <3>2. Same(k, p)
      BY <2>3, <3>1, SessionHasName
    <3>3. Same(p, r)
      BY <1>2, <2>1, <3>2 DEF Same
    <3>4. at[p] = "after" /\ Worker(p) = w
      BY <2>3 DEF Kept, SavesArePending
    <3>5. p # r
      BY <2>3, <3>4
    <3>6. at[p] = "received"
      BY <3>3, <3>5, OthersAreAnswered DEF Kept
    <3> QED BY <3>4, <3>6
  <2>4. PICK q \in Requests : Broke(q, k)
    BY <2>2, <2>3
  <2>5. session[q] # NoSession
    BY <2>1, <2>4 DEF Broke, NoSession
  <2>6. Same(k, q)
    BY <2>4, <2>5, SessionHasName DEF Broke
  <2>7. Same(q, r)
    BY <1>2, <2>1, <2>6 DEF Same
  <2>8. q # r
    <3>1. answer[r].by = "nobody"
      BY <1>1 DEF Kept, FilesAreRead
    <3> QED BY <2>4, <3>1 DEF Broke
  <2>9. q \in asked[r].answered
    BY <2>7, <2>8, OthersAreAnswered DEF Kept
  <2> QED BY <2>4, <2>9
<1>4. ASSUME ~Unreadable(r), NEW q \in asked[r].answered, Saved(q)
      PROVE  q \in Loaded(r).values
  <2>1. Before(q, r) /\ at[q] = "received"
    BY DEF Kept, OneAtATime
  <2>2. q \in 1..Len(asked) /\ asked[q].client = c
    BY <2>1 DEF Before, Same
  <2>3. k # None /\ (files[k].state = "empty" \/ q \in files[k].values)
    BY <1>1, <1>4, <2>1, <2>2 DEF Kept, ReceivedIsKept
  <2>4. q \in files[k].values
    BY <1>4, <2>3 DEF Unreadable
  <2>5. files[k] # Missing
    BY <2>4 DEF Missing
  <2> QED BY <2>3, <2>4, <2>5 DEF Loaded
<1> QED BY <1>3, <1>4

(* Request.session() and what the handler does with it.                    *)
LEMMA UseIsLatest ==
    ASSUME IInv, ~Mixed, Kept, NEW r \in Requests, UseSession(r)
    PROVE  Kept'
<1>1. /\ r \in 1..Len(asked) /\ at[r] \in {"before", "endpoint", "after"}
      /\ saving[Worker(r)] = None
  <2>1. PICK stages \in SUBSET {"before", "endpoint", "after"} :
           Runs(r, stages)
    BY DEF UseSession, Load, LoadFails, Change, MayUse
  <2> QED BY <2>1, RunsNow
<1>2. /\ Unreadable(r) =>
            \E q \in asked[r].answered : Broke(q, asked[r].cookie)
      /\ ~Unreadable(r) =>
            \A q \in asked[r].answered : Saved(q) => q \in Loaded(r).values
  BY <1>1, FileIsLatest
<1>3. CASE LoadFails(r)
  <2>1. /\ Unreadable(r) /\ Answers(r, "unreadable", None)
        /\ UNCHANGED <<files, cookie, asked, session, saving>>
    BY <1>3 DEF LoadFails, processes
  <2>2. /\ at'[r] = "sent" /\ answer'[r].by = "unreadable"
        /\ answer'[r].cookie = None
        /\ \A q \in Requests \ {r} : at'[q] = at[q] /\ answer'[q] = answer[q]
    BY <2>1 DEF Answers, Goto, IInv, TypeOK
  <2>3. ~Saved(r)'
    BY <2>2 DEF Saved
  <2>4. /\ session[r].pending => r \in session[r].values
        /\ session[r] # NoSession => \A q \in asked[r].answered :
                                        Saved(q) => q \in session[r].values
    BY <1>1 DEF Kept, LoadedIsLatest
  <2> QED BY <1>1, <1>2, <2>1, <2>2, <2>3, <2>4, HandlerKeeps
<1>4. CASE Load(r) \/ Change(r)
  <2>1. /\ UNCHANGED <<files, cookie, asked, at, saving, answer>>
        /\ \E s : /\ session' = [session EXCEPT ![r] = s]
                  /\ s.pending => r \in s.values
                  /\ \A q \in asked[r].answered : Saved(q) => q \in s.values
    <3>1. CASE Load(r)
      <4>1. ~Loaded(r).pending
        BY DEF Loaded
      <4> QED BY <1>2, <3>1, <4>1 DEF Load, responses, processes
    <3>2. CASE Change(r)
      <4> DEFINE s == [session[r] EXCEPT !.values = @ \cup {r},
                                         !.pending = TRUE]
      <4>1. session' = [session EXCEPT ![r] = s] /\ session[r] # NoSession
        BY <3>2 DEF Change
      <4>2. s.values = session[r].values \cup {r}
        <5>1. session[r] \in SessionType
          BY DEF IInv, TypeOK
        <5> QED BY <5>1 DEF SessionType
      <4>3. \A q \in asked[r].answered : Saved(q) => q \in s.values
        BY <1>1, <4>1, <4>2 DEF Kept, LoadedIsLatest
      <4> QED BY <3>2, <4>1, <4>2, <4>3 DEF Change, responses, processes
    <3> QED BY <1>4, <3>1, <3>2
  <2>2. PICK s : /\ session' = [session EXCEPT ![r] = s]
                 /\ s.pending => r \in s.values
                 /\ \A q \in asked[r].answered : Saved(q) => q \in s.values
    BY <2>1
  <2>3. \A q \in Requests : session'[q] = IF q = r THEN s ELSE session[q]
    BY <2>2 DEF IInv, TypeOK
  <2>4. answer'[r].by = "nobody" /\ r \in Requests
    BY <1>1, <2>1 DEF Kept, FilesAreRead
  <2> QED BY <1>1, <2>1, <2>2, <2>3, <2>4, HandlerKeeps
<1> QED BY <1>3, <1>4 DEF UseSession

(* Answers without a cookie, which save nothing.                           *)
LEMMA AnswerIsLatest ==
    ASSUME IInv, ~Mixed, Kept, NEW r \in 1..Len(asked), NEW who,
           at[r] \in {"before", "endpoint", "after"},
           saving[Worker(r)] = None,
           Answers(r, who, None), who # "unreadable",
           who = "endpoint" => ~session[r].pending,
           UNCHANGED <<files, cookie, asked, session, saving>>
    PROVE  Kept'
<1>1. /\ r \in Requests /\ at'[r] = "sent"
      /\ answer'[r].by = who /\ answer'[r].cookie = None
      /\ \A q \in Requests \ {r} : at'[q] = at[q] /\ answer'[q] = answer[q]
  BY AskedAreRequests DEF Answers, Goto, IInv, TypeOK
<1>2. ~Saved(r)'
  BY <1>1 DEF Saved
<1>3. /\ session[r].pending => r \in session[r].values
      /\ session[r] # NoSession => \A q \in asked[r].answered :
                                      Saved(q) => q \in session[r].values
  BY DEF Kept, LoadedIsLatest
<1> QED BY <1>1, <1>2, <1>3, HandlerKeeps

(* send(): where the route has no cache the answer has the cookie, and a   *)
(* cached response has none.                                               *)
LEMMA SendAnswers ==
    ASSUME IInv, ~Mixed, NEW r \in Requests, NEW id, SendWith(r, id),
           id # None => session[r] # NoSession
    PROVE  \/ Answers(r, "endpoint", id)
           \/ id = None /\ Answers(r, "cache", None)
<1>1. CASE response[r] = None
  BY <1>1 DEF SendWith
<1>2. CASE response[r] # None
  <2>1. "cached" \in env
    BY <1>2 DEF IInv, Plain, NothingCached
  <2>2. session[r] = NoSession
    BY <1>2, <2>1 DEF IInv, Plain, NoSessionFromCache
  <2>3. id = None
    BY <2>2
  <2>4. Answers(r, "cache", cached[response[r]].cookie)
    BY <1>2, <2>3 DEF SendWith
  <2>5. cached[response[r]].cookie = None
    BY <1>2 DEF IInv, TypeOK, Ids, Plain, NoCookieCached
  <2> QED BY <2>3, <2>4, <2>5
<1> QED BY <1>1, <1>2

(* handle_request(), until flush_session() has something to save.          *)
LEMMA HandleIsLatest ==
    ASSUME IInv, ~Mixed, Kept, NEW r \in Requests,
           \/ GuardAnswers(r) \/ GuardPasses(r) \/ EndpointReturns(r)
           \/ EndpointRaises(r) \/ OtherHookAnswers(r) \/ Respond(r)
    PROVE  Kept'
<1>1. /\ r \in 1..Len(asked) /\ at[r] \in {"before", "endpoint", "after"}
      /\ saving[Worker(r)] = None
  <2>1. PICK stages \in SUBSET {"before", "endpoint", "after"} :
           Runs(r, stages)
    BY DEF GuardAnswers, GuardPasses, EndpointReturns, EndpointRaises,
           OtherHookAnswers, Respond
  <2> QED BY <2>1, RunsNow
<1>2. UNCHANGED <<files, cookie, asked, session, saving>>
  BY DEF GuardAnswers, GuardPasses, EndpointReturns, EndpointRaises,
         OtherHookAnswers, Respond, processes
<1>3. CASE GuardPasses(r) \/ EndpointReturns(r)
  <2>1. UNCHANGED answer /\ \E stage \in {"endpoint", "after"} : Goto(r, stage)
    BY <1>3 DEF GuardPasses, EndpointReturns
  <2>2. /\ at'[r] \in {"endpoint", "after"}
        /\ \A q \in Requests \ {r} : at'[q] = at[q]
    BY <2>1 DEF Goto, IInv, TypeOK
  <2>3. /\ session[r].pending => r \in session[r].values
        /\ session[r] # NoSession => \A q \in asked[r].answered :
                                        Saved(q) => q \in session[r].values
    BY <1>1 DEF Kept, LoadedIsLatest
  <2>4. answer[r].by = "nobody"
    BY <1>1 DEF Kept, FilesAreRead
  <2> QED BY <1>1, <1>2, <2>1, <2>2, <2>3, <2>4, HandlerKeeps
<1>4. CASE GuardAnswers(r) \/ EndpointRaises(r) \/ OtherHookAnswers(r)
  <2>1. Answers(r, "hook", None) \/ Answers(r, "error", None)
    BY <1>4 DEF GuardAnswers, EndpointRaises, OtherHookAnswers
  <2> QED BY <1>1, <1>2, <2>1, AnswerIsLatest
<1>5. CASE Respond(r)
  <2>1. SendWith(r, None) /\ ~session[r].pending
    BY <1>5 DEF Respond
  <2>2. Answers(r, "endpoint", None) \/ Answers(r, "cache", None)
    BY <2>1, SendAnswers
  <2> QED BY <1>1, <1>2, <2>1, <2>2, AnswerIsLatest
<1> QED BY <1>3, <1>4, <1>5
-----------------------------------------------------------------------------
(* A new request is the last of its client, has all its answers and the    *)
(* cookie, and begins with nothing.                                        *)
LEMMA AskIsLatest ==
    ASSUME IInv, Calm, Kept, NEW c \in Clients, NEW w \in Workers, Ask(c, w)
    PROVE  Kept'
<1> DEFINE n == Len(asked) + 1
           x == [client |-> c, worker |-> w, cookie |-> cookie[c],
                 answered |-> {r \in Of(c) : at[r] = "received"}]
<1>1. /\ asked' = Append(asked, x)
      /\ at' = [at EXCEPT ![n] = "before"]
      /\ UNCHANGED <<files, cookie, session, saving, answer>>
  BY DEF Ask, Goto, responses, processes
<1>2. /\ n \in Requests /\ n \in Nat
      /\ Len(asked) \in Nat /\ Len(asked') = n /\ asked'[n] = x
      /\ \A i \in 1..Len(asked) : i \in 1..n /\ i # n /\ asked'[i] = asked[i]
      /\ \A i \in 1..n : i \in 1..Len(asked) \/ i = n
  BY <1>1, BoundAssumption DEF Ask, IInv, TypeOK, Requests
<1>3. 1..Len(asked) \subseteq Requests
  BY AskedAreRequests DEF IInv
<1>4. session[n] = NoSession /\ at[n] = "none"
  <2>1. n > Len(asked) /\ n \notin 1..Len(asked)
    BY <1>2
  <2>2. at[n] = "none"
    BY <1>2, <2>1 DEF Calm, IInv, Plain, NotYet
  <2> QED BY <1>2, <2>1, <2>2, SessionHasName DEF Calm
<1>5. \A r \in Requests : at'[r] = IF r = n THEN "before" ELSE at[r]
  BY <1>1 DEF IInv, TypeOK
<1>6. x.answered = Of(c)
  <2>1. \A r \in Of(c) : at[r] = "received"
    BY DEF Ask, Calm, Kept, OneAtATime, Of
  <2> QED BY <2>1
<1>7. \A p, q \in 1..Len(asked) : Before(p, q)' <=> Before(p, q)
  BY <1>2 DEF Before, Same
<1>8. \A p, r \in 1..n : r = n => (Before(p, r)' <=> p \in Of(c))
  <2>1. /\ asked'[n].client = c /\ n \in 1..n
        /\ \A i \in 1..Len(asked) : i < n /\ asked'[i].client = asked[i].client
    BY <1>2
  <2>2. \A p \in 1..n : p < n <=> p \in 1..Len(asked)
    BY <1>2
  <2> QED BY <1>2, <2>1, <2>2 DEF Before, Same, Of
<1>9. OneAtATime'
  <2> SUFFICES ASSUME NEW r \in 1..n
               PROVE
        /\ at'[r] # "dead"
        /\ \A q \in 1..n : q \in asked'[r].answered <=> Before(q, r)'
        /\ \A q \in asked'[r].answered : Before(q, r)' /\ at'[q] = "received"
        /\ at'[r] # "received" =>
              asked'[r].cookie = cookie[asked'[r].client]
    BY <1>1, <1>2 DEF OneAtATime
  <2>1. CASE r \in 1..Len(asked)
    <3>1. asked'[r] = asked[r] /\ at'[r] = at[r]
      BY <1>2, <1>3, <1>5, <2>1
    <3>2. /\ at[r] # "dead"
          /\ at[r] # "received" => asked[r].cookie = cookie[asked[r].client]
      BY <2>1 DEF Kept, OneAtATime
    <3>3. \A q \in asked[r].answered :
             q \in 1..Len(asked) /\ Before(q, r)' /\ at'[q] = "received"
      <4> TAKE q \in asked[r].answered
      <4>1. Before(q, r) /\ at[q] = "received"
        BY <2>1 DEF Kept, OneAtATime
      <4>2. q \in 1..Len(asked)
        BY <4>1 DEF Before, Same
      <4> QED BY <1>2, <1>3, <1>5, <1>7, <2>1, <4>1, <4>2
    <3>4. ASSUME NEW q \in 1..n, Before(q, r)'
          PROVE  q \in asked[r].answered
      <4>1. q < r
        BY <3>4 DEF Before
      <4>2. q \in 1..Len(asked)
        BY <1>2, <2>1, <4>1
      <4>3. Before(q, r)
        BY <1>7, <2>1, <3>4, <4>2
      <4> QED BY <2>1, <4>2, <4>3 DEF Kept, OneAtATime
    <3> QED BY <3>1, <3>2, <3>3, <3>4
  <2>2. CASE r = n
    <3>1. /\ asked'[r].answered = Of(c) /\ asked'[r].client = c
          /\ asked'[r].cookie = cookie[c] /\ at'[r] = "before"
      <4>1. asked'[r].answered = x.answered
        BY <1>2, <2>2
      <4>2. asked'[r].client = c /\ asked'[r].cookie = cookie[c]
        BY <1>2, <2>2
      <4> HIDE DEF x
      <4> QED BY <1>2, <1>5, <1>6, <2>2, <4>1, <4>2
    <3>2. \A q \in Of(c) : q \in 1..Len(asked) /\ at[q] = "received"
      BY DEF Ask, Calm, Kept, OneAtATime, Of
    <3>3. \A q \in Of(c) : Before(q, r)' /\ at'[q] = "received"
      <4> TAKE q \in Of(c)
      <4>1. q \in 1..n /\ q # n /\ q \in Requests /\ at[q] = "received"
        BY <1>2, <1>3, <3>2
      <4> QED BY <1>5, <1>8, <2>2, <4>1
    <3>4. \A q \in 1..n : q \in asked'[r].answered <=> Before(q, r)'
      BY <1>8, <2>2, <3>1
    <3>5. \A q \in asked'[r].answered : Before(q, r)' /\ at'[q] = "received"
      BY <3>1, <3>3
    <3> QED BY <3>1, <3>4, <3>5
  <2> QED BY <1>2, <2>1, <2>2
<1>10. SavesArePending'
  <2> SUFFICES ASSUME NEW v \in Workers, saving[v] # None
               PROVE  /\ at'[saving[v]] = "after" /\ Worker(saving[v])' = v
                      /\ session[saving[v]].pending
                      /\ files[session[saving[v]].id] = Empty
    BY <1>1 DEF SavesArePending
  <2>1. saving[v] \in 1..Len(asked)
    BY SavingIsASession DEF Calm
  <2>2. /\ at[saving[v]] = "after" /\ Worker(saving[v]) = v
        /\ session[saving[v]].pending
        /\ files[session[saving[v]].id] = Empty
    BY DEF Kept, SavesArePending
  <2>3. at'[saving[v]] = at[saving[v]]
    BY <1>2, <1>3, <1>5, <2>1
  <2>4. Worker(saving[v])' = Worker(saving[v])
    BY <1>1, <1>2, <2>1 DEF Worker
  <2> QED BY <2>2, <2>3, <2>4
<1>11. FilesAreWhole' /\ CookieHasFile'
  BY <1>1 DEF Kept, FilesAreWhole, CookieHasFile, Broke
<1>16. FilesAreRead'
  <2>0. answer' = answer /\ session' = session
    BY <1>1
  <2> SUFFICES ASSUME NEW r \in Requests
               PROVE
          /\ at'[r] \in {"none", "before", "endpoint", "after"} =>
                answer[r].by = "nobody"
          /\ answer[r].by = "unreadable" =>
                \E q \in asked'[r].answered : Broke(q, asked'[r].cookie)
    BY <2>0 DEF FilesAreRead, Broke
  <2>1. at'[r] \in {"none", "before", "endpoint", "after"} =>
           answer[r].by = "nobody"
    BY <1>4, <1>5 DEF Kept, FilesAreRead
  <2>2. ASSUME answer[r].by = "unreadable"
        PROVE  asked'[r] = asked[r]
    <3>1. at[r] # "none"
      BY <2>2 DEF Kept, FilesAreRead
    <3>2. ~(r > Len(asked)) /\ r \in Nat /\ r >= 1
      BY <3>1, BoundAssumption DEF Calm, IInv, Plain, NotYet, Requests
    <3> QED BY <1>2, <3>2
  <2> QED BY <2>1, <2>2 DEF Kept, FilesAreRead
<1>12. \A q : Saved(q)' <=> Saved(q)
  BY <1>1 DEF Saved
<1>13. SentIsSaved'
  BY <1>1, <1>2, <1>3, <1>5, <1>12 DEF Kept, SentIsSaved
<1>14. ReceivedIsKept'
  BY <1>1, <1>2, <1>3, <1>5, <1>12 DEF Kept, ReceivedIsKept
<1>15. LoadedIsLatest'
  <2>1. ~NoSession.pending
    BY DEF NoSession
  <2> QED BY <1>1, <1>2, <1>4, <1>12, <2>1 DEF Kept, LoadedIsLatest
<1> QED BY <1>9, <1>10, <1>11, <1>13, <1>14, <1>15, <1>16 DEF Kept
-----------------------------------------------------------------------------
(* An answer with a cookie comes when its file has all changes so far.     *)
LEMMA ReceiveIsLatest ==
    ASSUME IInv, ~Mixed, Kept, NEW r \in Requests, Receive(r)
    PROVE  Kept'
<1> DEFINE c == asked[r].client
           k == answer[r].cookie
<1>1. /\ at[r] = "sent"
      /\ \A q \in Requests : at'[q] = IF q = r THEN "received" ELSE at[q]
      /\ cookie' = IF k = None THEN cookie ELSE [cookie EXCEPT ![c] = k]
      /\ UNCHANGED <<files, asked, session, saving, answer>>
  BY DEF Receive, Goto, IInv, TypeOK, responses, processes
<1>2. /\ r \in 1..Len(asked) /\ 1..Len(asked) \subseteq Requests
      /\ \A q \in 1..Len(asked) : asked[q].client \in Clients
  <2>1. r > Len(asked) => at[r] = "none"
    BY DEF IInv, Plain, NotYet
  <2>2. r \in 1..Len(asked)
    BY <1>1, <2>1, AskedAreRequests, BoundAssumption
    DEF IInv, Requests
  <2> QED BY <2>2, AskedAreRequests DEF IInv, AskType
<1>3. \A q : Saved(q)' <=> Saved(q)
  BY <1>1 DEF Saved
<1>4. \A d \in Clients : d # c => cookie'[d] = cookie[d]
  BY <1>1 DEF IInv, TypeOK
<1>5. ~Saved(r) => cookie' = cookie
  BY <1>1, <1>2 DEF Kept, SentIsSaved
<1>6. Saved(r) => /\ session[r] # NoSession /\ cookie'[c] = session[r].id
                  /\ session[r].id # None
                  /\ files[session[r].id] = Full(session[r].values)
  <2> HAVE Saved(r)
  <2>1. session[r] # NoSession
    BY PendingIsASession DEF Saved
  <2>2. session[r].id # None
    BY <2>1, SessionHasName
  <2>3. k = session[r].id /\ files[session[r].id] = Full(session[r].values)
    BY <1>1, <1>2 DEF Kept, SentIsSaved
  <2>4. cookie'[c] = k
    BY <1>1, <1>2, <2>2, <2>3 DEF IInv, TypeOK
  <2> QED BY <2>1, <2>2, <2>3, <2>4
<1>7. \A q \in 1..Len(asked) : asked[q].client = c /\ q # r =>
         q \in asked[r].answered /\ at[q] = "received"
  BY <1>1, <1>2, OthersAreAnswered DEF Kept, Same
<1>8. OneAtATime'
  <2> SUFFICES ASSUME NEW p \in 1..Len(asked)
               PROVE
        /\ at'[p] # "dead"
        /\ \A q \in 1..Len(asked) :
              q \in asked[p].answered <=> Before(q, p)
        /\ \A q \in asked[p].answered : Before(q, p) /\ at'[q] = "received"
        /\ at'[p] # "received" =>
              asked[p].cookie = cookie'[asked[p].client]
    BY <1>1 DEF OneAtATime, Before, Same
  <2>1. at'[p] # "dead"
    BY <1>1, <1>2 DEF Kept, OneAtATime
  <2>2. \A q \in asked[p].answered : Before(q, p) /\ at'[q] = "received"
    <3> TAKE q \in asked[p].answered
    <3>1. Before(q, p) /\ at[q] = "received"
      BY DEF Kept, OneAtATime
    <3>2. q \in Requests
      BY <1>2, <3>1 DEF Before, Same
    <3> QED BY <1>1, <3>1, <3>2
  <2>3. ASSUME at'[p] # "received"
        PROVE  asked[p].cookie = cookie'[asked[p].client]
    <3>1. p # r /\ at[p] # "received"
      BY <1>1, <1>2, <2>3
    <3>2. asked[p].client # c
      BY <1>7, <3>1
    <3> QED BY <1>2, <1>4, <3>1, <3>2 DEF Kept, OneAtATime
  <2> QED BY <2>1, <2>2, <2>3 DEF Kept, OneAtATime
<1>9. SavesArePending'
  <2> SUFFICES ASSUME NEW v \in Workers, saving[v] # None
               PROVE  /\ at'[saving[v]] = "after" /\ Worker(saving[v]) = v
                      /\ session[saving[v]].pending
                      /\ files[session[saving[v]].id] = Empty
    BY <1>1 DEF SavesArePending, Worker
  <2>1. /\ at[saving[v]] = "after" /\ Worker(saving[v]) = v
        /\ session[saving[v]].pending
        /\ files[session[saving[v]].id] = Empty
    BY DEF Kept, SavesArePending
  <2>2. saving[v] \in Requests
    BY SavingIsASession
  <2> QED BY <1>1, <2>1, <2>2
<1>10. FilesAreWhole' /\ FilesAreRead' /\ LoadedIsLatest'
  BY <1>1, <1>3
  DEF Kept, FilesAreWhole, FilesAreRead, LoadedIsLatest, Broke
<1>11. SentIsSaved'
  BY <1>1, <1>2, <1>3 DEF Kept, SentIsSaved
<1>12. CookieHasFile'
  <2> SUFFICES ASSUME NEW d \in Clients, cookie'[d] # None
               PROVE  files[cookie'[d]].state # "missing"
    BY <1>1 DEF CookieHasFile
  <2>1. CASE cookie'[d] = cookie[d]
    BY <2>1 DEF Kept, CookieHasFile
  <2>2. CASE cookie'[d] # cookie[d]
    <3>1. d = c /\ Saved(r)
      BY <1>4, <1>5, <2>2
    <3>2. files[cookie'[d]] = Full(session[r].values)
      BY <1>6, <3>1
    <3> QED BY <3>2 DEF Full
  <2> QED BY <2>1, <2>2
<1>13. ReceivedIsKept'
  <2> SUFFICES ASSUME NEW q \in 1..Len(asked), at'[q] = "received", Saved(q)
               PROVE  LET id == cookie'[asked[q].client]
                      IN  /\ id # None
                          /\ \/ files[id].state = "empty"
                             \/ q \in files[id].values
    BY <1>1, <1>3 DEF ReceivedIsKept
  <2>1. CASE asked[q].client = c /\ Saved(r)
    <3>1. q \in session[r].values
      <4>1. CASE q = r
        BY <1>2, <2>1, <4>1 DEF Kept, LoadedIsLatest, Saved
      <4>2. CASE q # r
        BY <1>2, <1>6, <1>7, <2>1, <4>2 DEF Kept, LoadedIsLatest
      <4> QED BY <4>1, <4>2
    <3>2. files[cookie'[c]].values = session[r].values
      BY <1>6, <2>1 DEF Full
    <3> QED BY <1>6, <2>1, <3>1, <3>2
  <2>2. CASE ~(asked[q].client = c /\ Saved(r))
    <3>1. q # r
      BY <2>2
    <3>2. at[q] = "received"
      BY <1>1, <1>2, <3>1
    <3>3. cookie'[asked[q].client] = cookie[asked[q].client]
      BY <1>2, <1>4, <1>5, <2>2
    <3> QED BY <3>2, <3>3 DEF Kept, ReceivedIsKept
  <2> QED BY <2>1, <2>2
<1> QED BY <1>8, <1>9, <1>10, <1>11, <1>12, <1>13 DEF Kept

(* A save begins: only the client whose request is in progress misses its  *)
(* file.                                                                   *)
LEMMA SaveOpensIsLatest ==
    ASSUME IInv, ~Mixed, Kept, NEW r \in Requests, SaveOpens(r)
    PROVE  Kept'
<1> DEFINE id == session[r].id
<1>1. /\ r \in 1..Len(asked) /\ at[r] = "after" /\ session[r].pending
      /\ saving[Worker(r)] = None /\ Worker(r) \in Workers
  BY RunsNow DEF SaveOpens
<1>2. session[r] # NoSession
  BY <1>1, PendingIsASession
<1>3. Same(id, r) /\ id \in Requests
  BY <1>2, SessionHasName
<1>4. /\ \A w \in Workers :
            saving'[w] = IF w = Worker(r) THEN r ELSE saving[w]
      /\ \A i \in Requests : files'[i] = IF i = id THEN Empty ELSE files[i]
      /\ UNCHANGED <<cookie, asked, at, session, answer>>
  BY DEF SaveOpens, IInv, TypeOK, responses
<1>5. Empty.state = "empty"
  BY DEF Empty
<1>6. OneAtATime' /\ FilesAreRead' /\ LoadedIsLatest'
  BY <1>4
  DEF Kept, OneAtATime, FilesAreRead, LoadedIsLatest, Before, Same, Saved,
      Broke
<1>7. SavesArePending'
  <2> SUFFICES ASSUME NEW w \in Workers, saving'[w] # None
               PROVE  /\ at[saving'[w]] = "after" /\ Worker(saving'[w]) = w
                      /\ session[saving'[w]].pending
                      /\ files'[session[saving'[w]].id] = Empty
    BY <1>4 DEF SavesArePending, Worker
  <2>1. CASE w = Worker(r)
    BY <1>1, <1>3, <1>4, <2>1
  <2>2. CASE w # Worker(r)
    <3>1. saving'[w] = saving[w]
      BY <1>4, <2>2
    <3>2. session[saving[w]].id \in Requests
      BY <3>1, SavingIsASession, SessionHasName
    <3> QED BY <1>4, <3>1, <3>2 DEF Kept, SavesArePending
  <2> QED BY <2>1, <2>2
<1>8. FilesAreWhole'
  <2> SUFFICES ASSUME NEW i \in Requests
               PROVE  /\ files'[i].state # "garbled"
                      /\ files'[i].state = "empty" =>
                            \/ \E w \in Workers :
                                  /\ saving'[w] # None
                                  /\ session[saving'[w]].id = i
                            \/ \E q \in Requests : Broke(q, i)
    BY <1>4 DEF FilesAreWhole, Broke
  <2>1. CASE i = id
    <3>1. saving'[Worker(r)] = r /\ r # None
      BY <1>1, <1>4, NoneIsNoRequest
    <3> QED BY <1>1, <1>4, <1>5, <2>1, <3>1
  <2>2. CASE i # id
    <3>1. files'[i] = files[i]
      BY <1>4, <2>2
    <3>2. \A w \in Workers : saving[w] # None => saving'[w] = saving[w]
      BY <1>1, <1>4
    <3> QED BY <3>1, <3>2 DEF Kept, FilesAreWhole
  <2> QED BY <2>1, <2>2
<1>9. SentIsSaved'
  <2> SUFFICES ASSUME NEW p \in 1..Len(asked), at[p] = "sent", Saved(p)
               PROVE  files'[session[p].id] = files[session[p].id]
    BY <1>4 DEF Kept, SentIsSaved, Saved
  <2>1. p \in Requests /\ session[p] # NoSession
    BY AskedAreRequests, PendingIsASession DEF IInv, Saved
  <2>2. session[p].id # id
    <3> SUFFICES ASSUME session[p].id = id PROVE FALSE
      OBVIOUS
    <3>1. Same(p, r)
      BY <1>2, <2>1, NamesAreOwn
    <3>2. at[p] = "received"
      BY <1>1, <3>1, OthersAreAnswered DEF Kept
    <3> QED BY <3>2
  <2>3. session[p].id \in Requests
    BY <2>1, SessionHasName
  <2> QED BY <1>4, <2>2, <2>3
<1>10. CookieHasFile'
  BY <1>4, <1>5 DEF Kept, CookieHasFile, IInv, TypeOK, Ids
<1>11. ReceivedIsKept'
  <2> SUFFICES ASSUME NEW q \in 1..Len(asked), at[q] = "received", Saved(q)
               PROVE  LET i == cookie[asked[q].client]
                      IN  /\ i # None
                          /\ \/ files'[i].state = "empty"
                             \/ q \in files'[i].values
    BY <1>4 DEF ReceivedIsKept, Saved
  <2> DEFINE i == cookie[asked[q].client]
  <2>1. i # None /\ (files[i].state = "empty" \/ q \in files[i].values)
    BY DEF Kept, ReceivedIsKept
  <2>2. i \in Requests
    <3>1. asked[q] \in AskType
      BY AskedAreRequests DEF IInv
    <3> QED BY <2>1, <3>1 DEF AskType, IInv, TypeOK, Ids
  <2> QED BY <1>4, <1>5, <2>1, <2>2
<1> QED BY <1>6, <1>7, <1>8, <1>9, <1>10, <1>11 DEF Kept

(* A save ends: its file has all that the session has.                     *)
LEMMA SaveWritesIsLatest ==
    ASSUME IInv, ~Mixed, Kept, NEW w \in Workers, SaveWrites(w)
    PROVE  Kept'
<1> DEFINE r == saving[w]
           id == session[r].id
<1>1. r # None /\ SendWith(r, id) /\ UNCHANGED <<cookie, asked, session>>
  BY DEF SaveWrites
<1>2. /\ r \in Requests /\ r \in 1..Len(asked) /\ session[r] # NoSession
      /\ at[r] = "after" /\ Worker(r) = w /\ session[r].pending
      /\ files[id] = Empty
  BY <1>1, SavingIsASession DEF Kept, SavesArePending
<1>3. Same(id, r) /\ id \in Requests /\ id # None
  BY <1>2, SessionHasName
<1>4. /\ \A v \in Workers : saving'[v] = IF v = w THEN None ELSE saving[v]
      /\ \A i \in Requests :
            files'[i] = IF i = id THEN Full(session[r].values) ELSE files[i]
  BY <1>2 DEF SaveWrites, IInv, TypeOK
<1>5. /\ at'[r] = "sent" /\ answer'[r].by = "endpoint"
      /\ answer'[r].cookie = id
      /\ \A q \in Requests \ {r} : at'[q] = at[q] /\ answer'[q] = answer[q]
  <2>1. Answers(r, "endpoint", id)
    BY <1>1, <1>2, <1>3, SendAnswers
  <2> QED BY <1>2, <2>1 DEF Answers, Goto, IInv, TypeOK
<1>6. /\ Full(session[r].values).state = "full"
      /\ Full(session[r].values).values = session[r].values
  BY DEF Full
<1>7. 1..Len(asked) \subseteq Requests
  BY AskedAreRequests DEF IInv
<1>8. \A q \in Requests \ {r} : Saved(q)' <=> Saved(q)
  BY <1>1, <1>5 DEF Saved
<1>9. \A q : Same(q, r) /\ q # r => q \in asked[r].answered
                                     /\ at[q] = "received"
  BY <1>2, OthersAreAnswered DEF Kept
<1>10. \A p \in Requests : p # r /\ session[p] # NoSession
                            /\ session[p].id = id => at[p] = "received"
  BY <1>2, <1>9, NamesAreOwn
<1>11. \A p \in 1..Len(asked) : \A q \in asked[p].answered :
         /\ Before(q, p) /\ q \in Requests \ {r} /\ at'[q] = "received"
  <2> TAKE p \in 1..Len(asked)
  <2> TAKE q \in asked[p].answered
  <2>1. Before(q, p) /\ at[q] = "received"
    BY DEF Kept, OneAtATime
  <2>2. q \in Requests \ {r}
    BY <1>2, <1>7, <2>1 DEF Before, Same
  <2> QED BY <1>5, <2>1, <2>2
<1>20. \A q \in Requests : \A i : Broke(q, i) => q # r /\ Broke(q, i)'
  <2>1. answer[r].by = "nobody"
    BY <1>2 DEF Kept, FilesAreRead
  <2> QED BY <1>1, <1>5, <2>1 DEF Broke
<1>12. OneAtATime'
  <2> SUFFICES ASSUME NEW p \in 1..Len(asked)
               PROVE
        /\ at'[p] # "dead"
        /\ \A q \in 1..Len(asked) :
              q \in asked[p].answered <=> Before(q, p)
        /\ \A q \in asked[p].answered : Before(q, p) /\ at'[q] = "received"
        /\ at'[p] # "received" => asked[p].cookie = cookie[asked[p].client]
    BY <1>1 DEF OneAtATime, Before, Same
  <2>1. at'[p] # "dead" /\ (at'[p] # "received" => at[p] # "received")
    BY <1>2, <1>5, <1>7 DEF Kept, OneAtATime
  <2> QED BY <1>11, <2>1 DEF Kept, OneAtATime
<1>13. SavesArePending'
  <2> SUFFICES ASSUME NEW v \in Workers, saving'[v] # None
               PROVE  /\ at'[saving[v]] = "after" /\ Worker(saving[v]) = v
                      /\ session[saving[v]].pending
                      /\ files'[session[saving[v]].id] = Empty
    BY <1>1, <1>4 DEF SavesArePending, Worker
  <2> DEFINE p == saving[v]
  <2>1. v # w /\ p # None
    BY <1>4
  <2>2. /\ at[p] = "after" /\ Worker(p) = v /\ session[p].pending
        /\ files[session[p].id] = Empty
    BY <2>1 DEF Kept, SavesArePending
  <2>3. p \in Requests /\ session[p] # NoSession /\ p # r
    BY <1>2, <2>1, <2>2, SavingIsASession
  <2>4. session[p].id # id /\ session[p].id \in Requests
    BY <1>10, <2>2, <2>3, SessionHasName
  <2> QED BY <1>4, <1>5, <2>2, <2>3, <2>4
<1>14. FilesAreWhole'
  <2> SUFFICES ASSUME NEW i \in Requests
               PROVE  /\ files'[i].state # "garbled"
                      /\ files'[i].state = "empty" =>
                            \/ \E v \in Workers :
                                  /\ saving'[v] # None
                                  /\ session[saving'[v]].id = i
                            \/ \E q \in Requests : Broke(q, i)'
    BY <1>1 DEF FilesAreWhole
  <2>1. CASE i = id
    BY <1>4, <1>6, <2>1
  <2>2. CASE i # id
    <3>1. files'[i] = files[i]
      BY <1>4, <2>2
    <3>2. \A v \in Workers :
             session[saving[v]].id = i => saving'[v] = saving[v]
      BY <1>4, <2>2
    <3> QED BY <1>20, <3>1, <3>2 DEF Kept, FilesAreWhole
  <2> QED BY <2>1, <2>2
<1>15. SentIsSaved'
  <2> SUFFICES ASSUME NEW p \in 1..Len(asked), at'[p] = "sent"
               PROVE  IF Saved(p)'
                      THEN /\ answer'[p].cookie = session[p].id
                           /\ files'[session[p].id] = Full(session[p].values)
                      ELSE answer'[p].cookie = None
    BY <1>1 DEF SentIsSaved
  <2>1. CASE p = r
    <3>1. Saved(p)'
      BY <1>1, <1>2, <1>5, <2>1 DEF Saved
    <3> QED BY <1>3, <1>4, <1>5, <2>1, <3>1
  <2>2. CASE p # r
    <3>1. p \in Requests \ {r} /\ at[p] = "sent" /\ answer'[p] = answer[p]
      BY <1>5, <1>7, <2>2
    <3>2. CASE Saved(p)
      <4>1. session[p] # NoSession
        BY <3>2, PendingIsASession DEF Saved
      <4>2. session[p].id # id /\ session[p].id \in Requests
        BY <1>10, <3>1, <4>1, SessionHasName
      <4> QED BY <1>4, <1>8, <3>1, <3>2, <4>2 DEF Kept, SentIsSaved
    <3>3. CASE ~Saved(p)
      BY <1>8, <3>1, <3>3 DEF Kept, SentIsSaved
    <3> QED BY <3>2, <3>3
  <2> QED BY <2>1, <2>2
<1>16. CookieHasFile'
  BY <1>1, <1>4, <1>6 DEF Kept, CookieHasFile, IInv, TypeOK, Ids
<1>17. ReceivedIsKept'
  <2> SUFFICES ASSUME NEW q \in 1..Len(asked), at'[q] = "received", Saved(q)'
               PROVE  LET i == cookie[asked[q].client]
                      IN  /\ i # None
                          /\ \/ files'[i].state = "empty"
                             \/ q \in files'[i].values
    BY <1>1 DEF ReceivedIsKept
  <2> DEFINE i == cookie[asked[q].client]
  <2>1. q \in Requests \ {r} /\ at[q] = "received" /\ Saved(q)
    BY <1>5, <1>7, <1>8
  <2>2. i # None /\ (files[i].state = "empty" \/ q \in files[i].values)
    BY <2>1 DEF Kept, ReceivedIsKept
  <2>3. asked[q].client \in Clients
    BY AskedAreRequests DEF IInv, AskType
  <2>4. CASE i = id
    <3>1. id \in Of(asked[q].client)
      BY <1>3, <2>3, <2>4 DEF IInv, Owned, CookiesOwn
    <3>2. Same(q, r)
      BY <1>3, <3>1 DEF Same, Of
    <3>3. q \in session[r].values
      BY <1>2, <1>9, <2>1, <3>2 DEF Kept, LoadedIsLatest
    <3> QED BY <1>3, <1>4, <1>6, <2>2, <2>4, <3>3
  <2>5. CASE i # id
    <3>1. i \in Requests
      BY <2>2, <2>3 DEF IInv, TypeOK, Ids
    <3> QED BY <1>4, <2>2, <2>5, <3>1
  <2> QED BY <2>4, <2>5
<1>18. FilesAreRead'
  <2> SUFFICES ASSUME NEW p \in Requests
               PROVE
          /\ at'[p] \in {"none", "before", "endpoint", "after"} =>
                answer'[p].by = "nobody"
          /\ answer'[p].by = "unreadable" =>
                \E q \in asked[p].answered : Broke(q, asked[p].cookie)'
    BY <1>1 DEF FilesAreRead, Broke
  <2>1. CASE p = r
    BY <1>5, <2>1
  <2>2. CASE p # r
    <3>1. /\ at'[p] = at[p] /\ answer'[p] = answer[p]
          /\ at[p] \in {"none", "before", "endpoint", "after"} =>
                answer[p].by = "nobody"
          /\ answer[p].by = "unreadable" =>
                \E q \in asked[p].answered : Broke(q, asked[p].cookie)
      BY <1>5, <2>2 DEF Kept, FilesAreRead
    <3>2. ASSUME answer[p].by = "unreadable"
          PROVE  \E q \in asked[p].answered : Broke(q, asked[p].cookie)'
      <4>1. p \in 1..Len(asked)
        <5>1. at[p] # "none"
          BY <3>1, <3>2
        <5>2. ~(p > Len(asked)) /\ p \in Nat /\ p >= 1
          BY <5>1, BoundAssumption DEF IInv, Plain, NotYet, Requests
        <5> QED BY <5>2 DEF IInv, TypeOK
      <4>2. PICK q \in asked[p].answered : Broke(q, asked[p].cookie)
        BY <3>1, <3>2
      <4>3. q \in Requests
        BY <1>11, <4>1
      <4>4. Broke(q, asked[p].cookie)'
        BY <1>1, <1>20, <4>2, <4>3 DEF Broke
      <4> QED BY <4>4
    <3> QED BY <3>1, <3>2
  <2> QED BY <2>1, <2>2
<1>19. LoadedIsLatest'
  <2>1. \A p \in 1..Len(asked) : \A q \in asked[p].answered :
           Saved(q)' <=> Saved(q)
    BY <1>8, <1>11
  <2> QED BY <1>1, <2>1 DEF Kept, LoadedIsLatest
<1> QED BY <1>12, <1>13, <1>14, <1>15, <1>16, <1>17, <1>18, <1>19 DEF Kept

(* A save fails: its file stays empty, and its request is the one that     *)
(* broke it.                                                               *)
LEMMA SaveFailsIsLatest ==
    ASSUME IInv, ~Mixed, Kept, NEW w \in Workers, SaveFails(w)
    PROVE  Kept'
<1> DEFINE r == saving[w]
           id == session[r].id
<1>1. /\ r # None /\ Answers(r, "unsaved", None)
      /\ UNCHANGED <<files, cookie, asked, session>>
  BY DEF SaveFails
<1>2. /\ r \in Requests /\ r \in 1..Len(asked) /\ session[r] # NoSession
      /\ at[r] = "after" /\ Worker(r) = w /\ session[r].pending
      /\ files[id] = Empty
  BY <1>1, SavingIsASession DEF Kept, SavesArePending
<1>3. Same(id, r) /\ id \in Requests /\ id # None
  BY <1>2, SessionHasName
<1>4. \A v \in Workers : saving'[v] = IF v = w THEN None ELSE saving[v]
  BY <1>2 DEF SaveFails, IInv, TypeOK
<1>5. /\ at'[r] = "sent" /\ answer'[r].by = "unsaved"
      /\ answer'[r].cookie = None
      /\ \A q \in Requests \ {r} : at'[q] = at[q] /\ answer'[q] = answer[q]
  BY <1>1, <1>2 DEF Answers, Goto, IInv, TypeOK
<1>7. 1..Len(asked) \subseteq Requests
  BY AskedAreRequests DEF IInv
<1>8. \A q \in Requests \ {r} : Saved(q)' <=> Saved(q)
  BY <1>1, <1>5 DEF Saved
<1>9. \A q : Same(q, r) /\ q # r => q \in asked[r].answered
                                     /\ at[q] = "received"
  BY <1>2, OthersAreAnswered DEF Kept
<1>10. \A p \in Requests : p # r /\ session[p] # NoSession
                            /\ session[p].id = id => at[p] = "received"
  BY <1>2, <1>9, NamesAreOwn
<1>11. \A p \in 1..Len(asked) : \A q \in asked[p].answered :
         /\ Before(q, p) /\ q \in Requests \ {r} /\ at'[q] = "received"
  <2> TAKE p \in 1..Len(asked)
  <2> TAKE q \in asked[p].answered
  <2>1. Before(q, p) /\ at[q] = "received"
    BY DEF Kept, OneAtATime
  <2>2. q \in Requests \ {r}
    BY <1>2, <1>7, <2>1 DEF Before, Same
  <2> QED BY <1>5, <2>1, <2>2
<1>20. \A q \in Requests : \A i : Broke(q, i) => q # r /\ Broke(q, i)'
  <2>1. answer[r].by = "nobody"
    BY <1>2 DEF Kept, FilesAreRead
  <2> QED BY <1>1, <1>5, <2>1 DEF Broke
<1>12. OneAtATime'
  <2> SUFFICES ASSUME NEW p \in 1..Len(asked)
               PROVE
        /\ at'[p] # "dead"
        /\ \A q \in 1..Len(asked) :
              q \in asked[p].answered <=> Before(q, p)
        /\ \A q \in asked[p].answered : Before(q, p) /\ at'[q] = "received"
        /\ at'[p] # "received" => asked[p].cookie = cookie[asked[p].client]
    BY <1>1 DEF OneAtATime, Before, Same
  <2>1. at'[p] # "dead" /\ (at'[p] # "received" => at[p] # "received")
    BY <1>2, <1>5, <1>7 DEF Kept, OneAtATime
  <2> QED BY <1>11, <2>1 DEF Kept, OneAtATime
<1>13. SavesArePending'
  <2> SUFFICES ASSUME NEW v \in Workers, saving'[v] # None
               PROVE  /\ at'[saving[v]] = "after" /\ Worker(saving[v]) = v
                      /\ session[saving[v]].pending
                      /\ files[session[saving[v]].id] = Empty
    BY <1>1, <1>4 DEF SavesArePending, Worker
  <2> DEFINE p == saving[v]
  <2>1. v # w /\ p # None
    BY <1>4
  <2>2. /\ at[p] = "after" /\ Worker(p) = v /\ session[p].pending
        /\ files[session[p].id] = Empty
    BY <2>1 DEF Kept, SavesArePending
  <2>3. p \in Requests /\ session[p] # NoSession /\ p # r
    BY <1>2, <2>1, <2>2, SavingIsASession
  <2> QED BY <1>5, <2>2, <2>3
<1>14. FilesAreWhole'
  <2> SUFFICES ASSUME NEW i \in Requests
               PROVE  /\ files[i].state # "garbled"
                      /\ files[i].state = "empty" =>
                            \/ \E v \in Workers :
                                  /\ saving'[v] # None
                                  /\ session[saving'[v]].id = i
                            \/ \E q \in Requests : Broke(q, i)'
    BY <1>1 DEF FilesAreWhole
  <2>1. CASE i = id
    <3>1. files[i].state # "garbled"
      BY DEF Kept, FilesAreWhole
    <3>2. PICK p \in Requests : p = r
      BY <1>2
    <3>3. Broke(p, i)'
      BY <1>1, <1>5, <2>1, <3>2 DEF Broke
    <3> QED BY <3>1, <3>3
  <2>2. CASE i # id
    <3>1. \A v \in Workers :
             session[saving[v]].id = i => saving'[v] = saving[v]
      BY <1>4, <2>2
    <3> QED BY <1>20, <3>1 DEF Kept, FilesAreWhole
  <2> QED BY <2>1, <2>2
<1>15. SentIsSaved'
  <2> SUFFICES ASSUME NEW p \in 1..Len(asked), at'[p] = "sent"
               PROVE  IF Saved(p)'
                      THEN /\ answer'[p].cookie = session[p].id
                           /\ files[session[p].id] = Full(session[p].values)
                      ELSE answer'[p].cookie = None
    BY <1>1 DEF SentIsSaved
  <2>1. CASE p = r
    <3>1. ~Saved(p)'
      BY <1>5, <2>1 DEF Saved
    <3> QED BY <1>5, <2>1, <3>1
  <2>2. CASE p # r
    <3>1. p \in Requests \ {r} /\ at[p] = "sent" /\ answer'[p] = answer[p]
      BY <1>5, <1>7, <2>2
    <3> QED BY <1>8, <3>1 DEF Kept, SentIsSaved
  <2> QED BY <2>1, <2>2
<1>16. CookieHasFile'
  BY <1>1 DEF Kept, CookieHasFile
<1>17. ReceivedIsKept'
  <2> SUFFICES ASSUME NEW q \in 1..Len(asked), at'[q] = "received", Saved(q)'
               PROVE  LET i == cookie[asked[q].client]
                      IN  /\ i # None
                          /\ \/ files[i].state = "empty"
                             \/ q \in files[i].values
    BY <1>1 DEF ReceivedIsKept
  <2>1. q \in Requests \ {r} /\ at[q] = "received" /\ Saved(q)
    BY <1>5, <1>7, <1>8
  <2> QED BY <2>1 DEF Kept, ReceivedIsKept
<1>18. FilesAreRead'
  <2> SUFFICES ASSUME NEW p \in Requests
               PROVE
          /\ at'[p] \in {"none", "before", "endpoint", "after"} =>
                answer'[p].by = "nobody"
          /\ answer'[p].by = "unreadable" =>
                \E q \in asked[p].answered : Broke(q, asked[p].cookie)'
    BY <1>1 DEF FilesAreRead, Broke
  <2>1. CASE p = r
    BY <1>5, <2>1
  <2>2. CASE p # r
    <3>1. /\ at'[p] = at[p] /\ answer'[p] = answer[p]
          /\ at[p] \in {"none", "before", "endpoint", "after"} =>
                answer[p].by = "nobody"
          /\ answer[p].by = "unreadable" =>
                \E q \in asked[p].answered : Broke(q, asked[p].cookie)
      BY <1>5, <2>2 DEF Kept, FilesAreRead
    <3>2. ASSUME answer[p].by = "unreadable"
          PROVE  \E q \in asked[p].answered : Broke(q, asked[p].cookie)'
      <4>1. p \in 1..Len(asked)
        <5>1. at[p] # "none"
          BY <3>1, <3>2
        <5>2. ~(p > Len(asked)) /\ p \in Nat /\ p >= 1
          BY <5>1, BoundAssumption DEF IInv, Plain, NotYet, Requests
        <5> QED BY <5>2 DEF IInv, TypeOK
      <4>2. PICK q \in asked[p].answered : Broke(q, asked[p].cookie)
        BY <3>1, <3>2
      <4>3. q \in Requests
        BY <1>11, <4>1
      <4>4. Broke(q, asked[p].cookie)'
        BY <1>1, <1>20, <4>2, <4>3 DEF Broke
      <4> QED BY <4>4
    <3> QED BY <3>1, <3>2
  <2> QED BY <2>1, <2>2
<1>19. LoadedIsLatest'
  <2>1. \A p \in 1..Len(asked) : \A q \in asked[p].answered :
           Saved(q)' <=> Saved(q)
    BY <1>8, <1>11
  <2> QED BY <1>1, <2>1 DEF Kept, LoadedIsLatest
<1> QED BY <1>12, <1>13, <1>14, <1>15, <1>16, <1>17, <1>18, <1>19 DEF Kept
-----------------------------------------------------------------------------
(* All steps of a server whose clients wait and whose workers live.        *)
LEMMA NextLatest ==
    ASSUME LInv, [Next]_vars
    PROVE  LInv'
<1>1. IInv'
  BY NextIInv DEF LInv
<1>2. UNCHANGED env
  BY DEF Next, vars, Ask, UseSession, Load, LoadFails, Change, HandleRequest,
         GuardAnswers, GuardPasses, EndpointReturns, EndpointRaises,
         OtherHookAnswers, Respond, SaveOpens, Receive, SaveWrites,
         SaveFails, Crash
<1>3. Calm' <=> Calm
  BY <1>2 DEF Calm, Mixed
<1>4. ASSUME Calm PROVE Kept'
  <2>1. IInv /\ ~Mixed /\ Kept
    BY <1>4 DEF LInv, Calm
  <2>2. CASE UNCHANGED vars
    BY <2>1, <2>2
    DEF vars, processes, Kept, OneAtATime, SavesArePending, FilesAreWhole,
        SentIsSaved, CookieHasFile, ReceivedIsKept, FilesAreRead,
        LoadedIsLatest, Before, Same, Saved, Broke, Worker
  <2>3. ASSUME NEW c \in Clients, NEW w \in Workers, Ask(c, w) PROVE Kept'
    BY <1>4, <2>1, <2>3, AskIsLatest
  <2>4. ASSUME NEW r \in Requests,
               UseSession(r) \/ HandleRequest(r) \/ Receive(r)
        PROVE  Kept'
    <3>1. CASE UseSession(r)
      BY <2>1, <3>1, UseIsLatest
    <3>2. CASE HandleRequest(r)
      BY <2>1, <3>2, HandleIsLatest, SaveOpensIsLatest DEF HandleRequest
    <3>3. CASE Receive(r)
      BY <2>1, <3>3, ReceiveIsLatest
    <3> QED BY <2>4, <3>1, <3>2, <3>3
  <2>5. ASSUME NEW w \in Workers, SaveWrites(w) PROVE Kept'
    BY <2>1, <2>5, SaveWritesIsLatest
  <2>6. ASSUME NEW w \in Workers, SaveFails(w) PROVE Kept'
    BY <2>1, <2>6, SaveFailsIsLatest
  <2>7. ASSUME NEW w \in Workers, Crash(w) PROVE FALSE
    BY <1>4, <2>7 DEF Crash, Calm
  <2> QED BY <2>2, <2>3, <2>4, <2>5, <2>6, <2>7 DEF Next
<1> QED BY <1>1, <1>3, <1>4 DEF LInv

(* Nothing is asked, saved or answered when the server starts.             *)
LEMMA InitLatest == Init => LInv
<1> SUFFICES ASSUME Init PROVE LInv
  OBVIOUS
<1>1. Len(asked) = 0 /\ 1..Len(asked) = {}
  BY DEF Init
<1>2. IInv
  BY InitIInv
<1>3. Missing.state = "missing" /\ NoAnswer.by = "nobody"
  BY DEF Missing, NoAnswer
<1>4. OneAtATime /\ SentIsSaved /\ ReceivedIsKept /\ LoadedIsLatest
  BY <1>1 DEF OneAtATime, SentIsSaved, ReceivedIsKept, LoadedIsLatest
<1>5. SavesArePending /\ FilesAreWhole /\ CookieHasFile /\ FilesAreRead
  BY <1>3
  DEF Init, SavesArePending, FilesAreWhole, CookieHasFile, FilesAreRead
<1> QED BY <1>2, <1>4, <1>5 DEF LInv, Kept

(* What a client's earlier requests did is in every session that a request *)
(* of it loads, and its file can be read unless one of them left it empty  *)
(* when its session could not be dumped, whatever workers serve them, if   *)
(* the client waits for its answers and no worker dies.                    *)
THEOREM SessionsAreLatest == Spec => []SessionIsLatest
<1>1. LInv => SessionIsLatest
  <2> SUFFICES ASSUME LInv, Calm, NEW r \in 1..Len(asked)
               PROVE
          LET changed == {q \in asked[r].answered :
                            answer[q].by = "endpoint" /\ session[q].pending}
          IN  /\ answer[r].by = "unreadable" =>
                     \E q \in asked[r].answered :
                         /\ answer[q].by = "unsaved"
                         /\ session[q].id = asked[r].cookie
              /\ session[r] # NoSession => changed \subseteq session[r].values
    BY DEF SessionIsLatest, Calm
  <2>1. IInv /\ Kept /\ r \in Requests
    BY AskedAreRequests DEF LInv, IInv
  <2>2. answer[r].by = "unreadable" =>
           \E q \in asked[r].answered :
              answer[q].by = "unsaved" /\ session[q].id = asked[r].cookie
    BY <2>1 DEF Kept, FilesAreRead, Broke
  <2>3. session[r] # NoSession => \A q \in asked[r].answered :
                                     Saved(q) => q \in session[r].values
    BY <2>1 DEF Kept, LoadedIsLatest
  <2> QED BY <2>2, <2>3 DEF Saved
<1> QED BY <1>1, InitLatest, NextLatest, PTL DEF Spec
=============================================================================
