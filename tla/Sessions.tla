------------------------------ MODULE Sessions ------------------------------
(***************************************************************************)
(* Sessions kept in files (vibora/sessions/files.py): the worker processes *)
(* of a server share the directory, a request loads its session when its   *)
(* handler asks for it, and a hook for AFTER_ENDPOINT that server.py adds  *)
(* saves what was changed and puts the cookie into the response, which may *)
(* also be in the cache of its route (cache/cache.py).                     *)
(*                                                                         *)
(* Within a worker, load() and save() run without suspension; another      *)
(* process sees the file between the truncation by open() and the write.   *)
(* A session is known by the request that created it, and its values are   *)
(* the set of the requests that changed it.                                *)
(***************************************************************************)
EXTENDS Naturals, Sequences, FiniteSets

CONSTANTS
    Clients,
    Workers,      \* processes, each with its own route cache
    MaxRequests,  \* bound: requests of all clients together
    Envs          \* environments to consider: sets of Behaviours

Behaviours ==
    {"overlap",  \* a client sends a request before the last one's answer
     "crash",    \* worker processes are killed while they block
     "raise",    \* endpoints may raise
     "values",   \* sessions may be given values that are no JSON
     "guard",    \* a hook for BEFORE_ENDPOINT uses the session, may answer
     "late",     \* a hook for AFTER_ENDPOINT uses the session
     "hook",     \* another hook for AFTER_ENDPOINT may answer
     "cached",   \* the route has a Static engine with skip_hooks=False
     "headers"}  \* the endpoint's responses have headers of their own

ASSUME BoundAssumption == MaxRequests \in Nat
ASSUME EnvAssumption == Envs \subseteq SUBSET Behaviours

Requests == 1..MaxRequests
None == 0
Ids == Requests \cup {None}

VARIABLES
    env,
    files,     \* the file of each session
    cookie,    \* of each client: SESSION_ID
    asked,     \* the requests, in the order in which they were sent
    at,        \* how far the handling of each request has come
    session,   \* Request._session, or NoSession
    response,  \* whose CachedResponse each request got, or None: its own
    cached,    \* the CachedResponse made of each request's response
    stored,    \* Static.cache: whose response each worker has cached
    alive,     \* worker processes that were not killed
    saving,    \* the request whose session each worker is writing
    answer     \* history: what each request was answered

responses == <<response, cached, stored>>
processes == <<alive, saving>>
vars == <<env, files, cookie, asked, at, session, responses, processes,
          answer>>

Missing == [state |-> "missing", values |-> {}]
Empty == [state |-> "empty", values |-> {}]
Garbled == [state |-> "garbled", values |-> {}]
Full(values) == [state |-> "full", values |-> values]

NoSession == [id |-> None, values |-> {}, pending |-> FALSE]
NotCached == [cookie |-> None, state |-> "none"]
NoAnswer == [by |-> "nobody", cookie |-> None]

(* "before": hooks for BEFORE_ENDPOINT; "after": hooks for AFTER_ENDPOINT. *)
Stages == {"none", "before", "endpoint", "after", "sent", "received", "dead"}

Init ==
    /\ env \in Envs
    /\ files = [i \in Requests |-> Missing]
    /\ cookie = [c \in Clients |-> None]
    /\ asked = <<>>
    /\ at = [r \in Requests |-> "none"]
    /\ session = [r \in Requests |-> NoSession]
    /\ response = [r \in Requests |-> None]
    /\ cached = [r \in Requests |-> NotCached]
    /\ stored = [w \in Workers |-> None]
    /\ alive = Workers
    /\ saving = [w \in Workers |-> None]
    /\ answer = [r \in Requests |-> NoAnswer]

Of(c) == {r \in 1..Len(asked) : asked[r].client = c}
Worker(r) == asked[r].worker

(* The handler of r may run: its worker lives and saves no session.        *)
Runs(r, stages) ==
    /\ r <= Len(asked) /\ at[r] \in stages
    /\ Worker(r) \in alive /\ saving[Worker(r)] = None

Goto(r, stage) == at' = [at EXCEPT ![r] = stage]
-----------------------------------------------------------------------------
(* Clients *)

Ask(c, w) ==
    /\ Len(asked) < MaxRequests /\ w \in alive
    /\ "overlap" \in env \/ \A r \in Of(c) : at[r] \in {"received", "dead"}
    /\ asked' = Append(asked,
         [client |-> c, worker |-> w, cookie |-> cookie[c],
          answered |-> {r \in Of(c) : at[r] = "received"}])
    /\ Goto(Len(asked) + 1, "before")
    /\ UNCHANGED <<env, files, cookie, session, responses, processes,
                   answer>>

(* Set-Cookie.  Answers to requests that overlap come in any order. *)
Receive(r) ==
    /\ at[r] = "sent"
    /\ Goto(r, "received")
    /\ cookie' = IF answer[r].cookie = None THEN cookie
                 ELSE [cookie EXCEPT ![asked[r].client] = answer[r].cookie]
    /\ UNCHANGED <<env, files, asked, session, responses, processes,
                   answer>>
-----------------------------------------------------------------------------
(* Request.session() *)

Answers(r, by, id) ==
    /\ Goto(r, "sent")
    /\ answer' = [answer EXCEPT ![r] = [by |-> by, cookie |-> id]]

(* FilesSessionEngine.load(): the file of the cookie or a new session. *)
Loaded(r) ==
    LET id == asked[r].cookie
        there == id # None /\ files[id] # Missing
    IN  [id |-> IF there THEN id ELSE r,
         values |-> IF there THEN files[id].values ELSE {},
         pending |-> FALSE]

Unreadable(r) ==
    LET id == asked[r].cookie
    IN  id # None /\ files[id].state \in {"empty", "garbled"}

(* flush_session is added when the server starts, after all other hooks.   *)
MayUse(r) ==
    \/ Runs(r, {"endpoint"})
    \/ "guard" \in env /\ Runs(r, {"before"})
    \/ "late" \in env /\ Runs(r, {"after"})

Load(r) ==
    /\ MayUse(r) /\ session[r] = NoSession
    /\ ~Unreadable(r)
    /\ session' = [session EXCEPT ![r] = Loaded(r)]
    /\ UNCHANGED <<env, files, cookie, asked, at, responses, processes,
                   answer>>

(* A file that is no JSON: the ValueError ends in an exception handler. *)
LoadFails(r) ==
    /\ MayUse(r) /\ session[r] = NoSession
    /\ Unreadable(r)
    /\ Answers(r, "unreadable", None)
    /\ UNCHANGED <<env, files, cookie, asked, session, responses, processes>>

(* Session.__setitem__(), load(), clear() and so on set pending_flush. *)
Change(r) ==
    /\ MayUse(r) /\ session[r] # NoSession /\ ~session[r].pending
    /\ session' = [session EXCEPT ![r].values = @ \cup {r},
                                  ![r].pending = TRUE]
    /\ UNCHANGED <<env, files, cookie, asked, at, responses, processes,
                   answer>>
-----------------------------------------------------------------------------
(* Connection.handle_request() *)

GuardAnswers(r) ==
    /\ "guard" \in env
    /\ Runs(r, {"before"})
    /\ Answers(r, "hook", None)
    /\ UNCHANGED <<env, files, cookie, asked, session, responses, processes>>

(* cache_engine.get(): the response of the cache or the endpoint's. *)
GuardPasses(r) ==
    /\ Runs(r, {"before"})
    /\ LET hit == stored[Worker(r)]
       IN  /\ Goto(r, IF hit = None THEN "endpoint" ELSE "after")
           /\ response' = [response EXCEPT ![r] = hit]
    /\ UNCHANGED <<env, files, cookie, asked, session, cached, stored,
                   processes, answer>>

(* cache_engine.store() *)
EndpointReturns(r) ==
    /\ Runs(r, {"endpoint"})
    /\ Goto(r, "after")
    /\ IF "cached" \in env
       THEN /\ cached' = [cached EXCEPT ![r].state = "fresh"]
            /\ stored' = [stored EXCEPT ![Worker(r)] = r]
       ELSE UNCHANGED <<cached, stored>>
    /\ UNCHANGED <<env, files, cookie, asked, session, response, processes,
                   answer>>

EndpointRaises(r) ==
    /\ "raise" \in env
    /\ Runs(r, {"endpoint"})
    /\ Answers(r, "error", None)
    /\ UNCHANGED <<env, files, cookie, asked, session, responses, processes>>

(* call_hooks() returns the first answer and calls no more listeners: not  *)
(* flush_session, which was added last.                                    *)
OtherHookAnswers(r) ==
    /\ "hook" \in env
    /\ Runs(r, {"after"})
    /\ Answers(r, "hook", None)
    /\ UNCHANGED <<env, files, cookie, asked, session, responses, processes>>

(* Fault: the cached response always has the headers of the first one. *)
AlwaysLinked(r) == TRUE

(* The response of r, whose headers change, is a cached one, or the cached *)
(* one has its dictionary: `headers or {}` makes another if it is empty.   *)
Linked(r) == response[r] # None \/ "headers" \in env

(* headers['Set-Cookie'] = id, if there is one, and send().  Only the      *)
(* first send() of a CachedResponse encodes its headers.                   *)
SendWith(r, id) ==
    LET q == IF response[r] = None THEN r ELSE response[r]
        changes == id # None /\ Linked(r) /\ cached[q].state = "fresh"
        flushed == IF changes THEN [cached[q] EXCEPT !.cookie = id]
                   ELSE cached[q]
    IN  \/ /\ response[r] = None
           /\ Answers(r, "endpoint", id)
           /\ cached' = [cached EXCEPT ![q] = flushed]
        \/ /\ response[r] # None
           /\ Answers(r, "cache", flushed.cookie)
           /\ cached' = [cached EXCEPT
                            ![q] = [flushed EXCEPT !.state = "encoded"]]

(* flush_session finds nothing to save. *)
Respond(r) ==
    /\ Runs(r, {"after"})
    /\ ~session[r].pending
    /\ SendWith(r, None)
    /\ UNCHANGED <<env, files, cookie, asked, session, response, stored,
                   processes>>

(* Fault: only a session that is new is saved. *)
SaveOpensIfNew(r) ==
    /\ Runs(r, {"after"})
    /\ session[r].pending
    /\ IF session[r].id = r
       THEN /\ saving' = [saving EXCEPT ![Worker(r)] = r]
            /\ files' = [files EXCEPT ![r] = Empty]
            /\ UNCHANGED <<at, cached, answer>>
       ELSE SendWith(r, session[r].id) /\ UNCHANGED <<saving, files>>
    /\ UNCHANGED <<env, cookie, asked, session, response, stored, alive>>

(* FilesSessionEngine.save(): open(..., 'w') truncates the file. *)
SaveOpens(r) ==
    /\ Runs(r, {"after"})
    /\ session[r].pending
    /\ saving' = [saving EXCEPT ![Worker(r)] = r]
    /\ files' = [files EXCEPT ![session[r].id] = Empty]
    /\ UNCHANGED <<env, cookie, asked, at, session, responses, alive, answer>>

(* It is written when it is closed.  What another process has written      *)
(* since then is overwritten, or is longer and sticks out.                 *)
SaveWrites(w) ==
    /\ saving[w] # None
    /\ LET r == saving[w]
           id == session[r].id
       IN  /\ \/ files' = [files EXCEPT ![id] = Full(session[r].values)]
              \/ /\ files[id] # Empty
                 /\ files' = [files EXCEPT ![id] = Garbled]
           /\ SendWith(r, id)
    /\ saving' = [saving EXCEPT ![w] = None]
    /\ UNCHANGED <<env, cookie, asked, session, response, stored, alive>>

(* dumps() comes after open(): if a value is no JSON its TypeError leaves   *)
(* the file empty, ends in an exception handler, and no hook runs again.   *)
SaveFails(w) ==
    /\ "values" \in env
    /\ saving[w] # None
    /\ Answers(saving[w], "unsaved", None)
    /\ saving' = [saving EXCEPT ![w] = None]
    /\ UNCHANGED <<env, files, cookie, asked, session, responses, alive>>

(* The reaper kills a worker that blocks: its requests get no answer, and  *)
(* a file that it was writing stays empty.                                 *)
Crash(w) ==
    /\ "crash" \in env
    /\ w \in alive
    /\ alive' = alive \ {w}
    /\ saving' = [saving EXCEPT ![w] = None]
    /\ at' = [r \in Requests |->
                IF /\ at[r] \in {"before", "endpoint", "after"}
                   /\ Worker(r) = w
                THEN "dead" ELSE at[r]]
    /\ UNCHANGED <<env, files, cookie, asked, session, responses, answer>>

UseSession(r) == Load(r) \/ LoadFails(r) \/ Change(r)

HandleRequest(r) ==
    \/ GuardAnswers(r) \/ GuardPasses(r)
    \/ EndpointReturns(r) \/ EndpointRaises(r)
    \/ OtherHookAnswers(r) \/ Respond(r) \/ SaveOpens(r)

Next ==
    \/ \E c \in Clients, w \in Workers : Ask(c, w)
    \/ \E r \in Requests : UseSession(r) \/ HandleRequest(r) \/ Receive(r)
    \/ \E w \in Workers : SaveWrites(w) \/ SaveFails(w) \/ Crash(w)

Spec == Init /\ [][Next]_vars
-----------------------------------------------------------------------------
(* Combinations in which the cookie of one client's session is sent to     *)
(* others with a cached response.                                          *)
Mixed == "cached" \in env /\ env \cap {"guard", "late", "headers"} # {}

(* The session of a request holds nothing that requests of other clients   *)
(* put there, though workers die, requests overlap and responses are       *)
(* cached (Static.store(), flush_session).                                 *)
OwnSession ==
    ~Mixed => \A r \in 1..Len(asked) :
        session[r].values \subseteq Of(asked[r].client)

(* What a handler did to the session in a request that the client has an   *)
(* answer to is there when its next request loads it, in whatever worker:  *)
(* it was saved before the answer was sent, and the file can be read,      *)
(* unless an earlier request of the client, which was answered by an       *)
(* exception handler, left it empty.  (Overlapping requests undo or        *)
(* destroy each other's changes and a killed worker leaves an empty file.) *)
SessionIsLatest ==
    env \cap {"overlap", "crash"} = {} /\ ~Mixed =>
        \A r \in 1..Len(asked) :
            LET changed == {q \in asked[r].answered :
                              answer[q].by = "endpoint" /\ session[q].pending}
            IN  /\ answer[r].by = "unreadable" =>
                       \E q \in asked[r].answered :
                           /\ answer[q].by = "unsaved"
                           /\ session[q].id = asked[r].cookie
                /\ session[r] # NoSession =>
                       changed \subseteq session[r].values
=============================================================================
