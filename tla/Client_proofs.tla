---------------------------- MODULE Client_proofs -----------------------------
(***************************************************************************)
(* Theorems about Client, for any number of calls, sockets and servers,    *)
(* all answers, policies and limits.                                       *)
(***************************************************************************)
EXTENDS Client, TLAPS

(* Using(), of the record of a call. *)
Uses(x) ==
    \/ x.pc \in {"sending", "headers", "body"}
    \/ x.pc = "none" /\ x.stream /\ HasBody(x.reply.kind)

Available(c) ==
    \E h \in Hosts : c \in {pools[h].available[i] :
                              i \in 1..Len(pools[h].available)}

(* Nothing else may get hold of a socket in use: it is not even remembered *)
(* by another call, as by one that has dealt with its streamed response.   *)
Exclusive ==
    \A t \in Calls : Uses(call[t]) =>
        /\ call[t].conn \in Conns
        /\ conns[call[t].conn].releases = 0 /\ ~Available(call[t].conn)
        /\ \A u \in Calls \ {t} : call[u].conn # call[t].conn

(* What is left of the strategy pays for the request that is to be written *)
(* in this turn of the loop, and for those of all turns to come.           *)
Waiting(x) == x.pc \in {"throttled", "probe", "connect"}
Due(x) == IF x.redirects = MaxRedirects THEN 1 ELSE 0
Budget(x) ==
    x.sent + x.network + x.statuses + (IF Waiting(x) THEN Due(x) ELSE 0)
        <= x.allowed

HeaderOk(x) ==
    /\ x.redirected \/ x.host = Home
    /\ \/ x.header \in {NoOne, x.host}
       \/ x.redirected /\ x.redirects = MaxRedirects

CallOk(x) ==
    /\ x \in CallType
    /\ Budget(x)
    /\ HeaderOk(x)
    /\ x.pc = "sending" => x.header # NoOne
    /\ x.pc \in {"throttled", "connect"} => x.conn = NoOne
    /\ x.pc = "none" /\ x.stream => x.reply \in Replies
    /\ x.pc = "body" => /\ x.reply \in Replies
                        /\ x.stream => x.reply.location # NoOne

CallsOk == \A t \in Calls : CallOk(call[t])

(* The limiter counts what it has admitted in its period. *)
RateOk ==
    /\ rate.flush = NotSet =>
          rate.usage = 0 /\ \A t \in Calls : call[t].pc # "throttled"
    /\ \/ window.slept \/ now >= rate.flush
       \/ window.admitted = rate.usage /\ (Count > 0 => rate.usage <= Count)

(* An open socket is one of a server, in whose pool it is.                 *)
Owned ==
    \A c \in Conns : conns[c].state = "open" =>
        conns[c].host \in Hosts /\ c \in pools[conns[c].host].connections

IInv == TypeOK /\ CallsOk /\ Owned /\ Exclusive /\ RateOk

(* Nothing is open, and nobody has called. *)
LEMMA InitIInv == Init => IInv
<1> SUFFICES ASSUME Init PROVE IInv
  OBVIOUS
<1>1. NoCall \in CallType /\ Unused \in ConnType /\ EmptyPool \in PoolType
  BY ClientAssumption
  DEF NoCall, CallType, Methods, Unused, ConnType, EmptyPool, PoolType
<1>2. NewRate \in [flush : Nat \cup {NotSet}, usage : Nat]
  BY DEF NewRate
<1>3. TypeOK
  BY <1>1, <1>2 DEF Init, TypeOK
<1>4. CallOk(NoCall) /\ ~Uses(NoCall) /\ NoCall.pc # "throttled"
  BY <1>1
  DEF CallOk, Budget, HeaderOk, Waiting, Due, Uses, NoCall
<1>5. CallsOk /\ Exclusive
  BY <1>4 DEF Init, CallsOk, Exclusive
<1>6. Owned
  BY DEF Init, Owned, Unused
<1>7. RateOk
  BY <1>4 DEF Init, RateOk, NewRate, NotSet
<1> QED BY <1>3, <1>5, <1>6, <1>7 DEF IInv
-----------------------------------------------------------------------------
(* Pools. *)

(* What can be taken out of the pool goes on being so or is gone.          *)
PoolsShrink ==
    /\ pools' \in [Hosts -> PoolType]
    /\ \A h \in Hosts : pools'[h].connections = pools[h].connections
    /\ \A c : Available(c)' => Available(c)

(* The last connection of a pool is a connection, the others remain.       *)
LEMMA TakeFromPool ==
    ASSUME TypeOK, NEW h \in Hosts, HasAvailable(pools[h])
    PROVE  /\ Popped(pools[h]) \in Conns /\ Available(Popped(pools[h]))
           /\ pools' = [pools EXCEPT ![h] = Rest(@)] => PoolsShrink
<1> DEFINE s == pools[h].available
           m == Len(s)
<1>1. /\ pools[h] \in PoolType
      /\ s \in Seq(Conns) /\ pools[h].connections \subseteq Conns
  BY DEF TypeOK, PoolType
<1>2. m \in Nat /\ m > 0 /\ Popped(pools[h]) = s[m]
  BY <1>1 DEF HasAvailable, Popped
<1>3. Popped(pools[h]) \in Conns /\ Available(Popped(pools[h]))
  BY <1>1, <1>2 DEF Available
<1>4. Rest(pools[h]) = [available |-> SubSeq(s, 1, m - 1),
                        connections |-> pools[h].connections]
  <2>1. ASSUME NEW v
        PROVE  [pools[h] EXCEPT !.available = v] =
                   [available |-> v, connections |-> pools[h].connections]
    BY <1>1 DEF PoolType
  <2> QED BY <2>1 DEF Rest
<1>5. /\ SubSeq(s, 1, m - 1) \in Seq(Conns)
      /\ Len(SubSeq(s, 1, m - 1)) = m - 1
      /\ \A i \in 1..(m - 1) : SubSeq(s, 1, m - 1)[i] = s[i]
  BY <1>1, <1>2
<1>6. ASSUME pools' = [pools EXCEPT ![h] = Rest(@)]
      PROVE  PoolsShrink
  <2>1. \A g \in Hosts : pools'[g] = IF g = h THEN Rest(pools[h])
                                                ELSE pools[g]
    BY <1>6 DEF TypeOK
  <2>2. pools' \in [Hosts -> PoolType]
    BY <1>1, <1>4, <1>5, <1>6 DEF TypeOK, PoolType
  <2>3. \A g \in Hosts : pools'[g].connections = pools[g].connections
    BY <1>4, <2>1
  <2>4. ASSUME NEW c, Available(c)'
        PROVE  Available(c)
    <3>0. PICK g \in Hosts : c \in {pools'[g].available[i] :
                                    i \in 1..Len(pools'[g].available)}
      BY <2>4 DEF Available
    <3>1. PICK i \in 1..Len(pools'[g].available) : c = pools'[g].available[i]
      BY <3>0
    <3>2. CASE g # h
      BY <2>1, <3>1, <3>2 DEF Available
    <3>3. CASE g = h
      <4>1. i \in 1..(m - 1) /\ c = SubSeq(s, 1, m - 1)[i]
        BY <1>4, <1>5, <2>1, <3>1, <3>3
      <4>2. i \in 1..m /\ c = s[i]
        BY <1>2, <1>5, <4>1
      <4> QED BY <4>2 DEF Available
    <3> QED BY <3>2, <3>3
  <2> QED BY <2>2, <2>3, <2>4 DEF PoolsShrink
<1> QED BY <1>3, <1>6

(* Nothing changes, nothing grows. *)
LEMMA SamePools == ASSUME TypeOK, UNCHANGED pools PROVE PoolsShrink
  BY DEF PoolsShrink, TypeOK, Available
-----------------------------------------------------------------------------
(* The turns of the loop in Session.request(). *)

(* A turn may begin. *)
Ready(r) ==
    /\ r \in CallType /\ r.conn = NoOne /\ HeaderOk(r)
    /\ r.sent + r.network + r.statuses + Due(r) <= r.allowed

(* How a call goes on: with its socket, or without using any. *)
Continues(t, x) ==
    /\ call' = [call EXCEPT ![t] = x]
    /\ CallOk(x)
    /\ \/ x.conn = call[t].conn
       \/ ~Uses(x) /\ (x.conn = NoOne \/ Available(x.conn))
    /\ PoolsShrink

ThrottleType ==
    /\ rate \in [flush : Nat \cup {NotSet}, usage : Nat]
    /\ window \in [admitted : Nat, slept : BOOLEAN]
Outcome(t) ==
    /\ RateOk' /\ ThrottleType'
    /\ \E x : Continues(t, x) /\ ~Uses(x)

(* With response r, call t is over, or it goes on as above. *)
Streams(r) == r.stream /\ HasBody(r.reply.kind)
Result(t, r) ==
    /\ RateOk' /\ ThrottleType'
    /\ \E x : Continues(t, x) /\ (Uses(x) => Streams(r))

(* The first await of get_connection(): its turn has not been paid yet.    *)
LEMMA AcquireContinues ==
    ASSUME TypeOK, NEW t \in Calls, NEW r, Acquire(t, r),
           Ready(r)
    PROVE  \E x : Continues(t, x) /\ ~Uses(x) /\ x.pc # "throttled"
<1>1. CASE HasAvailable(pools[r.host])
  <2> DEFINE c == Popped(pools[r.host])
             x == [r EXCEPT !.pc = "probe", !.conn = c]
  <2>1. r.host \in Hosts
    BY DEF Ready, CallType
  <2>2. c \in Conns /\ Available(c)
    BY <1>1, <2>1, TakeFromPool
  <2>3. /\ call' = [call EXCEPT ![t] = x]
        /\ pools' = [pools EXCEPT ![r.host] = Rest(@)]
    BY <1>1 DEF Acquire
  <2>4. PoolsShrink
    BY <1>1, <2>1, <2>3, TakeFromPool
  <2>5. x \in CallType /\ x.pc = "probe" /\ x.conn = c
    BY <2>2 DEF Ready, CallType, Awaiting
  <2>6. CallOk(x)
    BY <2>5 DEF Ready, CallOk, Budget, HeaderOk, Waiting, Due, CallType
  <2>7. ~Uses(x)
    BY <2>5 DEF Uses
  <2> QED BY <2>2, <2>3, <2>4, <2>5, <2>6, <2>7 DEF Continues
<1>2. CASE ~HasAvailable(pools[r.host])
  <2> DEFINE x == [r EXCEPT !.pc = "connect"]
  <2>1. call' = [call EXCEPT ![t] = x] /\ UNCHANGED pools
    BY <1>2 DEF Acquire
  <2>2. x \in CallType /\ x.pc = "connect" /\ x.conn = NoOne
    BY DEF Ready, CallType, Awaiting
  <2>3. CallOk(x)
    BY <2>2 DEF Ready, CallOk, Budget, HeaderOk, Waiting, Due, CallType
  <2>4. ~Uses(x)
    BY <2>2 DEF Uses
  <2> QED BY <2>1, <2>2, <2>3, <2>4, SamePools DEF Continues
<1> QED BY <1>1, <1>2

(* A call that is begun, or again: throttle() lets it pass or sleep.       *)
LEMMA IssueContinues ==
    ASSUME IInv, NEW t \in Calls, NEW r, Issue(t, r), Ready(r),
           UNCHANGED now
    PROVE  Outcome(t)
<1>1. /\ now \in Nat /\ rate.flush \in Nat \cup {NotSet} /\ rate.usage \in Nat
      /\ window.admitted \in Nat /\ window.slept \in BOOLEAN
      /\ rate \in [flush : Nat \cup {NotSet}, usage : Nat]
  BY DEF IInv, TypeOK
<1>2. ASSUME NEW x, call' = [call EXCEPT ![t] = x],
             x.pc = "throttled" => rate.flush # NotSet
      PROVE  rate.flush = NotSet => \A u \in Calls : call'[u].pc # "throttled"
  BY <1>2 DEF IInv, TypeOK, RateOk
<1>3. CASE ~setup.limited
  <2>1. UNCHANGED <<rate, window>> /\ Acquire(t, r)
    BY <1>3 DEF Issue, throttle
  <2>2. PICK x : Continues(t, x) /\ ~Uses(x) /\ x.pc # "throttled"
    BY <2>1, AcquireContinues DEF IInv
  <2>3. RateOk'
    BY <1>2, <2>1, <2>2 DEF IInv, RateOk, Continues
  <2>4. ThrottleType'
    BY <2>1 DEF IInv, TypeOK, ThrottleType
  <2> QED BY <2>2, <2>3, <2>4 DEF Outcome
<1>4. CASE setup.limited /\ MustSleep(rate, now)
  <2> DEFINE x == [r EXCEPT !.pc = "throttled",
                            !.wake = now + WaitTime(rate, now)]
  <2>1. /\ call' = [call EXCEPT ![t] = x]
        /\ UNCHANGED <<pools, rate, window>>
    BY <1>4 DEF Issue, throttle
  <2>2. now + WaitTime(rate, now) \in Nat /\ rate.flush # NotSet
    BY <1>1, <1>4, RateAssumption DEF WaitTime, MustSleep, NotSet
  <2>3. x \in CallType /\ x.pc = "throttled" /\ x.conn = NoOne
    BY <2>2 DEF Ready, CallType, Awaiting
  <2>4. CallOk(x)
    BY <2>3 DEF Ready, CallOk, Budget, HeaderOk, Waiting, Due, CallType
  <2>5. ~Uses(x)
    BY <2>3 DEF Uses
  <2>6. Continues(t, x)
    BY <2>1, <2>3, <2>4, <2>5, SamePools DEF Continues, IInv
  <2>7. RateOk'
    BY <1>2, <2>1, <2>2 DEF IInv, RateOk
  <2>8. ThrottleType'
    BY <2>1 DEF IInv, TypeOK, ThrottleType
  <2> QED BY <2>5, <2>6, <2>7, <2>8 DEF Outcome
<1>5. CASE setup.limited /\ ~MustSleep(rate, now)
  <2>1. /\ Acquire(t, r)
        /\ rate' = Admitted(rate, now)
        /\ window' = IF Opens(rate, now)
                     THEN [admitted |-> 1, slept |-> FALSE]
                     ELSE [window EXCEPT !.admitted = @ + 1]
    BY <1>5 DEF Issue
  <2>2. PICK x : Continues(t, x) /\ ~Uses(x)
    BY <2>1, AcquireContinues DEF IInv
  <2>3. CASE Opens(rate, now)
    <3>1. rate' = [flush |-> now + Period,
                   usage |-> IF rate.flush = NotSet THEN rate.usage + 1
                             ELSE 1]
      BY <2>1, <2>3 DEF Admitted
    <3>2. rate'.flush = now + Period /\ rate'.usage = 1
      BY <3>1 DEF IInv, RateOk
    <3>3. now + Period \in Nat /\ now + Period # NotSet
      BY <1>1, RateAssumption DEF NotSet
    <3>4. ThrottleType'
      BY <2>1, <2>3, <3>1, <3>2, <3>3 DEF ThrottleType
    <3>5. window'.admitted = 1
      BY <2>1, <2>3
    <3>6. RateOk'
      BY <3>2, <3>3, <3>5, RateAssumption DEF RateOk
    <3> QED BY <2>2, <3>4, <3>6 DEF Outcome
  <2>4. CASE ~Opens(rate, now)
    <3>1. rate' = [rate EXCEPT !.usage = @ + 1]
      BY <2>1, <2>4 DEF Admitted
    <3>2. /\ rate'.flush = rate.flush /\ rate'.usage = rate.usage + 1
          /\ rate' \in [flush : Nat \cup {NotSet}, usage : Nat]
      BY <1>1, <3>1
    <3>3. /\ window'.admitted = window.admitted + 1
          /\ window'.slept = window.slept
          /\ window' \in [admitted : Nat, slept : BOOLEAN]
      BY <2>1, <2>4 DEF IInv, TypeOK
    <3>4. rate.flush # NotSet /\ now <= rate.flush
      BY <1>1, <2>4 DEF Opens, NotSet
    <3>5. now < rate.flush => rate.usage < Count
      BY <1>1, <1>5, <3>4, RateAssumption DEF MustSleep
    <3>6. \/ window.slept \/ now >= rate.flush
          \/ window.admitted = rate.usage
      BY DEF IInv, RateOk
    <3>7. \/ window'.slept \/ now >= rate'.flush
          \/ /\ window'.admitted = rate'.usage
             /\ Count > 0 => rate'.usage <= Count
      BY <1>1, <3>2, <3>3, <3>4, <3>5, <3>6, RateAssumption DEF NotSet
    <3>8. RateOk'
      BY <3>2, <3>4, <3>7 DEF RateOk
    <3> QED BY <2>2, <3>2, <3>3, <3>8 DEF Outcome, ThrottleType
  <2> QED BY <2>3, <2>4
<1> QED BY <1>3, <1>4, <1>5

(* A call that ends with an exception has nothing any more. *)
LEMMA FailsContinues ==
    ASSUME IInv, NEW t \in Calls, NEW r, Fails(t, r), UNCHANGED now
    PROVE  Outcome(t)
<1>1. /\ call' = [call EXCEPT ![t] = NoCall]
      /\ UNCHANGED <<pools, rate, window>>
  BY DEF Fails, throttle
<1>2. NoCall \in CallType /\ NoCall.conn = NoOne
  BY ClientAssumption DEF NoCall, CallType, Methods
<1>3. CallOk(NoCall) /\ ~Uses(NoCall) /\ NoCall.pc # "throttled"
  BY <1>2 DEF CallOk, Budget, HeaderOk, Waiting, Due, Uses, NoCall
<1>4. Continues(t, NoCall)
  BY <1>1, <1>2, <1>3, SamePools DEF Continues, IInv
<1>5. RateOk'
  BY <1>1, <1>3 DEF IInv, TypeOK, RateOk
<1>6. ThrottleType'
  BY <1>1 DEF IInv, TypeOK, ThrottleType
<1> QED BY <1>3, <1>4, <1>5, <1>6 DEF Outcome

(* The next turn of the loop needs one failure or status less. *)
LEMMA AgainReady ==
    ASSUME NEW r \in CallType, HeaderOk(r),
           r.sent + r.network + r.statuses + 1 <= r.allowed
    PROVE  Ready(Again(r))
<1> DEFINE a == Again(r)
<1>1. /\ a \in CallType /\ a.conn = NoOne /\ a.host = Home
      /\ a.redirects = MaxRedirects /\ a.header = r.header
      /\ a.redirected = r.redirected /\ a.sent = r.sent
      /\ a.network = r.network /\ a.statuses = r.statuses
      /\ a.allowed = r.allowed
  <2>1. Home \in Hosts /\ MaxRedirects \in 0..MaxRedirects
    BY ClientAssumption
  <2> QED BY <2>1 DEF Again, CallType
<1>2. HeaderOk(a)
  BY <1>1 DEF HeaderOk
<1>3. Due(a) = 1
  BY <1>1 DEF Due
<1> QED BY <1>1, <1>2, <1>3 DEF Ready

(* An error of the network is paid for. *)
LEMMA NetworkErrorContinues ==
    ASSUME IInv, NEW t \in Calls, NetworkError(t, call[t]), UNCHANGED now
    PROVE  Outcome(t)
<1> DEFINE r == call[t]
<1>1. CallOk(r) /\ r \in CallType
  BY DEF IInv, CallsOk, CallOk
<1>2. CASE r.network = 0 /\ Fails(t, r)
  BY <1>2, FailsContinues
<1>3. CASE /\ r.network > 0
           /\ Issue(t, Again([r EXCEPT !.network = @ - 1]))
  <2> DEFINE q == [r EXCEPT !.network = @ - 1]
  <2>1. /\ q \in CallType /\ q.network = r.network - 1
        /\ q.sent = r.sent /\ q.statuses = r.statuses
        /\ q.allowed = r.allowed /\ HeaderOk(q)
    BY <1>1, <1>3 DEF CallType, CallOk, HeaderOk
  <2>2. r.sent + r.network + r.statuses <= r.allowed
    BY <1>1 DEF CallOk, Budget, Due, CallType
  <2>3. q.sent + q.network + q.statuses + 1 <= q.allowed
    BY <1>1, <2>1, <2>2 DEF CallType
  <2>4. Ready(Again(q))
    BY <2>1, <2>3, AgainReady
  <2> QED BY <1>3, <2>4, IssueContinues
<1> QED BY <1>2, <1>3 DEF NetworkError

(* A response: it is returned, to be read from its socket if the user      *)
(* wants a stream, or tried again.                                         *)
LEMMA AnsweredContinues ==
    ASSUME IInv, NEW t \in Calls, NEW r \in CallType, Answered(t, r),
           HeaderOk(r), r.sent + r.network + r.statuses <= r.allowed,
           r.reply \in Replies, r.conn = call[t].conn, UNCHANGED now
    PROVE  Result(t, r)
<1>1. CASE /\ r.statuses > 0
           /\ Issue(t, Again([r EXCEPT !.statuses = @ - 1]))
  <2> DEFINE q == [r EXCEPT !.statuses = @ - 1]
  <2>1. /\ q \in CallType /\ q.statuses = r.statuses - 1
        /\ q.sent = r.sent /\ q.network = r.network
        /\ q.allowed = r.allowed /\ HeaderOk(q)
    BY <1>1 DEF CallType, HeaderOk
  <2>2. q.sent + q.network + q.statuses + 1 <= q.allowed
    BY <2>1 DEF CallType
  <2>3. Ready(Again(q))
    BY <2>1, <2>2, AgainReady
  <2> QED BY <1>1, <2>3, IssueContinues DEF Outcome, Result
<1>2. CASE /\ call' = [call EXCEPT ![t] = Returned(r)]
           /\ UNCHANGED <<pools, throttle>>
  <2> DEFINE x == Returned(r)
  <2>1. NoCall \in CallType /\ NoCall.conn = NoOne
    BY ClientAssumption DEF NoCall, CallType, Methods
  <2>2. x \in CallType /\ x.pc = "none" /\ x.redirected = FALSE
    BY <2>1 DEF Returned, CallType, NoCall
  <2>3. /\ x.sent = 0 /\ x.network = 0 /\ x.statuses = 0 /\ x.allowed = 0
        /\ x.host = Home /\ x.header = NoOne
    BY <2>1 DEF Returned, NoCall
  <2>4. /\ x.stream => r.stream /\ x.conn = r.conn /\ x.reply = r.reply
        /\ ~x.stream => x.conn = NoOne
    BY <2>1 DEF Returned, NoCall, CallType
  <2>5. CallOk(x)
    BY <2>2, <2>3, <2>4 DEF CallOk, Budget, HeaderOk, Waiting
  <2>6. Uses(x) => x.stream /\ HasBody(x.reply.kind)
    BY <2>2 DEF Uses
  <2>7. Continues(t, x)
    BY <1>2, <2>4, <2>5, <2>6, SamePools DEF Continues, IInv
  <2>8. RateOk'
    BY <1>2, <2>2 DEF IInv, TypeOK, RateOk, throttle
  <2>9. ThrottleType'
    BY <1>2 DEF IInv, TypeOK, ThrottleType, throttle
  <2>10. Uses(x) => Streams(r)
    BY <2>4, <2>6 DEF Streams
  <2> QED BY <2>7, <2>8, <2>9, <2>10 DEF Result
<1> QED BY <1>1, <1>2 DEF Answered

(* A redirect is not paid for, and has the Host it is sent to.             *)
LEMMA RedirectContinues ==
    ASSUME IInv, NEW t \in Calls, NEW r \in CallType, HandleRedirect(t, r),
           r.sent + r.network + r.statuses <= r.allowed,
           r.reply \in Replies, r.reply.location # NoOne, UNCHANGED now
    PROVE  Outcome(t)
<1> DEFINE q == [r EXCEPT !.current = "GET", !.host = r.reply.location,
                          !.header = r.reply.location,
                          !.conn = NoOne, !.reply = NoOne,
                          !.redirects = @ - 1, !.redirected = TRUE]
<1>1. CASE r.redirects = 0 /\ Fails(t, r)
  BY <1>1, FailsContinues
<1>2. CASE r.redirects > 0 /\ Issue(t, q)
  <2>1. r.reply.location \in Hosts
    BY ClientAssumption
  <2>2. MaxRedirects \in Nat /\ r.redirects \in 0..MaxRedirects
    BY ClientAssumption DEF CallType
  <2>3. r.redirects - 1 \in 0..MaxRedirects /\ r.redirects - 1 # MaxRedirects
    BY <1>2, <2>2
  <2>4. /\ q \in CallType /\ q.conn = NoOne /\ q.redirected
        /\ q.header = q.host /\ q.redirects = r.redirects - 1
        /\ q.sent = r.sent /\ q.network = r.network
        /\ q.statuses = r.statuses /\ q.allowed = r.allowed
    BY <2>1, <2>3 DEF CallType, Methods
  <2>5. Due(q) = 0
    BY <2>3, <2>4 DEF Due
  <2>6. Ready(q)
    BY <2>4, <2>5 DEF Ready, HeaderOk, CallType
  <2> QED BY <1>2, <2>6, IssueContinues
<1> QED BY <1>1, <1>2 DEF HandleRedirect
-----------------------------------------------------------------------------
(* A step of one call; of the sockets only its own may be released, and    *)
(* only when the call has done with it.                                    *)
LEMMA CallStep ==
    ASSUME IInv, NEW t \in Calls, NEW x, Continues(t, x),
           Uses(x) => Uses(call[t]),
           RateOk', ThrottleType',
           conns' \in [Conns -> ConnType],
           \A c \in Conns : /\ conns'[c].state = conns[c].state
                            /\ conns'[c].host = conns[c].host
                            /\ \/ conns'[c].releases = conns[c].releases
                               \/ c = call[t].conn /\ ~Uses(x),
           UNCHANGED <<setup, session, now>>, started' \in Nat
    PROVE  IInv'
<1>1. /\ \A u \in Calls : call'[u] = IF u = t THEN x ELSE call[u]
      /\ call' \in [Calls -> CallType] /\ CallOk(x)
      /\ PoolsShrink
  BY DEF IInv, TypeOK, Continues, CallOk
<1>2. TypeOK'
  BY <1>1 DEF IInv, TypeOK, ThrottleType, PoolsShrink
<1>3. CallsOk'
  BY <1>1 DEF IInv, CallsOk
<1>4. Owned'
  BY <1>1 DEF IInv, Owned, PoolsShrink
<1>5. Exclusive'
  <2> SUFFICES ASSUME NEW u \in Calls, Uses(call[u])'
               PROVE  (/\ call[u].conn \in Conns
                       /\ conns[call[u].conn].releases = 0
                       /\ ~Available(call[u].conn)
                       /\ \A v \in Calls \ {u} :
                             call[v].conn # call[u].conn)'
    BY DEF Exclusive
  <2>0. PICK c : c = call[u].conn
    OBVIOUS
  <2>1. Uses(call[u])
    BY <1>1
  <2>2. /\ c \in Conns /\ conns[c].releases = 0 /\ ~Available(c)
        /\ \A v \in Calls \ {u} : call[v].conn # c
    BY <2>0, <2>1 DEF IInv, Exclusive
  <2>3. call'[u].conn = c
    BY <1>1, <2>0, <2>1 DEF Continues
  <2>4. ~Available(c)'
    BY <1>1, <2>2 DEF PoolsShrink
  <2>5. conns'[c].releases = 0
    BY <1>1, <2>0, <2>2
  <2>6. ASSUME NEW v \in Calls \ {u}
        PROVE  call'[v].conn # c
    BY <1>1, <2>2, ClientAssumption DEF Continues
  <2>7. ~Available(call[u].conn)'
    BY <2>3, <2>4 DEF Available
  <2> QED BY <2>2, <2>3, <2>5, <2>6, <2>7
<1> QED BY <1>2, <1>3, <1>4, <1>5 DEF IInv

(* The steps of one call that leave the sockets as they are.               *)
LEMMA SameSockets ==
    ASSUME IInv, NEW t \in Calls, Outcome(t),
           UNCHANGED <<setup, session, conns, now>>, started' \in Nat
    PROVE  IInv'
<1>1. PICK x : Continues(t, x) /\ ~Uses(x)
  BY DEF Outcome
<1>2. conns' \in [Conns -> ConnType]
  BY DEF IInv, TypeOK
<1> QED BY <1>1, <1>2, CallStep DEF Outcome

(* A new call, whatever the user asks for. *)
LEMMA StartKeeps ==
    ASSUME IInv, NEW t \in Calls, NEW method \in setup.methods,
           NEW stream \in setup.stream, NEW policy \in setup.policies,
           Start(t, method, stream, policy)
    PROVE  IInv'
<1> DEFINE budget == NetworkFailures(policy, method)
           r == [NoCall EXCEPT !.stream = stream, !.method = method,
                               !.network = budget,
                               !.statuses = policy.statuses,
                               !.allowed = 1 + budget + policy.statuses]
<1>1. /\ setup \in Setups
      /\ method \in Methods /\ stream \in BOOLEAN
      /\ policy \in [network : Failures, statuses : 0..MaxRetries]
  BY ClientAssumption DEF IInv, TypeOK
<1>2. policy.statuses \in Nat
  BY <1>1
<1>3. budget \in Nat
  <2>1. policy.network \in Failures
    BY <1>1
  <2>2. PICK ms \in SUBSET Methods : policy.network \in [ms -> 0..MaxRetries]
    BY <2>1 DEF Failures
  <2>3. method \in DOMAIN policy.network => policy.network[method] \in Nat
    BY <2>2
  <2> QED BY <2>3 DEF NetworkFailures
<1>4. NoCall \in CallType
  BY ClientAssumption DEF NoCall, CallType, Methods
<1>5. 1 + budget + policy.statuses \in Nat
  BY <1>2, <1>3
<1>6. /\ r \in CallType /\ r.network = budget
      /\ r.statuses = policy.statuses /\ r.sent = 0
      /\ r.allowed = 1 + budget + policy.statuses
      /\ r.header = NoOne /\ r.host = Home
  BY ZenonT(30), <1>1, <1>2, <1>3, <1>4, <1>5 DEF CallType, NoCall
<1>7. Ready(Again(r))
  <2>1. HeaderOk(r)
    BY <1>6 DEF HeaderOk
  <2>2. r.sent + r.network + r.statuses + 1 <= r.allowed
    BY <1>2, <1>3, <1>6
  <2> QED BY <1>6, <2>1, <2>2, AgainReady
<1>8. /\ Issue(t, Again(r)) /\ started' = started + 1
      /\ UNCHANGED <<setup, session, conns, now>>
  BY DEF Start
<1>9. started' \in Nat
  BY <1>8 DEF IInv, TypeOK
<1> QED BY <1>7, <1>8, <1>9, IssueContinues, SameSockets

(* The call that has slept goes on where the limiter has stopped it.       *)
LEMMA WakeKeeps ==
    ASSUME IInv, NEW t \in Calls, Wake(t)
    PROVE  IInv'
<1> DEFINE r == [call[t] EXCEPT !.wake = 0]
<1>1. /\ call[t] \in CallType /\ CallOk(call[t])
      /\ call[t].pc = "throttled" /\ call[t].conn = NoOne
  BY DEF IInv, CallsOk, CallOk, Wake, At
<1>2. Ready(r)
  <2>1. /\ r \in CallType /\ r.conn = NoOne /\ r.sent = call[t].sent
        /\ r.network = call[t].network /\ r.statuses = call[t].statuses
        /\ r.allowed = call[t].allowed /\ r.redirects = call[t].redirects
        /\ r.header = call[t].header /\ r.host = call[t].host
        /\ r.redirected = call[t].redirected
    BY <1>1 DEF CallType
  <2>2. HeaderOk(r)
    BY <1>1, <2>1 DEF CallOk, HeaderOk
  <2> QED
    BY <1>1, <2>1, <2>2 DEF Ready, CallOk, Budget, Waiting, Due
<1>3. PICK x : Continues(t, x) /\ ~Uses(x) /\ x.pc # "throttled"
  BY <1>2, AcquireContinues DEF Wake, IInv
<1>4. /\ rate' = [rate EXCEPT !.usage = 1]
      /\ window' = [admitted |-> window.admitted + 1, slept |-> TRUE]
      /\ UNCHANGED <<setup, session, conns, now, started>>
  BY DEF Wake, AdmittedAfterSleep, Step
<1>5. rate.flush # NotSet
  BY <1>1 DEF IInv, RateOk
<1>6. /\ rate'.flush = rate.flush
      /\ rate' \in [flush : Nat \cup {NotSet}, usage : Nat]
  BY <1>4 DEF IInv, TypeOK
<1>7. window.admitted + 1 \in Nat
  BY DEF IInv, TypeOK
<1>8. RateOk' /\ ThrottleType'
  BY <1>4, <1>5, <1>6, <1>7 DEF RateOk, ThrottleType
<1>9. started' \in Nat
  BY <1>4 DEF IInv, TypeOK
<1> QED BY <1>3, <1>4, <1>8, <1>9, SameSockets DEF Outcome

(* Errors of the network, broken answers and timeouts. *)
LEMMA ErrorsKeep ==
    ASSUME IInv, NEW t \in Calls,
           Refused(t) \/ ConnectionError(t) \/ Broken(t) \/ Timeout(t)
    PROVE  IInv'
<1>1. /\ NetworkError(t, call[t]) \/ Fails(t, call[t])
      /\ UNCHANGED <<setup, session, conns, now, started>>
  BY DEF Refused, ConnectionError, Broken, Timeout, Step
<1>2. started' \in Nat
  BY <1>1 DEF IInv, TypeOK
<1> QED
  BY <1>1, <1>2, NetworkErrorContinues, FailsContinues, SameSockets

(* The request is on its way: the call goes on with its socket. *)
LEMMA DrainedKeeps ==
    ASSUME IInv, NEW t \in Calls, Drained(t)
    PROVE  IInv'
<1> DEFINE x == [call[t] EXCEPT !.pc = "headers"]
<1>1. /\ call[t] \in CallType /\ CallOk(call[t]) /\ call[t].pc = "sending"
      /\ call' = [call EXCEPT ![t] = x]
      /\ UNCHANGED <<setup, session, conns, pools, now, started, rate,
                     window>>
  BY DEF IInv, CallsOk, CallOk, Drained, At, Step, network, throttle
<1>2. /\ x \in CallType /\ x.pc = "headers" /\ x.conn = call[t].conn
      /\ x.sent = call[t].sent
      /\ x.network = call[t].network /\ x.statuses = call[t].statuses
      /\ x.allowed = call[t].allowed /\ x.redirects = call[t].redirects
      /\ x.header = call[t].header /\ x.host = call[t].host
      /\ x.redirected = call[t].redirected
  BY <1>1 DEF CallType, Awaiting
<1>3. CallOk(x)
  BY <1>1, <1>2 DEF CallOk, Budget, HeaderOk, Waiting, Due
<1>4. Continues(t, x)
  BY <1>1, <1>2, <1>3, SamePools DEF Continues, IInv
<1>5. RateOk' /\ ThrottleType'
  BY <1>1, <1>2 DEF IInv, TypeOK, RateOk, ThrottleType
<1>6. Uses(call[t])
  BY <1>1 DEF Uses
<1>7. conns' \in [Conns -> ConnType] /\ started' \in Nat
  BY <1>1 DEF IInv, TypeOK
<1> QED BY <1>1, <1>4, <1>5, <1>6, <1>7, CallStep
-----------------------------------------------------------------------------
(* Responses that are complete: n tasks will release the socket.           *)
LEMMA CompletesType ==
    ASSUME IInv, NEW c, NEW n \in Nat, NEW reply \in Replies,
           Completes(c, n, reply)
    PROVE  /\ conns' \in [Conns -> ConnType]
           /\ \A d \in Conns :
                 /\ conns'[d].state = conns[d].state
                 /\ conns'[d].host = conns[d].host
                 /\ \/ conns'[d].releases = conns[d].releases
                    \/ d = c /\ n # 0
<1> DEFINE v == [[conns[c] EXCEPT !.releases = @ + n] EXCEPT
                    !.keep = reply.keep]
<1>1. CASE c \in Conns
  <2>1. conns[c] \in ConnType /\ reply.keep \in BOOLEAN
    BY <1>1, ClientAssumption DEF IInv, TypeOK
  <2>2. /\ v \in ConnType /\ v.state = conns[c].state
        /\ v.host = conns[c].host /\ v.releases = conns[c].releases + n
    <3> DEFINE w == [conns[c] EXCEPT !.releases = @ + n]
    <3>1. /\ w \in ConnType /\ w.state = conns[c].state
          /\ w.host = conns[c].host /\ w.releases = conns[c].releases + n
      BY <2>1 DEF ConnType
    <3>2. v = [w EXCEPT !.keep = reply.keep]
      OBVIOUS
    <3> HIDE DEF w, v
    <3> QED BY <2>1, <3>1, <3>2 DEF ConnType
  <2>3. conns' = [conns EXCEPT ![c] = v]
    BY <1>1, <2>1 DEF Completes, IInv, TypeOK, ConnType
  <2>4. \A d \in Conns : conns'[d] = IF d = c THEN v ELSE conns[d]
    BY <1>1, <2>3 DEF IInv, TypeOK
  <2>5. conns[c].releases \in Nat
    BY <2>1 DEF ConnType
  <2>6. conns' \in [Conns -> ConnType]
    BY <2>2, <2>3 DEF IInv, TypeOK
  <2> HIDE DEF v
  <2>7. n = 0 => conns'[c].releases = conns[c].releases
    BY <1>1, <2>2, <2>4, <2>5
  <2> QED BY <2>2, <2>4, <2>6, <2>7
<1>2. CASE c \notin Conns
  <2>1. conns' = conns
    BY <1>2 DEF Completes, IInv, TypeOK
  <2> QED BY <2>1 DEF IInv, TypeOK
<1> QED BY <1>1, <1>2

(* After the body: the socket is given back, and the call needs it no more. *)
LEMMA AfterContentContinues ==
    ASSUME IInv, NEW t \in Calls, NEW r \in CallType, AfterContent(t, r),
           HeaderOk(r), r.sent + r.network + r.statuses <= r.allowed,
           r.reply \in Replies, r.conn = call[t].conn,
           r.stream => r.reply.location # NoOne, UNCHANGED now
    PROVE  Outcome(t)
<1>1. CASE r.reply.location # NoOne
  BY <1>1, RedirectContinues DEF AfterContent
<1>2. CASE r.reply.location = NoOne
  <2>1. Answered(t, r)
    BY <1>2 DEF AfterContent
  <2>2. Result(t, r)
    BY <2>1, AnsweredContinues
  <2>3. ~Streams(r)
    BY <1>2 DEF Streams, CallType
  <2> QED BY <2>2, <2>3 DEF Outcome, Result
<1> QED BY <1>1, <1>2

(* A step that completes the response of a call and ends its use.          *)
LEMMA CompletesStep ==
    ASSUME IInv, NEW t \in Calls, NEW n \in Nat, NEW reply \in Replies,
           Completes(call[t].conn, n, reply), Outcome(t), Step
    PROVE  IInv'
<1>1. PICK x : Continues(t, x) /\ ~Uses(x)
  BY DEF Outcome
<1>2. UNCHANGED <<setup, session, now, started>> /\ started' \in Nat
  BY DEF Step, IInv, TypeOK
<1>3. /\ conns' \in [Conns -> ConnType]
      /\ \A d \in Conns :
            /\ conns'[d].state = conns[d].state
            /\ conns'[d].host = conns[d].host
            /\ \/ conns'[d].releases = conns[d].releases
               \/ d = call[t].conn
  BY CompletesType
<1> QED BY <1>1, <1>2, <1>3, CallStep DEF Outcome

(* The body is there. *)
LEMMA ReadContentKeeps ==
    ASSUME IInv, NEW t \in Calls, ReadContent(t)
    PROVE  IInv'
<1>1. /\ CallOk(call[t]) /\ call[t] \in CallType /\ call[t].pc = "body"
      /\ Completes(call[t].conn, 1, call[t].reply)
      /\ AfterContent(t, call[t]) /\ Step
  BY DEF ReadContent, At, IInv, CallsOk, CallOk
<1>2. /\ HeaderOk(call[t]) /\ call[t].reply \in Replies
      /\ call[t].stream => call[t].reply.location # NoOne
      /\ call[t].sent + call[t].network + call[t].statuses <= call[t].allowed
  BY <1>1 DEF CallOk, Budget, Waiting, CallType
<1>3. Outcome(t)
  BY <1>1, <1>2, AfterContentContinues DEF Step
<1> QED BY <1>1, <1>2, <1>3, CompletesStep

(* The headers are there, and perhaps all there is.                       *)
LEMMA ReceiveHeadersKeeps ==
    ASSUME IInv, NEW t \in Calls, NEW reply \in setup.replies,
           ReceiveHeaders(t, reply)
    PROVE  IInv'
<1> DEFINE r == [call[t] EXCEPT !.reply = reply]
           reads == ~r.stream \/ reply.location # NoOne
<1>1. reply \in Replies
  BY ClientAssumption DEF IInv, TypeOK
<1>2. /\ CallOk(call[t]) /\ call[t] \in CallType
      /\ call[t].pc = "headers" /\ Step
  BY DEF ReceiveHeaders, At, IInv, CallsOk, CallOk
<1>3. /\ r \in CallType /\ r.reply = reply /\ r.pc = "headers"
      /\ r.conn = call[t].conn /\ r.stream = call[t].stream
      /\ r.sent = call[t].sent /\ r.allowed = call[t].allowed
      /\ r.network = call[t].network /\ r.statuses = call[t].statuses
      /\ r.header = call[t].header /\ r.host = call[t].host
      /\ r.redirects = call[t].redirects
      /\ r.redirected = call[t].redirected
  BY <1>1, <1>2 DEF CallType
<1>4. /\ HeaderOk(r) /\ r.sent + r.network + r.statuses <= r.allowed
  BY <1>2, <1>3 DEF CallOk, Budget, HeaderOk, Waiting, CallType
<1>5. Fed(reply.kind) \in Nat /\ ReadAtOnce(reply.kind) \in Nat
  BY DEF Fed, ReadAtOnce
<1>6. /\ UNCHANGED <<setup, session, now, started>> /\ started' \in Nat
      /\ Uses(call[t])
  BY <1>2 DEF Step, IInv, TypeOK, Uses
<1>7. CASE ~reads /\ Completes(r.conn, Fed(reply.kind), reply)
              /\ Answered(t, r)
  <2>5. /\ Answered(t, r) /\ Completes(call[t].conn, Fed(reply.kind), reply)
    BY <1>3, <1>7
  <2> HIDE DEF r
  <2>0. Result(t, r)
    <3>1. r.reply \in Replies /\ UNCHANGED now
      BY <1>1, <1>3, <1>6
    <3> QED BY <1>3, <1>4, <2>5, <3>1, AnsweredContinues
  <2>1. PICK x : Continues(t, x) /\ (Uses(x) => Streams(r))
    BY <2>0 DEF Result
  <2>2. RateOk' /\ ThrottleType'
    BY <2>0 DEF Result
  <2>3. Streams(r) => Fed(reply.kind) = 0
    BY <1>3 DEF Streams, HasBody, Fed
  <2>6. PICK n \in Nat : n = Fed(reply.kind)
    BY <1>5
  <2>7. /\ conns' \in [Conns -> ConnType]
        /\ \A d \in Conns :
              /\ conns'[d].state = conns[d].state
              /\ conns'[d].host = conns[d].host
              /\ \/ conns'[d].releases = conns[d].releases
                 \/ d = call[t].conn /\ n # 0
    <3>1. Completes(call[t].conn, n, reply)
      BY <2>5, <2>6
    <3> QED BY <1>1, <3>1, CompletesType
  <2>8. n # 0 => ~Uses(x)
    BY <2>1, <2>3, <2>6
  <2>4. /\ conns' \in [Conns -> ConnType]
        /\ \A d \in Conns :
              /\ conns'[d].state = conns[d].state
              /\ conns'[d].host = conns[d].host
              /\ \/ conns'[d].releases = conns[d].releases
                 \/ d = call[t].conn /\ ~Uses(x)
    BY <2>7, <2>8
  <2> QED BY <1>6, <2>1, <2>2, <2>4, CallStep
<1>8. CASE /\ reads /\ HasBody(reply.kind)
           /\ call' = [call EXCEPT ![t] = [r EXCEPT !.pc = "body"]]
           /\ UNCHANGED <<network, throttle>>
  <2> DEFINE x == [r EXCEPT !.pc = "body"]
  <2>1. /\ x \in CallType /\ x.pc = "body" /\ x.reply = reply
        /\ x.conn = call[t].conn /\ x.stream = r.stream
        /\ x.sent = r.sent /\ x.allowed = r.allowed
        /\ x.network = r.network /\ x.statuses = r.statuses
        /\ x.header = r.header /\ x.host = r.host
        /\ x.redirects = r.redirects /\ x.redirected = r.redirected
    BY <1>3 DEF CallType, Awaiting
  <2>2. CallOk(x)
    <3>0. x.sent + x.network + x.statuses <= x.allowed /\ HeaderOk(x)
      <4> HIDE DEF x, r, reads
      <4> QED BY <1>3, <1>4, <2>1 DEF HeaderOk
    <3>1. Budget(x) /\ HeaderOk(x)
      <4> HIDE DEF x, r, reads
      <4> QED BY <2>1, <3>0 DEF Budget, Waiting, CallType
    <3>2. x.stream => x.reply.location # NoOne
      BY <1>8, <2>1
    <3> HIDE DEF x, r, reads
    <3> QED BY <1>1, <2>1, <3>1, <3>2 DEF CallOk
  <2>3. UNCHANGED <<conns, pools, rate, window>>
    BY <1>8 DEF network, throttle
  <2>4. Continues(t, x)
    BY <1>8, <2>1, <2>2, <2>3, SamePools DEF Continues, IInv
  <2>5. RateOk' /\ ThrottleType'
    BY <1>6, <1>8, <2>1, <2>3 DEF IInv, TypeOK, RateOk, ThrottleType
  <2>6. conns' \in [Conns -> ConnType]
    BY <2>3 DEF IInv, TypeOK
  <2> QED BY <1>6, <2>3, <2>4, <2>5, <2>6, CallStep
<1>9. CASE /\ reads /\ Completes(r.conn, ReadAtOnce(reply.kind), reply)
           /\ Fails(t, r) \/ AfterContent(t, r)
  <2>1. Outcome(t)
    BY <1>1, <1>3, <1>4, <1>6, <1>9, FailsContinues, AfterContentContinues
  <2> QED BY <1>1, <1>2, <1>3, <1>5, <1>9, <2>1, CompletesStep
<1> QED BY <1>7, <1>8, <1>9 DEF ReceiveHeaders

(* The user has read the stream. *)
LEMMA ReadStreamKeeps ==
    ASSUME IInv, NEW t \in Calls, ReadStream(t)
    PROVE  IInv'
<1>1. /\ Completes(call[t].conn, 1, call[t].reply) /\ Step
      /\ call[t].pc = "none" /\ call[t].stream
      /\ Fails(t, call[t])
  BY DEF ReadStream, Unread, At, Fails
<1>2. call[t].reply \in Replies
  BY <1>1 DEF IInv, CallsOk, CallOk
<1>3. Outcome(t)
  BY <1>1, FailsContinues DEF Step
<1> QED BY <1>1, <1>2, <1>3, CompletesStep
-----------------------------------------------------------------------------
(* Sockets. *)

(* The probe closes the connection and takes it out of its pool. *)
LEMMA ProbeKeeps ==
    ASSUME IInv, NEW t \in Calls, Probe(t)
    PROVE  IInv'
<1> DEFINE x == [call[t] EXCEPT !.pc = "connect", !.conn = NoOne]
<1>0. PICK c, h : c = call[t].conn /\ h = call[t].host
  OBVIOUS
<1>1. /\ CallOk(call[t]) /\ call[t] \in CallType /\ call[t].pc = "probe"
      /\ conns' = [conns EXCEPT ![c] = Shut(@)]
      /\ pools' = [pools EXCEPT ![h] = Discarded(@, c)]
      /\ call' = [call EXCEPT ![t].pc = "connect", ![t].conn = NoOne]
      /\ UNCHANGED <<setup, session, started, now, rate, window>>
  BY <1>0 DEF Probe, At, Step, throttle, IInv, CallsOk, CallOk
<1>2. /\ call' = [call EXCEPT ![t] = x]
  BY <1>1 DEF IInv, TypeOK
<1>3. /\ x \in CallType /\ x.pc = "connect" /\ x.conn = NoOne
      /\ x.stream = call[t].stream
      /\ x.sent = call[t].sent /\ x.allowed = call[t].allowed
      /\ x.network = call[t].network /\ x.statuses = call[t].statuses
      /\ x.header = call[t].header /\ x.host = call[t].host
      /\ x.redirects = call[t].redirects
      /\ x.redirected = call[t].redirected
  BY <1>1 DEF CallType, Awaiting
<1>4. CallOk(x) /\ ~Uses(x)
  <2> HIDE DEF x
  <2> QED BY <1>1, <1>3 DEF CallOk, Budget, HeaderOk, Waiting, Due, Uses
<1>5. /\ h \in Hosts /\ c \in Conns \cup {NoOne}
      /\ \A u \in Calls : call'[u] = IF u = t THEN x ELSE call[u]
  <2> HIDE DEF x
  <2> QED BY <1>0, <1>1, <1>2 DEF CallType, IInv, TypeOK
<1> HIDE DEF x
<1>6. /\ pools' \in [Hosts -> PoolType]
      /\ \A g \in Hosts :
            /\ pools'[g].available = pools[g].available
            /\ \A d : d # c => (d \in pools'[g].connections
                                    <=> d \in pools[g].connections)
  <2>1. pools[h] \in PoolType
    BY <1>5 DEF IInv, TypeOK
  <2>2. /\ Discarded(pools[h], c) \in PoolType
        /\ Discarded(pools[h], c).available = pools[h].available
        /\ Discarded(pools[h], c).connections = pools[h].connections \ {c}
    BY <2>1 DEF Discarded, PoolType
  <2>3. \A g \in Hosts : pools'[g] = IF g = h THEN Discarded(pools[h], c)
                                                ELSE pools[g]
    BY <1>1, <1>5 DEF IInv, TypeOK
  <2>4. pools' \in [Hosts -> PoolType]
    BY <1>1, <1>5, <2>2 DEF IInv, TypeOK
  <2> QED BY <2>2, <2>3, <2>4
<1>7. /\ conns' \in [Conns -> ConnType]
      /\ \A d \in Conns : d # c => conns'[d] = conns[d]
      /\ c \in Conns => conns'[c].state # "open"
  <2>1. CASE c \in Conns
    <3>1. conns[c] \in ConnType
      BY <2>1 DEF IInv, TypeOK
    <3>2. Shut(conns[c]) \in ConnType /\ Shut(conns[c]).state = "closed"
      BY <3>1 DEF Shut, Unused, ConnType
    <3>3. \A d \in Conns : conns'[d] = IF d = c THEN Shut(conns[c])
                                                  ELSE conns[d]
      BY <1>1, <2>1 DEF IInv, TypeOK
    <3>4. conns' \in [Conns -> ConnType]
      BY <1>1, <2>1, <3>2 DEF IInv, TypeOK
    <3> QED BY <3>2, <3>3, <3>4
  <2>2. CASE c \notin Conns
    <3>1. conns' = conns
      BY <1>1, <2>2 DEF IInv, TypeOK
    <3> QED BY <2>2, <3>1 DEF IInv, TypeOK
  <2> QED BY <2>1, <2>2
<1>8. TypeOK'
  <2>1. call' \in [Calls -> CallType]
    BY <1>2, <1>3 DEF IInv, TypeOK
  <2> QED BY <1>1, <1>6, <1>7, <2>1 DEF IInv, TypeOK
<1>9. CallsOk'
  BY <1>4, <1>5 DEF IInv, CallsOk
<1>10. Owned'
  <2> SUFFICES ASSUME NEW d \in Conns, conns'[d].state = "open"
               PROVE  /\ conns'[d].host \in Hosts
                      /\ d \in pools'[conns'[d].host].connections
    BY DEF Owned
  <2>1. d # c /\ conns'[d] = conns[d]
    BY <1>7
  <2>2. conns[d].host \in Hosts /\ d \in pools[conns[d].host].connections
    BY <2>1 DEF IInv, Owned
  <2> QED BY <1>6, <2>1, <2>2
<1>11. ASSUME NEW d, Available(d)'
       PROVE  Available(d)
  BY <1>6, <1>11 DEF Available
<1>12. Exclusive'
  <2> SUFFICES ASSUME NEW u \in Calls, Uses(call[u])'
               PROVE  (/\ call[u].conn \in Conns
                       /\ conns[call[u].conn].releases = 0
                       /\ ~Available(call[u].conn)
                       /\ \A v \in Calls \ {u} :
                             call[v].conn # call[u].conn)'
    BY DEF Exclusive
  <2>1. u # t /\ call'[u] = call[u] /\ Uses(call[u])
    BY <1>4, <1>5
  <2>2. PICK d : d = call[u].conn
    OBVIOUS
  <2>3. /\ d \in Conns /\ conns[d].releases = 0 /\ ~Available(d)
        /\ \A v \in Calls \ {u} : call[v].conn # d
    BY <2>1, <2>2 DEF IInv, Exclusive
  <2>4. call'[u].conn = d /\ d # c
    BY <1>0, <2>1, <2>2, <2>3
  <2>5. conns'[d].releases = 0
    BY <1>7, <2>3, <2>4
  <2>6. ~Available(d)'
    BY <1>11, <2>3
  <2>7. ~Available(call[u].conn)'
    BY <2>4, <2>6 DEF Available
  <2>8. \A v \in Calls \ {u} : call'[v].conn # d
    BY <1>3, <1>5, <2>3, ClientAssumption
  <2> QED BY <2>3, <2>4, <2>5, <2>7, <2>8
<1>13. RateOk'
  BY <1>1, <1>3, <1>5 DEF IInv, RateOk
<1> QED BY <1>8, <1>9, <1>10, <1>12, <1>13 DEF IInv

(* A new socket is one that nobody remembers. *)
LEMMA ConnectedKeeps ==
    ASSUME IInv, NEW t \in Calls, Connected(t)
    PROVE  IInv'
<1> DEFINE r == call[t]
           x == [r EXCEPT !.pc = "sending", !.conn = Fresh,
                          !.sent = @ + (IF r.redirects = MaxRedirects
                                        THEN 1 ELSE 0),
                          !.header = IF @ = NoOne THEN r.host ELSE @]
<1>0. PICK c, h : c = Fresh /\ h = call[t].host
  OBVIOUS
<1>1. c \in Conns /\ Forgotten(c)
  BY <1>0 DEF Connected, Fresh
<1>2. /\ CallOk(r) /\ r \in CallType /\ r.pc = "connect"
      /\ conns' = [conns EXCEPT ![c] =
                      [Unused EXCEPT !.state = "open", !.host = h]]
      /\ pools' = [pools EXCEPT ![h] = Created(@, c)]
      /\ call' = [call EXCEPT ![t] = x]
      /\ UNCHANGED <<setup, session, started, now, rate, window>>
  BY <1>0 DEF Connected, At, Step, Sends, throttle, IInv, CallsOk, CallOk
<1>3. /\ x \in CallType /\ x.pc = "sending" /\ x.conn = c
      /\ x.sent = r.sent + Due(r) /\ x.allowed = r.allowed
      /\ x.network = r.network /\ x.statuses = r.statuses
      /\ x.header = (IF r.header = NoOne THEN r.host ELSE r.header)
      /\ x.host = r.host /\ x.redirects = r.redirects
      /\ x.redirected = r.redirected
  <2>1. Due(r) \in Nat
    BY DEF Due
  <2>2. x = [r EXCEPT !.pc = "sending", !.conn = c, !.sent = r.sent + Due(r),
                      !.header = IF r.header = NoOne THEN r.host
                                                     ELSE r.header]
    BY <1>0, <1>2 DEF Due, CallType
  <2>3. r.sent + Due(r) \in Nat
    BY <1>2, <2>1 DEF CallType
  <2> HIDE DEF x, r
  <2> QED BY <1>1, <1>2, <2>2, <2>3 DEF CallType, Awaiting
<1>4. CallOk(x)
  <2> HIDE DEF x, r
  <2>1. r.sent + r.network + r.statuses + Due(r) <= r.allowed
    BY <1>2 DEF CallOk, Budget, Waiting, CallType
  <2>2. Budget(x)
    <3>1. Due(r) \in Nat
      BY DEF Due
    <3> QED BY <1>2, <1>3, <2>1, <3>1 DEF Budget, Waiting, CallType
  <2>3. HeaderOk(x)
    BY <1>2, <1>3 DEF CallOk, HeaderOk
  <2>4. x.header # NoOne
    BY <1>2, <1>3, ClientAssumption DEF CallType
  <2> QED BY <1>3, <2>2, <2>3, <2>4 DEF CallOk
<1>5. /\ h \in Hosts
      /\ \A u \in Calls : call'[u] = IF u = t THEN x ELSE call[u]
  <2> HIDE DEF x
  <2> QED BY <1>0, <1>2 DEF CallType, IInv, TypeOK
<1> HIDE DEF x
<1>6. /\ pools' \in [Hosts -> PoolType]
      /\ \A g \in Hosts :
            /\ pools'[g].available = pools[g].available
            /\ pools[g].connections \subseteq pools'[g].connections
      /\ c \in pools'[h].connections
  <2>1. pools[h] \in PoolType
    BY <1>5 DEF IInv, TypeOK
  <2>2. /\ Created(pools[h], c) \in PoolType
        /\ Created(pools[h], c).available = pools[h].available
        /\ Created(pools[h], c).connections = pools[h].connections \cup {c}
    BY <1>1, <2>1 DEF Created, PoolType
  <2>3. \A g \in Hosts : pools'[g] = IF g = h THEN Created(pools[h], c)
                                                ELSE pools[g]
    BY <1>2, <1>5 DEF IInv, TypeOK
  <2>4. pools' \in [Hosts -> PoolType]
    BY <1>2, <1>5, <2>2 DEF IInv, TypeOK
  <2> QED BY <1>5, <2>2, <2>3, <2>4
<1>7. /\ conns' \in [Conns -> ConnType]
      /\ \A d \in Conns : d # c => conns'[d] = conns[d]
      /\ conns'[c].host = h /\ conns'[c].releases = 0
  <2> DEFINE w == [Unused EXCEPT !.state = "open", !.host = h]
  <2>1. w \in ConnType /\ w.host = h /\ w.releases = 0
    BY <1>5 DEF Unused, ConnType
  <2>2. conns' = [conns EXCEPT ![c] = w]
    BY <1>2
  <2> HIDE DEF w
  <2> QED BY <1>1, <2>1, <2>2 DEF IInv, TypeOK
<1>8. TypeOK'
  <2>1. call' \in [Calls -> CallType]
    BY <1>2, <1>3 DEF IInv, TypeOK
  <2> QED BY <1>2, <1>6, <1>7, <2>1 DEF IInv, TypeOK
<1>9. CallsOk'
  BY <1>4, <1>5 DEF IInv, CallsOk
<1>10. Owned'
  <2> SUFFICES ASSUME NEW d \in Conns, conns'[d].state = "open"
               PROVE  /\ conns'[d].host \in Hosts
                      /\ d \in pools'[conns'[d].host].connections
    BY DEF Owned
  <2>1. CASE d = c
    BY <1>5, <1>6, <1>7, <2>1
  <2>2. CASE d # c
    <3>1. conns'[d] = conns[d]
      BY <1>7, <2>2
    <3>2. conns[d].host \in Hosts /\ d \in pools[conns[d].host].connections
      BY <3>1 DEF IInv, Owned
    <3> QED BY <1>6, <3>1, <3>2
  <2> QED BY <2>1, <2>2
<1>11. ASSUME NEW d, Available(d)'
       PROVE  Available(d)
  BY <1>6, <1>11 DEF Available
<1>12. Exclusive'
  <2> SUFFICES ASSUME NEW u \in Calls, Uses(call[u])'
               PROVE  (/\ call[u].conn \in Conns
                       /\ conns[call[u].conn].releases = 0
                       /\ ~Available(call[u].conn)
                       /\ \A v \in Calls \ {u} :
                             call[v].conn # call[u].conn)'
    BY DEF Exclusive
  <2>1. CASE u = t
    <3>1. call'[u].conn = c
      BY <1>3, <1>5, <2>1
    <3>2. ~Available(c)
      BY <1>1 DEF Available, Forgotten
    <3>3. ~Available(c)'
      BY <1>11, <3>2
    <3>4. ~Available(call[u].conn)'
      BY <3>1, <3>3 DEF Available
    <3>5. \A v \in Calls \ {u} : call'[v].conn # c
      BY <1>1, <1>5, <2>1 DEF Forgotten
    <3> QED BY <1>1, <1>7, <3>1, <3>4, <3>5
  <2>2. CASE u # t
    <3>1. call'[u] = call[u] /\ Uses(call[u])
      BY <1>5, <2>2
    <3>2. PICK d : d = call[u].conn
      OBVIOUS
    <3>3. /\ d \in Conns /\ conns[d].releases = 0 /\ ~Available(d)
          /\ \A v \in Calls \ {u} : call[v].conn # d
      BY <3>1, <3>2 DEF IInv, Exclusive
    <3>4. call'[u].conn = d /\ d # c
      BY <1>1, <3>1, <3>2 DEF Forgotten
    <3>5. conns'[d].releases = 0
      BY <1>7, <3>3, <3>4
    <3>6. ~Available(d)'
      BY <1>11, <3>3
    <3>7. ~Available(call[u].conn)'
      BY <3>4, <3>6 DEF Available
    <3>8. \A v \in Calls \ {u} : call'[v].conn # d
      BY <1>3, <1>5, <3>3, <3>4
    <3> QED BY <3>3, <3>4, <3>5, <3>7, <3>8
  <2> QED BY <2>1, <2>2
<1>13. RateOk'
  BY <1>2, <1>3, <1>5 DEF IInv, RateOk
<1> QED BY <1>8, <1>9, <1>10, <1>12, <1>13 DEF IInv

(* Steps of sockets: those in use stay so, and nobody else gets them.      *)
LEMMA SocketStep ==
    ASSUME IInv, NEW S,
           UNCHANGED <<setup, call, started, rate, window, now>>,
           session' \in {"open", "closed"},
           conns' \in [Conns -> ConnType], pools' \in [Hosts -> PoolType],
           \A d \in Conns \ S : conns'[d].releases = conns[d].releases,
           \A d \in Conns \ S : Available(d)' => Available(d),
           \A d \in S : d \in Conns => conns[d].releases # 0,
           Owned'
    PROVE  IInv'
<1>1. TypeOK'
  BY DEF IInv, TypeOK
<1>2. CallsOk' /\ RateOk'
  BY DEF IInv, CallsOk, RateOk
<1>3. Exclusive'
  <2> SUFFICES ASSUME NEW u \in Calls, Uses(call[u])
               PROVE  (/\ call[u].conn \in Conns
                       /\ conns[call[u].conn].releases = 0
                       /\ ~Available(call[u].conn)
                       /\ \A v \in Calls \ {u} :
                             call[v].conn # call[u].conn)'
    BY DEF Exclusive
  <2>1. PICK d : d = call[u].conn
    OBVIOUS
  <2>2. /\ d \in Conns /\ conns[d].releases = 0 /\ ~Available(d)
        /\ \A v \in Calls \ {u} : call[v].conn # d
    BY <2>1 DEF IInv, Exclusive
  <2>3. d \notin S
    BY <2>2
  <2>4. ~Available(d)' /\ conns'[d].releases = 0
    BY <2>2, <2>3
  <2>5. ~Available(call[u].conn)'
    BY <2>1, <2>4 DEF Available
  <2> QED BY <2>1, <2>2, <2>4, <2>5
<1> QED BY <1>1, <1>2, <1>3 DEF IInv

(* A response is given back to its pool, or its socket is closed. *)
LEMMA ReleaseKeeps ==
    ASSUME IInv, NEW c \in Conns, Release(c)
    PROVE  IInv'
<1>0. PICK h : h = conns[c].host
  OBVIOUS
<1>1. /\ conns[c] \in ConnType /\ conns[c].releases # 0
      /\ UNCHANGED <<setup, session, call, started, rate, window, now>>
      /\ session' \in {"open", "closed"}
  BY DEF Release, Step, throttle, IInv, TypeOK
<1>2. /\ conns[c].releases \in Nat /\ conns[c].releases - 1 \in Nat
  BY <1>1 DEF ConnType, Release
<1>3. CASE /\ conns' = [conns EXCEPT ![c].releases = @ - 1]
           /\ pools' = [pools EXCEPT ![h] = Kept(@, c)]
  <2> DEFINE w == [conns[c] EXCEPT !.releases = @ - 1]
  <2>1. w \in ConnType /\ w.state = conns[c].state /\ w.host = conns[c].host
    BY <1>1, <1>2 DEF ConnType
  <2>2. conns' = [conns EXCEPT ![c] = w]
    BY <1>3
  <2> HIDE DEF w
  <2>3. /\ conns' \in [Conns -> ConnType]
        /\ \A d \in Conns : /\ conns'[d].state = conns[d].state
                            /\ conns'[d].host = conns[d].host
                            /\ d # c => conns'[d] = conns[d]
    BY <2>1, <2>2 DEF IInv, TypeOK
  <2>4. /\ pools' \in [Hosts -> PoolType]
        /\ \A g \in Hosts : pools'[g].connections = pools[g].connections
        /\ \A g \in Hosts :
              \A i \in 1..Len(pools'[g].available) :
                 \/ pools'[g].available[i] = c
                 \/ \E j \in 1..Len(pools[g].available) :
                       pools'[g].available[i] = pools[g].available[j]
    <3>1. CASE h \notin Hosts
      <4>1. pools' = pools
        BY <1>3, <3>1 DEF IInv, TypeOK
      <4> QED BY <4>1 DEF IInv, TypeOK
    <3>2. CASE h \in Hosts
      <4> DEFINE s == pools[h].available
                 k == <<c>> \o s
      <4>1. pools[h] \in PoolType /\ s \in Seq(Conns) /\ Len(s) \in Nat
        BY <3>2 DEF IInv, TypeOK, PoolType
      <4>2. /\ k \in Seq(Conns) /\ Len(k) = Len(s) + 1 /\ k[1] = c
            /\ \A i \in 1..Len(k) : i # 1 => i - 1 \in 1..Len(s)
                                              /\ k[i] = s[i - 1]
        BY <4>1
      <4>3. /\ Kept(pools[h], c) \in PoolType
            /\ Kept(pools[h], c).available = k
            /\ Kept(pools[h], c).connections = pools[h].connections
        BY <4>1, <4>2 DEF Kept, PoolType
      <4>4. \A g \in Hosts : pools'[g] = IF g = h THEN Kept(pools[h], c)
                                                    ELSE pools[g]
        BY <1>3, <3>2 DEF IInv, TypeOK
      <4>5. pools' \in [Hosts -> PoolType]
        BY <1>3, <3>2, <4>3 DEF IInv, TypeOK
      <4>6. ASSUME NEW g \in Hosts, NEW i \in 1..Len(pools'[g].available)
            PROVE  \/ pools'[g].available[i] = c
                   \/ \E j \in 1..Len(pools[g].available) :
                         pools'[g].available[i] = pools[g].available[j]
        <5> HIDE DEF k, s
        <5>1. CASE g = h
          <6>1. pools'[g].available = k
            BY <4>3, <4>4, <5>1
          <6>2. CASE i = 1
            BY <4>2, <6>1, <6>2
          <6>3. CASE i # 1
            <7>1. i - 1 \in 1..Len(s) /\ k[i] = s[i - 1]
              BY <4>2, <6>1, <6>3
            <7> QED BY <5>1, <6>1, <7>1 DEF s
          <6> QED BY <6>2, <6>3
        <5>2. CASE g # h
          <6>1. pools'[g] = pools[g]
            BY <4>4, <5>2
          <6> QED BY <6>1
        <5> QED BY <5>1, <5>2
      <4> QED BY <4>3, <4>4, <4>5, <4>6
    <3> QED BY <3>1, <3>2
  <2>5. ASSUME NEW d \in Conns \ {c}, Available(d)'
        PROVE  Available(d)
    <3>1. PICK g \in Hosts : d \in {pools'[g].available[i] :
                                    i \in 1..Len(pools'[g].available)}
      BY <2>5 DEF Available
    <3>2. PICK i \in 1..Len(pools'[g].available) :
              d = pools'[g].available[i]
      BY <3>1
    <3>3. PICK j \in 1..Len(pools[g].available) : d = pools[g].available[j]
      BY <2>4, <3>2
    <3> QED BY <3>3 DEF Available
  <2>6. Owned'
    BY <2>3, <2>4 DEF IInv, Owned
  <2>7. PICK S : S = {c}
    OBVIOUS
  <2>8. /\ \A d \in Conns \ S : conns'[d].releases = conns[d].releases
        /\ \A d \in Conns \ S : Available(d)' => Available(d)
        /\ \A d \in S : d \in Conns => conns[d].releases # 0
    BY <1>1, <2>3, <2>5, <2>7
  <2> QED BY <1>1, <2>3, <2>4, <2>6, <2>8, SocketStep
<1>4. CASE /\ conns' = [conns EXCEPT ![c] =
                           Shut([conns[c] EXCEPT !.releases = @ - 1])]
           /\ pools' = [pools EXCEPT ![h] = Discarded(@, c)]
  <2>0. PICK v : v = [conns[c] EXCEPT !.releases = @ - 1]
    OBVIOUS
  <2> DEFINE w == Shut(v)
  <2>1. w \in ConnType /\ w.state = "closed"
    <3>1. v \in ConnType
      BY <1>1, <1>2, <2>0 DEF ConnType
    <3> QED BY <3>1 DEF Shut, Unused, ConnType
  <2>2. conns' = [conns EXCEPT ![c] = w]
    BY <1>4, <2>0
  <2> HIDE DEF w
  <2>3. /\ conns' \in [Conns -> ConnType] /\ conns'[c].state = "closed"
        /\ \A d \in Conns : d # c => conns'[d] = conns[d]
    BY <2>1, <2>2 DEF IInv, TypeOK
  <2>4. /\ pools' \in [Hosts -> PoolType]
        /\ \A g \in Hosts :
              /\ pools'[g].available = pools[g].available
              /\ \A d : d # c /\ d \in pools[g].connections
                           => d \in pools'[g].connections
    <3>1. CASE h \notin Hosts
      <4>1. pools' = pools
        BY <1>4, <3>1 DEF IInv, TypeOK
      <4> QED BY <4>1 DEF IInv, TypeOK
    <3>2. CASE h \in Hosts
      <4>1. pools[h] \in PoolType
        BY <3>2 DEF IInv, TypeOK
      <4>2. /\ Discarded(pools[h], c) \in PoolType
            /\ Discarded(pools[h], c).available = pools[h].available
            /\ Discarded(pools[h], c).connections =
                   pools[h].connections \ {c}
        BY <4>1 DEF Discarded, PoolType
      <4>3. \A g \in Hosts : pools'[g] = IF g = h
                                         THEN Discarded(pools[h], c)
                                         ELSE pools[g]
        BY <1>4, <3>2 DEF IInv, TypeOK
      <4>4. pools' \in [Hosts -> PoolType]
        BY <1>4, <3>2, <4>2 DEF IInv, TypeOK
      <4> QED BY <4>2, <4>3, <4>4
    <3> QED BY <3>1, <3>2
  <2>5. \A d : Available(d)' => Available(d)
    BY <2>4 DEF Available
  <2>6. Owned'
    <3> SUFFICES ASSUME NEW d \in Conns, conns'[d].state = "open"
                 PROVE  /\ conns'[d].host \in Hosts
                        /\ d \in pools'[conns'[d].host].connections
      BY DEF Owned
    <3>1. d # c /\ conns'[d] = conns[d]
      BY <2>3
    <3>2. conns[d].host \in Hosts /\ d \in pools[conns[d].host].connections
      BY <3>1 DEF IInv, Owned
    <3> QED BY <2>4, <3>1, <3>2
  <2>7. PICK S : S = {c}
    OBVIOUS
  <2>8. /\ \A d \in Conns \ S : conns'[d].releases = conns[d].releases
        /\ \A d \in S : d \in Conns => conns[d].releases # 0
    BY <1>1, <2>3, <2>7
  <2> QED BY <1>1, <2>3, <2>4, <2>5, <2>6, <2>8, SocketStep
<1> QED BY <1>0, <1>3, <1>4 DEF Release

(* Resets and Session.close() change nothing but the states of sockets.    *)
LEMMA StatesKeep ==
    ASSUME IInv, (\E c \in Conns : PeerResets(c)) \/ Close
    PROVE  IInv'
<1>1. /\ UNCHANGED <<setup, pools, call, started, rate, window, now>>
      /\ session' \in {"open", "closed"}
  BY DEF PeerResets, Close, Step, throttle, IInv, TypeOK
<1>2. /\ conns' \in [Conns -> ConnType]
      /\ \A d \in Conns : /\ conns'[d].releases = conns[d].releases
                          /\ conns'[d].host = conns[d].host
                          /\ conns'[d].state = "open"
                                => conns[d].state = "open"
  <2>1. ASSUME NEW d \in Conns, NEW v \in {"open", "closed", "reset"}
        PROVE  /\ [conns[d] EXCEPT !.state = v] \in ConnType
               /\ [conns[d] EXCEPT !.state = v].releases = conns[d].releases
               /\ [conns[d] EXCEPT !.state = v].host = conns[d].host
               /\ [conns[d] EXCEPT !.state = v].state = v
    <3>1. conns[d] \in ConnType
      BY DEF IInv, TypeOK
    <3> QED BY <3>1 DEF ConnType
  <2>2. CASE \E c \in Conns : PeerResets(c)
    <3>1. PICK c \in Conns :
              conns' = [conns EXCEPT ![c] =
                           [conns[c] EXCEPT !.state = "reset"]]
      BY <2>2 DEF PeerResets
    <3>2. PICK w : w = [conns[c] EXCEPT !.state = "reset"]
      OBVIOUS
    <3>3. /\ w \in ConnType /\ w.releases = conns[c].releases
          /\ w.host = conns[c].host /\ w.state = "reset"
      BY <2>1, <3>2
    <3> QED BY <3>1, <3>2, <3>3 DEF IInv, TypeOK
  <2>3. CASE Close
    <3>1. /\ DOMAIN conns' = Conns
          /\ conns' = [c \in Conns |-> conns'[c]]
          /\ \A c \in Conns :
                \/ conns'[c] = [conns[c] EXCEPT !.state = "closed"]
                \/ conns'[c] = conns[c]
      BY <2>3 DEF Close
    <3>2. \A c \in Conns : conns[c] \in ConnType
      BY DEF IInv, TypeOK
    <3>3. ASSUME NEW d \in Conns
          PROVE  /\ conns'[d] \in ConnType
                 /\ conns'[d].releases = conns[d].releases
                 /\ conns'[d].host = conns[d].host
                 /\ conns'[d].state = "open" => conns[d].state = "open"
      <4>1. CASE conns'[d] = conns[d]
        BY <3>2, <4>1
      <4>2. CASE conns'[d] = [conns[d] EXCEPT !.state = "closed"]
        BY <2>1, <4>2
      <4> QED BY <3>1, <4>1, <4>2
    <3> QED BY <3>1, <3>3
  <2> QED BY <2>2, <2>3
<1>3. pools' \in [Hosts -> PoolType] /\ \A d : Available(d)' => Available(d)
  BY <1>1 DEF IInv, TypeOK, Available
<1>4. Owned'
  BY <1>1, <1>2 DEF IInv, Owned
<1>5. PICK S : S = {}
  OBVIOUS
<1>6. /\ \A d \in Conns \ S : conns'[d].releases = conns[d].releases
      /\ \A d \in S : d \in Conns => conns[d].releases # 0
  BY <1>2, <1>5
<1> QED BY <1>1, <1>2, <1>3, <1>4, <1>6, SocketStep

(* The clock ticks: nothing comes back into the period. *)
LEMMA TickKeeps ==
    ASSUME IInv, Tick
    PROVE  IInv'
<1>1. /\ now' = now + 1 /\ now \in Nat
      /\ UNCHANGED <<setup, session, conns, pools, call, started, rate,
                     window>>
  BY DEF Tick, network, throttle, IInv, TypeOK
<1>2. rate.flush \in Nat \cup {NotSet}
  BY DEF IInv, TypeOK
<1>3. now >= rate.flush => now' >= rate'.flush
  BY <1>1, <1>2 DEF NotSet
<1>4. RateOk'
  BY <1>1, <1>3 DEF IInv, RateOk
<1>5. TypeOK'
  BY <1>1 DEF IInv, TypeOK
<1>6. CallsOk' /\ Owned'
  BY <1>1 DEF IInv, CallsOk, Owned
<1>7. Exclusive'
  BY <1>1 DEF IInv, Exclusive, Available
<1> QED BY <1>4, <1>5, <1>6, <1>7 DEF IInv

(* A step that changes nothing. *)
LEMMA StutterKeeps == IInv /\ UNCHANGED vars => IInv'
<1> SUFFICES ASSUME IInv, UNCHANGED vars PROVE IInv'
  OBVIOUS
<1>1. UNCHANGED <<setup, session, conns, pools, call, started, rate, window,
                  now>>
  BY DEF vars, network, throttle
<1>2. TypeOK' /\ RateOk'
  BY <1>1 DEF IInv, TypeOK, RateOk
<1>3. CallsOk' /\ Owned'
  BY <1>1 DEF IInv, CallsOk, Owned
<1>4. Exclusive'
  BY <1>1 DEF IInv, Exclusive, Available
<1> QED BY <1>2, <1>3, <1>4 DEF IInv

(* Every step of calls, sockets, the user and the clock keeps the above.   *)
LEMMA NextIInv == IInv /\ [Next]_vars => IInv'
<1> SUFFICES ASSUME IInv, [Next]_vars PROVE IInv'
  OBVIOUS
<1>1. CASE UNCHANGED vars
  BY <1>1, StutterKeeps
<1>2. CASE \E t \in Calls, m \in setup.methods, stream \in setup.stream,
              p \in setup.policies : Start(t, m, stream, p)
  BY <1>2, StartKeeps
<1>3. CASE \E t \in Calls, reply \in setup.replies : ReceiveHeaders(t, reply)
  BY <1>3, ReceiveHeadersKeeps
<1>4. CASE \E t \in Calls :
              \/ Wake(t) \/ Probe(t) \/ Connected(t) \/ Refused(t)
              \/ Drained(t) \/ ReadContent(t) \/ ConnectionError(t)
              \/ Broken(t) \/ Timeout(t) \/ ReadStream(t)
  BY <1>4, WakeKeeps, ProbeKeeps, ConnectedKeeps, ErrorsKeep, DrainedKeeps,
     ReadContentKeeps, ReadStreamKeeps
<1>5. CASE \E c \in Conns : Release(c)
  BY <1>5, ReleaseKeeps
<1>6. CASE (\E c \in Conns : PeerResets(c)) \/ Close
  BY <1>6, StatesKeep
<1>7. CASE Tick
  BY <1>7, TickKeeps
<1> QED BY <1>1, <1>2, <1>3, <1>4, <1>5, <1>6, <1>7 DEF Next
-----------------------------------------------------------------------------
(* The types of Client, and all that the theorems below rest on: a socket  *)
(* in use is out of everybody's reach, what is left of a strategy pays for *)
(* the requests to come, and the limiter's usage is what it has admitted.  *)
THEOREM Invariance == Spec => []IInv
BY InitIInv, NextIInv, PTL DEF Spec

(* No socket with a response to come is used by another call, in the pool  *)
(* or about to go there.                                                   *)
THEOREM SocketsAreExclusive == Spec => []ExclusiveUse
<1>1. IInv => ExclusiveUse
  <2> SUFFICES ASSUME IInv, NEW t \in Calls, Using(t)
               PROVE  /\ ~Pooled(call[t].conn)
                      /\ \A u \in Calls \ {t} :
                            Using(u) => call[u].conn # call[t].conn
    BY DEF ExclusiveUse
  <2>1. Uses(call[t])
    BY DEF Using, Uses, Unread, At
  <2>2. PICK c : c = call[t].conn
    OBVIOUS
  <2>3. /\ c \in Conns /\ conns[c].releases = 0 /\ ~Available(c)
        /\ \A u \in Calls \ {t} : call[u].conn # c
    BY <2>1, <2>2 DEF IInv, Exclusive
  <2>4. ~Pooled(c)
    BY <2>3 DEF Pooled, Available
  <2> QED BY <2>2, <2>3, <2>4
<1> QED BY <1>1, Invariance, PTL

(* Every open socket is in the set that its server's pool closes.          *)
THEOREM OpenSocketsAreOwned == Spec => []OpenIsOwned
<1>1. IInv => OpenIsOwned
  BY DEF IInv, Owned, OpenIsOwned
<1> QED BY <1>1, Invariance, PTL

(* A request is written no more often than its strategy allows.            *)
THEOREM RetriesArePaidFor == Spec => []RetriesAreAllowed
<1>1. IInv => RetriesAreAllowed
  <2> SUFFICES ASSUME IInv, NEW t \in Calls
               PROVE  call[t].sent <= call[t].allowed
    BY DEF RetriesAreAllowed
  <2>1. call[t] \in CallType /\ Budget(call[t])
    BY DEF IInv, CallsOk, CallOk
  <2> QED BY <2>1 DEF Budget, Due, CallType
<1> QED BY <1>1, Invariance, PTL

(* A request carries the Host of its server, or one that a redirect left.  *)
THEOREM HostsAreRight == Spec => []HostIsRight
<1>1. IInv => HostIsRight
  BY DEF IInv, CallsOk, CallOk, HeaderOk, HostIsRight, At
<1> QED BY <1>1, Invariance, PTL

(* Until a sleep ends, a limiter of one request or more admits no more of  *)
(* them in its period than it allows.                                      *)
THEOREM LimiterKeepsCount ==
    ASSUME Count > 0
    PROVE  Spec => []WindowRespected
<1>1. IInv => WindowRespected
  BY RateAssumption DEF IInv, RateOk, TypeOK, WindowRespected
<1> QED BY <1>1, Invariance, PTL
=============================================================================
