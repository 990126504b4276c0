------------------------------- MODULE Client -------------------------------
(***************************************************************************)
(* vibora/client: calls of Session.request() that share one HTTPEngine.    *)
(* A call is a coroutine; an action is what it does from one await to the  *)
(* next.  conns are the sockets, with the response parser's verdict on     *)
(* keep-alive and the release tasks that on_message_complete() created.    *)
(***************************************************************************)
EXTENDS Integers, FiniteSets, ConnectionPool, RequestRate

CONSTANTS
    Calls,         \* bound: the tasks that call Session.request()
    Conns,         \* bound: the sockets that may be open or remembered
    Hosts, Home,   \* servers, and the one of the url the user asks for
    NoOne,         \* no host, no connection, no reply
    Replies,       \* what a server may answer
    MaxRedirects,  \* the argument max_redirects
    MaxRetries,    \* bound: what policies allow
    MaxTime,       \* bound: the clock
    Setups         \* the sessions and networks to consider

Methods == {"GET", "POST"}

(* The dicts RetryStrategy.network_failures may be. *)
Failures == UNION {[ms -> 0..MaxRetries] : ms \in SUBSET Methods}

ASSUME ClientAssumption ==
    /\ Home \in Hosts /\ NoOne \notin Hosts \cup Conns \cup Replies
    /\ \A r \in Replies :
           r.location \in Hosts \cup {NoOne} /\ r.keep \in BOOLEAN
    /\ MaxRedirects \in Nat /\ MaxRetries \in Nat \ {0} /\ MaxTime \in Nat
    /\ \A s \in Setups :
           /\ s.replies \subseteq Replies /\ s.stream \subseteq BOOLEAN
           /\ s.methods \subseteq Methods /\ s.calls \in Nat
           /\ s.policies \subseteq
                  [network : Failures, statuses : 0..MaxRetries]

VARIABLES
    setup,    \* keepAlive, limited, timeout (of the session), methods,
              \* stream, policies (what users ask for), replies, faults and
              \* closed (what happens), calls (bound: how many are started)
    session,  \* whether Session.close() was called
    conns,    \* socket state, host, parser's keep-alive, release tasks
    pools,    \* HTTPEngine.pools
    call,     \* the calls
    started,  \* number of calls begun
    rate,     \* the session's RequestRate
    now,      \* time()
    window    \* requests admitted since the limiter's period was opened,
              \* and whether one of them had slept

network == <<conns, pools>>
throttle == <<rate, window>>
vars == <<setup, session, network, call, started, throttle, now>>

Awaiting == {"throttled", "probe", "connect", "sending", "headers", "body"}

Unused == [state |-> "closed", host |-> NoOne, keep |-> FALSE, releases |-> 0]

(* A closed socket is remembered while a task will give it back. *)
Shut(conn) ==
    IF conn.releases = 0 THEN Unused ELSE [conn EXCEPT !.state = "closed"]

NoCall ==
    [pc |-> "none", stream |-> FALSE, method |-> "GET",
     current |-> "GET", host |-> Home, header |-> NoOne, conn |-> NoOne,
     reply |-> NoOne, redirects |-> 0, redirected |-> FALSE, network |-> 0,
     statuses |-> 0, sent |-> 0, allowed |-> 0, wake |-> 0]

Init ==
    /\ setup \in Setups
    /\ session = "open"
    /\ conns = [c \in Conns |-> Unused]
    /\ pools = [h \in Hosts |-> EmptyPool]
    /\ call = [t \in Calls |-> NoCall]
    /\ started = 0
    /\ rate = NewRate /\ now = 0
    /\ window = [admitted |-> 0, slept |-> FALSE]
-----------------------------------------------------------------------------
(* RetryStrategy: an empty dict, unlike one with {'GET': 0}, is taken for  *)
(* a missing one; the clone that request() makes keeps the caller's        *)
(* strategy as it was.                                                     *)

NetworkFailures(policy, method) ==
    CASE method \in DOMAIN policy.network -> policy.network[method]
      [] DOMAIN policy.network = {} /\ method = "GET" -> 1
      [] OTHER -> 0

(* The next turn of the loop in Session.request(): url and method are the  *)
(* user's, the dict of headers is the one the last turn worked on.         *)
Again(r) ==
    [r EXCEPT !.current = r.method, !.host = Home, !.conn = NoOne,
              !.reply = NoOne, !.redirects = MaxRedirects]

(* An exception leaves Session.request(); its connection stays where it is. *)
Fails(t, r) ==
    /\ call' = [call EXCEPT ![t] = NoCall]
    /\ UNCHANGED <<pools, throttle>>

(* What is left of a call that returned: a stream to read, or nothing. *)
Returned(r) ==
    IF r.stream
    THEN [NoCall EXCEPT !.stream = TRUE, !.conn = r.conn, !.reply = r.reply]
    ELSE NoCall

(* get_connection() up to its first await. *)
Acquire(t, r) ==
    \/ /\ HasAvailable(pools[r.host])
       /\ call' = [call EXCEPT ![t] =
              [r EXCEPT !.pc = "probe", !.conn = Popped(pools[r.host])]]
       /\ pools' = [pools EXCEPT ![r.host] = Rest(@)]
    \/ /\ ~HasAvailable(pools[r.host])
       /\ call' = [call EXCEPT ![t] = [r EXCEPT !.pc = "connect"]]
       /\ UNCHANGED pools

(* HTTPEngine.request() up to its first await: throttle() and the pool. *)
Issue(t, r) ==
    \/ ~setup.limited /\ Acquire(t, r) /\ UNCHANGED throttle
    \/ /\ setup.limited /\ ~MustSleep(rate, now)
       /\ rate' = Admitted(rate, now)
       /\ window' = IF Opens(rate, now)
                    THEN [admitted |-> 1, slept |-> FALSE]
                    ELSE [window EXCEPT !.admitted = @ + 1]
       /\ Acquire(t, r)
    \/ /\ setup.limited /\ MustSleep(rate, now)
       /\ call' = [call EXCEPT ![t] =
              [r EXCEPT !.pc = "throttled",
                        !.wake = now + WaitTime(rate, now)]]
       /\ UNCHANGED <<pools, throttle>>

(* Fault: the dict of failures is looked up, and not counted down. *)
NetworkErrorAgain(t, r) ==
    \/ r.network > 0 /\ Issue(t, Again(r))
    \/ r.network = 0 /\ Fails(t, r)

(* The except clause of Session.request(). *)
NetworkError(t, r) ==
    \/ r.network > 0 /\ Issue(t, Again([r EXCEPT !.network = @ - 1]))
    \/ r.network = 0 /\ Fails(t, r)

(* The end of HTTPEngine.request(), and of the loop in Session.request(). *)
Answered(t, r) ==
    \/ /\ r.reply.retry /\ r.statuses > 0
       /\ Issue(t, Again([r EXCEPT !.statuses = @ - 1]))
    \/ /\ ~(r.reply.retry /\ r.statuses > 0)
       /\ call' = [call EXCEPT ![t] = Returned(r)]
       /\ UNCHANGED <<pools, throttle>>

(* Fault: the dict of headers keeps the host it had. *)
HandleRedirectKeepsHost(t, r) ==
    \/ r.redirects = 0 /\ Fails(t, r)
    \/ /\ r.redirects > 0
       /\ Issue(t, [r EXCEPT !.current = "GET", !.host = r.reply.location,
                             !.conn = NoOne, !.reply = NoOne,
                             !.redirects = @ - 1, !.redirected = TRUE])

(* handle_redirect(): Host is set in the dict that all turns share. *)
HandleRedirect(t, r) ==
    \/ r.redirects = 0 /\ Fails(t, r)
    \/ /\ r.redirects > 0
       /\ Issue(t, [r EXCEPT !.current = "GET", !.host = r.reply.location,
                             !.header = r.reply.location,
                             !.conn = NoOne, !.reply = NoOne,
                             !.redirects = @ - 1, !.redirected = TRUE])

AfterContent(t, r) ==
    IF r.reply.location # NoOne THEN HandleRedirect(t, r) ELSE Answered(t, r)
-----------------------------------------------------------------------------
(* The calls. *)

At(t, pc) == call[t].pc = pc
ConnOf(t) == conns[call[t].conn]

Start(t, method, stream, policy) ==
    /\ call[t].pc \notin Awaiting /\ started < setup.calls
    /\ started' = started + 1
    /\ LET budget == NetworkFailures(policy, method) IN
       Issue(t, Again([NoCall EXCEPT
           !.stream = stream, !.method = method, !.network = budget,
           !.statuses = policy.statuses,
           !.allowed = 1 + budget + policy.statuses]))
    /\ UNCHANGED <<setup, session, conns, now>>

Step == UNCHANGED <<setup, session, started, now>>

(* The end of the sleep in notify(). *)
Wake(t) ==
    /\ At(t, "throttled") /\ now >= call[t].wake
    /\ rate' = AdmittedAfterSleep(rate)
    /\ window' = [admitted |-> window.admitted + 1, slept |-> TRUE]
    /\ Acquire(t, [call[t] EXCEPT !.wake = 0])
    /\ Step /\ UNCHANGED conns

(* Writing the request on socket c. *)
Sends(t, c) ==
    LET r == call[t]
        again == IF r.redirects = MaxRedirects THEN 1 ELSE 0
    IN  call' = [call EXCEPT ![t] =
            [r EXCEPT !.pc = "sending", !.conn = c, !.sent = @ + again,
                      !.header = IF @ = NoOne THEN r.host ELSE @]]

(* Fault: a connection that answers the probe is taken for alive. *)
ProbeTrusts(t) ==
    /\ At(t, "probe") /\ ConnOf(t).state # "reset"
    /\ Sends(t, call[t].conn)
    /\ Step /\ UNCHANGED <<network, throttle>>

(* is_dropped(): readexactly(0) returns at once, whatever the peer did, so *)
(* the connection is closed and another one is made.                       *)
Probe(t) ==
    /\ At(t, "probe") /\ ConnOf(t).state # "reset"
    /\ LET c == call[t].conn IN
       /\ conns' = [conns EXCEPT ![c] = Shut(@)]
       /\ pools' = [pools EXCEPT ![call[t].host] = Discarded(@, c)]
    /\ call' = [call EXCEPT ![t].pc = "connect", ![t].conn = NoOne]
    /\ Step /\ UNCHANGED throttle

Forgotten(c) ==
    /\ conns[c].state # "open" /\ conns[c].releases = 0
    /\ \A h \in Hosts : /\ c \notin pools[h].connections
                        /\ \A i \in 1..Len(pools[h].available) :
                               c # pools[h].available[i]
    /\ \A t \in Calls : call[t].conn # c

(* The name of a new socket. *)
Fresh == CHOOSE c \in Conns : Forgotten(c)

(* open_connection() returns; the request is written. *)
Connected(t) ==
    /\ At(t, "connect") /\ \E c \in Conns : Forgotten(c)
    /\ conns' = [conns EXCEPT ![Fresh] =
           [Unused EXCEPT !.state = "open", !.host = call[t].host]]
    /\ pools' = [pools EXCEPT ![call[t].host] = Created(@, Fresh)]
    /\ Sends(t, Fresh)
    /\ Step /\ UNCHANGED throttle

Refused(t) ==
    /\ At(t, "connect") /\ setup.faults
    /\ NetworkError(t, call[t])
    /\ Step /\ UNCHANGED conns

Drained(t) ==
    /\ At(t, "sending") /\ ConnOf(t).state = "open"
    /\ call' = [call EXCEPT ![t].pc = "headers"]
    /\ Step /\ UNCHANGED <<network, throttle>>

(* Response.on_message_complete(), n times, with the parser's verdict. *)
Completes(c, n, reply) ==
    conns' = [conns EXCEPT ![c].releases = @ + n, ![c].keep = reply.keep]

(* How often feed() completes the message with its headers. *)
Fed(kind) == IF kind \in {"empty", "emptyGzip", "bodiless"} THEN 1 ELSE 0

(* How often it is complete after read_content(), which takes an empty     *)
(* body from the socket and completes the message again, unless a decoder  *)
(* stands in between: receive_headers() has set PENDING_BODY meanwhile.    *)
ReadAtOnce(kind) == IF kind = "empty" THEN 2 ELSE Fed(kind)

HasBody(kind) == kind \in {"length", "chunked"}
Invalid(kind) == kind \in {"bodiless", "unframed"}

(* receive_headers(), and the rest of HTTPEngine.request() if read_content *)
(* has nothing to wait for.                                                *)
ReceiveHeaders(t, reply) ==
    /\ At(t, "headers") /\ ConnOf(t).state = "open"
    /\ LET r == [call[t] EXCEPT !.reply = reply]
           reads == ~r.stream \/ reply.location # NoOne
       IN  \/ /\ ~reads
              /\ Completes(r.conn, Fed(reply.kind), reply)
              /\ Answered(t, r)
           \/ /\ reads /\ HasBody(reply.kind)
              /\ call' = [call EXCEPT ![t] = [r EXCEPT !.pc = "body"]]
              /\ UNCHANGED <<network, throttle>>
           \/ /\ reads /\ ~HasBody(reply.kind)
              /\ Completes(r.conn, ReadAtOnce(reply.kind), reply)
              /\ IF Invalid(reply.kind) THEN Fails(t, r)
                                        ELSE AfterContent(t, r)
    /\ Step

(* The rest of read_content(), once all the data is there. *)
ReadContent(t) ==
    /\ At(t, "body") /\ ConnOf(t).state = "open"
    /\ Completes(call[t].conn, 1, call[t].reply)
    /\ AfterContent(t, call[t])
    /\ Step

(* The peer reset the connection: ConnectionError wherever it is used. *)
ConnectionError(t) ==
    /\ call[t].pc \in {"probe", "sending", "headers", "body"}
    /\ \/ ConnOf(t).state = "reset"
       \/ ConnOf(t).state = "closed" /\ At(t, "sending")
    /\ NetworkError(t, call[t])
    /\ Step /\ UNCHANGED conns

(* End of file, or an answer that is no HTTP: not an OSError. *)
Broken(t) ==
    /\ call[t].pc \in {"headers", "body"} /\ ConnOf(t).state # "reset"
    /\ setup.faults \/ ConnOf(t).state = "closed"
    /\ Fails(t, call[t])
    /\ Step /\ UNCHANGED conns

(* Fault: the time limit is for reading the answer. *)
TimeoutOfReads(t) ==
    /\ setup.timeout /\ call[t].pc \in {"headers", "body"}
    /\ Fails(t, call[t])
    /\ Step /\ UNCHANGED conns

(* wait_for() cancels the engine's task.  asyncio's TimeoutError is not    *)
(* the built-in one that the loop catches.                                 *)
Timeout(t) ==
    /\ setup.timeout /\ call[t].pc \in Awaiting
    /\ Fails(t, call[t])
    /\ Step /\ UNCHANGED conns
-----------------------------------------------------------------------------
(* The user of a streamed response, the loop, the network and the clock. *)

Unread(t) == At(t, "none") /\ call[t].stream

(* Response.stream() or read_content(), to the end. *)
ReadStream(t) ==
    /\ Unread(t) /\ ConnOf(t).state = "open"
    /\ HasBody(call[t].reply.kind) \/ call[t].reply.kind = "empty"
    /\ Completes(call[t].conn, 1, call[t].reply)
    /\ call' = [call EXCEPT ![t] = NoCall]
    /\ Step /\ UNCHANGED <<pools, throttle>>

(* Fault: a connection that is not kept is forgotten, but not closed. *)
ReleaseForgets(c) ==
    /\ conns[c].releases > 0
    /\ conns' = [conns EXCEPT ![c].releases = @ - 1]
    /\ pools' = [pools EXCEPT ![conns[c].host] =
                    IF setup.keepAlive /\ conns[c].keep
                    THEN Kept(@, c) ELSE Discarded(@, c)]
    /\ Step /\ UNCHANGED <<call, throttle>>

(* The task of _release_connection(). *)
Release(c) ==
    /\ conns[c].releases > 0
    /\ \/ /\ setup.keepAlive /\ conns[c].keep
          /\ conns' = [conns EXCEPT ![c].releases = @ - 1]
          /\ pools' = [pools EXCEPT ![conns[c].host] = Kept(@, c)]
       \/ /\ ~(setup.keepAlive /\ conns[c].keep)
          /\ conns' = [conns EXCEPT ![c] =
                 Shut([conns[c] EXCEPT !.releases = @ - 1])]
          /\ pools' = [pools EXCEPT ![conns[c].host] = Discarded(@, c)]
    /\ Step /\ UNCHANGED <<call, throttle>>

PeerResets(c) ==
    /\ setup.faults /\ conns[c].state = "open"
    /\ conns' = [conns EXCEPT ![c].state = "reset"]
    /\ Step /\ UNCHANGED <<pools, call, throttle>>

(* Session.close() *)
Close ==
    /\ setup.closed /\ session = "open" /\ session' = "closed"
    /\ conns' = [c \in Conns |->
           IF /\ conns[c].state = "open"
              /\ \E h \in Hosts : c \in pools[h].connections
           THEN [conns[c] EXCEPT !.state = "closed"] ELSE conns[c]]
    /\ UNCHANGED <<setup, pools, call, started, throttle, now>>

Tick ==
    /\ setup.limited /\ now < MaxTime
    /\ now' = now + 1
    /\ UNCHANGED <<setup, session, network, call, started, throttle>>

Next ==
    \/ \E t \in Calls, m \in setup.methods, stream \in setup.stream,
          p \in setup.policies : Start(t, m, stream, p)
    \/ \E t \in Calls, reply \in setup.replies : ReceiveHeaders(t, reply)
    \/ \E t \in Calls :
           \/ Wake(t) \/ Probe(t) \/ Connected(t) \/ Refused(t) \/ Drained(t)
           \/ ReadContent(t) \/ ConnectionError(t) \/ Broken(t)
           \/ Timeout(t) \/ ReadStream(t)
    \/ \E c \in Conns : Release(c) \/ PeerResets(c)
    \/ Close \/ Tick

(* The loop runs its tasks and its timers; every turn of the loop in       *)
(* Session.request() has a timer of its own.                               *)
Fairness ==
    /\ \A t \in Calls, n, s \in 0..MaxRetries :
           WF_vars(/\ call[t].network = n /\ call[t].statuses = s
                   /\ Timeout(t))
    /\ \A c \in Conns : WF_vars(Release(c))

Spec == Init /\ [][Next]_vars /\ Fairness
-----------------------------------------------------------------------------
(* Properties. *)

CallType ==
    [pc : Awaiting \cup {"none"}, stream : BOOLEAN,
     method : Methods, current : Methods, host : Hosts,
     header : Hosts \cup {NoOne}, conn : Conns \cup {NoOne},
     reply : Replies \cup {NoOne}, redirects : 0..MaxRedirects,
     redirected : BOOLEAN, network : Nat, statuses : Nat, sent : Nat,
     allowed : Nat, wake : Nat]
ConnType ==
    [state : {"open", "closed", "reset"}, host : Hosts \cup {NoOne},
     keep : BOOLEAN, releases : Nat]
PoolType == [available : Seq(Conns), connections : SUBSET Conns]

(* The types of the client's state: calls, sockets, pools and limiter.     *)
TypeOK ==
    /\ setup \in Setups
    /\ session \in {"open", "closed"}
    /\ conns \in [Conns -> ConnType]
    /\ pools \in [Hosts -> PoolType]
    /\ call \in [Calls -> CallType]
    /\ started \in Nat /\ now \in Nat
    /\ rate \in [flush : Nat \cup {NotSet}, usage : Nat]
    /\ window \in [admitted : Nat, slept : BOOLEAN]

(* The response of call t is still to be read from its socket. *)
Using(t) ==
    \/ call[t].pc \in {"sending", "headers", "body"}
    \/ Unread(t) /\ HasBody(call[t].reply.kind)

Pooled(c) ==
    \/ conns[c].releases > 0
    \/ \E h \in Hosts : c \in {pools[h].available[i] :
                                 i \in 1..Len(pools[h].available)}

(* A socket on which a response is awaited serves nobody else: no other    *)
(* call uses it and it is neither in the pool nor about to go there,       *)
(* although a response of length 0 gives its connection back twice.        *)
ExclusiveUse ==
    \A t \in Calls : Using(t) =>
        /\ ~Pooled(call[t].conn)
        /\ \A u \in Calls \ {t} : Using(u) => call[u].conn # call[t].conn

(* Every open socket is in the set its pool closes, whichever way the call *)
(* that opened it ended, so that Session.close() leaves none behind.       *)
OpenIsOwned ==
    \A c \in Conns :
        conns[c].state = "open" => c \in pools[conns[c].host].connections

(* retries.py warns of repeating what may have been done: the request of a *)
(* call is written once, and once more for each failure or status that the *)
(* strategy allows for its method; redirects use up nothing of it.         *)
RetriesAreAllowed == \A t \in Calls : call[t].sent <= call[t].allowed

(* A request carries the Host of the server it is sent to, unless an       *)
(* earlier turn of the same call followed a redirect: the turns share the  *)
(* dict of headers, and nobody takes that Host out again.                  *)
HostIsRight ==
    \A t \in Calls : At(t, "sending") =>
        \/ call[t].header = call[t].host
        \/ call[t].redirected /\ call[t].redirects = MaxRedirects

(* While nobody's sleep has ended in the limiter's period, no more than    *)
(* Count requests pass before its end.  Each sleep that ends starts the    *)
(* count again, so that nothing is promised after it.                      *)
WindowRespected ==
    window.slept \/ now >= rate.flush \/ window.admitted <= Count

(* With a timeout every call comes to an end, though servers do not answer *)
(* or redirect for ever, connections break and the limiter lets it wait.   *)
CallsEnd ==
    \A t \in Calls :
        (setup.timeout /\ call[t].pc \in Awaiting)
            ~> call[t].pc \notin Awaiting
=============================================================================
