-------------------------------- MODULE Worker --------------------------------
(***************************************************************************)
(* One worker process: the event loop with its connections, the reaper's   *)
(* thread (vibora/workers/reaper.py) and the coroutine stop_server that    *)
(* SIGTERM starts (vibora/workers/handler.py).  A connection is the record *)
(* of ConnectionState, which module Connection shows to be faithful.       *)
(*                                                                         *)
(* A second passes whenever the reaper sleeps; the poll of stop_server has *)
(* its own timer.  Connections are closed objects outside app.connections. *)
(***************************************************************************)
EXTENDS Naturals, FiniteSets, ConnectionState

CONSTANTS
    Connections,       \* bound: the connections a client may open
    KeepAliveTimeout,  \* server_limits.keep_alive_timeout, seconds
    WorkerTimeout,     \* server_limits.worker_timeout, seconds
    StopTimeout,       \* how often stop_server polls
    HookMayRaise,      \* a hook for BEFORE_SERVER_STOP may raise
    HandlerMayBlock    \* a handler may make a call that blocks the loop

ASSUME TimeoutsAssumption ==
    /\ KeepAliveTimeout \in Nat /\ KeepAlive = (KeepAliveTimeout > 0)
    /\ WorkerTimeout \in Nat \ {0} /\ StopTimeout \in Nat
    /\ HookMayRaise \in BOOLEAN /\ HandlerMayBlock \in BOOLEAN

VARIABLES
    process,    \* running, blocked by a handler, exited or killed
    conns,      \* the connections, open or closed
    idle,       \* seconds since Connection.last_task_time, up to MaxIdle
    listening,  \* the socket accepts connections
    accepted,   \* accepted sockets that wait for their connection_made()
    missed,     \* history: those that waited during stop_server's sweep
    reaper,     \* the reaper's thread: sleeping, at its first or second scan,
                \* or finished
    counter,    \* Reaper.run's counter, modulo both timeouts
    work,       \* Reaper.has_to_work
    scan,       \* connections the scan has still to visit
    victim,     \* connections the reaper found idle and is about to stop
    stopper,    \* stop_server: none, in the hooks, failed there, polling
    polls       \* stop_server's timeout, counted down

door == <<listening, accepted, missed>>
life == <<process, conns, idle, door>>
reaping == <<reaper, counter, work, scan, victim>>
vars == <<life, reaping, stopper, polls>>

MaxIdle == IF KeepAliveTimeout < WorkerTimeout THEN WorkerTimeout
                                               ELSE KeepAliveTimeout + 1
Period == WorkerTimeout * (IF KeepAlive THEN KeepAliveTimeout ELSE 1)

Open == {c \in Connections : ~conns[c].closed}

(* close() takes the connection out of app.connections. *)
Gone == Closed(Fresh)
Kept(state) == IF state.closed THEN Gone ELSE state

TypeOK ==
    /\ process \in {"running", "blocked", "exited", "killed"}
    /\ conns \in [Connections -> ConnectionType]
    /\ idle \in [Connections -> 0..MaxIdle]
    /\ listening \in BOOLEAN
    /\ accepted \subseteq Connections /\ missed \subseteq Connections
    /\ reaper \in {"sleeping", "idle scan", "stuck scan", "finished"}
    /\ counter \in 0..(Period - 1)
    /\ work \in BOOLEAN
    /\ scan \subseteq Connections /\ victim \subseteq Connections
    /\ stopper \in {"none", "hooks", "failed", "polling"}
    /\ polls \in 0..StopTimeout

Init ==
    /\ process = "running"
    /\ conns = [c \in Connections |-> Gone]
    /\ idle = [c \in Connections |-> 0]
    /\ listening = TRUE /\ accepted = {} /\ missed = {}
    /\ reaper = "sleeping" /\ counter = 0 /\ work = TRUE
    /\ scan = {} /\ victim = {}
    /\ stopper = "none" /\ polls = StopTimeout
-----------------------------------------------------------------------------
(* The event loop. *)

Becomes(c, state, age) ==
    /\ process = "running"
    /\ conns' = [conns EXCEPT ![c] = Kept(state)]
    /\ idle' = [idle EXCEPT ![c] = IF state.closed THEN 0 ELSE age]
    /\ UNCHANGED <<process, door, reaping, stopper, polls>>

(* The loop accepts a socket, for an object the reaper does not hold, and  *)
(* calls connection_made() in a later turn.                                *)
Accept(c) ==
    /\ process = "running" /\ listening
    /\ c \notin Open \cup accepted \cup scan \cup victim
    /\ accepted' = accepted \cup {c}
    /\ UNCHANGED <<process, conns, idle, listening, missed, reaping, stopper,
                   polls>>

Connect(c) ==
    /\ process = "running" /\ c \in accepted
    /\ accepted' = accepted \ {c}
    /\ conns' = [conns EXCEPT ![c] = Fresh]
    /\ idle' = [idle EXCEPT ![c] = 0]
    /\ UNCHANGED <<process, listening, missed, reaping, stopper, polls>>

DataReceived(c) ==
    /\ c \in Open
    /\ Becomes(c, Received(conns[c]), idle[c])

(* on_headers_complete() reads the clock the reaper keeps. *)
OnHeadersComplete(c) ==
    /\ c \in Open /\ conns[c].status = "RECEIVING"
    /\ Becomes(c, conns[c], 0)

OnMessageComplete(c) ==
    /\ c \in Open
    /\ Becomes(c, Completed(conns[c]), idle[c])

AfterResponse(c) ==
    /\ c \in Open
    /\ Becomes(c, Responded(conns[c]), idle[c])

ScheduledClose(c) ==
    /\ c \in Open /\ conns[c].closing
    /\ Becomes(c, CloseDone(conns[c]), idle[c])

ConnectionLost(c) ==
    /\ c \in Open
    /\ Becomes(c, Closed(conns[c]), idle[c])

(* A handler makes a call that does not return: nothing on the loop runs   *)
(* any more.                                                               *)
Block(c) ==
    /\ HandlerMayBlock /\ process = "running"
    /\ c \in Open /\ conns[c].status # "PENDING"
    /\ process' = "blocked"
    /\ UNCHANGED <<conns, idle, door, reaping, stopper, polls>>
-----------------------------------------------------------------------------
(* Reaper.run().  The thread may lose the interpreter lock between the     *)
(* look at a connection and stop().                                        *)

Alive == process \in {"running", "blocked"}

(* The rest of one turn of the loop, at count n. *)
CheckIfStuck(n) ==
    IF n % WorkerTimeout = 0
    THEN reaper' = "stuck scan" /\ scan' = Open
    ELSE reaper' = "sleeping" /\ UNCHANGED scan

BeginScan ==
    /\ Alive /\ reaper = "sleeping" /\ work
    /\ counter' = (counter + 1) % Period
    /\ idle' = [c \in Connections |->
                    IF c \notin Open THEN 0
                    ELSE IF idle[c] < MaxIdle THEN idle[c] + 1 ELSE MaxIdle]
    /\ IF KeepAlive /\ counter' % KeepAliveTimeout = 0
       THEN reaper' = "idle scan" /\ scan' = Open
       ELSE CheckIfStuck(counter')
    /\ UNCHANGED <<process, conns, door, work, victim, stopper, polls>>

(* kill_idle_connections() *)
FindIdle(c) ==
    /\ Alive /\ reaper = "idle scan" /\ victim = {} /\ c \in scan
    /\ scan' = scan \ {c}
    /\ victim' = {k \in {c} : /\ conns[k].status = "PENDING"
                             /\ idle[k] > KeepAliveTimeout}
    /\ UNCHANGED <<life, reaper, counter, work, stopper, polls>>

StopIdle(c) ==
    /\ Alive /\ c \in victim
    /\ victim' = {}
    /\ conns' = [conns EXCEPT ![c] = Kept(Stopped(conns[c]))]
    /\ UNCHANGED <<process, idle, door, reaper, counter, work, scan, stopper,
                   polls>>

EndIdleScan ==
    /\ Alive /\ reaper = "idle scan" /\ scan = {} /\ victim = {}
    /\ CheckIfStuck(counter)
    /\ UNCHANGED <<life, counter, work, victim, stopper, polls>>

(* check_if_worker_is_stuck(): PROCESSING_REQUEST of definitions.py has    *)
(* the number that cprotocol.pyx gives to RECEIVING.                       *)
LooksStuck(c) == conns[c].status = "RECEIVING" /\ idle[c] >= WorkerTimeout

CheckStuck(c) ==
    /\ Alive /\ reaper = "stuck scan" /\ c \in scan
    /\ scan' = scan \ {c}
    /\ process' = IF LooksStuck(c) THEN "killed" ELSE process
    /\ UNCHANGED <<conns, idle, door, reaper, counter, work, victim, stopper,
                   polls>>

EndStuckScan ==
    /\ Alive /\ reaper = "stuck scan" /\ scan = {}
    /\ reaper' = "sleeping"
    /\ UNCHANGED <<life, counter, work, scan, victim, stopper, polls>>

ReaperEnds ==
    /\ Alive /\ reaper = "sleeping" /\ ~work
    /\ reaper' = "finished"
    /\ UNCHANGED <<life, counter, work, scan, victim, stopper, polls>>
-----------------------------------------------------------------------------
(* SIGTERM: handle_kill_signal() and stop_server(), which runs up to its   *)
(* first await before the reaper can tell the two apart.                   *)

(* Fault: the socket stays open. *)
HandleKillSignalListens ==
    /\ process = "running" /\ stopper = "none"
    /\ work' = FALSE
    /\ stopper' = "hooks"
    /\ UNCHANGED <<process, conns, idle, door, reaper, counter, scan, victim,
                   polls>>

HandleKillSignal ==
    /\ process = "running" /\ stopper = "none"
    /\ listening' = FALSE
    /\ work' = FALSE
    /\ stopper' = "hooks"
    /\ UNCHANGED <<process, conns, idle, accepted, missed, reaper, counter,
                   scan, victim, polls>>

(* An exception of a hook ends the coroutine. *)
StopHookRaises ==
    /\ HookMayRaise /\ process = "running" /\ stopper = "hooks"
    /\ stopper' = "failed"
    /\ UNCHANGED <<life, reaping, polls>>

StopConnections ==
    /\ process = "running" /\ stopper = "hooks"
    /\ stopper' = "polling"
    /\ conns' = [c \in Connections |-> Kept(Stopped(conns[c]))]
    /\ missed' = accepted
    /\ UNCHANGED <<process, idle, listening, accepted, reaping, polls>>

(* Faults: the poll is not counted, or it is counted past zero. *)
PollForEver ==
    /\ process = "running" /\ stopper = "polling"
    /\ polls > 0 /\ Open # {}
    /\ UNCHANGED vars

PollAgain ==
    /\ process = "running" /\ stopper = "polling"
    /\ polls > 0 /\ Open # {}
    /\ polls' = polls - 1
    /\ UNCHANGED <<life, reaping, stopper>>

Exit ==
    /\ process = "running" /\ stopper = "polling"
    /\ polls = 0 \/ Open = {}
    /\ process' = "exited"
    /\ UNCHANGED <<conns, idle, door, reaping, stopper, polls>>

LoopStep(c) ==
    \/ Accept(c) \/ Connect(c) \/ DataReceived(c)
    \/ OnHeadersComplete(c) \/ OnMessageComplete(c)
    \/ AfterResponse(c) \/ ScheduledClose(c) \/ ConnectionLost(c) \/ Block(c)

ReaperStep ==
    \/ BeginScan
    \/ \E c \in Connections : FindIdle(c) \/ StopIdle(c) \/ CheckStuck(c)
    \/ EndIdleScan \/ EndStuckScan \/ ReaperEnds

StopStep == StopConnections \/ PollAgain \/ Exit

Next ==
    \/ \E c \in Connections : LoopStep(c)
    \/ ReaperStep
    \/ HandleKillSignal \/ StopHookRaises
    \/ StopStep

Spec == Init /\ [][Next]_vars

(* A thread and a coroutine that wait for timers, and scheduled_close.     *)
(* Nothing is assumed of clients, handlers or the sender of SIGTERM.       *)
Fairness ==
    /\ WF_vars(ReaperStep)
    /\ WF_vars(StopStep)
    /\ \A c \in Connections : WF_vars(ScheduledClose(c))

FairSpec == Spec /\ Fairness
-----------------------------------------------------------------------------
(* While stop_server waits, every open connection has been told to stop    *)
(* and is busy or about to close, though the socket was open, the reaper   *)
(* at work and a hook awaited until then: waiting for them makes sense.    *)
(* Except those whose socket was accepted before the signal and whose      *)
(* connection_made() comes after the sweep: nobody tells them to stop.     *)
NobodyIsForgotten ==
    stopper = "polling" =>
        \A c \in Open \ missed :
            /\ conns[c].stopped
            /\ conns[c].status = "PENDING" => conns[c].closing

(* An idle connection does not stay open for ever (keep_alive_timeout),    *)
(* also if SIGTERM stops the reaper before its next scan.                  *)
IdleConnectionsEnd ==
    \A c \in Connections :
        (KeepAlive /\ c \in Open /\ conns[c].status = "PENDING") ~>
            \/ c \notin Open
            \/ conns[c].status # "PENDING"
            \/ process # "running"
            \/ stopper = "failed"

(* After SIGTERM the worker exits, whatever its connections do.            *)
WorkerExits ==
    (stopper = "hooks") ~> (process # "running" \/ stopper = "failed")

(* "In case the worker is stuck for some crazy reason (sync calls,         *)
(* expensive CPU ops) we gonna kill it." (workers/reaper.py)               *)
StuckWorkerIsKilled == (process = "blocked" /\ work) ~> (process = "killed")
=============================================================================
