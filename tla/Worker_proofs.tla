---------------------------- MODULE Worker_proofs ----------------------------
(***************************************************************************)
(* Proofs about what a worker process does by itself: Worker, its end, and *)
(* StaticFiles, the files it serves.  The two share no state.              *)
(***************************************************************************)
EXTENDS Worker, StaticFiles, TLAPS
-----------------------------------------------------------------------------
(* The end of a worker, for every set of connections and all timeouts: as  *)
(* long as stop_server waits, no open connection has been missed but those *)
(* accepted before the signal and not made before the sweep.               *)
ConnsType == conns \in [Connections -> ConnectionType]

(* SIGTERM closes the socket before anything else, so what comes after the *)
(* sweep of stop_server had been accepted before it.                       *)
SocketClosed ==
    /\ stopper # "none" => listening = FALSE
    /\ stopper = "polling" => accepted \subseteq missed

(* What NobodyIsForgotten asks of one connection. *)
Told(k) == k.closed \/ (k.stopped /\ (k.status = "PENDING" => k.closing))

AllTold == stopper = "polling" => \A c \in Connections \ missed : Told(conns[c])

WorkerInv == ConnsType /\ SocketClosed /\ AllTold

(* The methods of a connection keep its type, and one that was told to     *)
(* stop remains so.                                                        *)
LEMMA MethodTypes ==
    ASSUME NEW k \in ConnectionType
    PROVE  /\ Fresh \in ConnectionType
           /\ Received(k) \in ConnectionType
           /\ Completed(k) \in ConnectionType
           /\ Closed(k) \in ConnectionType
           /\ Stopped(k) \in ConnectionType
           /\ Responded(k) \in ConnectionType
           /\ CloseDone(k) \in ConnectionType
  BY KeepAliveAssumption
  DEF ConnectionType, Statuses, Fresh, Received, Completed, Closed, Stopped,
      Responded, CloseDone

(* A connection taken out of app.connections is a closed one.              *)
LEMMA GoneType == Gone \in ConnectionType /\ Gone.closed
  BY DEF Gone, Closed, Fresh, ConnectionType, Statuses

(* Taking closed connections out keeps the type.                           *)
LEMMA KeptType ==
    ASSUME NEW k \in ConnectionType
    PROVE  Kept(k) \in ConnectionType
  BY GoneType DEF Kept

(* It does not undo a stop either.                                         *)
LEMMA KeptTold ==
    ASSUME NEW k \in ConnectionType, Told(k)
    PROVE  Told(Kept(k))
  BY GoneType DEF Kept, Told

(* Nor does anything that happens on a connection.                         *)
LEMMA MethodsTold ==
    ASSUME NEW k \in ConnectionType, Told(k)
    PROVE  /\ Told(Received(k)) /\ Told(Completed(k)) /\ Told(Responded(k))
           /\ Told(CloseDone(k)) /\ Told(Closed(k)) /\ Told(Stopped(k))
  <1>1. Told(Received(k)) /\ Told(Completed(k))
    BY DEF ConnectionType, Statuses, Told, Received, Completed
  <1>2. Told(Responded(k))
    BY KeepAliveAssumption DEF ConnectionType, Statuses, Told, Responded
  <1>3. Told(CloseDone(k)) /\ Told(Closed(k))
    BY DEF ConnectionType, Statuses, Told, CloseDone, Closed
  <1>4. Told(Stopped(k))
    BY DEF ConnectionType, Statuses, Told, Stopped
  <1>. QED BY <1>1, <1>2, <1>3, <1>4

(* stop() is what makes a connection told.                                 *)
LEMMA StoppedTold ==
    ASSUME NEW k \in ConnectionType
    PROVE  Told(Stopped(k))
  BY DEF ConnectionType, Statuses, Told, Stopped

(* One step of the event loop with an open connection.                     *)
LEMMA BecomesIInv ==
    ASSUME WorkerInv, NEW c \in Connections, NEW k \in ConnectionType, NEW age,
           Becomes(c, k, age),
           stopper = "polling" /\ c \notin missed => Told(k)
    PROVE  WorkerInv'
  <1>1. ConnsType'
    BY KeptType DEF WorkerInv, ConnsType, Becomes
  <1>2. SocketClosed'
    BY DEF WorkerInv, SocketClosed, Becomes, door
  <1>3. AllTold'
    BY KeptTold DEF WorkerInv, ConnsType, AllTold, Becomes, door
  <1>. QED BY <1>1, <1>2, <1>3 DEF WorkerInv

(* Nobody waits for anything when the worker starts.                       *)
LEMMA InitWorkerInv == Init => WorkerInv
  BY GoneType DEF Init, WorkerInv, ConnsType, SocketClosed, AllTold

(* Clients and handlers keep the invariant.                                *)
LEMMA LoopStepIInv ==
    ASSUME WorkerInv, NEW c \in Connections, LoopStep(c)
    PROVE  WorkerInv'
  <1>1. conns[c] \in ConnectionType
    BY DEF WorkerInv, ConnsType
  <1>2. stopper = "polling" /\ c \notin missed => Told(conns[c])
    BY DEF WorkerInv, AllTold
  <1>3. CASE Connect(c)
    <2>1. Fresh \in ConnectionType
      BY <1>1, MethodTypes
    <2>2. stopper = "polling" => c \in missed
      BY <1>3 DEF Connect, WorkerInv, SocketClosed
    <2>. QED
      BY <1>3, <2>1, <2>2
      DEF Connect, WorkerInv, ConnsType, SocketClosed, AllTold
  <1>11. CASE Accept(c)
    BY <1>11 DEF Accept, WorkerInv, ConnsType, SocketClosed, AllTold
  <1>4. CASE DataReceived(c)
    BY <1>1, <1>2, <1>4, MethodTypes, MethodsTold, BecomesIInv
    DEF DataReceived
  <1>5. CASE OnHeadersComplete(c)
    BY <1>1, <1>2, <1>5, BecomesIInv DEF OnHeadersComplete
  <1>6. CASE OnMessageComplete(c)
    BY <1>1, <1>2, <1>6, MethodTypes, MethodsTold, BecomesIInv
    DEF OnMessageComplete
  <1>7. CASE AfterResponse(c)
    BY <1>1, <1>2, <1>7, MethodTypes, MethodsTold, BecomesIInv
    DEF AfterResponse
  <1>8. CASE ScheduledClose(c)
    BY <1>1, <1>2, <1>8, MethodTypes, MethodsTold, BecomesIInv
    DEF ScheduledClose
  <1>9. CASE ConnectionLost(c)
    BY <1>1, <1>2, <1>9, MethodTypes, MethodsTold, BecomesIInv
    DEF ConnectionLost
  <1>10. CASE Block(c)
    BY <1>10 DEF Block, WorkerInv, ConnsType, SocketClosed, AllTold, door
  <1>. QED
    BY <1>3, <1>4, <1>5, <1>6, <1>7, <1>8, <1>9, <1>10, <1>11 DEF LoopStep

(* The thread of the reaper keeps it, between any two steps.               *)
LEMMA ReaperStepIInv ==
    ASSUME WorkerInv, ReaperStep
    PROVE  WorkerInv'
  <1>1. CASE BeginScan \/ EndIdleScan \/ EndStuckScan \/ ReaperEnds
    BY <1>1
    DEF BeginScan, EndIdleScan, EndStuckScan, ReaperEnds, life, door,
        WorkerInv, ConnsType, SocketClosed, AllTold
  <1>2. ASSUME NEW c \in Connections, FindIdle(c) \/ CheckStuck(c)
        PROVE  WorkerInv'
    BY <1>2
    DEF FindIdle, CheckStuck, life, door, WorkerInv, ConnsType, SocketClosed,
        AllTold
  <1>3. ASSUME NEW c \in Connections, StopIdle(c)
        PROVE  WorkerInv'
    <2>1. conns[c] \in ConnectionType
      BY DEF WorkerInv, ConnsType
    <2>2. Kept(Stopped(conns[c])) \in ConnectionType
      BY <2>1, MethodTypes, KeptType
    <2>3. Told(Kept(Stopped(conns[c])))
      BY <2>1, MethodTypes, StoppedTold, KeptTold
    <2>. QED
      BY <1>3, <2>2, <2>3
      DEF StopIdle, WorkerInv, ConnsType, SocketClosed, AllTold, door
  <1>. QED BY <1>1, <1>2, <1>3 DEF ReaperStep

(* stop_server establishes it for every connection, and waits.             *)
LEMMA StopStepIInv ==
    ASSUME WorkerInv, StopStep
    PROVE  WorkerInv'
  <1>1. CASE StopConnections
    <2>1. \A c \in Connections :
             /\ Kept(Stopped(conns[c])) \in ConnectionType
             /\ Told(Kept(Stopped(conns[c])))
      BY MethodTypes, StoppedTold, KeptType, KeptTold DEF WorkerInv, ConnsType
    <2>. QED
      BY <1>1, <2>1
      DEF StopConnections, WorkerInv, ConnsType, SocketClosed, AllTold
  <1>2. CASE PollAgain \/ Exit
    BY <1>2
    DEF PollAgain, Exit, life, door, WorkerInv, ConnsType, SocketClosed,
        AllTold
  <1>. QED BY <1>1, <1>2 DEF StopStep

(* So every step of the worker keeps it.                                   *)
LEMMA NextWorkerInv ==
    ASSUME WorkerInv, [Next]_vars
    PROVE  WorkerInv'
  <1>1. CASE HandleKillSignal \/ StopHookRaises
    BY <1>1
    DEF HandleKillSignal, StopHookRaises, life, door, WorkerInv, ConnsType,
        SocketClosed, AllTold
  <1>2. CASE UNCHANGED vars
    BY <1>2 DEF vars, life, door, WorkerInv, ConnsType, SocketClosed, AllTold
  <1>. QED
    BY <1>1, <1>2, LoopStepIInv, ReaperStepIInv, StopStepIInv DEF Next

(* As long as stop_server waits, every open connection was told to stop    *)
(* and is busy or about to close, unless it was made after the sweep.      *)
THEOREM WaitingMakesSense == Spec => []NobodyIsForgotten
  <1>1. WorkerInv => NobodyIsForgotten
    BY DEF WorkerInv, ConnsType, AllTold, NobodyIsForgotten, Told, Open,
           ConnectionType
  <1>. QED BY <1>1, InitWorkerInv, NextWorkerInv, PTL DEF Spec
-----------------------------------------------------------------------------
(* The types. *)

(* The reaper's counter starts again after both timeouts. *)
LEMMA PeriodIsPositive == Period \in Nat /\ Period > 0 /\ MaxIdle \in Nat
<1>1. WorkerTimeout \in Nat /\ WorkerTimeout > 0 /\ KeepAliveTimeout \in Nat
  BY TimeoutsAssumption
<1>2. MaxIdle \in Nat
  BY <1>1 DEF MaxIdle
<1>3. CASE KeepAlive
  <2>1. KeepAliveTimeout > 0
    BY <1>3, TimeoutsAssumption
  <2>2. ASSUME NEW a \in Nat, NEW b \in Nat, a > 0, b > 0
        PROVE  a * b \in Nat /\ a * b > 0
    BY <2>2, Z3
  <2> QED BY <1>1, <1>2, <1>3, <2>1, <2>2 DEF Period
<1>4. CASE ~KeepAlive
  BY <1>1, <1>2, <1>4 DEF Period
<1> QED BY <1>3, <1>4

(* What the event loop, the reaper and stop_server make of their state is  *)
(* of its type.                                                            *)
LEMMA NextTypeOK == TypeOK /\ [Next]_vars => TypeOK'
<1> SUFFICES ASSUME TypeOK, [Next]_vars PROVE TypeOK'
  OBVIOUS
<1>1. CASE UNCHANGED vars
  BY <1>1 DEF TypeOK, vars, life, door, reaping
<1>2. ASSUME NEW c \in Connections, NEW k \in ConnectionType,
             NEW age \in 0..MaxIdle, Becomes(c, k, age)
      PROVE  TypeOK'
  <2>1. 0 \in 0..MaxIdle
    BY PeriodIsPositive
  <2>2. Kept(k) \in ConnectionType
    BY KeptType
  <2> QED BY <1>2, <2>1, <2>2 DEF Becomes, TypeOK, door, reaping
<1>3. ASSUME NEW c \in Connections, LoopStep(c)
      PROVE  TypeOK'
  <2>1. /\ conns[c] \in ConnectionType /\ idle[c] \in 0..MaxIdle
        /\ 0 \in 0..MaxIdle
    <3>1. conns[c] \in ConnectionType /\ idle[c] \in 0..MaxIdle
      BY DEF TypeOK
    <3> QED BY <3>1, PeriodIsPositive
  <2>2. CASE Block(c)
    BY <2>2 DEF Block, TypeOK, door, reaping
  <2>3. CASE DataReceived(c) \/ OnHeadersComplete(c)
    BY <1>2, <2>1, <2>3, MethodTypes DEF DataReceived, OnHeadersComplete
  <2>4. CASE OnMessageComplete(c) \/ AfterResponse(c)
    BY <1>2, <2>1, <2>4, MethodTypes DEF OnMessageComplete, AfterResponse
  <2>5. CASE ScheduledClose(c) \/ ConnectionLost(c)
    BY <1>2, <2>1, <2>5, MethodTypes DEF ScheduledClose, ConnectionLost
  <2>6. CASE Accept(c)
    BY <2>6 DEF Accept, TypeOK, reaping
  <2>7. CASE Connect(c)
    <3>1. Fresh \in ConnectionType
      BY <2>1, MethodTypes
    <3> QED BY <2>1, <2>7, <3>1 DEF Connect, TypeOK, reaping
  <2> QED BY <1>3, <2>2, <2>3, <2>4, <2>5, <2>6, <2>7 DEF LoopStep
<1>4. ASSUME NEW n, CheckIfStuck(n)
      PROVE  /\ reaper' \in {"sleeping", "idle scan", "stuck scan", "finished"}
             /\ scan' \subseteq Connections
  BY <1>4 DEF CheckIfStuck, TypeOK, Open
<1>5. CASE BeginScan
  <2>1. counter' \in 0..(Period - 1)
    <3>1. counter \in Nat /\ counter' = (counter + 1) % Period
      <4>1. counter \in 0..(Period - 1)
        BY DEF TypeOK
      <4>2. counter' = (counter + 1) % Period
        BY <1>5 DEF BeginScan
      <4> QED BY <4>1, <4>2, PeriodIsPositive
    <3> QED BY <3>1, PeriodIsPositive
  <2>2. /\ reaper' \in {"sleeping", "idle scan", "stuck scan", "finished"}
        /\ scan' \subseteq Connections
    <3>1. CASE CheckIfStuck(counter')
      <4>1. PICK n : n = counter'
        OBVIOUS
      <4> QED BY <1>4, <3>1, <4>1 DEF CheckIfStuck
    <3>2. CASE reaper' = "idle scan" /\ scan' = Open
      BY <3>2 DEF Open
    <3> QED BY <1>5, <3>1, <3>2 DEF BeginScan
  <2>3. idle' \in [Connections -> 0..MaxIdle]
    <3>1. \A c \in Connections :
              (IF c \notin Open THEN 0
               ELSE IF idle[c] < MaxIdle THEN idle[c] + 1 ELSE MaxIdle)
                  \in 0..MaxIdle
      <4>1. \A c \in Connections : idle[c] \in 0..MaxIdle
        BY DEF TypeOK
      <4> QED BY <4>1, PeriodIsPositive
    <3> QED BY <1>5, <3>1 DEF BeginScan
  <2> QED BY <1>5, <2>1, <2>2, <2>3 DEF BeginScan, TypeOK, door
<1>6. ASSUME NEW c \in Connections, FindIdle(c) \/ StopIdle(c) \/ CheckStuck(c)
      PROVE  TypeOK'
  <2>1. CASE FindIdle(c)
    BY <2>1 DEF FindIdle, TypeOK, life, door
  <2>2. CASE StopIdle(c)
    <3>1. Kept(Stopped(conns[c])) \in ConnectionType
      BY MethodTypes, KeptType DEF TypeOK
    <3> QED BY <2>2, <3>1 DEF StopIdle, TypeOK, door
  <2>3. CASE CheckStuck(c)
    BY <2>3 DEF CheckStuck, TypeOK, door
  <2> QED BY <1>6, <2>1, <2>2, <2>3
<1>7. CASE EndIdleScan \/ EndStuckScan \/ ReaperEnds
  BY <1>4, <1>7 DEF EndIdleScan, EndStuckScan, ReaperEnds, TypeOK, life, door
<1>8. CASE HandleKillSignal \/ StopHookRaises
  BY <1>8 DEF HandleKillSignal, StopHookRaises, TypeOK, life, door, reaping
<1>9. CASE StopStep
  <2>1. CASE StopConnections
    <3>1. \A c \in Connections : Kept(Stopped(conns[c])) \in ConnectionType
      BY MethodTypes, KeptType DEF TypeOK
    <3> QED BY <2>1, <3>1 DEF StopConnections, TypeOK, reaping
  <2>2. CASE PollAgain
    <3>1. polls' \in 0..StopTimeout
      <4>1. polls \in 0..StopTimeout
        BY DEF TypeOK
      <4>2. polls > 0 /\ polls' = polls - 1
        BY <2>2 DEF PollAgain
      <4> QED BY <4>1, <4>2, TimeoutsAssumption
    <3> QED BY <2>2, <3>1 DEF PollAgain, TypeOK, life, door, reaping
  <2>3. CASE Exit
    BY <2>3 DEF Exit, TypeOK, door, reaping
  <2> QED BY <1>9, <2>1, <2>2, <2>3 DEF StopStep
<1> QED BY <1>1, <1>3, <1>5, <1>6, <1>7, <1>8, <1>9 DEF Next, ReaperStep

(* The types of Worker, for all timeouts: the counter stays below their    *)
(* product, ages and polls within their bounds.                            *)
THEOREM TypeCorrect == Spec => []TypeOK
<1>1. Init => TypeOK
  <2> SUFFICES ASSUME Init PROVE TypeOK
    OBVIOUS
  <2>1. 0 \in 0..(Period - 1) /\ 0 \in 0..MaxIdle
    BY PeriodIsPositive
  <2>2. StopTimeout \in 0..StopTimeout
    BY TimeoutsAssumption
  <2> QED BY <2>1, <2>2, GoneType DEF Init, TypeOK
<1> QED BY <1>1, NextTypeOK, PTL DEF Spec
-----------------------------------------------------------------------------
(* StaticIsCurrent, for every site, every number of roots, requests and    *)
(* modification times, any ranges, and any size of the cache and chunks.   *)
Places ==
    {"look up", "find", "hash", "mtime", "size", "load", "answer", "stream"}

IsEntry(e) ==
    e = [file |-> e.file, etag |-> e.etag, mtime |-> e.mtime,
         torn |-> e.torn, size |-> e.size, memory |-> e.memory]

IsStream(s) ==
    s = [open |-> s.open, linked |-> s.linked, of |-> s.of,
         bytes |-> s.bytes, moved |-> s.moved]

(* A client asks again about a whole answer that it has. *)
Copy(a) == a.status = 200 /\ a.body.bytes = a.announced

IsRequest(r) ==
    /\ r = [at |-> r.at, path |-> r.path, range |-> r.range,
            condition |-> r.condition, known |-> r.known]
    /\ r.at \in Places /\ r.path \in site.paths
    /\ r.range \in {WholeFile} \cup Ranges
    /\ r.known # 0 =>
          /\ r.known \in DOMAIN answers
          /\ Copy(answers[r.known]) /\ answers[r.known].path = r.path
    /\ r.known = 0 => r.condition = "none"

(* Every file has one of the times there were, and a content of the site.  *)
DiskOK ==
    /\ site \in Sites /\ times \subseteq Nat
    /\ DOMAIN disk = DOMAIN site.files
    /\ \A f \in DOMAIN disk :
          /\ Mtime(f) \in times
          /\ Content(f) \in {site.files[f]} \cup site.edits[f]

HandlerOK ==
    /\ request = NoRequest \/ IsRequest(request)
    /\ IsEntry(entry) /\ IsStream(stream)
    /\ \A f \in DOMAIN exists : exists[f] \in BOOLEAN

(* exists() remembers which root has a path: always the same.              *)
First(path, f) ==
    /\ path \in site.paths
    /\ \E i \in DOMAIN Paths :
          /\ f = Candidates(path)[i]
          /\ f \in DOMAIN exists /\ exists[f] = TRUE
          /\ \A j \in 1..i - 1 :
                /\ Candidates(path)[j] \in DOMAIN exists
                /\ exists[Candidates(path)[j]] = FALSE

(* An entry whose file has its time still has that file's content.         *)
Sound(path, e) ==
    /\ IsEntry(e) /\ First(path, e.file) /\ e.mtime \in times
    /\ e.mtime = Mtime(e.file) =>
          /\ e.memory # NoContent => e.memory = Content(e.file)
          /\ ~e.torn => e.etag = Content(e.file)

(* And its size, which is taken after the time. *)
Sized(e) ==
    e.mtime = Mtime(e.file) /\ IsFile(e.file) =>
        e.size = Content(e.file).size

CacheIsSound ==
    \A path \in DOMAIN cache : Sound(path, cache[path]) /\ Sized(cache[path])

(* A client's copy is what its file has, if the file has the time that the *)
(* client was told.                                                        *)
CopyIsSound(a) ==
    /\ Sound(a.path, a.made)
    /\ a.made.mtime = Mtime(a.made.file) =>
          a.body = Whole(Content(a.made.file))
CopiesAreSound ==
    \A i \in DOMAIN answers : Copy(answers[i]) => CopyIsSound(answers[i])

(* What the path's files have is among what they had since the request.    *)
MeanwhileIsNow ==
    request # NoRequest =>
        Versions(request.path) \ {NoContent} \subseteq meanwhile

(* What a complete entry stands for was there since the request: its hash, *)
(* its content, and each copy of the same time.                            *)
Stands(e) ==
    /\ Sound(request.path, e)
    /\ e.memory # NoContent => e.memory \in meanwhile
    /\ ~e.torn => e.etag \in meanwhile
    /\ \A i \in DOMAIN answers :
          /\ Copy(answers[i]) /\ answers[i].path = request.path
          /\ answers[i].made.mtime = e.mtime
          => \E c \in meanwhile : answers[i].body = Whole(c)

EntryIsMade ==
    /\ request.at \in {"hash", "mtime"} =>
          First(request.path, entry.file) /\ entry.memory = NoContent
    /\ request.at = "mtime" => entry.etag \in meanwhile
    /\ request.at \in {"size", "load", "answer", "stream"} => Stands(entry)
    /\ request.at \in {"size", "load"} => entry.memory = NoContent
    /\ request.at = "stream" /\ request.range = WholeFile =>
          entry.memory = NoContent

(* What is read from a file that is open: contents that were there since   *)
(* the request, a single one unless it moved, and not more of it than asked *)
(* for; and what the file has, as long as it has the time of the entry.    *)
Reads(r, e, s) ==
    /\ s.open \in meanwhile /\ s.of \subseteq meanwhile
    /\ s.open.size \in Nat /\ s.bytes \in Nat
    /\ r.range # WholeFile => r.range.start + s.bytes <= r.range.end
    /\ ~s.moved => s.of \subseteq {s.open}
    /\ ~s.moved /\ r.range = WholeFile =>
          e.size = s.open.size /\ s.bytes <= s.open.size
    /\ e.mtime = Mtime(e.file) =>
          s.open = Content(e.file) /\ s.of \subseteq {s.open}

(* The size of an entry is that of its file until the file moves.          *)
Measured(e) ==
    ~stream.moved /\ IsFile(e.file) => e.size = Content(e.file).size

StreamIsRight ==
    /\ request.at # "stream" => stream.open = NoContent
    /\ stream.open = NoContent => stream.of = {} /\ stream.bytes = 0
    /\ request.at \in {"load", "answer", "stream"} => Sized(entry)
    /\ request.at \in {"load", "answer", "stream"} /\ stream.open = NoContent
          => Measured(entry)
    /\ stream.open # NoContent => Reads(request, entry, stream)

(* A 304 is about an answer that the client has. *)
ConfirmsAnswers ==
    \A i \in DOMAIN answers :
        answers[i].status = 304 => answers[i].known \in DOMAIN answers

IsCurrent(a) ==
    /\ a.body.of \subseteq a.meanwhile
    /\ a.status = 200 => \/ a.moved /\ a.made.memory = NoContent
                        \/ /\ IsVersion(a, a.body)
                           /\ a.body.bytes = a.announced
    /\ a.status = 206 => a.moved \/ IsPart(a)
    /\ a.status = 304 => \/ WentBack(a) \/ Mixed(a)
                        \/ IsVersion(a, Known(a).body)

IsASequence == \E S : answers \in Seq(S)
Current ==
    /\ DiskOK /\ HandlerOK
    /\ CacheIsSound /\ CopiesAreSound /\ MeanwhileIsNow /\ EntryIsMade
    /\ StreamIsRight
    /\ ConfirmsAnswers /\ \A i \in DOMAIN answers : IsCurrent(answers[i])
FilesInv == IsASequence /\ Current

(* What Append() does to a sequence. *)
LEMMA AppendFacts ==
    ASSUME NEW s, NEW x, NEW t, \E S : s \in Seq(S), t = Append(s, x)
    PROVE  /\ Len(s) \in Nat /\ DOMAIN s = 1..Len(s)
           /\ Len(t) = Len(s) + 1 /\ DOMAIN t = 1..Len(s) + 1
           /\ \A i \in DOMAIN s : i \in DOMAIN t /\ t[i] = s[i]
           /\ t[Len(s) + 1] = x /\ Len(s) + 1 \in DOMAIN t
           /\ \A i \in DOMAIN t : i \in DOMAIN s \/ i = Len(s) + 1
           /\ \E S : t \in Seq(S)
<1>1. PICK S : s \in Seq(S)
  OBVIOUS
<1> DEFINE T == S \cup {x}
<1>2. s \in Seq(T) /\ x \in T
  BY <1>1
<1>3. t \in Seq(T)
  BY <1>2
<1> HIDE DEF T
<1>4. Len(s) \in Nat /\ DOMAIN s = 1..Len(s)
  BY <1>2
<1>5. Len(t) = Len(s) + 1 /\ DOMAIN t = 1..Len(s) + 1
  BY <1>2, <1>3
<1>6. \A i \in 1..Len(s) : t[i] = s[i]
  BY <1>2
<1>7. t[Len(s) + 1] = x
  BY <1>2
<1> QED BY <1>3, <1>4, <1>5, <1>6, <1>7

(* The fields of an entry, one of which is assigned.                       *)
LEMMA EntryHash ==
    ASSUME NEW e, IsEntry(e), NEW x, NEW d, d = [e EXCEPT !.etag = x]
    PROVE  IsEntry(d) /\ d.etag = x /\ d.file = e.file /\ d.memory = e.memory
<1>1. d = [file |-> e.file, etag |-> x, mtime |-> e.mtime, torn |-> e.torn,
           size |-> e.size, memory |-> e.memory]
  BY DEF IsEntry
<1> QED BY <1>1 DEF IsEntry

(* Its size. *)
LEMMA EntrySize ==
    ASSUME NEW e, IsEntry(e), NEW x, NEW d, d = [e EXCEPT !.size = x]
    PROVE  /\ IsEntry(d) /\ d.file = e.file /\ d.etag = e.etag
           /\ d.mtime = e.mtime /\ d.torn = e.torn /\ d.memory = e.memory
           /\ d.size = x
<1>1. d = [file |-> e.file, etag |-> e.etag, mtime |-> e.mtime,
           torn |-> e.torn, size |-> x, memory |-> e.memory]
  BY DEF IsEntry
<1> QED BY <1>1 DEF IsEntry

(* Its content. *)
LEMMA EntryContent ==
    ASSUME NEW e, IsEntry(e), NEW x, NEW d, d = [e EXCEPT !.memory = x]
    PROVE  /\ IsEntry(d) /\ d.file = e.file /\ d.etag = e.etag
           /\ d.mtime = e.mtime /\ d.torn = e.torn /\ d.memory = x
           /\ d.size = e.size
<1>1. d = [file |-> e.file, etag |-> e.etag, mtime |-> e.mtime,
           torn |-> e.torn, size |-> e.size, memory |-> x]
  BY DEF IsEntry
<1> QED BY <1>1 DEF IsEntry

(* An entry in which nothing is known but the file. *)
LEMMA NewEntry ==
    ASSUME NEW f, NEW d, d = [NoEntry EXCEPT !.file = f]
    PROVE  /\ IsEntry(NoEntry) /\ NoEntry.memory = NoContent
           /\ IsEntry(d) /\ d.file = f /\ d.memory = NoContent
<1>1. d = [file |-> f, etag |-> NoContent, mtime |-> 0, torn |-> FALSE,
           size |-> 0, memory |-> NoContent]
  BY DEF NoEntry
<1>2. IsEntry(NoEntry) /\ NoEntry.memory = NoContent
  BY DEF NoEntry, IsEntry
<1> QED BY <1>1, <1>2 DEF IsEntry

(* What exists() remembers it does not change. *)
Remembers ==
    /\ \A f \in DOMAIN exists : f \in DOMAIN exists' /\ exists'[f] = exists[f]
    /\ \A f \in DOMAIN exists' : exists'[f] \in BOOLEAN

(* A path always has the same root.                                        *)
LEMMA FirstIsUnique ==
    ASSUME Len(Paths) \in Nat, DOMAIN Paths = 1..Len(Paths), NEW path, NEW f,
           NEW g, First(path, f), First(path, g)
    PROVE  f = g
<1>1. PICK i \in DOMAIN Paths :
          /\ f = Candidates(path)[i]
          /\ f \in DOMAIN exists /\ exists[f] = TRUE
          /\ \A j \in 1..i - 1 :
                /\ Candidates(path)[j] \in DOMAIN exists
                /\ exists[Candidates(path)[j]] = FALSE
  BY DEF First
<1>2. PICK k \in DOMAIN Paths :
          /\ g = Candidates(path)[k]
          /\ g \in DOMAIN exists /\ exists[g] = TRUE
          /\ \A j \in 1..k - 1 :
                /\ Candidates(path)[j] \in DOMAIN exists
                /\ exists[Candidates(path)[j]] = FALSE
  BY DEF First
<1>3. i \in Nat /\ k \in Nat /\ i >= 1 /\ k >= 1
  OBVIOUS
<1>4. ~(i < k)
  <2> SUFFICES ASSUME i < k PROVE FALSE
    OBVIOUS
  <2>1. i \in 1..k - 1
    BY <1>3
  <2>2. exists[f] = FALSE
    BY <1>1, <1>2, <2>1
  <2> QED BY <1>1, <2>2
<1>5. ~(k < i)
  <2> SUFFICES ASSUME k < i PROVE FALSE
    OBVIOUS
  <2>1. k \in 1..i - 1
    BY <1>3
  <2>2. exists[g] = FALSE
    BY <1>1, <1>2, <2>1
  <2> QED BY <1>2, <2>2
<1> QED BY <1>1, <1>2, <1>3, <1>4, <1>5

(* It stays so when more is remembered. *)
LEMMA FirstStays ==
    ASSUME Remembers, UNCHANGED site, NEW path, NEW f, First(path, f)
    PROVE  First(path, f)'
  BY DEF First, Remembers, Candidates

(* That root's file is one of the path's, and on the disk.                 *)
LEMMA FirstIsACandidate ==
    ASSUME DiskOK, NEW path, NEW f, First(path, f)
    PROVE  /\ f \in Range(Candidates(path)) /\ f \in DOMAIN disk
           /\ Content(f) \in Versions(path)
<1>1. PICK i \in DOMAIN Paths : f = Candidates(path)[i]
  BY DEF First
<1>2. DOMAIN Candidates(path) = DOMAIN Paths /\ f = <<Paths[i], path>>
  BY <1>1 DEF Candidates
<1>3. f \in Range(Candidates(path))
  BY <1>1, <1>2 DEF Range
<1>4. f \in DOMAIN disk
  BY <1>2, PathsAssumption DEF DiskOK, First
<1> QED BY <1>3, <1>4 DEF Versions

(* Files have sizes. *)
LEMMA SizesAreNat ==
    ASSUME DiskOK, NEW path, NEW f, First(path, f), IsFile(f)
    PROVE  Content(f).size \in Nat
<1>1. PICK i \in DOMAIN Paths : f = Candidates(path)[i]
  BY DEF First
<1>2. f = <<Paths[i], path>> /\ path \in site.paths
  BY <1>1 DEF Candidates, First
<1>3. f \in DOMAIN disk
  BY FirstIsACandidate
<1>4. Content(f) \in ({site.files[f]} \cup site.edits[f]) \ {NoContent}
  BY <1>3 DEF DiskOK, IsFile, Content
<1> QED BY <1>2, <1>4, SizesAssumption DEF DiskOK

(* Without a change of files, what holds of an entry goes on to hold.      *)
LEMMA SoundStays ==
    ASSUME Remembers, UNCHANGED diskVars, NEW path, NEW e, Sound(path, e)
    PROVE  Sound(path, e)'
<1>1. First(path, e.file)'
  BY FirstStays DEF Sound, diskVars
<1> QED BY <1>1 DEF Sound, diskVars, Mtime, Content

(* The same of its size. *)
LEMMA SizedStays ==
    ASSUME UNCHANGED diskVars, NEW e, Sized(e)
    PROVE  Sized(e)'
  BY DEF Sized, diskVars, Mtime, Content, IsFile

(* What is in the cache and what clients have is still of use, if only     *)
(* exists() learns.                                                        *)
LEMMA CacheStays ==
    ASSUME FilesInv, Remembers, UNCHANGED diskVars, UNCHANGED cache
    PROVE  CacheIsSound'
  BY SoundStays, SizedStays DEF FilesInv, Current, CacheIsSound

(* The same of what clients have. *)
LEMMA CopyStays ==
    ASSUME Remembers, UNCHANGED diskVars, NEW a, CopyIsSound(a)
    PROVE  CopyIsSound(a)'
<1>1. Sound(a.path, a.made)'
  BY SoundStays DEF CopyIsSound
<1> QED BY <1>1 DEF CopyIsSound, diskVars, Mtime, Content

(* A request in progress, which goes to another place.                     *)
LEMMA Moves ==
    ASSUME HandlerOK, request # NoRequest, NEW place \in Places, Goto(place),
           UNCHANGED <<site, answers>>
    PROVE  /\ IsRequest(request)' /\ request' # NoRequest
           /\ request'.at = place /\ request'.path = request.path
           /\ request'.range = request.range
<1>1. IsRequest(request)
  BY DEF HandlerOK
<1>2. request' = [at |-> place, path |-> request.path,
                  range |-> request.range,
                  condition |-> request.condition, known |-> request.known]
  BY <1>1 DEF IsRequest, Goto
<1>3. /\ request'.at = place /\ request'.path = request.path
      /\ request'.range = request.range
      /\ request'.condition = request.condition
      /\ request'.known = request.known
  BY <1>2
<1>4. request' # NoRequest
  <2>1. NoRequest.at = "idle" /\ place # "idle"
    BY DEF NoRequest, Places
  <2> QED BY <1>3, <2>1
<1>5. IsRequest(request)'
  BY <1>1, <1>2, <1>3 DEF IsRequest, Copy
<1> QED BY <1>3, <1>4, <1>5

(* The handler makes an entry or gives it to the client.                   *)
LEMMA StepKeeps ==
    ASSUME FilesInv, Remembers, UNCHANGED diskVars,
           UNCHANGED <<answers, meanwhile>>, request' # NoRequest,
           IsRequest(request)', request'.path = request.path,
           request # NoRequest, IsEntry(entry'), IsStream(stream'),
           CacheIsSound', EntryIsMade', StreamIsRight'
    PROVE  FilesInv'
<1>1. DiskOK' /\ IsASequence'
  BY DEF FilesInv, Current, DiskOK, diskVars, Mtime, Content, IsASequence
<1>2. HandlerOK'
  BY DEF HandlerOK, Remembers
<1>3. CopiesAreSound'
  BY CopyStays DEF FilesInv, Current, CopiesAreSound, Copy
<1>4. MeanwhileIsNow'
  BY DEF FilesInv, Current, MeanwhileIsNow, Versions, Content, Candidates,
         diskVars
<1>5. ConfirmsAnswers' /\ \A i \in DOMAIN answers : IsCurrent(answers[i])'
  BY DEF FilesInv, Current, ConfirmsAnswers, IsCurrent, Known, IsVersion,
         IsPart, WentBack, Mixed
<1> QED BY <1>1, <1>2, <1>3, <1>4, <1>5 DEF FilesInv, Current

(* The client gets an answer as StaticIsCurrent has it; what it has whole  *)
(* is sound; and a 304 is about what it has.                               *)
LEMMA AnswerKeeps ==
    ASSUME FilesInv, Remembers, UNCHANGED diskVars, request # NoRequest,
           CacheIsSound', NEW status, NEW announced, NEW body, NEW made,
           Answer(status, announced, body, made),
           body.of \subseteq meanwhile,
           status = 200 =>
              \/ stream.moved /\ made.memory = NoContent
              \/ /\ \E c \in meanwhile : body = Whole(c)
                 /\ body.bytes = announced,
           status = 200 /\ body.bytes = announced =>
              /\ Sound(request.path, made)
              /\ made.mtime = Mtime(made.file) =>
                    body = Whole(Content(made.file)),
           status = 206 =>
              \/ stream.moved
              \/ \E c \in meanwhile :
                    /\ body.of = {c}
                    /\ request.range.end <= c.size => body.bytes = announced
                    /\ body.bytes <= announced,
           status = 304 =>
              /\ request.known # 0
              /\ \/ \E c \in meanwhile : answers[request.known].body = Whole(c)
                 \/ /\ request.condition = "since"
                    /\ made.mtime < answers[request.known].made.mtime
                 \/ /\ request.condition = "match"
                    /\ \/ made.torn
                       \/ answers[request.known].body #
                             Whole(answers[request.known].made.etag)
    PROVE  FilesInv'
<1>0. PICK a : a = [status |-> status, announced |-> announced, body |-> body,
                    path |-> request.path, range |-> request.range,
                    known |-> request.known, condition |-> request.condition,
                    made |-> made, moved |-> stream.moved,
                    meanwhile |-> meanwhile]
  OBVIOUS
<1>1. /\ answers' = Append(answers, a) /\ request' = NoRequest
      /\ meanwhile' = {} /\ entry' = NoEntry /\ stream' = NoStream
  BY <1>0 DEF Answer
<1>2. /\ \A i \in DOMAIN answers : i \in DOMAIN answers'
                                   /\ answers'[i] = answers[i]
      /\ \A i \in DOMAIN answers' : i \in DOMAIN answers \/ answers'[i] = a
      /\ IsASequence'
  <2>1. \E S : answers \in Seq(S)
    BY DEF FilesInv, IsASequence
  <2>2. /\ \A i \in DOMAIN answers :
              i \in DOMAIN answers' /\ answers'[i] = answers[i]
        /\ answers'[Len(answers) + 1] = a
        /\ \A i \in DOMAIN answers' :
              i \in DOMAIN answers \/ i = Len(answers) + 1
        /\ \E S : answers' \in Seq(S)
    BY <1>1, <2>1, AppendFacts
  <2> QED BY <2>2 DEF IsASequence
<1>3. DiskOK'
  BY DEF FilesInv, Current, DiskOK, diskVars, Mtime, Content
<1>4. HandlerOK'
  BY <1>1, NewEntry DEF HandlerOK, Remembers, NoStream, IsStream
<1>5. /\ a.status = status /\ a.path = request.path /\ a.body = body
      /\ a.announced = announced /\ a.range = request.range
      /\ a.known = request.known /\ a.condition = request.condition
      /\ a.made = made /\ a.meanwhile = meanwhile
  BY <1>0
<1>6. a.moved = stream.moved
  BY <1>0, Zenon
<1>7. IsRequest(request)
  BY DEF FilesInv, Current, HandlerOK
<1>8. CopiesAreSound'
  <2> SUFFICES ASSUME NEW i \in DOMAIN answers', Copy(answers'[i])
               PROVE  CopyIsSound(answers[i])'
    BY DEF CopiesAreSound, Copy
  <2>1. CASE i \in DOMAIN answers
    <3>1. answers'[i] = answers[i]
      BY <1>2, <2>1
    <3>2. PICK c : c = answers[i]
      OBVIOUS
    <3>3. CopyIsSound(c)'
      BY <2>1, <3>1, <3>2, CopyStays
      DEF FilesInv, Current, CopiesAreSound, Copy
    <3> QED BY <3>1, <3>2, <3>3 DEF CopyIsSound
  <2>2. CASE answers'[i] = a
    <3>1. /\ Sound(request.path, made)
          /\ made.mtime = Mtime(made.file) =>
                body = Whole(Content(made.file))
      BY <1>5, <2>2 DEF Copy
    <3> QED BY <1>5, <2>2, <3>1, SoundStays
            DEF CopyIsSound, diskVars, Mtime, Content
  <2> QED BY <1>2, <2>1, <2>2
<1>9. MeanwhileIsNow' /\ EntryIsMade' /\ StreamIsRight'
  BY <1>1 DEF MeanwhileIsNow, EntryIsMade, StreamIsRight, NoRequest, NoStream
<1>10. status = 304 => /\ request.known \in DOMAIN answers
                       /\ request.known \in DOMAIN answers'
                       /\ answers'[request.known] = answers[request.known]
  BY <1>2, <1>7 DEF IsRequest
<1>11. ConfirmsAnswers'
  BY <1>2, <1>5, <1>10 DEF FilesInv, Current, ConfirmsAnswers
<1>12. IsCurrent(a)'
  <2>1. a.body.of \subseteq a.meanwhile
    BY <1>5
  <2>2. a.status = 200 => \/ a.moved /\ a.made.memory = NoContent
                         \/ /\ IsVersion(a, a.body)
                            /\ a.body.bytes = a.announced
    BY <1>5, <1>6, Zenon DEF IsVersion
  <2>3. a.status = 206 => a.moved \/ IsPart(a)
    BY <1>5, <1>6 DEF IsPart
  <2>4. a.status = 304 =>
           (WentBack(a) \/ Mixed(a) \/ IsVersion(a, Known(a).body))'
    <3> SUFFICES ASSUME status = 304
                 PROVE  (\/ WentBack(a) \/ Mixed(a)
                         \/ IsVersion(a, Known(a).body))'
      BY <1>5
    <3>1. PICK k : k = answers[request.known] /\ k = answers'[a.known]
      BY <1>5, <1>10
    <3>2. \/ \E c \in a.meanwhile : k.body = Whole(c)
          \/ a.condition = "since" /\ a.made.mtime < k.made.mtime
          \/ /\ a.condition = "match"
             /\ a.made.torn \/ k.body # Whole(k.made.etag)
      BY <1>5, <3>1
    <3> QED BY <3>1, <3>2 DEF WentBack, Mixed, IsVersion, Known
  <2> QED BY <2>1, <2>2, <2>3, <2>4 DEF IsCurrent, IsVersion, IsPart
<1>13. \A i \in DOMAIN answers' : IsCurrent(answers[i])'
  <2> TAKE i \in DOMAIN answers'
  <2>1. CASE i \in DOMAIN answers
    <3>1. PICK c : c = answers[i] /\ c = answers'[i]
      BY <1>2, <2>1
    <3>2. IsCurrent(c)
      BY <2>1, <3>1 DEF FilesInv, Current
    <3>3. c.status = 304 => answers'[c.known] = answers[c.known]
      BY <1>2, <2>1, <3>1 DEF FilesInv, Current, ConfirmsAnswers
    <3>4. IsCurrent(c)'
      BY <3>2, <3>3
      DEF IsCurrent, Known, IsVersion, IsPart, WentBack, Mixed
    <3> QED BY <3>1, <3>4
  <2>2. CASE answers'[i] = a
    <3>1. PICK c : c = a /\ c = answers'[i]
      BY <2>2
    <3>2. IsCurrent(c)'
      BY <1>12, <3>1
    <3> QED BY <3>1, <3>2
  <2> QED BY <1>2, <2>1, <2>2
<1> QED BY <1>2, <1>3, <1>4, <1>8, <1>9, <1>11, <1>13 DEF FilesInv, Current

(* Answers without content.                                                *)
LEMMA EmptyKeeps ==
    ASSUME FilesInv, Remembers, UNCHANGED diskVars, request # NoRequest,
           CacheIsSound', NEW status \in {0, 404, 500}, NEW announced, NEW made,
           Answer(status, announced, NoBody, made)
    PROVE  FilesInv'
<1>1. NoBody.of = {}
  BY DEF NoBody
<1> QED BY <1>1, AnswerKeeps

(* An exception. *)
LEMMA FailsKeeps ==
    ASSUME FilesInv, Remembers, UNCHANGED diskVars, request # NoRequest,
           NEW status \in {404, 500}, Fails(status)
    PROVE  FilesInv'
<1>1. Answer(status, 0, NoBody, NoEntry) /\ CacheIsSound'
  BY CacheStays DEF Fails
<1> QED BY <1>1, EmptyKeeps

(* What the path's file has now, its time and copies of that time.         *)
LEMMA NowStands ==
    ASSUME FilesInv, IsRequest(request), NEW e, Sound(request.path, e),
           e.mtime = Mtime(e.file), IsFile(e.file)
    PROVE  Stands(e)
<1> DEFINE path == request.path
<1>1. request # NoRequest
  <2>1. NoRequest.at = "idle" /\ "idle" \notin Places
    BY DEF NoRequest, Places
  <2> QED BY <2>1 DEF IsRequest
<1>2. First(path, e.file)
  BY DEF Sound
<1>3. Content(e.file) \in meanwhile
  BY <1>1, <1>2, FirstIsACandidate
  DEF FilesInv, Current, MeanwhileIsNow, IsFile, Content
<1>4. ASSUME NEW i \in DOMAIN answers, Copy(answers[i]),
             answers[i].path = path, answers[i].made.mtime = e.mtime
      PROVE  \E c \in meanwhile : answers[i].body = Whole(c)
  <2>1. CopyIsSound(answers[i])
    BY <1>4 DEF FilesInv, Current, CopiesAreSound
  <2>2. First(path, answers[i].made.file)
    BY <1>4, <2>1 DEF CopyIsSound, Sound
  <2>3. answers[i].made.file = e.file
    BY <1>2, <2>2, FirstIsUnique, PathsAssumption
  <2>4. answers[i].body = Whole(Content(e.file))
    BY <1>4, <2>1, <2>3 DEF CopyIsSound
  <2> QED BY <1>3, <2>4
<1> QED BY <1>3, <1>4 DEF Stands, Sound

(* What stands does so when the handler goes on. *)
LEMMA StandsStays ==
    ASSUME Remembers, UNCHANGED diskVars, UNCHANGED <<answers, meanwhile>>,
           request'.path = request.path, NEW e, Stands(e)
    PROVE  Stands(e)'
<1>1. Sound(request.path, e)'
  BY SoundStays DEF Stands
<1> QED BY <1>1 DEF Stands, Copy

(* The handler is somewhere only when there is a request. *)
LEMMA InProgress ==
    ASSUME HandlerOK, request.at \in Places
    PROVE  request # NoRequest /\ IsRequest(request)
<1>1. NoRequest.at = "idle" /\ "idle" \notin Places
  BY DEF NoRequest, Places
<1> QED BY <1>1 DEF HandlerOK

(* Steps that leave exists() alone. *)
LEMMA ExistsStays ==
    ASSUME FilesInv, UNCHANGED exists
    PROVE  Remembers
  BY DEF FilesInv, Current, HandlerOK, Remembers

(* Before its place there is nothing in a stream. *)
LEMMA StreamStays ==
    ASSUME FilesInv, UNCHANGED diskVars, UNCHANGED stream,
           stream.open = NoContent,
           request'.at \in {"load", "answer", "stream"} =>
              Sized(entry') /\ Measured(entry')
    PROVE  IsStream(stream') /\ StreamIsRight'
<1>1. IsStream(stream') /\ stream'.open = NoContent
  BY DEF FilesInv, Current, HandlerOK
<1>2. stream'.of = {} /\ stream'.bytes = 0
  BY DEF FilesInv, Current, StreamIsRight
<1>3. ASSUME NEW e, Sized(e), Measured(e), e = entry'
      PROVE  Sized(entry)' /\ Measured(entry)'
  BY <1>3 DEF Sized, Measured, diskVars, Mtime, Content, IsFile
<1>4. request'.at \in {"load", "answer", "stream"} =>
         Sized(entry)' /\ Measured(entry)'
  <2>1. PICK e : e = entry'
    OBVIOUS
  <2> QED BY <1>3, <2>1
<1> QED BY <1>1, <1>2, <1>4 DEF StreamIsRight
-----------------------------------------------------------------------------
(* A request begins: what the path's files have is noted.                  *)
LEMMA AskKeeps ==
    ASSUME FilesInv, UNCHANGED diskVars, NEW path \in site.paths,
           NEW range \in {WholeFile} \cup Ranges,
          
           NEW condition, NEW known \in 0..Len(answers),
           Ask(path, range, condition, known)
    PROVE  FilesInv'
<1> DEFINE r == [at |-> "look up", path |-> path, range |-> range,
                 condition |-> condition, known |-> known]
<1>1. /\ request' = r /\ meanwhile' = Versions(path) \ {NoContent}
      /\ UNCHANGED <<entry, stream, cache, cacheSize, exists, answers>>
      /\ known # 0 => Copy(answers[known]) /\ answers[known].path = path
      /\ (known = 0) = (condition = "none")
  BY DEF Ask, Copy
<1>2. Remembers
  BY <1>1, ExistsStays
<1>3. /\ request'.at = "look up" /\ request'.path = path
      /\ request'.range = range /\ request'.condition = condition
      /\ request'.known = known
  BY <1>1
<1>4. known # 0 => known \in DOMAIN answers
  <2>1. PICK S : answers \in Seq(S)
    BY DEF FilesInv, IsASequence
  <2> QED BY <2>1
<1>5. IsRequest(request)'
  BY <1>1, <1>3, <1>4 DEF IsRequest, Copy, Places, diskVars
<1>6. DiskOK' /\ IsASequence'
  BY <1>1 DEF FilesInv, Current, DiskOK, diskVars, Mtime, Content,
              IsASequence
<1>7. HandlerOK'
  BY <1>1, <1>2, <1>5 DEF FilesInv, Current, HandlerOK, Remembers, IsEntry,
                               IsStream
<1>8. CacheIsSound'
  BY <1>1, <1>2, CacheStays
<1>9. CopiesAreSound'
  BY <1>1, <1>2, CopyStays DEF FilesInv, Current, CopiesAreSound, Copy
<1>10. MeanwhileIsNow'
  BY <1>1, <1>3
  DEF MeanwhileIsNow, Versions, Content, Candidates, diskVars
<1>11. EntryIsMade'
  BY <1>3 DEF EntryIsMade
<1>12. ConfirmsAnswers' /\ \A i \in DOMAIN answers : IsCurrent(answers[i])'
  BY ZenonT(30), <1>1
  DEF FilesInv, Current, ConfirmsAnswers, IsCurrent, Known, IsVersion, IsPart,
      WentBack, Mixed
<1>13. StreamIsRight'
  <2>1. request.at = "idle"
    BY DEF Ask
  <2>2. stream.open = NoContent
    BY <2>1 DEF FilesInv, Current, StreamIsRight
  <2> QED BY <1>1, <1>2, <1>3, <2>2, StreamStays
<1> QED BY <1>1, <1>6, <1>7, <1>8, <1>9, <1>10, <1>11, <1>12, <1>13
        DEF FilesInv, Current

(* An entry that needs no update has what its file has now.                *)
LEMMA LookUpKeeps ==
    ASSUME FilesInv, UNCHANGED diskVars, LookUp
    PROVE  FilesInv'
<1> DEFINE cached == cache[request.path]
<1>1. /\ request.at = "look up" /\ UNCHANGED exists
      /\ \/ Fails(500)
         \/ /\ request.path \in DOMAIN cache /\ ~NeedsUpdate(cached)
            /\ IsFile(cached.file)
            /\ Goto("answer") /\ entry' = cached
            /\ UNCHANGED <<stream, cache, answers, meanwhile>>
         \/ /\ Goto("find")
            /\ UNCHANGED <<entry, stream, cache, answers, meanwhile>>
  BY DEF LookUp
<1>2. request # NoRequest /\ IsRequest(request) /\ Remembers
  BY <1>1, ExistsStays, InProgress DEF Places, FilesInv, Current
<1>3. stream.open = NoContent
  BY <1>1 DEF FilesInv, Current, StreamIsRight
<1>4. CASE Fails(500)
  BY <1>2, <1>4, FailsKeeps
<1>5. CASE /\ request.path \in DOMAIN cache /\ ~NeedsUpdate(cached)
           /\ IsFile(cached.file)
           /\ Goto("answer") /\ entry' = cached
           /\ UNCHANGED <<stream, cache, answers, meanwhile>>
  <2>1. /\ request'.at = "answer" /\ request'.path = request.path
        /\ request' # NoRequest /\ IsRequest(request)'
    BY <1>2, <1>5, Moves DEF Places, FilesInv, Current, diskVars
  <2>2. /\ Sound(request.path, cached) /\ Sized(cached)
        /\ cached.mtime = Mtime(cached.file)
    BY <1>5 DEF FilesInv, Current, CacheIsSound, NeedsUpdate
  <2>3. PICK e : e = cached
    OBVIOUS
  <2>4. Stands(e)'
    BY <1>2, <1>5, <2>1, <2>2, <2>3, NowStands, StandsStays
  <2>5. EntryIsMade'
    BY <1>5, <2>1, <2>3, <2>4 DEF EntryIsMade
  <2>6. CacheIsSound' /\ IsEntry(entry')
    BY <1>2, <1>5, <2>2, CacheStays DEF Sound
  <2>7. IsStream(stream') /\ StreamIsRight'
    BY <1>5, <1>3, <2>2, StreamStays DEF Sized, Measured
  <2> QED BY <1>2, <1>5, <2>1, <2>5, <2>6, <2>7, StepKeeps
<1>6. CASE /\ Goto("find")
           /\ UNCHANGED <<entry, stream, cache, answers, meanwhile>>
  <2>1. /\ request'.at = "find" /\ request'.path = request.path
        /\ request' # NoRequest /\ IsRequest(request)'
    BY <1>2, <1>6, Moves DEF Places, FilesInv, Current, diskVars
  <2>2. EntryIsMade' /\ IsEntry(entry')
    BY <1>6, <2>1 DEF EntryIsMade, FilesInv, Current, HandlerOK, IsEntry
  <2>3. CacheIsSound'
    BY <1>2, <1>6, CacheStays
  <2>4. IsStream(stream') /\ StreamIsRight'
    BY <1>6, <1>3, <2>1, StreamStays
  <2> QED BY <1>2, <1>6, <2>1, <2>2, <2>3, <2>4, StepKeeps
<1> QED BY <1>1, <1>4, <1>5, <1>6

(* The first root that has the path, for all times.                        *)
LEMMA FindKeeps ==
    ASSUME FilesInv, UNCHANGED diskVars, Find
    PROVE  FilesInv'
<1> DEFINE path == request.path
           files == Candidates(path)
<1>1. request # NoRequest /\ IsRequest(request)
  BY InProgress DEF Find, Places, FilesInv, Current
<1>2. \A f : Exists(f) \in BOOLEAN
  BY DEF FilesInv, Current, HandlerOK, Exists, IsFile
<1>3. ASSUME NEW S, Remember(S)
      PROVE  /\ Remembers /\ S \subseteq DOMAIN exists'
             /\ \A f \in S : exists'[f] = Exists(f)
  BY <1>2, <1>3 DEF Remember, Remembers, Exists
<1>4. CASE Remember(Range(files)) /\ Fails(404)
  BY <1>1, <1>3, <1>4, FailsKeeps
<1>5. ASSUME NEW i \in DOMAIN files,
             Exists(files[i]), \A j \in 1..i - 1 : ~Exists(files[j]),
             Remember({files[j] : j \in 1..i}), Goto("hash"),
             entry' = [NoEntry EXCEPT !.file = files[i]],
             UNCHANGED <<stream, cache, cacheSize, answers, meanwhile>>
      PROVE  FilesInv'
  <2>1. Remembers
    BY <1>3, <1>5
  <2>2. /\ DOMAIN files = DOMAIN Paths /\ i \in Nat /\ i \in 1..i
        /\ \A j \in 1..i - 1 : j \in 1..i
    BY PathsAssumption DEF Candidates
  <2>3. \A j \in 1..i : /\ files[j] \in DOMAIN exists'
                        /\ exists'[files[j]] = Exists(files[j])
    BY <1>3, <1>5
  <2>4. /\ IsEntry(entry') /\ entry'.file = files[i]
        /\ entry'.memory = NoContent
    BY <1>5, NewEntry
  <2>5. /\ request'.at = "hash" /\ request'.path = path
        /\ request' # NoRequest /\ IsRequest(request)'
    BY <1>1, <1>5, Moves DEF Places, FilesInv, Current, diskVars
  <2>6. ASSUME NEW p, NEW f, p = path, f = files[i]
        PROVE  First(p, f)'
    <3>1. f \in DOMAIN exists' /\ exists'[f] = TRUE
      BY <1>2, <1>5, <2>2, <2>3, <2>6
    <3>2. \A j \in 1..i - 1 : /\ files[j] \in DOMAIN exists'
                              /\ exists'[files[j]] = FALSE
      BY <1>2, <1>5, <2>2, <2>3
    <3>3. p \in site'.paths /\ i \in DOMAIN Paths
      BY <1>1, <2>2, <2>6 DEF IsRequest, diskVars
    <3>4. files = Candidates(p)
      BY <2>6
    <3> HIDE DEF files
    <3> QED BY <2>6, <3>1, <3>2, <3>3, <3>4 DEF First
  <2>7. First(request.path, entry.file)'
    <3>1. PICK p, f : p = path /\ f = files[i]
      OBVIOUS
    <3> QED BY <2>4, <2>5, <2>6, <3>1
  <2>8. EntryIsMade'
    BY <2>4, <2>5, <2>7 DEF EntryIsMade
  <2>9. CacheIsSound'
    BY <1>5, <2>1, CacheStays
  <2>10. IsStream(stream') /\ StreamIsRight'
    <3>1. stream.open = NoContent
      BY DEF Find, FilesInv, Current, StreamIsRight
    <3> QED BY <1>5, <2>5, <3>1, StreamStays
  <2> QED BY <1>1, <1>5, <2>1, <2>4, <2>5, <2>8, <2>9, <2>10, StepKeeps
<1> QED BY <1>4, <1>5 DEF Find

(* The steps of CacheEntry.__init__().                                     *)
LEMMA InspectMoves ==
    ASSUME FilesInv, UNCHANGED diskVars, NEW from \in Places, NEW to \in Places,
           NEW result, Inspect(from, to, result)
    PROVE  /\ request # NoRequest /\ IsRequest(request) /\ Remembers
           /\ request.at = from
           /\ \/ FilesInv'
              \/ /\ IsFile(entry.file) /\ entry' = result
                 /\ stream' = NoStream
                 /\ UNCHANGED <<answers, meanwhile>> /\ CacheIsSound'
                 /\ request'.at = to /\ request'.path = request.path
                 /\ request' # NoRequest /\ IsRequest(request)'
<1>1. /\ request.at = from /\ UNCHANGED exists
      /\ \/ Fails(500)
         \/ /\ IsFile(entry.file) /\ entry' = result /\ Goto(to)
            /\ stream' = NoStream
            /\ UNCHANGED <<cache, cacheSize, answers, meanwhile>>
  BY DEF Inspect
<1>2. request # NoRequest /\ IsRequest(request) /\ Remembers
  BY <1>1, InProgress, ExistsStays DEF FilesInv, Current
<1>3. CASE Fails(500)
  BY <1>1, <1>2, <1>3, FailsKeeps
<1>4. CASE /\ IsFile(entry.file) /\ entry' = result /\ Goto(to)
           /\ stream' = NoStream
           /\ UNCHANGED <<cache, cacheSize, answers, meanwhile>>
  <2>1. /\ request'.at = to /\ request'.path = request.path
        /\ request' # NoRequest /\ IsRequest(request)'
    BY <1>2, <1>4, Moves DEF FilesInv, Current, diskVars
  <2>2. CacheIsSound'
    BY <1>2, <1>4, CacheStays
  <2> QED BY <1>1, <1>2, <1>4, <2>1, <2>2
<1> QED BY <1>1, <1>3, <1>4, <1>2

(* After each of them nothing is on its way; after the last one the entry  *)
(* has the size of its file.                                               *)
LEMMA NothingOpen ==
    ASSUME UNCHANGED diskVars, stream' = NoStream,
           request'.at \notin {"answer", "stream"},
           request'.at = "load" =>
              IsFile(entry'.file) /\ entry'.size = Content(entry'.file).size
    PROVE  IsStream(stream') /\ StreamIsRight'
<1>1. IsStream(stream') /\ stream'.open = NoContent /\ stream'.of = {}
      /\ stream'.bytes = 0
  BY DEF NoStream, IsStream
<1>2. request'.at = "load" => Sized(entry)' /\ Measured(entry)'
  BY DEF Sized, Measured, diskVars, Content, IsFile
<1> QED BY <1>1, <1>2 DEF StreamIsRight

(* The hash: of what the file has now.                                     *)
LEMMA HashKeeps ==
    ASSUME FilesInv, UNCHANGED diskVars, GetHash
    PROVE  FilesInv'
<1> DEFINE f == entry.file
           result == [entry EXCEPT !.etag = Content(f)]
<1>1. /\ request # NoRequest /\ IsRequest(request) /\ Remembers
      /\ request.at = "hash"
      /\ \/ FilesInv'
         \/ /\ IsFile(entry.file) /\ entry' = result /\ stream' = NoStream
            /\ UNCHANGED <<answers, meanwhile>> /\ CacheIsSound'
            /\ request'.at = "mtime" /\ request'.path = request.path
            /\ request' # NoRequest /\ IsRequest(request)'
  BY InspectMoves DEF GetHash, Places
<1> SUFFICES ASSUME /\ IsFile(entry.file) /\ entry' = result
                    /\ stream' = NoStream
                    /\ UNCHANGED <<answers, meanwhile>> /\ CacheIsSound'
                    /\ request'.at = "mtime" /\ request'.path = request.path
                    /\ request' # NoRequest /\ IsRequest(request)'
             PROVE  FilesInv'
  BY <1>1
<1>2. First(request.path, f) /\ entry.memory = NoContent
  BY <1>1 DEF FilesInv, Current, EntryIsMade
<1>3. Content(f) \in meanwhile
  BY <1>1, <1>2, FirstIsACandidate 
  DEF FilesInv, Current, MeanwhileIsNow, IsFile, Content
<1>4. /\ IsEntry(entry') /\ entry'.file = f /\ entry'.etag = Content(f)
      /\ entry'.memory = NoContent
  BY <1>2, EntryHash DEF FilesInv, Current, HandlerOK
<1>5. First(request.path, entry.file)'
  <2>1. PICK p, g : p = request.path /\ g = f
    OBVIOUS
  <2>2. First(p, g)'
    BY <1>1, <1>2, <2>1, FirstStays DEF diskVars
  <2> QED BY <1>4, <2>1, <2>2
<1>6. EntryIsMade'
  BY <1>3, <1>4, <1>5 DEF EntryIsMade
<1>7. IsStream(stream') /\ StreamIsRight'
  BY NothingOpen
<1> QED BY <1>1, <1>4, <1>6, <1>7, StepKeeps

(* The time: from now on the entry stands for what its file has now.       *)
LEMMA MtimeKeeps ==
    ASSUME FilesInv, UNCHANGED diskVars, GetMtime
    PROVE  FilesInv'
<1> DEFINE f == entry.file
           result == [entry EXCEPT !.mtime = Mtime(f),
                                   !.torn = entry.etag # Content(f)]
<1>1. /\ request # NoRequest /\ IsRequest(request) /\ Remembers
      /\ request.at = "mtime"
      /\ \/ FilesInv'
         \/ /\ IsFile(entry.file) /\ entry' = result /\ stream' = NoStream
            /\ UNCHANGED <<answers, meanwhile>> /\ CacheIsSound'
            /\ request'.at = "size" /\ request'.path = request.path
            /\ request' # NoRequest /\ IsRequest(request)'
  BY ZenonT(30), InspectMoves DEF GetMtime, Places
<1> SUFFICES ASSUME /\ IsFile(entry.file) /\ entry' = result
                    /\ stream' = NoStream
                    /\ UNCHANGED <<answers, meanwhile>> /\ CacheIsSound'
                    /\ request'.at = "size" /\ request'.path = request.path
                    /\ request' # NoRequest /\ IsRequest(request)'
             PROVE  FilesInv'
  BY <1>1
<1>2. First(request.path, f) /\ entry.memory = NoContent
  BY <1>1 DEF FilesInv, Current, EntryIsMade
<1>3. PICK e : e = result
  OBVIOUS
<1>4. /\ IsEntry(e) /\ e.file = f /\ e.etag = entry.etag
      /\ e.mtime = Mtime(f) /\ e.torn = (entry.etag # Content(f))
      /\ e.memory = NoContent
  <2>1. IsEntry(entry)
    BY DEF FilesInv, Current, HandlerOK
  <2>2. PICK y : y = (entry.etag # Content(f))
    OBVIOUS
  <2>3. e = [entry EXCEPT !.mtime = Mtime(f), !.torn = y]
    BY <1>3, <2>2
  <2>4. /\ IsEntry(e) /\ e.mtime = Mtime(f) /\ e.torn = y /\ e.file = f
        /\ e.etag = entry.etag /\ e.memory = entry.memory
    <3>1. e = [file |-> f, etag |-> entry.etag, mtime |-> Mtime(f),
               torn |-> y, size |-> entry.size, memory |-> entry.memory]
      BY <2>1, <2>3 DEF IsEntry
    <3> QED BY <3>1 DEF IsEntry
  <2> QED BY <1>2, <2>2, <2>4
<1>5. Mtime(f) \in times
  BY <1>2, FirstIsACandidate DEF FilesInv, Current, DiskOK
<1>6. Sound(request.path, e)
  BY <1>2, <1>4, <1>5 DEF Sound
<1>7. Stands(e)
  BY <1>1, <1>4, <1>6, NowStands
<1>8. Stands(e)'
  BY <1>1, <1>7, StandsStays
<1>9. EntryIsMade'
  BY <1>3, <1>4, <1>8 DEF EntryIsMade
<1>10. IsStream(stream') /\ StreamIsRight'
  BY NothingOpen
<1> QED BY <1>1, <1>3, <1>4, <1>9, <1>10, StepKeeps

(* The size, of whatever version. *)
LEMMA SizeKeeps ==
    ASSUME FilesInv, UNCHANGED diskVars, GetSize
    PROVE  FilesInv'
<1> DEFINE result == [entry EXCEPT !.size = Content(entry.file).size]
<1>1. /\ request # NoRequest /\ IsRequest(request) /\ Remembers
      /\ request.at = "size"
      /\ \/ FilesInv'
         \/ /\ IsFile(entry.file) /\ entry' = result /\ stream' = NoStream
            /\ UNCHANGED <<answers, meanwhile>> /\ CacheIsSound'
            /\ request'.at = "load" /\ request'.path = request.path
            /\ request' # NoRequest /\ IsRequest(request)'
  BY InspectMoves DEF GetSize, Places
<1> SUFFICES ASSUME /\ IsFile(entry.file) /\ entry' = result
                    /\ stream' = NoStream
                    /\ UNCHANGED <<answers, meanwhile>> /\ CacheIsSound'
                    /\ request'.at = "load" /\ request'.path = request.path
                    /\ request' # NoRequest /\ IsRequest(request)'
             PROVE  FilesInv'
  BY <1>1
<1>2. Stands(entry) /\ entry.memory = NoContent
  BY <1>1 DEF FilesInv, Current, EntryIsMade
<1>3. PICK e : e = result
  OBVIOUS
<1>4. /\ IsEntry(e) /\ e.file = entry.file /\ e.etag = entry.etag
      /\ e.mtime = entry.mtime /\ e.torn = entry.torn
      /\ e.memory = entry.memory /\ e.size = Content(e.file).size
  BY <1>3, EntrySize DEF FilesInv, Current, HandlerOK
<1>5. Stands(e)
  BY <1>2, <1>4 DEF Stands, Sound
<1>6. Stands(e)'
  BY <1>1, <1>5, StandsStays
<1>7. EntryIsMade'
  BY <1>2, <1>3, <1>4, <1>6 DEF EntryIsMade
<1>8. IsStream(stream') /\ StreamIsRight'
  <2>1. IsFile(entry'.file) /\ entry'.size = Content(entry'.file).size
    BY <1>3, <1>4
  <2> QED BY <2>1, NothingOpen
<1> QED BY <1>1, <1>3, <1>4, <1>7, <1>8, StepKeeps

(* The content, or none: what the entry remembers is what its file has, if *)
(* the file has the entry's time.                                          *)
LEMMA LoadKeeps ==
    ASSUME FilesInv, UNCHANGED diskVars, Load
    PROVE  FilesInv'
<1> DEFINE f == entry.file
           result == [entry EXCEPT !.memory = Content(f)]
<1>1. /\ request.at = "load"
      /\ \/ Fails(500) /\ UNCHANGED exists
         \/ IsFile(f) /\ Store(result)
         \/ Store(entry)
  BY DEF Load
<1>2. request # NoRequest /\ IsRequest(request)
  BY <1>1, InProgress DEF Places, FilesInv, Current
<1>3. Stands(entry) /\ entry.memory = NoContent /\ IsEntry(entry)
  BY <1>1 DEF FilesInv, Current, EntryIsMade, HandlerOK
<1>5. CASE Fails(500) /\ UNCHANGED exists
  BY <1>2, <1>5, ExistsStays, FailsKeeps
<1>4. Sized(entry) /\ Measured(entry) /\ stream.open = NoContent
  BY <1>1 DEF FilesInv, Current, StreamIsRight
<1>6. ASSUME NEW e, Stands(e), Store(e), Sized(e), Measured(e)
      PROVE  FilesInv'
  <2>1. /\ entry' = e /\ Goto("answer")
        /\ UNCHANGED <<stream, exists, answers, meanwhile>>
        /\ cache' = [p \in DOMAIN cache \cup {request.path} |->
                        IF p = request.path THEN e ELSE cache[p]]
    BY <1>6 DEF Store
  <2>2. Remembers
    BY <2>1, ExistsStays
  <2>3. /\ request'.at = "answer" /\ request'.path = request.path
        /\ request' # NoRequest /\ IsRequest(request)'
    BY <1>2, <2>1, Moves DEF Places, FilesInv, Current, diskVars
  <2>4. Stands(e)'
    BY <1>6, <2>1, <2>2, <2>3, StandsStays
  <2>5. EntryIsMade' /\ IsEntry(entry')
    BY <1>6, <2>1, <2>3, <2>4 DEF EntryIsMade, Stands, Sound
  <2>6. CacheIsSound'
    <3> SUFFICES ASSUME NEW p \in DOMAIN cache'
                 PROVE  Sound(p, cache[p])' /\ Sized(cache[p])'
      BY DEF CacheIsSound
    <3>1. CASE p = request.path
      <4>1. Sound(p, e)' /\ Sized(e)'
        BY <1>6, <2>2, <3>1, SoundStays, SizedStays DEF Stands
      <4> QED BY <2>1, <3>1, <4>1
    <3>2. CASE p # request.path
      <4>1. PICK d : d = cache[p]
        OBVIOUS
      <4>2. Sound(p, d)' /\ Sized(d)'
        BY <2>1, <2>2, <3>2, <4>1, SoundStays, SizedStays
        DEF FilesInv, Current, CacheIsSound
      <4> QED BY <2>1, <3>2, <4>1, <4>2
    <3> QED BY <3>1, <3>2
  <2>7. IsStream(stream') /\ StreamIsRight'
    BY <1>6, <1>4, <2>1, StreamStays
  <2> QED BY <1>2, <2>1, <2>2, <2>3, <2>5, <2>6, <2>7, StepKeeps
<1>7. CASE IsFile(f) /\ Store(result)
  <2>1. PICK e : e = result
    OBVIOUS
  <2>2. /\ IsEntry(e) /\ e.file = f /\ e.etag = entry.etag
        /\ e.mtime = entry.mtime /\ e.torn = entry.torn
        /\ e.memory = Content(f) /\ e.size = entry.size
    BY <1>3, <2>1, EntryContent
  <2>3. Content(f) \in meanwhile
    BY <1>2, <1>3, <1>7, FirstIsACandidate
    DEF Stands, Sound, FilesInv, Current, MeanwhileIsNow, IsFile, Content
  <2>4. Stands(e)
    BY <1>3, <2>2, <2>3 DEF Stands, Sound
  <2>5. Store(e)
    BY <1>7, <2>1
  <2>6. Sized(e) /\ Measured(e)
    BY <1>4, <2>2 DEF Sized, Measured
  <2> QED BY <1>6, <2>4, <2>5, <2>6
<1>8. CASE Store(entry)
  <2>1. PICK e : e = entry
    OBVIOUS
  <2>2. Stands(e) /\ Store(e) /\ Sized(e) /\ Measured(e)
    BY <1>3, <1>8, <1>4, <2>1
  <2> QED BY <1>6, <2>2
<1> QED BY <1>1, <1>5, <1>7, <1>8

(* The least of two numbers. *)
LEMMA MinFacts ==
    ASSUME NEW a \in Nat, NEW b \in Nat
    PROVE  /\ Min({a, b}) \in Nat /\ Min({a, b}) <= a /\ Min({a, b}) <= b
           /\ Min({a, b}) = a \/ Min({a, b}) = b
<1>1. \E x \in {a, b} : \A y \in {a, b} : x <= y
  <2>1. a <= b \/ b <= a
    OBVIOUS
  <2> QED BY <2>1
<1>2. Min({a, b}) \in {a, b} /\ \A y \in {a, b} : Min({a, b}) <= y
  BY <1>1 DEF Min
<1> QED BY <1>2

(* How much is left of what was asked for.                                 *)
LEMMA LeftFacts ==
    ASSUME NEW content, content.size \in Nat, NEW place \in Nat,
           request.range # WholeFile => request.range.end \in Nat
    PROVE  /\ LeftOf(content, place) \in Nat
           /\ LeftOf(content, place) > 0 =>
                 /\ place + LeftOf(content, place) <= content.size
                 /\ request.range # WholeFile =>
                       place + LeftOf(content, place) <= request.range.end
           /\ LeftOf(content, place) = 0 =>
                 /\ request.range = WholeFile => place >= content.size
                 /\ request.range # WholeFile =>
                       \/ place >= request.range.end
                       \/ content.size < request.range.end
<1> DEFINE end == IF request.range = WholeFile THEN content.size
                  ELSE Min({request.range.end, content.size})
<1>1. /\ end \in Nat /\ end <= content.size
      /\ request.range = WholeFile => end = content.size
      /\ request.range # WholeFile =>
            /\ end <= request.range.end
            /\ end = request.range.end \/ end = content.size
  BY MinFacts
<1>2. LeftOf(content, place) = IF place < end THEN end - place ELSE 0
  BY DEF LeftOf
<1> HIDE DEF end
<1>3. CASE place < end
  <2>1. LeftOf(content, place) = end - place
    BY <1>2, <1>3
  <2>2. end - place \in Nat /\ end - place > 0 /\ place + (end - place) = end
    BY <1>1, <1>3
  <2> QED BY <1>1, <2>1, <2>2
<1>4. CASE ~(place < end)
  <2>1. LeftOf(content, place) = 0 /\ place >= end
    BY <1>1, <1>2, <1>4
  <2>2. request.range = WholeFile => place >= content.size
    BY <1>1, <2>1
  <2>3. request.range # WholeFile =>
           place >= request.range.end \/ content.size < request.range.end
    <3> SUFFICES ASSUME request.range # WholeFile
                 PROVE  place >= request.range.end
                        \/ content.size < request.range.end
      OBVIOUS
    <3>1. CASE end = request.range.end
      BY <2>1, <3>1
    <3>2. CASE end = content.size
      <4>1. content.size <= request.range.end
        BY <1>1, <3>2
      <4>2. content.size < request.range.end
            \/ content.size = request.range.end
        BY <4>1
      <4> QED BY <2>1, <3>2, <4>2
    <3> QED BY <1>1, <3>1, <3>2
  <2> QED BY <2>1, <2>2, <2>3
<1> QED BY <1>3, <1>4

(* The file of an entry is opened: nothing of it has been read yet.        *)
LEMMA OpenedReads ==
    ASSUME FilesInv, UNCHANGED diskVars,
           UNCHANGED <<entry, answers, meanwhile>>, request # NoRequest,
           request.at \in {"answer", "stream"}, stream.open = NoContent,
           IsFile(entry.file), Opened,
           request'.at = "stream", request'.path = request.path,
           request'.range = request.range
    PROVE  IsStream(stream') /\ StreamIsRight'
<1>1. /\ Stands(entry) /\ Sized(entry) /\ Measured(entry)
      /\ stream.of = {} /\ stream.bytes = 0 /\ IsStream(stream)
      /\ IsRequest(request)
  BY DEF FilesInv, Current, EntryIsMade, StreamIsRight, HandlerOK
<1>2. First(request.path, entry.file)
  BY <1>1 DEF Stands, Sound
<1>3. /\ Content(entry.file).size \in Nat /\ Content(entry.file) \in meanwhile
      /\ Content(entry.file) # NoContent
  BY <1>2, SizesAreNat, FirstIsACandidate
  DEF FilesInv, Current, MeanwhileIsNow, IsFile, Content
<1>4. PICK c : c = Content(entry.file)
  OBVIOUS
<1>5. PICK s : s = stream'
  OBVIOUS
<1>6. /\ IsStream(s) /\ s.open = c /\ s.of = {} /\ s.bytes = 0
  <2>1. s = [[stream EXCEPT !.open = c] EXCEPT !.linked = TRUE]
    BY <1>4, <1>5 DEF Opened
  <2>2. PICK d : d = [stream EXCEPT !.open = c]
    OBVIOUS
  <2>3. d = [open |-> c, linked |-> stream.linked, of |-> stream.of,
             bytes |-> stream.bytes, moved |-> stream.moved]
    BY <1>1, <2>2 DEF IsStream
  <2>4. s = [open |-> c, linked |-> TRUE, of |-> stream.of,
             bytes |-> stream.bytes, moved |-> stream.moved]
    BY <2>1, <2>2, <2>3
  <2> QED BY <1>1, <2>4 DEF IsStream
<1>7. s.moved = stream.moved
  <2>1. PICK m, l : m = stream.moved /\ l = stream.linked
    OBVIOUS
  <2>2. stream = [open |-> stream.open, linked |-> l, of |-> stream.of,
                  bytes |-> stream.bytes, moved |-> m]
    BY <1>1, <2>1 DEF IsStream
  <2>3. s.moved = m
    BY <1>5, <2>2 DEF Opened
  <2> QED BY <2>1, <2>3
<1>8. request.range # WholeFile =>
         /\ request.range.start \in Nat
         /\ request.range.start + 0 <= request.range.end
  BY <1>1, RangesAssumption DEF IsRequest
<1>9. Reads(request', entry, s)
  <2>1. ~s.moved => entry.size = s.open.size
    BY <1>1, <1>4, <1>6, <1>7 DEF Measured
  <2>2. s.bytes <= s.open.size
    BY <1>3, <1>4, <1>6
  <2>3. s.open \in meanwhile /\ s.of \subseteq meanwhile
        /\ s.of \subseteq {s.open}
    BY <1>3, <1>4, <1>6
  <2>4. s.open.size \in Nat /\ s.bytes \in Nat
    BY <1>3, <1>4, <1>6
  <2>5. request'.range # WholeFile =>
           request'.range.start + s.bytes <= request'.range.end
    BY <1>6, <1>8
  <2> QED BY <1>4, <1>6, <2>1, <2>2, <2>3, <2>4, <2>5 DEF Reads
<1>10. Reads(request, entry, stream)'
  BY <1>5, <1>9 DEF Reads, diskVars, Mtime, Content
<1>11. Sized(entry)'
  <2>1. PICK e : e = entry
    OBVIOUS
  <2> QED BY <1>1, <2>1, SizedStays
<1> QED BY <1>3, <1>4, <1>5, <1>6, <1>10, <1>11 DEF StreamIsRight

(* An answer from an entry that stands for what was there since the        *)
(* request; a 304 is right unless the client's copy is of a later time or  *)
(* of a hash that was never that of its content.                           *)
LEMMA RespondKeeps ==
    ASSUME FilesInv, UNCHANGED diskVars, Respond
    PROVE  FilesInv'
<1>1. /\ request.at = "answer" /\ UNCHANGED <<cache, exists>>
      /\ \/ NotModified /\ Answer(304, 0, NoBody, entry)
         \/ Answer(500, 0, NoBody, NoEntry)
         \/ /\ IsFile(entry.file) /\ Goto("stream") /\ Opened
            /\ request.range # WholeFile
            /\ UNCHANGED <<entry, answers, meanwhile>>
         \/ /\ entry.memory # NoContent
            /\ Answer(200, entry.memory.size, Whole(entry.memory), entry)
         \/ /\ Goto("stream") /\ entry.memory = NoContent
            /\ UNCHANGED <<entry, stream, answers, meanwhile>>
  BY DEF Respond
<1>2. request # NoRequest /\ IsRequest(request) /\ Remembers
  BY <1>1, InProgress, ExistsStays DEF Places, FilesInv, Current
<1>3. Stands(entry) /\ CacheIsSound'
  BY <1>1, <1>2, CacheStays DEF FilesInv, Current, EntryIsMade
<1>4. Sound(request.path, entry)
  BY <1>3 DEF Stands
<1>5. stream.open = NoContent
  BY <1>1 DEF FilesInv, Current, StreamIsRight
<1>6. CASE NotModified /\ Answer(304, 0, NoBody, entry)
  <2> DEFINE k == answers[request.known]
  <2>1. request.condition \in {"since", "match"} /\ request.known # 0
    BY <1>2, <1>6 DEF NotModified, IsRequest
  <2>2. /\ request.known \in DOMAIN answers /\ Copy(k)
        /\ k.path = request.path
    BY <1>2, <2>1 DEF IsRequest
  <2>3. k.made.mtime \in Nat /\ entry.mtime \in Nat
    <3>1. CopyIsSound(k)
      BY <2>2 DEF FilesInv, Current, CopiesAreSound
    <3> QED BY <1>4, <3>1 DEF CopyIsSound, Sound, FilesInv, Current, DiskOK
  <2>4. \/ \E c \in meanwhile : k.body = Whole(c)
        \/ request.condition = "since" /\ entry.mtime < k.made.mtime
        \/ /\ request.condition = "match"
           /\ entry.torn \/ k.body # Whole(k.made.etag)
    <3>1. CASE request.condition = "since" /\ entry.mtime <= k.made.mtime
      <4>1. entry.mtime < k.made.mtime \/ entry.mtime = k.made.mtime
        BY <2>3, <3>1
      <4>2. entry.mtime = k.made.mtime =>
               \E c \in meanwhile : k.body = Whole(c)
        BY <1>3, <2>2 DEF Stands
      <4> QED BY <3>1, <4>1, <4>2
    <3>2. CASE request.condition = "match" /\ entry.etag = k.made.etag
      BY <1>3, <3>2 DEF Stands
    <3> QED BY <1>6, <3>1, <3>2 DEF NotModified
  <2>5. NoBody.of \subseteq meanwhile
    BY DEF NoBody
  <2> QED BY <1>2, <1>3, <1>6, <2>1, <2>4, <2>5, AnswerKeeps
<1>7. CASE Answer(500, 0, NoBody, NoEntry)
  BY <1>2, <1>3, <1>7, EmptyKeeps
<1>8. CASE /\ entry.memory # NoContent
           /\ Answer(200, entry.memory.size, Whole(entry.memory), entry)
  <2>1. PICK body : body = Whole(entry.memory)
    OBVIOUS
  <2>2. /\ body.of = {entry.memory} /\ body.bytes = entry.memory.size
        /\ entry.memory \in meanwhile
        /\ entry.mtime = Mtime(entry.file) =>
              body = Whole(Content(entry.file))
    BY <1>3, <1>8, <2>1 DEF Stands, Sound, Whole
  <2>3. Answer(200, entry.memory.size, body, entry)
    BY <1>8, <2>1
  <2> QED BY <1>2, <1>3, <1>4, <2>1, <2>2, <2>3, AnswerKeeps
<1>9. ASSUME Goto("stream"), UNCHANGED <<entry, answers, meanwhile>>,
             \/ UNCHANGED stream /\ entry.memory = NoContent
             \/ /\ IsFile(entry.file) /\ Opened
                /\ request.range # WholeFile
      PROVE  FilesInv'
  <2>1. /\ request'.at = "stream" /\ request'.path = request.path
        /\ request'.range = request.range
        /\ request' # NoRequest /\ IsRequest(request)'
    BY <1>2, <1>9, Moves DEF Places, FilesInv, Current, diskVars
  <2>2. PICK e : e = entry
    OBVIOUS
  <2>3. Stands(e)'
    BY <1>2, <1>3, <1>9, <2>1, <2>2, StandsStays
  <2>4. EntryIsMade' /\ IsEntry(entry')
    BY <1>4, <1>9, <2>1, <2>2, <2>3 DEF EntryIsMade, Sound
  <2>5. IsStream(stream') /\ StreamIsRight'
    <3>1. CASE UNCHANGED stream
      <4>1. Sized(entry') /\ Measured(entry')
        BY <1>1, <1>5, <1>9 DEF FilesInv, Current, StreamIsRight
      <4> QED BY <1>5, <3>1, <4>1, StreamStays
    <3>2. CASE IsFile(entry.file) /\ Opened
      BY <1>1, <1>2, <1>5, <1>9, <2>1, <3>2, OpenedReads
    <3> QED BY <1>9, <3>1, <3>2
  <2> QED BY <1>2, <1>3, <1>9, <2>1, <2>4, <2>5, StepKeeps
<1> QED BY <1>1, <1>6, <1>7, <1>8, <1>9

(* The file is opened when the headers are out. *)
LEMMA OpenKeeps ==
    ASSUME FilesInv, UNCHANGED diskVars, OpenFile
    PROVE  FilesInv'
<1>1. /\ request.at = "stream" /\ stream.open = NoContent
      /\ UNCHANGED <<cache, exists>>
      /\ \/ Answer(0, entry.size, NoBody, entry)
         \/ /\ IsFile(entry.file) /\ Opened
            /\ UNCHANGED <<request, entry, answers, meanwhile>>
  BY DEF OpenFile
<1>2. request # NoRequest /\ IsRequest(request) /\ Remembers
  BY <1>1, InProgress, ExistsStays DEF Places, FilesInv, Current
<1>3. Stands(entry) /\ CacheIsSound'
  BY <1>1, <1>2, CacheStays DEF FilesInv, Current, EntryIsMade
<1>4. CASE Answer(0, entry.size, NoBody, entry)
  BY <1>2, <1>3, <1>4, EmptyKeeps
<1>5. CASE /\ IsFile(entry.file) /\ Opened
           /\ UNCHANGED <<request, entry, answers, meanwhile>>
  <2>1. IsStream(stream') /\ StreamIsRight'
    BY <1>1, <1>2, <1>5, OpenedReads
  <2>2. IsRequest(request)' /\ request' # NoRequest
    BY <1>2, <1>5 DEF IsRequest, Copy, diskVars
  <2>3. PICK e : e = entry
    OBVIOUS
  <2>4. Stands(e)'
    BY <1>2, <1>3, <1>5, <2>3, StandsStays
  <2>5. EntryIsMade' /\ IsEntry(entry')
    BY <1>1, <1>3, <1>5, <2>3, <2>4
    DEF FilesInv, Current, EntryIsMade, Stands, Sound
  <2> QED BY <1>2, <1>3, <1>5, <2>1, <2>2, <2>5, StepKeeps
<1> QED BY <1>1, <1>4, <1>5

(* A chunk is read: not more than there is.                                *)
LEMMA ChunkReads ==
    ASSUME NEW left \in Nat, left > 0, NEW bytes \in Nat
    PROVE  /\ bytes + Min({ChunkSize, left}) \in Nat
           /\ bytes + Min({ChunkSize, left}) <= bytes + left
<1>1. ChunkSize \in Nat
  BY BoundsAssumption
<1>2. Min({ChunkSize, left}) \in Nat /\ Min({ChunkSize, left}) <= left
  BY <1>1, MinFacts
<1> QED BY <1>2

(* The chunks of a file that may change, and the end of the answer.        *)
LEMMA StreamKeeps ==
    ASSUME FilesInv, UNCHANGED diskVars, Stream
    PROVE  FilesInv'
<1> DEFINE left == LeftOf(stream.open, request.range.start + stream.bytes)
           of == stream.of \cup {stream.open}
           whole == request.range = WholeFile
           announced == IF whole THEN entry.size
                        ELSE request.range.end - request.range.start
           body == [of |-> of, bytes |-> stream.bytes]
<1>1. /\ request.at = "stream" /\ stream.open # NoContent
      /\ UNCHANGED <<cache, exists>>
      /\ \/ /\ left > 0
            /\ stream' = [stream EXCEPT !.of = of,
                              !.bytes = @ + Min({ChunkSize, left})]
            /\ UNCHANGED <<request, entry, answers, meanwhile>>
         \/ /\ left = 0
            /\ Answer(IF whole THEN 200 ELSE 206, announced, body, entry)
  BY DEF Stream
<1>2. request # NoRequest /\ IsRequest(request) /\ Remembers
  BY <1>1, InProgress, ExistsStays DEF Places, FilesInv, Current
<1>3. Stands(entry) /\ CacheIsSound' /\ Sized(entry)
  BY <1>1, <1>2, CacheStays DEF FilesInv, Current, EntryIsMade, StreamIsRight
<1>4. Sound(request.path, entry)
  BY <1>3 DEF Stands
<1>5. Reads(request, entry, stream) /\ IsStream(stream)
  BY <1>1 DEF FilesInv, Current, StreamIsRight, HandlerOK
<1>6. /\ request.range.start \in Nat
      /\ ~whole => request.range.end \in Nat
      /\ whole => request.range.start = 0
  BY <1>2, RangesAssumption DEF IsRequest, WholeFile
<1>7. /\ stream.open.size \in Nat /\ stream.bytes \in Nat
      /\ stream.open \in meanwhile /\ stream.of \subseteq meanwhile
      /\ ~whole =>
            request.range.start + stream.bytes <= request.range.end
      /\ ~stream.moved => stream.of \subseteq {stream.open}
      /\ ~stream.moved /\ whole =>
            entry.size = stream.open.size /\ stream.bytes <= stream.open.size
      /\ entry.mtime = Mtime(entry.file) =>
            /\ stream.open = Content(entry.file)
            /\ stream.of \subseteq {stream.open}
  BY <1>5 DEF Reads
<1>8. /\ left \in Nat
      /\ left > 0 =>
            /\ request.range.start + stream.bytes + left <= stream.open.size
            /\ ~whole => request.range.start + stream.bytes + left
                            <= request.range.end
      /\ left = 0 =>
            /\ whole => request.range.start + stream.bytes
                           >= stream.open.size
            /\ ~whole =>
                  \/ request.range.start + stream.bytes >= request.range.end
                  \/ stream.open.size < request.range.end
  <2>1. PICK content, place : /\ content = stream.open
                              /\ place = request.range.start + stream.bytes
    OBVIOUS
  <2>2. content.size \in Nat /\ place \in Nat
    BY <1>6, <1>7, <2>1
  <2> QED BY <1>6, <2>1, <2>2, LeftFacts
<1>9. ASSUME left > 0,
             stream' = [stream EXCEPT !.of = of,
                            !.bytes = @ + Min({ChunkSize, left})],
             UNCHANGED <<request, entry, answers, meanwhile>>
      PROVE  FilesInv'
  <2>1. PICK bytes : bytes = stream.bytes + Min({ChunkSize, left})
    OBVIOUS
  <2>2. bytes \in Nat /\ bytes <= stream.bytes + left
    <3> HIDE DEF left
    <3> QED BY <1>7, <1>8, <1>9, <2>1, ChunkReads
  <2>3. PICK s, all : s = stream' /\ all = of
    OBVIOUS
  <2>4. /\ IsStream(s) /\ s.open = stream.open /\ s.of = all
        /\ s.bytes = bytes
    <3>1. s = [[stream EXCEPT !.of = all] EXCEPT !.bytes = bytes]
      BY <1>9, <2>1, <2>3
    <3>2. s = [open |-> stream.open, linked |-> stream.linked, of |-> all,
               bytes |-> bytes, moved |-> stream.moved]
      BY <1>5, <3>1 DEF IsStream
    <3> QED BY <3>2 DEF IsStream
  <2>5. s.moved = stream.moved
    <3>1. PICK m : m = stream.moved
      OBVIOUS
    <3>2. stream = [open |-> stream.open, linked |-> stream.linked,
                    of |-> stream.of, bytes |-> stream.bytes, moved |-> m]
      BY <1>5, <3>1 DEF IsStream
    <3>3. s.moved = m
      BY <1>9, <2>3, <3>2
    <3> QED BY <3>1, <3>3
  <2>6. Reads(request, entry, s)
    <3>1. all \subseteq meanwhile
      BY <1>7, <2>3
    <3>2. stream.of \subseteq {stream.open} => all \subseteq {stream.open}
      BY <2>3
    <3>3. ~whole => request.range.start + bytes <= request.range.end
      <4> HIDE DEF left, whole
      <4> QED BY <1>6, <1>7, <1>8, <1>9, <2>2
    <3>4. whole => bytes <= stream.open.size
      <4> HIDE DEF left, whole
      <4> QED BY <1>6, <1>7, <1>8, <1>9, <2>2
    <3> QED BY <1>7, <2>2, <2>4, <2>5, <3>1, <3>2, <3>3, <3>4 DEF Reads
  <2>7. Reads(request, entry, stream)'
    BY <1>9, <2>3, <2>6 DEF Reads, diskVars, Mtime, Content
  <2>8. PICK e : e = entry
    OBVIOUS
  <2>9. Stands(e)' /\ Sized(e)'
    BY <1>2, <1>3, <1>9, <2>8, StandsStays, SizedStays
  <2>10. IsStream(stream') /\ StreamIsRight'
    BY <1>1, <1>9, <2>3, <2>4, <2>7, <2>8, <2>9 DEF StreamIsRight
  <2>11. EntryIsMade' /\ IsEntry(entry')
    BY <1>1, <1>4, <1>9, <2>8, <2>9
    DEF FilesInv, Current, EntryIsMade, Sound
  <2>12. IsRequest(request)' /\ request' # NoRequest
    BY <1>2, <1>9 DEF IsRequest, Copy, diskVars
  <2> QED BY <1>2, <1>3, <1>9, <2>10, <2>11, <2>12, StepKeeps
<1>10. ASSUME left = 0,
              Answer(IF whole THEN 200 ELSE 206, announced, body, entry)
       PROVE  FilesInv'
  <2>1. PICK b : b = body
    OBVIOUS
  <2>2. b.of = of /\ b.bytes = stream.bytes
    BY <2>1
  <2>3. b.of \subseteq meanwhile
    BY <1>7, <2>2
  <2>4. stream.of \subseteq {stream.open} => b.of = {stream.open}
    BY <2>2
  <2>5. CASE whole
    <3>1. Answer(200, entry.size, b, entry)
      BY <1>10, <2>1, <2>5
    <3>2. stream.bytes >= stream.open.size
      <4> HIDE DEF left
      <4> QED BY <1>6, <1>7, <1>8, <1>10, <2>5
    <3>3. ASSUME b.of = {stream.open}, b.bytes = stream.open.size
          PROVE  b = Whole(stream.open)
      BY <2>1, <3>3 DEF Whole
    <3>4. stream.moved \/ /\ b = Whole(stream.open)
                          /\ b.bytes = entry.size
      <4>1. stream.moved \/ stream.bytes = stream.open.size
        BY <1>7, <2>5, <3>2
      <4> QED BY <1>7, <2>2, <2>4, <2>5, <3>3, <4>1
    <3>5. b.bytes = entry.size /\ entry.mtime = Mtime(entry.file) =>
             b = Whole(Content(entry.file))
      <4> SUFFICES ASSUME b.bytes = entry.size,
                          entry.mtime = Mtime(entry.file)
                   PROVE  b = Whole(Content(entry.file))
        OBVIOUS
      <4>1. stream.open = Content(entry.file) /\ b.of = {stream.open}
        BY <1>7, <2>4
      <4>2. entry.size = stream.open.size
        BY <1>1, <1>3, <4>1 DEF Sized, IsFile, Content
      <4> QED BY <3>3, <4>1, <4>2
    <3>6. entry.memory = NoContent
      BY <1>1, <2>5 DEF FilesInv, Current, EntryIsMade
    <3> QED BY <1>2, <1>3, <1>4, <1>7, <2>3, <3>1, <3>4, <3>5, <3>6,
           AnswerKeeps
  <2>6. CASE ~whole
    <3>1. PICK n : n = request.range.end - request.range.start
      OBVIOUS
    <3>2. Answer(206, n, b, entry)
      BY <1>10, <2>1, <2>6, <3>1
    <3>3. b.bytes <= n
      BY <1>6, <1>7, <2>2, <2>6, <3>1
    <3>4. request.range.end <= stream.open.size => b.bytes = n
      <4>1. request.range.end <= stream.open.size =>
               request.range.start + stream.bytes >= request.range.end
        <5> HIDE DEF left
        <5> QED BY <1>6, <1>7, <1>8, <1>10, <2>6
      <4> QED BY <1>6, <1>7, <2>2, <2>6, <3>1, <4>1
    <3> QED BY <1>2, <1>3, <1>7, <2>3, <2>4, <3>2, <3>3, <3>4, AnswerKeeps
  <2> QED BY <2>5, <2>6
<1> QED BY <1>1, <1>9, <1>10
-----------------------------------------------------------------------------
(* A file that is changed gets a time that nobody has seen.                *)
LEMMA EditKeeps ==
    ASSUME FilesInv, Edit
    PROVE  FilesInv'
<1>1. PICK f \in DOMAIN disk : \E content \in site.edits[f] :
        /\ Change(f, content)
        /\ request # NoRequest /\ f \in Range(Candidates(request.path)) =>
              content = NoContent \/ content \in meanwhile'
        /\ request # NoRequest => meanwhile \subseteq meanwhile'
        /\ \/ f # entry.file /\ UNCHANGED stream
           \/ /\ f = entry.file /\ stream.open = NoContent
              /\ stream' = [stream EXCEPT !.moved = TRUE]
           \/ /\ f = entry.file /\ stream.open # NoContent
              /\ content # NoContent
              /\ stream' = [stream EXCEPT !.open = content, !.moved = TRUE]
           \/ /\ f = entry.file /\ stream.open # NoContent
              /\ stream' = [stream EXCEPT !.linked = FALSE]
        /\ UNCHANGED <<request, entry, cache, cacheSize, exists, answers>>
  BY DEF Edit
<1>2. PICK content \in site.edits[f] :
        /\ Change(f, content)
        /\ request # NoRequest /\ f \in Range(Candidates(request.path)) =>
              content = NoContent \/ content \in meanwhile'
        /\ request # NoRequest => meanwhile \subseteq meanwhile'
        /\ \/ f # entry.file /\ UNCHANGED stream
           \/ /\ f = entry.file /\ stream.open = NoContent
              /\ stream' = [stream EXCEPT !.moved = TRUE]
           \/ /\ f = entry.file /\ stream.open # NoContent
              /\ content # NoContent
              /\ stream' = [stream EXCEPT !.open = content, !.moved = TRUE]
           \/ /\ f = entry.file /\ stream.open # NoContent
              /\ stream' = [stream EXCEPT !.linked = FALSE]
        /\ UNCHANGED <<request, entry, cache, cacheSize, exists, answers>>
  BY <1>1
<1>3. PICK t \in 1..MaxTime \ times :
        /\ disk' = [disk EXCEPT ![f] = [content |-> content, mtime |-> t]]
        /\ times' = times \cup {t}
        /\ UNCHANGED site
  BY <1>2 DEF Change
<1>4. /\ DOMAIN disk' = DOMAIN disk
      /\ disk'[f].mtime = t /\ disk'[f].content = content
      /\ \A g \in DOMAIN disk : g # f => disk'[g] = disk[g]
  BY <1>3
<1>5. DiskOK'
  <2>1. t \in Nat
    BY BoundsAssumption
  <2>2. \A g \in DOMAIN disk : disk'[g].mtime \in times'
    BY <1>3, <1>4 DEF FilesInv, Current, DiskOK, Mtime
  <2>3. \A g \in DOMAIN disk :
           disk'[g].content \in {site.files[g]} \cup site.edits[g]
    BY <1>2, <1>3, <1>4 DEF FilesInv, Current, DiskOK, Content
  <2> QED BY <1>3, <1>4, <2>1, <2>2, <2>3
          DEF FilesInv, Current, DiskOK, Mtime, Content
<1>6. HandlerOK'
  <2>1. IsRequest(request) => IsRequest(request)'
    BY <1>2, <1>3 DEF IsRequest, Copy
  <2>2. IsStream(stream')
    <3>1. IsStream(stream)
      BY DEF FilesInv, Current, HandlerOK
    <3>2. CASE UNCHANGED stream
      BY <3>1, <3>2
    <3>3. CASE \/ stream' = [stream EXCEPT !.moved = TRUE]
              \/ stream' = [stream EXCEPT !.linked = FALSE]
      BY <3>1, <3>3 DEF IsStream
    <3>4. CASE stream' = [stream EXCEPT !.open = content, !.moved = TRUE]
      <4>1. stream' = [open |-> content, linked |-> stream.linked,
                       of |-> stream.of, bytes |-> stream.bytes,
                       moved |-> TRUE]
        BY <3>1, <3>4 DEF IsStream
      <4> QED BY <4>1 DEF IsStream
    <3> QED BY <1>2, <3>2, <3>3, <3>4
  <2> QED BY <1>2, <2>1, <2>2 DEF FilesInv, Current, HandlerOK
<1>7. \A path, g : First(path, g) => First(path, g)'
  BY <1>2, <1>3 DEF First, Candidates
<1>8. ASSUME NEW path, NEW e, Sound(path, e)
      PROVE  /\ Sound(path, e)' /\ e.file \in DOMAIN disk
             /\ e.mtime = disk'[e.file].mtime => disk'[e.file] = disk[e.file]
  <2>1. e.file \in DOMAIN disk
    BY <1>8, FirstIsACandidate DEF Sound, FilesInv, Current
  <2>2. e.mtime = disk'[e.file].mtime => disk'[e.file] = disk[e.file]
    BY <1>3, <1>4, <1>8, <2>1 DEF Sound
  <2>3. First(path, e.file)' /\ e.mtime \in times'
    BY <1>3, <1>7, <1>8 DEF Sound
  <2> QED BY <1>8, <2>1, <2>2, <2>3 DEF Sound, Mtime, Content
<1>9. CacheIsSound'
  <2> SUFFICES ASSUME NEW p \in DOMAIN cache
               PROVE  Sound(p, cache[p])' /\ Sized(cache[p])'
    BY <1>2 DEF CacheIsSound
  <2>1. PICK e : e = cache[p]
    OBVIOUS
  <2>2. Sound(p, e)' /\ Sized(e)'
    BY <1>8, <2>1
    DEF FilesInv, Current, CacheIsSound, Sized, Mtime, Content, IsFile
  <2> QED BY <1>2, <2>1, <2>2
<1>10. CopiesAreSound'
  <2> SUFFICES ASSUME NEW i \in DOMAIN answers, Copy(answers[i])
               PROVE  CopyIsSound(answers[i])'
    BY <1>2 DEF CopiesAreSound, Copy
  <2>1. PICK a : a = answers[i]
    OBVIOUS
  <2>2. CopyIsSound(a)
    BY <2>1 DEF FilesInv, Current, CopiesAreSound
  <2>3. /\ Sound(a.path, a.made)'
        /\ a.made.mtime = disk'[a.made.file].mtime =>
              disk'[a.made.file] = disk[a.made.file]
    BY <1>8, <2>2 DEF CopyIsSound
  <2>4. CopyIsSound(a)'
    BY <2>2, <2>3 DEF CopyIsSound, Mtime, Content
  <2> QED BY <1>2, <2>1, <2>4
<1>11. MeanwhileIsNow'
  <2> SUFFICES ASSUME request # NoRequest,
                      NEW g \in Range(Candidates(request.path)),
                      disk'[g].content # NoContent
               PROVE  disk'[g].content \in meanwhile'
    BY <1>2 DEF MeanwhileIsNow, Versions, Content, Candidates
  <2>1. CASE g = f
    BY <1>2, <1>4, <2>1
  <2>2. CASE g # f
    <3>1. g \in DOMAIN disk
      <4>1. request.path \in site.paths
        BY DEF FilesInv, Current, HandlerOK, IsRequest
      <4>2. PICK i \in DOMAIN Paths : g = <<Paths[i], request.path>>
        BY DEF Range, Candidates
      <4> QED BY <4>1, <4>2, PathsAssumption DEF FilesInv, Current, DiskOK
    <3>2. disk'[g] = disk[g]
      BY <1>4, <2>2, <3>1
    <3>3. Content(g) \in meanwhile
      BY <3>2 DEF FilesInv, Current, MeanwhileIsNow, Versions, Content
    <3> QED BY <1>2, <3>2, <3>3 DEF Content
  <2> QED BY <2>1, <2>2
<1>12. EntryIsMade'
  <2>1. CASE request = NoRequest
    <3>1. request'.at = "idle"
      BY <1>2, <2>1 DEF NoRequest
    <3> QED BY <3>1 DEF EntryIsMade
  <2>2. CASE request # NoRequest
    <3>1. meanwhile \subseteq meanwhile'
      BY <1>2, <2>2
    <3>2. ASSUME NEW e, Stands(e) PROVE Stands(e)'
      <4>1. PICK p : p = request.path
        OBVIOUS
      <4>2. Sound(p, e)'
        BY <1>8, <3>2, <4>1 DEF Stands
      <4> QED BY <1>2, <3>1, <3>2, <4>1, <4>2 DEF Stands, Copy
    <3>3. PICK e : e = entry
      OBVIOUS
    <3>4. Stands(entry) => Stands(entry)'
      BY <1>2, <3>2, <3>3
    <3>5. First(request.path, entry.file) => First(request.path, entry.file)'
      <4>1. PICK p, g : p = request.path /\ g = entry.file
        OBVIOUS
      <4> QED BY <1>2, <1>7, <4>1
    <3> QED BY <1>2, <3>1, <3>4, <3>5 DEF FilesInv, Current, EntryIsMade
  <2> QED BY <2>1, <2>2
<1>13. ConfirmsAnswers' /\ \A i \in DOMAIN answers : IsCurrent(answers[i])'
  BY <1>2 DEF FilesInv, Current, ConfirmsAnswers, IsCurrent, Known, IsVersion,
              IsPart, WentBack, Mixed
<1>14. StreamIsRight'
  <2>1. PICK e, r : e = entry /\ r = request
    OBVIOUS
  <2>2. ASSUME Stands(e), Sized(e)
        PROVE  Sized(e)'
    BY <1>8, <2>2 DEF Stands, Sized, Mtime, Content, IsFile
  <2>3. request.at \in {"load", "answer", "stream"} => Sized(entry)'
    BY <1>2, <2>1, <2>2 DEF FilesInv, Current, EntryIsMade, StreamIsRight
  <2>4. ASSUME request.at \in {"load", "answer", "stream"},
               stream'.open = NoContent
        PROVE  stream.open = NoContent /\ Measured(entry)'
    <3>1. IsStream(stream)
      BY DEF FilesInv, Current, HandlerOK
    <3>2. CASE f # entry.file /\ UNCHANGED stream
      <4>1. entry.file \in DOMAIN disk
        BY <2>4, FirstIsACandidate
        DEF FilesInv, Current, EntryIsMade, Stands, Sound
      <4>2. disk'[entry.file] = disk[entry.file]
        BY <1>4, <3>2, <4>1
      <4>3. Measured(entry)
        BY <2>4, <3>2 DEF FilesInv, Current, StreamIsRight
      <4> QED BY <1>2, <2>4, <3>2, <4>2, <4>3 DEF Measured, IsFile, Content
    <3>3. CASE /\ stream.open = NoContent
               /\ stream' = [stream EXCEPT !.moved = TRUE]
      <4>1. stream'.moved = TRUE
        BY <3>1, <3>3 DEF IsStream
      <4> QED BY <3>3, <4>1 DEF Measured
    <3>4. CASE /\ stream.open # NoContent /\ content # NoContent
               /\ stream' = [stream EXCEPT !.open = content, !.moved = TRUE]
      <4>1. stream'.open = content
        BY <3>1, <3>4 DEF IsStream
      <4> QED BY <2>4, <3>4, <4>1
    <3>5. CASE /\ stream.open # NoContent
               /\ stream' = [stream EXCEPT !.linked = FALSE]
      <4>1. stream'.open = stream.open
        BY <3>1, <3>5 DEF IsStream
      <4> QED BY <2>4, <3>5, <4>1
    <3> QED BY <1>2, <3>2, <3>3, <3>4, <3>5
  <2>5. /\ stream'.of = stream.of /\ stream'.bytes = stream.bytes
        /\ stream.open = NoContent => stream'.open = NoContent
    <3>1. IsStream(stream)
      BY DEF FilesInv, Current, HandlerOK
    <3> QED BY <1>2, <3>1 DEF IsStream
  <2>6. ASSUME stream.open # NoContent
        PROVE  Reads(request, entry, stream)'
    <3>1. /\ request.at = "stream" /\ Reads(request, entry, stream)
          /\ IsStream(stream) /\ request # NoRequest /\ IsRequest(request)
      BY <2>6, InProgress
      DEF FilesInv, Current, StreamIsRight, HandlerOK, Places
    <3>2. /\ Sound(request.path, entry)
          /\ entry.file \in Range(Candidates(request.path))
      BY <3>1, FirstIsACandidate
      DEF FilesInv, Current, EntryIsMade, Stands, Sound
    <3>3. entry.mtime = disk'[entry.file].mtime =>
             disk'[entry.file] = disk[entry.file] /\ f # entry.file
      BY <1>3, <1>4, <1>8, <2>1, <3>2 DEF Sound
    <3>4. meanwhile \subseteq meanwhile'
      BY <1>2, <3>1
    <3>5. PICK s : s = stream'
      OBVIOUS
    <3>6. CASE f # entry.file /\ UNCHANGED stream
      <4>1. Reads(request, entry, s)'
        BY <3>1, <3>3, <3>4, <3>5, <3>6, <1>2 DEF Reads, Mtime, Content
      <4> QED BY <3>5, <4>1 DEF Reads
    <3>7. CASE f = entry.file /\ stream' = [stream EXCEPT !.linked = FALSE]
      <4>1. s.open = stream.open /\ s.of = stream.of
            /\ s.bytes = stream.bytes
        BY <3>1, <3>5, <3>7 DEF IsStream
      <4>2. s.moved = stream.moved
        <5>1. PICK m : m = stream.moved
          OBVIOUS
        <5>2. stream = [open |-> stream.open, linked |-> stream.linked,
                        of |-> stream.of, bytes |-> stream.bytes,
                        moved |-> m]
          BY <3>1, <5>1 DEF IsStream
        <5>3. s.moved = m
          BY <3>5, <3>7, <5>2
        <5> QED BY <5>1, <5>3
      <4>3. Reads(request, entry, s)'
        BY <1>2, <3>1, <3>3, <3>4, <3>7, <4>1, <4>2 DEF Reads, Mtime, Content
      <4> QED BY <3>5, <4>3 DEF Reads
    <3>8. CASE /\ f = entry.file /\ content # NoContent
               /\ stream' = [stream EXCEPT !.open = content, !.moved = TRUE]
      <4>1. /\ s.open = content /\ s.of = stream.of /\ s.moved = TRUE
            /\ s.bytes = stream.bytes
        <5>1. s = [open |-> content, linked |-> stream.linked,
                   of |-> stream.of, bytes |-> stream.bytes, moved |-> TRUE]
          BY <3>1, <3>5, <3>8 DEF IsStream
        <5> QED BY <5>1
      <4>2. content \in meanwhile'
        BY <1>2, <3>1, <3>2, <3>8
      <4>3. content.size \in Nat
        <5>1. PICK i \in DOMAIN Paths : f = <<Paths[i], request.path>>
          BY <3>2, <3>8 DEF Range, Candidates
        <5>2. request.path \in site.paths /\ site \in Sites
          BY <3>1 DEF IsRequest, FilesInv, Current, DiskOK
        <5> QED BY <3>8, <5>1, <5>2, SizesAssumption
      <4>4. Reads(request, entry, s)'
        BY <1>2, <3>1, <3>3, <3>4, <3>8, <4>1, <4>2, <4>3
        DEF Reads, Mtime, Content
      <4> QED BY <3>5, <4>4 DEF Reads
    <3> QED BY <1>2, <2>6, <3>6, <3>7, <3>8
  <2> QED BY <1>2, <2>3, <2>4, <2>5, <2>6 DEF FilesInv, Current, StreamIsRight
<1> QED BY <1>2, <1>5, <1>6, <1>9, <1>10, <1>11, <1>12, <1>13, <1>14
        DEF FilesInv, Current, IsASequence

(* A handler without requests has nothing in its cache. *)
LEMMA InitFilesInv == DiskInit /\ StaticInit => FilesInv
<1> SUFFICES ASSUME DiskInit, StaticInit PROVE FilesInv
  OBVIOUS
<1>1. /\ request = NoRequest /\ entry = NoEntry /\ cache = <<>>
      /\ exists = <<>> /\ answers = <<>> /\ stream = NoStream
  BY DEF StaticInit
<1>2. DiskOK
  BY DEF DiskInit, DiskOK, Mtime, Content
<1>3. HandlerOK
  <2>1. IsEntry(NoEntry) /\ IsStream(NoStream)
    BY DEF NoEntry, IsEntry, NoStream, IsStream
  <2>2. DOMAIN exists = {}
    BY <1>1
  <2> QED BY <1>1, <2>1, <2>2 DEF HandlerOK
<1>4. CacheIsSound /\ CopiesAreSound /\ ConfirmsAnswers
      /\ \A i \in DOMAIN answers : IsCurrent(answers[i])
  BY <1>1 DEF CacheIsSound, CopiesAreSound, ConfirmsAnswers
<1>5. MeanwhileIsNow /\ EntryIsMade /\ StreamIsRight
  BY <1>1 DEF MeanwhileIsNow, EntryIsMade, StreamIsRight, NoRequest, NoStream
<1>6. IsASequence
  BY <1>1 DEF IsASequence
<1> QED BY <1>2, <1>3, <1>4, <1>5, <1>6 DEF FilesInv, Current

(* Nothing happens. *)
LEMMA StutterKeeps ==
    ASSUME FilesInv, UNCHANGED <<diskVars, staticVars>> PROVE FilesInv'
<1>1. /\ UNCHANGED diskVars /\ request' = request /\ entry' = entry
      /\ stream' = stream /\ cache' = cache /\ exists' = exists
      /\ answers' = answers
      /\ meanwhile' = meanwhile
  BY DEF staticVars
<1>2. DiskOK'
  BY <1>1 DEF FilesInv, Current, DiskOK, diskVars, Mtime, Content
<1>3. HandlerOK'
  BY <1>1 DEF FilesInv, Current, HandlerOK, IsRequest, Copy,
              IsEntry, IsStream, diskVars
<1>4. CacheIsSound'
  BY <1>1 DEF FilesInv, Current, CacheIsSound, Sound, Sized, IsEntry, First,
              Candidates, diskVars, Mtime, Content, IsFile
<1>5. CopiesAreSound'
  <2>1. Remembers
    BY <1>1 DEF FilesInv, Current, HandlerOK, Remembers
  <2>2. \A a : CopyIsSound(a) => CopyIsSound(a)'
    BY <1>1, <2>1, CopyStays
  <2> QED BY <1>1, <2>2 DEF FilesInv, Current, CopiesAreSound, Copy
<1>6. MeanwhileIsNow'
  BY <1>1 DEF FilesInv, Current, MeanwhileIsNow, Versions, Candidates,
              diskVars, Content
<1>7. EntryIsMade'
  BY ZenonT(30), <1>1 DEF FilesInv, Current, EntryIsMade, Stands, Copy, Sound,
              IsEntry, First, Candidates, diskVars, Mtime, Content
<1>8. ConfirmsAnswers' /\ \A i \in DOMAIN answers' : IsCurrent(answers[i])'
  BY <1>1 DEF FilesInv, Current, ConfirmsAnswers, IsCurrent, Known, IsVersion,
              IsPart, WentBack, Mixed
<1>9. IsASequence'
  BY <1>1 DEF FilesInv, IsASequence
<1>10. StreamIsRight'
  BY <1>1 DEF FilesInv, Current, StreamIsRight, Sized, Measured, Reads, Mtime,
              Content, IsFile, diskVars
<1> QED BY <1>2, <1>3, <1>4, <1>5, <1>6, <1>7, <1>8, <1>9, <1>10
        DEF FilesInv, Current

(* Each step of the handler and of those who edit.                         *)
LEMMA NextFilesInv ==
    ASSUME FilesInv, [Edit \/ (StaticNext /\ UNCHANGED diskVars)]_<<diskVars,
                                                                staticVars>>
    PROVE  FilesInv'
<1>1. CASE Edit
  BY <1>1, EditKeeps
<1>2. CASE StaticNext /\ UNCHANGED diskVars
  BY <1>2, AskKeeps, LookUpKeeps, FindKeeps, HashKeeps, MtimeKeeps,
     SizeKeeps, LoadKeeps, RespondKeeps, OpenKeeps, StreamKeeps
  DEF StaticNext
<1>3. CASE UNCHANGED <<diskVars, staticVars>>
  BY <1>3, StutterKeeps
<1> QED BY <1>1, <1>2, <1>3

(* The facts about entries, copies and the versions since a request.       *)
THEOREM FilesInvariance == StaticSpec => []FilesInv
  BY InitFilesInv, NextFilesInv, PTL DEF StaticSpec

(* However files change under the handler, what a client takes for a file *)
(* is, whole and of the length it was told, what the file had while it was *)
(* asked for; and what it gets of one that moves while it is streamed is   *)
(* at least of such versions.  Except after a date that went back or a     *)
(* hash that is of another version than the content.                       *)
THEOREM FilesAreCurrent == StaticSpec => []StaticIsCurrent
<1>1. FilesInv => StaticIsCurrent
  BY DEF FilesInv, Current, StaticIsCurrent, IsCurrent
<1> QED BY <1>1, FilesInvariance, PTL
=============================================================================
