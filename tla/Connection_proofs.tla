-------------------------- MODULE Connection_proofs --------------------------
(***************************************************************************)
(* Proofs about Connection for every number of requests, every body size   *)
(* and every set of environments: type correctness, that a connection is   *)
(* what the rest of the worker takes it for (ConnectionLife), that a       *)
(* stopped connection does not stay open with nothing to do, and what      *)
(* holds of requests that take turns: in the environments where the        *)
(* properties are claimed, the request whose headers came last is in one   *)
(* of five stages, and each action leads from one stage to another.        *)
(***************************************************************************)
EXTENDS Connection, SequenceTheorems, TLAPS

(* The queue keeps its type, whatever method is called on it.              *)
LEMMA PutType ==
    ASSUME NEW q \in QueueType, NEW item \in Item
    PROVE  Put(q, item) \in QueueType
  <1>1. Append(q.items, item) \in Seq(Item)
    BY AppendProperties DEF QueueType
  <1>2. (q.event \/ q.waiting) \in BOOLEAN
    OBVIOUS
  <1>. QED BY <1>1, <1>2 DEF Put, QueueType

(* end(), with or without its marker.                                      *)
LEMMA EndType ==
    ASSUME NEW q \in QueueType
    PROVE  End(q) \in QueueType
  <1>1. None \in Item
    BY DEF Item
  <1>2. Put(q, None) \in QueueType
    BY <1>1, PutType
  <1>. QED BY <1>2 DEF End, QueueType

(* clear(), of a dirty queue or a clean one.                               *)
LEMMA ClearType ==
    ASSUME NEW q \in QueueType
    PROVE  Clear(q) \in QueueType
  <1>1. <<>> \in Seq(Item)
    BY EmptySeq
  <1>. QED BY <1>1 DEF Clear, QueueType

(* get(), of a queue that is not empty, with the item it returns.          *)
LEMMA GetType ==
    ASSUME NEW q \in QueueType, q.items # <<>>
    PROVE  /\ Pop(q) \in QueueType
           /\ Resume(q) \in QueueType
           /\ Head(q.items) \in Item
  <1>1. /\ Tail(q.items) \in Seq(Item)
        /\ Head(q.items) \in Item
    BY HeadTailProperties DEF QueueType
  <1>. QED BY <1>1 DEF Pop, Resume, QueueType

(* get(), when it begins to wait and when it fails.                        *)
LEMMA WaitType ==
    ASSUME NEW q \in QueueType
    PROVE  /\ BeginWait(q) \in QueueType
           /\ [q EXCEPT !.event = FALSE, !.waiting = FALSE] \in QueueType
  BY DEF BeginWait, QueueType
-----------------------------------------------------------------------------
(* What the shared parts of the actions do to the types.                   *)
LEMMA AfterResponseType ==
    ASSUME TypeOK, AfterResponse
    PROVE  NetworkType' /\ StreamType' /\ WatchType'
  <1>1. NetworkType'
    BY DEF TypeOK, NetworkType, AfterResponse, CloseOrResume
  <1>2. StreamType'
    BY ClearType DEF TypeOK, StreamType, AfterResponse
  <1>3. WatchType'
    BY DEF TypeOK, WatchType, AfterResponse, RemoveWatcher
  <1>. QED BY <1>1, <1>2, <1>3

(* Writing a response, on an open transport or a closed one.               *)
LEMMA WrittenType ==
    ASSUME TypeOK, NEW r \in Requests, Written(r)
    PROVE  sent' \in Seq(Requests)
  BY AppendProperties DEF TypeOK, OutputType, Written

(* Response.send(), whether or not the write buffer fills.                 *)
LEMMA SendType ==
    ASSUME TypeOK, NEW r \in Requests, Send(r)
    PROVE  NetworkType' /\ StreamType' /\ WatchType' /\ OutputType'
  <1>1. sent' \in Seq(Requests)
    BY WrittenType DEF Send
  <1>2. /\ writable' \in BOOLEAN
        /\ streaming' \in [Requests -> StreamStates]
        /\ permitted' \in BOOLEAN
    BY DEF TypeOK, OutputType, Send, MayFillBuffer
  <1>3. CASE AfterResponse /\ UNCHANGED flushing
    BY <1>1, <1>2, <1>3, AfterResponseType DEF TypeOK, OutputType
  <1>4. CASE /\ flushing' = flushing \cup {r}
             /\ UNCHANGED <<network, stream, watch>>
    BY <1>1, <1>2, <1>4
    DEF TypeOK, OutputType, NetworkType, StreamType, WatchType, network,
        stream, watch
  <1>. QED BY <1>3, <1>4 DEF Send

(* The task of a stream goes on to another of its states.                  *)
LEMMA StreamToType ==
    ASSUME TypeOK, NEW r \in Requests, NEW state \in StreamStates,
           StreamTo(r, state)
    PROVE  streaming' \in [Requests -> StreamStates]
  BY DEF TypeOK, OutputType, StreamTo

(* The reader is handed a chunk of some request, or the marker.            *)
LEMMA GotType ==
    ASSUME TypeOK, NEW r \in Requests, NEW item \in Item, Got(r, item)
    PROVE  /\ readable' \in BOOLEAN
           /\ consumed' \in BOOLEAN
           /\ handler' \in [Requests -> HandlerStates]
           /\ got' \in [Requests -> Seq(Requests)]
  <1>1. CASE item = None
    BY <1>1
    DEF TypeOK, NetworkType, StreamType, TaskType, Got, HandlerStates
  <1>2. CASE item # None
    <2>1. item \in Requests
      BY <1>2 DEF Item
    <2>2. got[r] \in Seq(Requests)
      BY DEF TypeOK, TaskType
    <2>3. Append(got[r], item) \in Seq(Requests)
      BY <2>1, <2>2, AppendProperties
    <2>. QED
      BY <1>2, <2>3
      DEF TypeOK, NetworkType, StreamType, TaskType, Got, HandlerStates
  <1>. QED BY <1>1, <1>2

(* Waking readers keeps the states of the handlers.                        *)
LEMMA WakenedType ==
    ASSUME TypeOK
    PROVE  Wakened \in [Requests -> HandlerStates]
  BY DEF TypeOK, TaskType, Wakened, HandlerStates

(* So does an exception, which adds a task for it.                         *)
LEMMA RaisesType ==
    ASSUME TypeOK, NEW r \in Requests, Raises(r)
    PROVE  /\ handler' \in [Requests -> HandlerStates]
           /\ ErrorType'
  BY DEF TypeOK, TaskType, ErrorType, Raises, HandlerStates, Causes
-----------------------------------------------------------------------------
(* The type invariant is inductive.                                        *)
LEMMA InitType == Init => TypeOK
  <1>. SUFFICES ASSUME Init PROVE TypeOK
    OBVIOUS
  <1>1. <<>> \in Seq(Item) /\ <<>> \in Seq(Requests)
    BY EmptySeq
  <1>2. StreamType
    BY <1>1 DEF Init, StreamType, EmptyQueue, QueueType
  <1>3. RequestType
    BY BoundsAssumption DEF Init, RequestType
  <1>4. NetworkType /\ WatchType /\ ErrorType
    BY DEF Init, NetworkType, WatchType, ErrorType
  <1>5. TaskType /\ OutputType
    BY <1>1 DEF Init, TaskType, OutputType, HandlerStates, StreamStates
  <1>. QED BY <1>2, <1>3, <1>4, <1>5 DEF Init, TypeOK

(* What an action leaves alone keeps its type.                             *)
LEMMA UnchangedTypes ==
    ASSUME TypeOK
    PROVE  /\ UNCHANGED request => RequestType'
           /\ UNCHANGED network => NetworkType'
           /\ UNCHANGED stream => StreamType'
           /\ UNCHANGED tasks => TaskType'
           /\ UNCHANGED watch => WatchType'
           /\ UNCHANGED errors => ErrorType'
           /\ UNCHANGED output => OutputType'
  <1>1. /\ UNCHANGED request => RequestType'
        /\ UNCHANGED network => NetworkType'
    BY DEF TypeOK, request, network, RequestType, NetworkType
  <1>2. /\ UNCHANGED stream => StreamType'
        /\ UNCHANGED tasks => TaskType'
    BY DEF TypeOK, stream, tasks, StreamType, TaskType
  <1>3. /\ UNCHANGED watch => WatchType'
        /\ UNCHANGED errors => ErrorType'
    BY DEF TypeOK, watch, WatchType, ErrorType
  <1>4. UNCHANGED output => OutputType'
    BY DEF TypeOK, output, OutputType
  <1>. QED BY <1>1, <1>2, <1>3, <1>4

(* Every action keeps the types, and so does a stutter.                    *)
LEMMA NextType ==
    ASSUME TypeOK, [Next]_vars
    PROVE  TypeOK'
  <1>. USE DEF TypeOK
  <1>1. CASE DataReceived
    BY <1>1, UnchangedTypes DEF DataReceived, NetworkType
  <1>2. CASE DataReceivedReturns
    <2>1. RequestType' /\ NetworkType' /\ StreamType' /\ OutputType'
      BY <1>2, UnchangedTypes DEF DataReceivedReturns
    <2>. QED
      BY <1>2, <2>1
      DEF DataReceivedReturns, tasks, watch, TaskType, WatchType, ErrorType
  <1>3. CASE DataReceivedFails
    <2>1. ErrorType' /\ RequestType'
      BY <1>3, BoundsAssumption
      DEF DataReceivedFails, ClientMaySend, RequestType, ErrorType, Causes,
          Requests
    <2>. QED
      BY <1>3, <2>1, UnchangedTypes DEF DataReceivedFails, NetworkType
  <1>4. CASE OnHeadersComplete
    <2>1. RequestType' /\ req + 1 \in Requests
      BY <1>4, BoundsAssumption
      DEF OnHeadersComplete, HeadersParsed, ClientMaySend, RequestType,
          Requests
    <2>2. TaskType' /\ WatchType'
      BY <1>4, <2>1
      DEF OnHeadersComplete, TaskType, WatchType, HandlerStates
    <2>. QED
      BY <1>4, <2>1, <2>2, UnchangedTypes DEF OnHeadersComplete
  <1>5. CASE OnHeadersCompleteCached
    <2>1. RequestType' /\ req + 1 \in Requests
      BY <1>5, BoundsAssumption
      DEF OnHeadersCompleteCached, HeadersParsed, ClientMaySend, RequestType,
          Requests
    <2>2. NetworkType' /\ StreamType' /\ WatchType' /\ OutputType'
      BY <1>5, <2>1, SendType DEF OnHeadersCompleteCached
    <2>. QED
      BY <1>5, <2>1, <2>2
      DEF OnHeadersCompleteCached, tasks, TaskType, ErrorType
  <1>6. CASE OnBody
    <2>1. req \in Requests /\ put[req] \in 0..MaxBody /\ put[req] < MaxBody
      BY <1>6 DEF OnBody, RequestType
    <2>2. put[req] + 1 \in 0..MaxBody
      BY <2>1, BoundsAssumption
    <2>3. RequestType'
      BY <1>6, <2>1, <2>2 DEF OnBody, RequestType
    <2>4. StreamType'
      BY <1>6, <2>1, PutType DEF OnBody, StreamType, Item
    <2>5. TaskType'
      BY <1>6, WakenedType DEF OnBody, TaskType
    <2>. QED
      BY <1>6, <2>3, <2>4, <2>5, UnchangedTypes DEF OnBody, NetworkType
  <1>7. CASE OnMessageComplete
    <2>1. StreamType'
      BY <1>7, EndType DEF OnMessageComplete, StreamType
    <2>2. TaskType'
      BY <1>7, WakenedType DEF OnMessageComplete, TaskType
    <2>. QED
      BY <1>7, <2>1, <2>2, UnchangedTypes DEF OnMessageComplete, RequestType,
         NetworkType
  <1>8. CASE ConnectionLost
    <2>1. NetworkType'
      BY <1>8 DEF ConnectionLost, NetworkType
    <2>. QED BY <1>8, <2>1, UnchangedTypes DEF ConnectionLost
  <1>9. CASE ResumeWriting
    <2>1. OutputType'
      BY <1>9 DEF ResumeWriting, OutputType
    <2>. QED BY <1>9, <2>1, UnchangedTypes DEF ResumeWriting
  <1>10. ASSUME NEW r \in Requests, HandlerStep(r)
         PROVE  TypeOK'
    <2>1. CASE ReadQueued(r)
      <3>1. Head(queue.items) \in Item /\ Pop(queue) \in QueueType
        BY <2>1, GetType DEF ReadQueued, StreamType
      <3>. QED
        BY <2>1, <3>1, GotType, UnchangedTypes DEF ReadQueued, NetworkType,
           StreamType, TaskType
    <2>2. CASE ReadFinished(r)
      BY <2>2, UnchangedTypes DEF ReadFinished, NetworkType, StreamType,
         TaskType, HandlerStates
    <2>3. CASE ReadBlocks(r)
      BY <2>3, WaitType, UnchangedTypes DEF ReadBlocks, NetworkType,
         StreamType, TaskType, HandlerStates
    <2>4. CASE ReadResumes(r)
      <3>1. Head(queue.items) \in Item /\ Resume(queue) \in QueueType
        BY <2>4, GetType DEF ReadResumes, StreamType
      <3>. QED
        BY <2>4, <3>1, GotType, UnchangedTypes DEF ReadResumes, NetworkType,
           StreamType, TaskType
    <2>5. CASE ReadFindsNothing(r)
      <3>1. StreamType'
        BY <2>5, WaitType DEF ReadFindsNothing, StreamType
      <3>2. TaskType' /\ ErrorType'
        BY <2>5, RaisesType DEF ReadFindsNothing, TaskType
      <3>. QED
        BY <2>5, <3>1, <3>2, UnchangedTypes DEF ReadFindsNothing
    <2>6. CASE ReadRefused(r)
      BY <2>6, RaisesType, UnchangedTypes DEF ReadRefused, TaskType
    <2>7. CASE Reply(r)
      <3>1. TaskType'
        BY <2>7 DEF Reply, TaskType, HandlerStates
      <3>. QED
        BY <2>7, <3>1, SendType, UnchangedTypes DEF Reply
    <2>10. CASE ReplyStream(r)
      <3>1. TaskType'
        BY <2>10 DEF ReplyStream, TaskType, HandlerStates
      <3>2. streaming' \in [Requests -> StreamStates] /\ WatchType'
        BY <2>10
        DEF ReplyStream, SendStream, watch, OutputType, WatchType,
            StreamStates
      <3>. QED
        BY <2>10, <3>1, <3>2, UnchangedTypes DEF ReplyStream, OutputType
    <2>8. CASE HandlerRaises(r)
      BY <2>8, RaisesType, UnchangedTypes DEF HandlerRaises, TaskType
    <2>9. CASE AfterSendHook(r)
      <3>1. handler' \in [Requests -> HandlerStates] /\ ErrorType'
        BY <2>9, RaisesType
        DEF AfterSendHook, TaskType, ErrorType, HandlerStates
      <3>. QED
        BY <2>9, <3>1, UnchangedTypes DEF AfterSendHook, TaskType
    <2>. QED
      BY <1>10, <2>1, <2>2, <2>3, <2>4, <2>5, <2>6, <2>7, <2>8, <2>9, <2>10
      DEF HandlerStep, Read
  <1>11. ASSUME NEW r \in Requests, CancelRequest(r)
         PROVE  TypeOK'
    <2>1. TaskType'
      BY <1>11 DEF CancelRequest, TaskType, HandlerStates
    <2>2. WatchType' /\ ErrorType'
      BY <1>11 DEF CancelRequest, WatchType, ErrorType, Causes
    <2>. QED
      BY <1>11, <2>1, <2>2, UnchangedTypes DEF CancelRequest
  <1>12. ASSUME NEW r \in Requests, WaitClientConsume(r)
         PROVE  TypeOK'
    BY <1>12, UnchangedTypes DEF WaitClientConsume, OutputType
  <1>13. ASSUME NEW e \in errors,
                HandleException(e) \/ HandleExceptionFails(e)
         PROVE  TypeOK'
    <2>1. e.request \in Requests
      BY <1>13 DEF ErrorType
    <2>2. CASE HandleException(e)
      BY <2>1, <2>2, SendType, UnchangedTypes
      DEF HandleException, ErrorType
    <2>3. CASE HandleExceptionFails(e)
      BY <2>3, UnchangedTypes DEF HandleExceptionFails, ErrorType
    <2>. QED BY <1>13, <2>2, <2>3
  <1>14. CASE ScheduledClose
    <2>1. NetworkType'
      BY <1>14 DEF ScheduledClose, NetworkType
    <2>. QED BY <1>14, <2>1, UnchangedTypes DEF ScheduledClose
  <1>15. CASE Stop
    <2>1. NetworkType'
      BY <1>15 DEF Stop, NetworkType
    <2>. QED BY <1>15, <2>1, UnchangedTypes DEF Stop
  <1>16. CASE UNCHANGED vars
    BY <1>16, UnchangedTypes DEF vars
  <1>17. ASSUME NEW r \in Requests, StreamStep(r)
         PROVE  TypeOK'
    <2>1. CASE StreamBegins(r)
      <3>1. OutputType'
        BY <2>1, WrittenType, StreamToType
        DEF StreamBegins, MayFillBuffer, OutputType, StreamStates
      <3>. QED
        BY <2>1, <3>1, UnchangedTypes DEF StreamBegins
    <2>2. CASE StreamWrites(r)
      <3>1. OutputType'
        BY <2>2 DEF StreamWrites, OutputType
      <3>. QED BY <2>2, <3>1, UnchangedTypes DEF StreamWrites
    <2>3. CASE StreamEnds(r)
      <3>1. OutputType'
        BY <2>3, StreamToType
        DEF StreamEnds, MayFillBuffer, OutputType, StreamStates
      <3>2. NetworkType' /\ StreamType' /\ WatchType'
        BY <2>3, AfterResponseType
        DEF StreamEnds, network, stream, watch, NetworkType, StreamType,
            WatchType
      <3>. QED
        BY <2>3, <3>1, <3>2, UnchangedTypes DEF StreamEnds
    <2>4. CASE StreamFinishes(r)
      <3>1. OutputType'
        BY <2>4, StreamToType DEF StreamFinishes, OutputType, StreamStates
      <3>2. NetworkType' /\ StreamType' /\ WatchType'
        BY <2>4, AfterResponseType DEF StreamFinishes
      <3>. QED
        BY <2>4, <3>1, <3>2, UnchangedTypes DEF StreamFinishes
    <2>5. CASE StreamChunkIsLate(r) \/ StreamRaises(r)
      <3>1. OutputType'
        BY <2>5, StreamToType
        DEF StreamChunkIsLate, StreamRaises, OutputType, StreamStates
      <3>2. NetworkType'
        BY <2>5, UnchangedTypes
        DEF StreamChunkIsLate, StreamRaises, NetworkType
      <3>. QED
        BY <2>5, <3>1, <3>2, UnchangedTypes
        DEF StreamChunkIsLate, StreamRaises
    <2>6. CASE CancelStreamingTask(r)
      <3>1. OutputType'
        BY <2>6, StreamToType
        DEF CancelStreamingTask, OutputType, StreamStates
      <3>. QED
        BY <2>6, <3>1, UnchangedTypes DEF CancelStreamingTask, NetworkType,
           WatchType
    <2>. QED
      BY <1>17, <2>1, <2>2, <2>3, <2>4, <2>5, <2>6 DEF StreamStep
  <1>. QED
    BY <1>1, <1>2, <1>3, <1>4, <1>5, <1>6, <1>7, <1>8, <1>9, <1>10, <1>11,
       <1>12, <1>13, <1>14, <1>15, <1>16, <1>17 DEF Next

(* Every variable of Connection keeps its type, whatever clients, handlers *)
(* and operators do.                                                       *)
THEOREM TypeCorrect == Spec => []TypeOK
  BY InitType, NextType, PTL DEF Spec
-----------------------------------------------------------------------------
(* A connection is what ConnectionLife says of it.                         *)

(* The record that stands for the connection, in the state it starts in.   *)
LEMMA InitLife == Init => Life!Init
  BY DEF Init, Life!Init, Life!Fresh

(* A record of the abstract type is its four fields.                       *)
LEMMA LifeRecord ==
    ASSUME NEW c \in Life!ConnectionType
    PROVE  c = [status |-> c.status, stopped |-> c.stopped,
                closing |-> c.closing, closed |-> c.closed]
  BY DEF Life!ConnectionType

(* What each method of the abstract connection makes of its record.        *)
LEMMA LifeFields ==
    ASSUME NEW c \in Life!ConnectionType
    PROVE  /\ Life!Closed(c) =
                [status |-> c.status, stopped |-> c.stopped,
                 closing |-> c.closing, closed |-> TRUE]
           /\ Life!CloseDone(c) =
                [status |-> c.status, stopped |-> c.stopped,
                 closing |-> FALSE, closed |-> TRUE]
           /\ Life!Stopped(c) =
                [status |-> c.status, stopped |-> TRUE, closing |-> c.closing,
                 closed |-> (c.closed \/ c.status = "PENDING")]
           /\ Life!Responded(c) =
                [status |-> "PENDING", stopped |-> c.stopped,
                 closing |-> (c.closing \/ (KeepAlive /\ c.stopped)),
                 closed |-> (c.closed \/ ~KeepAlive)]
  <1>1. /\ Life!Closed(c) \in Life!ConnectionType
        /\ Life!Closed(c).status = c.status
        /\ Life!Closed(c).stopped = c.stopped
        /\ Life!Closed(c).closing = c.closing
        /\ Life!Closed(c).closed = TRUE
    BY DEF Life!ConnectionType, Life!Closed
  <1>2. /\ Life!CloseDone(c) \in Life!ConnectionType
        /\ Life!CloseDone(c).status = c.status
        /\ Life!CloseDone(c).stopped = c.stopped
        /\ Life!CloseDone(c).closing = FALSE
        /\ Life!CloseDone(c).closed = TRUE
    BY DEF Life!ConnectionType, Life!CloseDone
  <1>3. /\ Life!Stopped(c) \in Life!ConnectionType
        /\ Life!Stopped(c).status = c.status
        /\ Life!Stopped(c).stopped = TRUE
        /\ Life!Stopped(c).closing = c.closing
        /\ Life!Stopped(c).closed = (c.closed \/ c.status = "PENDING")
    BY DEF Life!ConnectionType, Life!Stopped
  <1>4. /\ Life!Responded(c) \in Life!ConnectionType
        /\ Life!Responded(c).status = "PENDING"
        /\ Life!Responded(c).stopped = c.stopped
        /\ Life!Responded(c).closing = (c.closing \/ (KeepAlive /\ c.stopped))
        /\ Life!Responded(c).closed = (c.closed \/ ~KeepAlive)
    BY EnvAssumption DEF Life!ConnectionType, Life!Responded, Life!Statuses
  <1>. QED BY <1>1, <1>2, <1>3, <1>4, LifeRecord

(* The record that stands for a connection has the abstract type.          *)
LEMMA LifeType ==
    ASSUME TypeOK
    PROVE  [status |-> status, stopped |-> stopped, closing |-> closing,
            closed |-> closed] \in Life!ConnectionType
  BY DEF TypeOK, NetworkType, Life!ConnectionType, Life!Statuses

(* after_response() is Respond.                                            *)
LEMMA AfterResponseLife ==
    ASSUME TypeOK, AfterResponse, UNCHANGED stopped
    PROVE  Life!Next
  <1>1. Life!Respond
    BY LifeType, LifeFields
    DEF AfterResponse, CloseOrResume, Life!Respond
  <1>. QED BY <1>1 DEF Life!Next

(* A response that fills the write buffer leaves the connection as it is.  *)
LEMMA SendLife ==
    ASSUME TypeOK, NEW r \in Requests, Send(r), UNCHANGED stopped
    PROVE  Life!Next \/ UNCHANGED <<status, stopped, closing, closed>>
  BY AfterResponseLife DEF Send, network

(* Every action is one step of ConnectionLife, or a stutter.               *)
LEMMA NextLife ==
    ASSUME TypeOK, [Next]_vars
    PROVE  Life!Next \/ UNCHANGED <<status, stopped, closing, closed>>
  <1>1. CASE DataReceived
    <2>1. Life!Receive
      BY <1>1 DEF DataReceived, Life!Receive, Life!Received
    <2>. QED BY <2>1 DEF Life!Next
  <1>2. CASE DataReceivedReturns \/ DataReceivedFails \/ OnHeadersComplete
             \/ OnBody \/ ResumeWriting
    BY <1>2
    DEF DataReceivedReturns, DataReceivedFails, OnHeadersComplete, OnBody,
        ResumeWriting, network
  <1>3. CASE OnHeadersCompleteCached
    <2>1. req + 1 \in Requests
      BY <1>3, BoundsAssumption
      DEF OnHeadersCompleteCached, HeadersParsed, ClientMaySend, TypeOK,
          RequestType, Requests
    <2>. QED BY <1>3, <2>1, SendLife DEF OnHeadersCompleteCached
  <1>4. CASE OnMessageComplete
    <2>1. Life!Complete
      BY <1>4 DEF OnMessageComplete, Life!Complete, Life!Completed
    <2>. QED BY <2>1 DEF Life!Next
  <1>5. CASE ConnectionLost
    <2>1. Life!Lose
      BY <1>5, LifeType, LifeFields DEF ConnectionLost, Life!Lose
    <2>. QED BY <2>1 DEF Life!Next
  <1>6. ASSUME NEW r \in Requests, HandlerStep(r)
        PROVE  Life!Next \/ UNCHANGED <<status, stopped, closing, closed>>
    <2>1. CASE Reply(r)
      BY <2>1, SendLife DEF Reply
    <2>2. CASE Read(r) \/ ReadFindsNothing(r) \/ ReadRefused(r)
               \/ ReplyStream(r) \/ HandlerRaises(r) \/ AfterSendHook(r)
      BY <2>2
      DEF Read, ReadQueued, ReadFinished, ReadBlocks, ReadResumes,
          ReadFindsNothing, ReadRefused, ReplyStream, HandlerRaises,
          AfterSendHook, network
    <2>. QED BY <1>6, <2>1, <2>2 DEF HandlerStep
  <1>7. ASSUME NEW r \in Requests, CancelRequest(r)
        PROVE  UNCHANGED <<status, stopped, closing, closed>>
    BY <1>7 DEF CancelRequest, network
  <1>8. ASSUME NEW r \in Requests, WaitClientConsume(r)
        PROVE  UNCHANGED <<status, stopped, closing, closed>>
    BY <1>8 DEF WaitClientConsume, network
  <1>9. ASSUME NEW e \in errors,
               HandleException(e) \/ HandleExceptionFails(e)
        PROVE  Life!Next \/ UNCHANGED <<status, stopped, closing, closed>>
    <2>1. e.request \in Requests
      BY <1>9 DEF TypeOK, ErrorType
    <2>. QED
      BY <1>9, <2>1, SendLife
      DEF HandleException, HandleExceptionFails, network
  <1>10. CASE ScheduledClose
    <2>1. Life!FinishClose
      BY <1>10, LifeType, LifeFields DEF ScheduledClose, Life!FinishClose
    <2>. QED BY <2>1 DEF Life!Next
  <1>11. CASE Stop
    <2>1. Life!Stop
      BY <1>11, LifeType, LifeFields DEF Stop, TypeOK, NetworkType, Life!Stop
    <2>. QED BY <2>1 DEF Life!Next
  <1>12. CASE UNCHANGED vars
    BY <1>12 DEF vars, network
  <1>13. ASSUME NEW r \in Requests, StreamStep(r)
         PROVE  Life!Next \/ UNCHANGED <<status, stopped, closing, closed>>
    <2>1. CASE StreamBegins(r) \/ StreamWrites(r) \/ StreamRaises(r)
      BY <2>1 DEF StreamBegins, StreamWrites, StreamRaises, network
    <2>2. CASE StreamEnds(r) \/ StreamFinishes(r)
      BY <2>2, AfterResponseLife DEF StreamEnds, StreamFinishes, network
    <2>3. CASE StreamChunkIsLate(r) \/ CancelStreamingTask(r)
      <3>1. Life!Lose
        BY <2>3, LifeType, LifeFields
        DEF StreamChunkIsLate, CancelStreamingTask, Life!Lose
      <3>. QED BY <3>1 DEF Life!Next
    <2>. QED BY <1>13, <2>1, <2>2, <2>3 DEF StreamStep
  <1>. QED
    BY <1>1, <1>2, <1>3, <1>4, <1>5, <1>6, <1>7, <1>8, <1>9, <1>10, <1>11,
       <1>12, <1>13 DEF Next

(* The connection implements ConnectionLife: what the reaper and           *)
(* stop_server assume of it holds in every environment.                    *)
THEOREM Refinement == Spec => LifeSpec
  <1>1. TypeOK /\ [Next]_vars
        => [Life!Next]_([status |-> status, stopped |-> stopped,
                         closing |-> closing, closed |-> closed])
    BY NextLife
  <1>. QED
    BY <1>1, InitLife, TypeCorrect, PTL DEF Spec, LifeSpec, Life!Spec

(* Once stop() was called, an idle connection is closed or about to close. *)
THEOREM StoppedConnectionsEnd == Spec => []StoppedIsNotIdle
  <1>1. Init => StoppedIsNotIdle
    BY DEF Init, StoppedIsNotIdle
  <1>2. ASSUME StoppedIsNotIdle, Life!Next
        PROVE  StoppedIsNotIdle'
    BY <1>2
    DEF StoppedIsNotIdle, Life!Next, Life!Receive, Life!Complete,
        Life!Respond, Life!Stop, Life!FinishClose, Life!Lose, Life!Received,
        Life!Completed, Life!Responded, Life!Stopped, Life!CloseDone,
        Life!Closed
  <1>3. TypeOK /\ StoppedIsNotIdle /\ [Next]_vars => StoppedIsNotIdle'
    BY <1>2, NextLife DEF StoppedIsNotIdle
  <1>. QED BY <1>1, <1>3, TypeCorrect, PTL DEF Spec
-----------------------------------------------------------------------------
(* Requests that take turns. *)

(* Requests are answered one after the other, by one task each.  In such   *)
(* an environment handlers may still answer early; if they do not, the     *)
(* answer comes after the whole message.                                   *)
Orderly ==
    OneWriter /\ env \cap {"slow client", "pipelining", "length"} = {}

Prompt == env \cap {"early", "cached"} = {}
-----------------------------------------------------------------------------
(* Requests before the current one are done with, those after it have left *)
(* no trace.                                                               *)
Settled(r) ==
    /\ Answered(r)
    /\ handler[r] \in {"none", "hook", "done"}
    /\ streaming[r] \in {"none", "over"}

Untouched(r) ==
    /\ ~Answered(r)
    /\ handler[r] = "none" /\ streaming[r] = "none"
    /\ put[r] = 0 /\ got[r] = <<>>

Others ==
    \A r \in Requests : /\ r < req => Settled(r)
                        /\ r > req => Untouched(r)

Quiet == flushing = {} /\ writable /\ parser \in {"idle", "body"}

AnsweredOnce == \A i, j \in 1..Len(sent) : sent[i] = sent[j] => i = j

Hooks == \A r \in Requests : handler[r] = "hook" => "hook" \in env

(* What clear() finds when it looks at `dirty`. *)
Marked ==
    /\ queue.event => queue.dirty
    /\ queue.items # <<>> => queue.dirty

OwnChunks ==
    Prompt => \A r \in Requests : \A i \in 1..Len(got[r]) : got[r][i] = r

Awake == Prompt => (feeding => status # "PENDING")

Always ==
    Quiet /\ Others /\ AnsweredOnce /\ Hooks /\ Marked /\ OwnChunks /\ Awake
-----------------------------------------------------------------------------
(* The stages of the current request.  It was answered, or there is none.  *)
Idle ==
    /\ timers = {} /\ errors = {} /\ ~consumed
    /\ req # 0 => /\ handler[req] \in {"none", "hook", "done"}
                  /\ streaming[req] \in {"none", "over"}
                  /\ Answered(req) \/ closed
    /\ Prompt => /\ parser = "idle"
                 /\ queue.items = <<>> /\ ~queue.finished
                 /\ readable \/ closed \/ closing

(* What a reader finds in the queue: n chunks of its request, then maybe   *)
(* the end marker.                                                         *)
Chunks(r, n) == [i \in 1..n |-> r]

Rest(n) ==
    \/ queue.items = Chunks(req, n)
    \/ parser = "idle" /\ queue.items = Append(Chunks(req, n), None)

Body ==
    /\ queue.finished = (parser = "idle")
    /\ \E n \in Nat : Rest(n) /\ Len(got[req]) + n = put[req]
    /\ handler[req] = "read" => /\ parser = "idle"
                                /\ Len(got[req]) = put[req]

Unanswered == req \in Requests /\ ~Answered(req)

(* Its handler runs, with a watcher.                                       *)
Handling ==
    /\ Unanswered
    /\ Active(req) /\ currentTask = req /\ streaming[req] = "none"
    /\ timers = {req} /\ timeoutTask = req /\ errors = {}
    /\ consumed = (handler[req] = "read")
    /\ handler[req] = "blocked" => queue.waiting /\ queue.items = <<>>
    /\ handler[req] = "woken" => queue.items # <<>>
    /\ Prompt => status # "PENDING" /\ Body

Late == Prompt => status # "PENDING" /\ parser = "idle"

(* A watcher that will not fire may be left.                               *)
Unwatched == timers = {} \/ (timers = {req} /\ "timeout" \notin env)

(* Its handler failed or was cancelled.                                    *)
Failing ==
    /\ Unanswered /\ Late
    /\ handler[req] = "done" /\ streaming[req] = "none"
    /\ \E c \in Causes : errors = {[request |-> req, cause |-> c]}
    /\ Unwatched /\ timeoutTask = req

(* So did the handler of the failure.                                      *)
Lost ==
    /\ Unanswered /\ Late
    /\ "failing" \in env
    /\ handler[req] = "done" /\ streaming[req] = "none"
    /\ errors = {} /\ Unwatched

(* Its answer is a stream.                                                 *)
Streaming ==
    /\ req \in Requests /\ Late /\ "streaming" \in env
    /\ handler[req] \in {"hook", "done"} /\ errors = {}
    /\ timers \subseteq {req} /\ timeoutTask = req
    /\ streaming[req] \in {"begun", "open", "failed"}
    /\ streaming[req] = "begun" => ~Answered(req)
    /\ streaming[req] = "open" => Answered(req) \/ closed
    /\ streaming[req] = "failed" => closed \/ "raise" \in env

Stage == Idle \/ Handling \/ Failing \/ Lost \/ Streaming

TakesTurns == Orderly => Always /\ Stage
-----------------------------------------------------------------------------
(* Where nothing is cancelled, requests need not take turns: each has one  *)
(* task at a time that may still answer it.                                *)
Unhurried == OneWriter /\ "timeout" \notin env

HasError(r) == \E e \in errors : e.request = r

OneTask(r) ==
    /\ r > req => handler[r] = "none" /\ streaming[r] = "none" /\ ~Answered(r)
    /\ Active(r) => ~Answered(r) /\ streaming[r] = "none" /\ ~HasError(r)
    /\ HasError(r) => r <= req /\ ~Answered(r) /\ streaming[r] = "none"
    /\ streaming[r] = "begun" => ~Answered(r)
    /\ handler[r] = "hook" => "hook" \in env

OneTaskEach ==
    Unhurried =>
        /\ \A r \in Requests : OneTask(r)
        /\ \A e \in errors : e.cause = "error"
        /\ AnsweredOnce

IInv == TypeOK /\ TakesTurns /\ OneTaskEach
-----------------------------------------------------------------------------
(* What such environments exclude.                                         *)
LEMMA OneWriterEnv ==
    ASSUME OneWriter
    PROVE  /\ "malformed" \notin env
           /\ "raise" \in env => "timeout" \notin env /\ "hook" \notin env
           /\ "timeout" \in env => Orderly
  BY DEF OneWriter, TwoWriters, Orderly

(* Nor do orderly environments allow what would upset the turns.            *)
LEMMA OrderlyEnv ==
    ASSUME Orderly
    PROVE  /\ "slow client" \notin env /\ "pipelining" \notin env
           /\ "length" \notin env /\ "malformed" \notin env
           /\ "raise" \in env => "timeout" \notin env /\ "hook" \notin env
  BY OneWriterEnv DEF Orderly

(* A response that is written answers its request and no other.            *)
LEMMA WrittenAnswers ==
    ASSUME TypeOK, NEW r \in Requests, Written(r)
    PROVE  /\ \A q \in Requests : Answered(q) => Answered(q)'
           /\ \A q \in Requests : Answered(q)' => Answered(q) \/ q = r
           /\ closed \/ Answered(r)'
           /\ AnsweredOnce /\ ~Answered(r) => AnsweredOnce'
  <1>1. sent \in Seq(Requests) /\ Len(sent) \in Nat
    BY LenProperties DEF TypeOK, OutputType
  <1>2. CASE closed
    <2>1. sent' = sent
      BY <1>2 DEF Written
    <2>. QED BY <1>2, <2>1 DEF Answered, AnsweredOnce
  <1>3. CASE ~closed
    <2>1. sent' = Append(sent, r)
      BY <1>3 DEF Written
    <2>2. /\ Len(sent') = Len(sent) + 1
          /\ \A i \in 1..Len(sent) : sent'[i] = sent[i]
          /\ sent'[Len(sent) + 1] = r
      BY <1>1, <2>1, AppendProperties
    <2>. QED BY <1>1, <2>2 DEF Answered, AnsweredOnce
  <1>. QED BY <1>2, <1>3

(* after_response() empties the queue, and leaves somebody to go on.       *)
LEMMA AfterResponseClears ==
    ASSUME TypeOK, Marked, AfterResponse
    PROVE  /\ status' = "PENDING"
           /\ queue'.items = <<>> /\ ~queue'.finished /\ Marked'
           /\ ~consumed'
           /\ readable' \/ closed' \/ closing'
           /\ closed => closed'
           /\ timers' = timers \ {timeoutTask}
  <1>1. queue' = Clear(queue) /\ queue \in QueueType
    BY DEF AfterResponse, TypeOK, StreamType
  <1>2. queue'.items = <<>> /\ ~queue'.finished /\ Marked'
    BY <1>1 DEF Clear, Marked, QueueType
  <1>3. (readable' \/ closed' \/ closing') /\ (closed => closed')
    BY DEF AfterResponse, CloseOrResume
  <1>. QED BY <1>2, <1>3 DEF AfterResponse, RemoveWatcher

(* A client that reads lets send() go on to after_response().              *)
LEMMA SendsAtOnce ==
    ASSUME Orderly, Quiet, NEW r \in Requests, Send(r)
    PROVE  /\ Written(r) /\ AfterResponse
           /\ writable' /\ flushing' = flushing /\ streaming' = streaming
  BY OrderlyEnv DEF Quiet, Send, MayFillBuffer

(* A handler that is at work is that of the current request.               *)
LEMMA ActiveIsCurrent ==
    ASSUME TypeOK, Always, Stage, NEW r \in Requests, Active(r)
    PROVE  r = req /\ Handling
  <1>1. req \in Nat /\ r \in Nat
    BY BoundsAssumption DEF TypeOK, RequestType, Requests
  <1>2. r = req
    BY <1>1 DEF Always, Others, Settled, Untouched, Active
  <1>3. req # 0
    BY <1>2 DEF Requests
  <1>. QED
    BY <1>2, <1>3 DEF Stage, Idle, Failing, Lost, Streaming, Active

(* What a step does to the current request only leaves the others alone.   *)
LEMMA OthersKept ==
    ASSUME TypeOK, Others, req' = req,
           sent' = sent \/ (req \in Requests /\ Written(req)),
           \A q \in Requests : q # req =>
               /\ \/ handler'[q] = handler[q]
                  \/ handler[q] = "hook" /\ handler'[q] = "done"
               /\ streaming'[q] = streaming[q]
               /\ put'[q] = put[q] /\ got'[q] = got[q]
    PROVE  Others'
  <1>. SUFFICES ASSUME NEW q \in Requests
                PROVE  /\ q < req => Settled(q)'
                       /\ q > req => Untouched(q)'
    BY DEF Others
  <1>1. req \in Nat /\ q \in Nat
    BY BoundsAssumption DEF TypeOK, RequestType, Requests
  <1>2. q # req => (Answered(q)' <=> Answered(q))
    BY WrittenAnswers DEF Answered
  <1>3. CASE q < req
    BY <1>1, <1>2, <1>3 DEF Others, Settled
  <1>4. CASE q > req
    BY <1>1, <1>2, <1>4 DEF Others, Untouched
  <1>. QED BY <1>3, <1>4
-----------------------------------------------------------------------------
(* The answers.  Whatever task sends one, nothing is under way after it.   *)
LEMMA AnswerEndsTurn ==
    ASSUME TypeOK, Orderly, Always, Unanswered, Send(req), ~feeding,
           streaming[req] = "none", timers \subseteq {timeoutTask}, Late,
           UNCHANGED <<env, feeding, request>>, got' = got,
           handler'[req] \in {"hook", "done"}, errors' = {}, Hooks',
           \A q \in Requests : q # req => handler'[q] = handler[q]
    PROVE  Always' /\ Idle'
  <1>1. /\ Written(req) /\ AfterResponse
        /\ writable' /\ flushing' = flushing /\ streaming' = streaming
    BY SendsAtOnce DEF Always, Unanswered
  <1>2. /\ queue'.items = <<>> /\ ~queue'.finished /\ Marked'
        /\ ~consumed'
        /\ readable' \/ closed' \/ closing'
        /\ closed => closed'
        /\ timers' = timers \ {timeoutTask}
    BY <1>1, AfterResponseClears DEF Always
  <1>3. /\ closed \/ Answered(req)'
        /\ AnsweredOnce'
    BY <1>1, WrittenAnswers DEF Always, Unanswered, request, Answered
  <1>4. Others'
    BY <1>1, OthersKept DEF Always, Unanswered, request
  <1>5. Quiet' /\ OwnChunks' /\ Awake'
    BY <1>1 DEF Always, Quiet, OwnChunks, Awake, Prompt, request
  <1>6. Idle'
    BY <1>1, <1>2, <1>3 DEF Idle, Late, Prompt, Unanswered, request
  <1>. QED BY <1>2, <1>3, <1>4, <1>5, <1>6 DEF Always

(* A handler's, which may not come before the whole request.               *)
LEMMA ReplyTurns ==
    ASSUME TypeOK, TypeOK', Orderly, Always, Stage,
           NEW r \in Requests, Reply(r)
    PROVE  Always' /\ Stage'
  <1>1. r = req /\ Handling
    BY ActiveIsCurrent DEF Reply, Active
  <1>2. Send(req) /\ ~feeding /\ UNCHANGED <<env, feeding, request>>
    BY <1>1 DEF Reply, request
  <1>3. Late
    <2>1. req \in Nat
      BY BoundsAssumption DEF TypeOK, RequestType
    <2>. QED
      BY <1>1, <2>1 DEF Reply, Late, Handling, Received, Prompt
  <1>4. /\ handler'[req] \in {"hook", "done"}
        /\ \A q \in Requests : q # req => handler'[q] = handler[q]
        /\ handler'[req] = "hook" => "hook" \in env
    BY <1>1 DEF Reply, TypeOK, TaskType
  <1>5. Hooks'
    BY <1>1, <1>2, <1>4 DEF Always, Hooks
  <1>. QED
    BY <1>1, <1>2, <1>3, <1>4, <1>5, AnswerEndsTurn
    DEF Handling, Stage, Reply

(* That of handle_exception().                                             *)
LEMMA HandleExceptionTurns ==
    ASSUME TypeOK, TypeOK', Orderly, Always, Stage,
           NEW e \in errors, HandleException(e)
    PROVE  Always' /\ Stage'
  <1>1. Failing /\ e.request = req /\ errors = {e}
    BY DEF Stage, Idle, Handling, Failing, Lost, Streaming
  <1>2. /\ Send(req) /\ ~feeding /\ errors' = {}
        /\ UNCHANGED <<env, feeding, request>>
        /\ handler' = handler /\ got' = got
    BY <1>1 DEF HandleException, tasks
  <1>3. timers \subseteq {timeoutTask}
    BY <1>1 DEF Failing, Unwatched
  <1>4. Hooks'
    BY <1>2 DEF Always, Hooks
  <1>. QED
    BY <1>1, <1>2, <1>3, <1>4, AnswerEndsTurn DEF Failing, Stage
-----------------------------------------------------------------------------
(* Reading.  The first of n chunks is followed by n - 1.                   *)
LEMMA ChunksFacts ==
    ASSUME NEW r \in Requests, NEW n \in Nat
    PROVE  /\ Chunks(r, n) \in Seq(Requests)
           /\ Len(Chunks(r, n)) = n
           /\ Append(Chunks(r, n), r) = Chunks(r, n + 1)
           /\ Append(Chunks(r, n), None) # <<>>
           /\ Chunks(r, 0) = <<>>
  <1>1. /\ Chunks(r, n) \in Seq(Requests) /\ Len(Chunks(r, n)) = n
        /\ Chunks(r, n + 1) \in Seq(Requests)
        /\ Len(Chunks(r, n + 1)) = n + 1
        /\ \A i \in 1..n : Chunks(r, n)[i] = r
        /\ \A i \in 1..n + 1 : Chunks(r, n + 1)[i] = r
    BY DEF Chunks
  <1>2. /\ Append(Chunks(r, n), r) \in Seq(Requests)
        /\ Len(Append(Chunks(r, n), r)) = n + 1
        /\ \A i \in 1..n + 1 : Append(Chunks(r, n), r)[i] = r
    BY <1>1, AppendProperties
  <1>3. Append(Chunks(r, n), r) = Chunks(r, n + 1)
    BY <1>1, <1>2, SeqEqual
  <1>4. Chunks(r, 0) = <<>>
    <2>1. Chunks(r, 0) \in Seq(Requests) /\ Len(Chunks(r, 0)) = 0
      BY DEF Chunks
    <2>. QED BY <2>1, EmptySeq
  <1>5. Append(Chunks(r, n), None) # <<>>
    <2>1. Chunks(r, n) \in Seq(Item) /\ None \in Item
      BY DEF Chunks, Item
    <2>. QED BY <2>1, AppendProperties
  <1>. QED BY <1>1, <1>3, <1>4, <1>5

(* Taking the first of at least one chunk.                                  *)
LEMMA FirstChunk ==
    ASSUME NEW r \in Requests, NEW n \in Nat, n > 0
    PROVE  /\ Chunks(r, n) # <<>>
           /\ Head(Chunks(r, n)) = r
           /\ Tail(Chunks(r, n)) = Chunks(r, n - 1)
           /\ Head(Append(Chunks(r, n), None)) = r
           /\ Tail(Append(Chunks(r, n), None))
                  = Append(Chunks(r, n - 1), None)
  <1>1. n - 1 \in Nat
    OBVIOUS
  <1>2. /\ Chunks(r, n) \in Seq(Item) /\ Len(Chunks(r, n)) = n
        /\ \A i \in 1..n : Chunks(r, n)[i] = r
        /\ Chunks(r, n - 1) \in Seq(Item) /\ Len(Chunks(r, n - 1)) = n - 1
        /\ \A i \in 1..n - 1 : Chunks(r, n - 1)[i] = r
    BY <1>1 DEF Chunks, Item
  <1>3. Chunks(r, n) # <<>> /\ Head(Chunks(r, n)) = r
    BY <1>2, HeadTailProperties
  <1>4. Tail(Chunks(r, n)) = Chunks(r, n - 1)
    <2>1. /\ Tail(Chunks(r, n)) \in Seq(Item)
          /\ Len(Tail(Chunks(r, n))) = n - 1
          /\ \A i \in 1..n - 1 : Tail(Chunks(r, n))[i] = r
      BY <1>1, <1>2, <1>3, HeadTailProperties
    <2>. QED BY <1>2, <2>1, SeqEqual
  <1>5. None \in Item
    BY DEF Item
  <1>6. /\ Head(Append(Chunks(r, n), None)) = r
        /\ Tail(Append(Chunks(r, n), None))
               = Append(Tail(Chunks(r, n)), None)
    BY <1>2, <1>3, <1>5, HeadTailAppend
  <1>. QED BY <1>3, <1>4, <1>6

(* What a step leaves of Always if it writes nothing and concerns the      *)
(* current request only.                                                   *)
LEMMA AlwaysKept ==
    ASSUME TypeOK, Always, UNCHANGED <<env, req, sent, writable, flushing>>,
           parser' \in {"idle", "body"},
           Hooks', Marked', OwnChunks', Awake',
           \A q \in Requests : q # req =>
               /\ \/ handler'[q] = handler[q]
                  \/ handler[q] = "hook" /\ handler'[q] = "done"
               /\ streaming'[q] = streaming[q]
               /\ put'[q] = put[q] /\ got'[q] = got[q]
    PROVE  Always'
  <1>1. Others'
    BY OthersKept DEF Always
  <1>2. Quiet' /\ AnsweredOnce'
    BY DEF Always, Quiet, AnsweredOnce
  <1>. QED BY <1>1, <1>2 DEF Always

(* The first item of the queue is the next chunk, or the marker after all  *)
(* of them.                                                                *)
LEMMA FirstItem ==
    ASSUME TypeOK, req \in Requests, Body, queue.items # <<>>
    PROVE  \/ /\ Head(queue.items) = None
              /\ Tail(queue.items) = <<>>
              /\ parser = "idle" /\ Len(got[req]) = put[req]
           \/ /\ Head(queue.items) = req
              /\ \E m \in Nat :
                    /\ \/ Tail(queue.items) = Chunks(req, m)
                       \/ /\ parser = "idle"
                          /\ Tail(queue.items) = Append(Chunks(req, m), None)
                    /\ Len(got[req]) + 1 + m = put[req]
  <1>1. PICK n \in Nat : Rest(n) /\ Len(got[req]) + n = put[req]
    BY DEF Body
  <1>2. got[req] \in Seq(Requests) /\ Len(got[req]) \in Nat
    BY LenProperties DEF TypeOK, TaskType
  <1>3. CASE n = 0
    <2>1. Chunks(req, n) = <<>>
      BY <1>3, ChunksFacts
    <2>2. parser = "idle" /\ queue.items = Append(<<>>, None)
      BY <1>1, <2>1 DEF Rest
    <2>3. Head(queue.items) = None /\ Tail(queue.items) = <<>>
      BY <2>2, EmptySeq, HeadTailAppend
    <2>. QED BY <1>1, <1>2, <1>3, <2>2, <2>3
  <1>4. CASE n > 0
    <2>1. n - 1 \in Nat
      BY <1>4
    <2>2. /\ Head(queue.items) = req
          /\ \/ Tail(queue.items) = Chunks(req, n - 1)
             \/ /\ parser = "idle"
                /\ Tail(queue.items) = Append(Chunks(req, n - 1), None)
      BY <1>1, <1>4, FirstChunk DEF Rest
    <2>3. Len(got[req]) + 1 + (n - 1) = put[req]
      BY <1>1, <1>2, <1>4
    <2>. QED BY <2>1, <2>2, <2>3
  <1>5. n = 0 \/ n > 0
    OBVIOUS
  <1>. QED BY <1>3, <1>4, <1>5

(* A chunk or the marker that a reader gets from the queue.                *)
LEMMA GotTurns ==
    ASSUME TypeOK, TypeOK', Orderly, Always, Handling,
           queue.items # <<>>, handler[req] \in {"running", "woken"},
           queue' = Pop(queue) \/ queue' = Resume(queue),
           Got(req, Head(queue.items)),
           UNCHANGED <<env, feeding, request, status, closed, closing,
                       stopped, currentTask, watch, errors, output>>
    PROVE  Always' /\ Handling'
  <1>. DEFINE item == Head(queue.items)
  <1>1. /\ req \in Requests /\ req' = req /\ put' = put /\ parser' = parser
        /\ got \in [Requests -> Seq(Requests)] /\ Len(got[req]) \in Nat
        /\ handler \in [Requests -> HandlerStates]
        /\ queue \in QueueType /\ consumed' \in BOOLEAN
    BY LenProperties
    DEF Handling, Unanswered, TypeOK, TaskType, StreamType, request
  <1>2. /\ queue'.items = Tail(queue.items)
        /\ queue'.dirty = queue.dirty /\ queue'.finished = queue.finished
        /\ queue'.event => queue.event
    BY <1>1 DEF Pop, Resume, QueueType
  <1>3. \/ item = None /\ handler'[req] = "read" /\ consumed' /\ got' = got
        \/ /\ item # None /\ handler'[req] = "running" /\ ~consumed'
           /\ got' = [got EXCEPT ![req] = Append(@, item)]
    BY <1>1 DEF Got, Handling
  <1>4. \A q \in Requests : q # req =>
            handler'[q] = handler[q] /\ got'[q] = got[q]
    BY <1>1 DEF Got
  <1>5. Prompt => Body'
    <2>. SUFFICES ASSUME Prompt PROVE Body'
      OBVIOUS
    <2>1. Body
      BY DEF Handling
    <2>2. CASE /\ item = None /\ Tail(queue.items) = <<>>
               /\ parser = "idle" /\ Len(got[req]) = put[req]
      <3>1. got' = got /\ handler'[req] = "read"
        BY <1>3, <2>2
      <3>2. Chunks(req, 0) = <<>>
        BY <1>1, ChunksFacts
      <3>3. Rest(0)'
        BY <1>1, <1>2, <2>2, <3>2 DEF Rest
      <3>4. Len(got'[req]) + 0 = put'[req]
        BY <1>1, <2>2, <3>1
      <3>. QED BY <1>1, <1>2, <2>1, <2>2, <3>1, <3>3, <3>4 DEF Body
    <2>3. ASSUME item = req,
                 NEW m \in Nat,
                 \/ Tail(queue.items) = Chunks(req, m)
                 \/ /\ parser = "idle"
                    /\ Tail(queue.items) = Append(Chunks(req, m), None),
                 Len(got[req]) + 1 + m = put[req]
          PROVE  Body'
      <3>1. item # None
        BY <1>1, <2>3 DEF Requests, None
      <3>2. Len(got'[req]) = Len(got[req]) + 1 /\ handler'[req] = "running"
        BY <1>1, <1>3, <2>3, <3>1, AppendProperties
      <3>3. Rest(m)'
        BY <1>1, <1>2, <2>3 DEF Rest
      <3>. QED BY ZenonT(30), <1>1, <1>2, <2>1, <2>3, <3>2, <3>3 DEF Body
    <2>. QED BY <1>1, <2>1, <2>2, <2>3, FirstItem
  <1>6. OwnChunks'
    <2>. SUFFICES ASSUME Prompt
                  PROVE  \A q \in Requests :
                            \A i \in 1..Len(got'[q]) : got'[q][i] = q
      BY DEF OwnChunks, Prompt
    <2>1. Body /\ \A q \in Requests :
                      \A i \in 1..Len(got[q]) : got[q][i] = q
      BY DEF Always, OwnChunks, Handling
    <2>2. item # None => item = req
      BY <1>1, <2>1, FirstItem
    <2>3. \A i \in 1..Len(got'[req]) : got'[req][i] = req
      <3>1. CASE item = None
        BY <1>1, <1>3, <2>1, <3>1
      <3>2. CASE item # None
        <4>1. got'[req] = Append(got[req], req)
          BY <1>1, <1>3, <2>2, <3>2
        <4>. QED BY <1>1, <2>1, <4>1, AppendProperties
      <3>. QED BY <3>1, <3>2
    <2>. QED BY <1>4, <2>1, <2>3
  <1>7. Marked'
    BY <1>1, <1>2, HeadTailProperties DEF Always, Marked, QueueType
  <1>8. Hooks' /\ Awake'
    BY <1>1, <1>3, <1>4 DEF Always, Hooks, Awake, Prompt
  <1>9. Always'
    BY <1>1, <1>4, <1>6, <1>7, <1>8, AlwaysKept
    DEF Always, Quiet, output
  <1>10. Handling'
    <2>1. Unanswered' /\ Active(req)'
      BY <1>1, <1>3
      DEF Handling, Unanswered, Answered, Active, output
    <2>2. consumed' = (handler'[req] = "read")
      BY <1>1, <1>3
    <2>3. (Prompt => status # "PENDING")'
      BY DEF Handling, Prompt
    <2>. QED
      BY <1>1, <1>3, <1>5, <2>1, <2>2, <2>3
      DEF Handling, Active, Prompt, watch, output
  <1>. QED BY <1>9, <1>10

(* A handler that finds something in the queue.                             *)
LEMMA ReadQueuedTurns ==
    ASSUME TypeOK, TypeOK', Orderly, Always, Stage,
           NEW r \in Requests, ReadQueued(r)
    PROVE  Always' /\ Stage'
  <1>1. r = req /\ Handling
    BY ActiveIsCurrent DEF ReadQueued, Active
  <1>. QED
    BY <1>1, GotTurns DEF ReadQueued, Stage

(* A handler that was woken.                                                *)
LEMMA ReadResumesTurns ==
    ASSUME TypeOK, TypeOK', Orderly, Always, Stage,
           NEW r \in Requests, ReadResumes(r)
    PROVE  Always' /\ Stage'
  <1>1. r = req /\ Handling
    BY ActiveIsCurrent DEF ReadResumes, Active
  <1>. QED
    BY <1>1, GotTurns DEF ReadResumes, Stage

(* A reader that finds nothing ends, or begins to wait.                    *)
LEMMA ReadEmptyTurns ==
    ASSUME TypeOK, TypeOK', Orderly, Always, Stage,
           NEW r \in Requests, ReadFinished(r) \/ ReadBlocks(r)
    PROVE  Always' /\ Stage'
  <1>1. r = req /\ Handling
    BY ActiveIsCurrent DEF ReadFinished, ReadBlocks, Active
  <1>2. /\ req \in Requests /\ req' = req /\ put' = put /\ parser' = parser
        /\ handler \in [Requests -> HandlerStates]
        /\ queue \in QueueType
    BY <1>1
    DEF Handling, Unanswered, TypeOK, TaskType, StreamType, request,
        ReadFinished, ReadBlocks
  <1>0. put[req] \in Nat /\ Len(got[req]) \in Nat
    BY <1>2, LenProperties, BoundsAssumption DEF TypeOK, TaskType, RequestType
  <1>3. /\ queue.items = <<>> /\ queue'.items = <<>>
        /\ queue'.dirty = queue.dirty /\ queue'.finished = queue.finished
        /\ queue'.event => queue.event
        /\ handler[req] = "running"
        /\ \/ queue.finished /\ consumed' = TRUE /\ handler'[req] = "read"
           \/ /\ ~queue.finished /\ ~consumed' /\ handler'[req] = "blocked"
              /\ queue'.waiting /\ consumed' = consumed
        /\ \A q \in Requests : q # req => handler'[q] = handler[q]
    <2>1. CASE ReadFinished(r)
      BY <1>1, <1>2, <2>1 DEF ReadFinished
    <2>2. CASE ReadBlocks(r)
      <3>1. queue' = [queue EXCEPT !.event = FALSE, !.waiting = TRUE]
        BY <2>2 DEF ReadBlocks, BeginWait
      <3>2. /\ queue'.items = queue.items /\ queue'.dirty = queue.dirty
            /\ queue'.finished = queue.finished
            /\ ~queue'.event /\ queue'.waiting
        BY <1>2, <3>1 DEF QueueType
      <3>. QED BY <1>1, <1>2, <2>2, <3>2 DEF ReadBlocks
    <2>. QED BY <2>1, <2>2
  <1>4. UNCHANGED <<env, feeding, status, sent, writable, flushing, streaming,
                    got, currentTask, timers, timeoutTask, errors, closed>>
    BY DEF ReadFinished, ReadBlocks, output, watch
  <1>5. Prompt => Body'
    <2>. SUFFICES ASSUME Prompt PROVE Body'
      OBVIOUS
    <2>1. Body /\ Chunks(req, 0) = <<>>
      BY <1>1, <1>2, ChunksFacts DEF Handling
    <2>2. PICK n \in Nat : Rest(n) /\ Len(got[req]) + n = put[req]
      BY <2>1 DEF Body
    <2>3. n = 0
      <3>1. CASE queue.items = Chunks(req, n)
        <4>1. Len(<<>>) = n
          BY <1>2, <1>3, <3>1, ChunksFacts
        <4>. QED BY <4>1, EmptySeq
      <3>2. queue.items # Append(Chunks(req, n), None)
        BY <1>2, <1>3, ChunksFacts
      <3>. QED BY <2>2, <3>1, <3>2 DEF Rest
    <2>4. Len(got[req]) = put[req]
      BY <1>0, <2>2, <2>3
    <2>5. Rest(0)' /\ Len(got'[req]) + 0 = put'[req]
      BY <1>2, <1>3, <1>4, <2>1, <2>4 DEF Rest
    <2>. QED BY <1>2, <1>3, <1>4, <2>1, <2>4, <2>5 DEF Body
  <1>6. Hooks' /\ Marked' /\ OwnChunks' /\ Awake'
    BY <1>2, <1>3, <1>4
    DEF Always, Hooks, Marked, OwnChunks, Awake, Prompt
  <1>7. Always'
    BY <1>2, <1>3, <1>4, <1>6, AlwaysKept DEF Always, Quiet
  <1>8. Handling'
    BY <1>1, <1>2, <1>3, <1>4, <1>5
    DEF Handling, Unanswered, Answered, Active, Prompt
  <1>. QED BY <1>7, <1>8 DEF Stage

(* Reading does not fail.                                                  *)
LEMMA ReadDoesNotFail ==
    ASSUME TypeOK, Always, Stage, NEW r \in Requests
    PROVE  ~ReadFindsNothing(r) /\ ~ReadRefused(r)
  <1>1. Active(r) => r = req /\ Handling
    BY ActiveIsCurrent
  <1>. QED BY <1>1 DEF ReadFindsNothing, ReadRefused, Handling, Active
-----------------------------------------------------------------------------
(* The other ends of a handler: it returns a stream, raises, or runs the   *)
(* hooks after its answer.                                                 *)
LEMMA ReplyStreamTurns ==
    ASSUME TypeOK, TypeOK', Orderly, Always, Stage,
           NEW r \in Requests, ReplyStream(r)
    PROVE  Always' /\ Stage'
  <1>1. r = req /\ Handling
    BY ActiveIsCurrent DEF ReplyStream, Active
  <1>2. /\ req \in Requests /\ req \in Nat
        /\ handler \in [Requests -> HandlerStates]
        /\ streaming \in [Requests -> StreamStates]
    BY <1>1, BoundsAssumption
    DEF Handling, Unanswered, TypeOK, RequestType, TaskType, OutputType
  <1>3. UNCHANGED <<env, feeding, req, put, parser, status, closed, queue,
                    got, errors, writable, flushing, sent>>
    BY DEF ReplyStream, request, network, stream
  <1>4. /\ streaming' = [streaming EXCEPT ![req] = "begun"]
        /\ timers' \subseteq {req} /\ timeoutTask' = req
    <2>1. timers = {req} /\ timeoutTask = req /\ r = req
      BY <1>1 DEF Handling
    <2>2. timeoutTask # None
      BY <1>2, <2>1 DEF Requests, None
    <2>3. SendStream(req)
      BY <2>1 DEF ReplyStream
    <2>. QED BY <2>1, <2>2, <2>3 DEF SendStream
  <1>5. /\ handler'[req] \in {"hook", "done"}
        /\ handler'[req] = "hook" => "hook" \in env
        /\ \A q \in Requests : q # req => handler'[q] = handler[q]
    BY <1>1, <1>2 DEF ReplyStream
  <1>6. Late'
    BY <1>1, <1>2, <1>3
    DEF ReplyStream, Late, Handling, Received, Prompt
  <1>7. Hooks' /\ Marked' /\ OwnChunks' /\ Awake'
    BY <1>1, <1>2, <1>3, <1>5
    DEF Always, Hooks, Marked, OwnChunks, Awake, Prompt
  <1>8. Always'
    BY <1>2, <1>3, <1>4, <1>5, <1>7, AlwaysKept DEF Always, Quiet
  <1>9. Streaming'
    <2>1. streaming'[req] = "begun" /\ ~Answered(req)'
      BY <1>1, <1>2, <1>3, <1>4 DEF Handling, Unanswered, Answered
    <2>. QED
      BY <1>1, <1>2, <1>3, <1>4, <1>5, <1>6, <2>1
      DEF Streaming, Handling, ReplyStream
  <1>. QED BY <1>8, <1>9 DEF Stage

(* It raises: the watcher it leaves will not fire.                          *)
LEMMA HandlerRaisesTurns ==
    ASSUME TypeOK, TypeOK', Orderly, Always, Stage,
           NEW r \in Requests, HandlerRaises(r)
    PROVE  Always' /\ Stage'
  <1>1. r = req /\ Handling
    BY ActiveIsCurrent DEF HandlerRaises, Active
  <1>2. /\ req \in Requests /\ req \in Nat
        /\ handler \in [Requests -> HandlerStates]
    BY <1>1, BoundsAssumption
    DEF Handling, Unanswered, TypeOK, RequestType, TaskType
  <1>3. UNCHANGED <<env, feeding, req, put, parser, status, queue, got,
                    writable, flushing, sent, streaming, timers,
                    timeoutTask>>
    BY DEF HandlerRaises, request, network, stream, watch, output
  <1>4. /\ handler'[req] = "done"
        /\ \A q \in Requests : q # req => handler'[q] = handler[q]
        /\ errors' = {[request |-> req, cause |-> "error"]}
    BY <1>1, <1>2 DEF HandlerRaises, Raises, Handling
  <1>5. Late' /\ "timeout" \notin env
    <2>1. Late'
      BY <1>1, <1>2, <1>3
      DEF HandlerRaises, Late, Handling, Received, Prompt
    <2>2. "timeout" \notin env
      BY OrderlyEnv DEF HandlerRaises
    <2>. QED BY <2>1, <2>2
  <1>6. Hooks' /\ Marked' /\ OwnChunks' /\ Awake'
    BY <1>2, <1>3, <1>4 DEF Always, Hooks, Marked, OwnChunks, Awake, Prompt
  <1>7. Always'
    BY <1>2, <1>3, <1>4, <1>6, AlwaysKept DEF Always, Quiet
  <1>8. Unanswered' /\ Unwatched'
    BY <1>1, <1>2, <1>3, <1>5
    DEF Handling, Unanswered, Answered, Unwatched
  <1>9. Failing'
    BY <1>1, <1>2, <1>3, <1>4, <1>5, <1>8 DEF Failing, Handling, Causes
  <1>. QED BY <1>7, <1>9 DEF Stage

(* Its hooks are over, perhaps during a later request.                      *)
LEMMA AfterSendHookTurns ==
    ASSUME TypeOK, TypeOK', Orderly, Always, Stage,
           NEW r \in Requests, AfterSendHook(r)
    PROVE  Always' /\ Stage'
  <1>1. "raise" \notin env
    BY OrderlyEnv DEF AfterSendHook, Always, Hooks
  <1>2. /\ handler' = [handler EXCEPT ![r] = "done"]
        /\ errors' = errors /\ handler[r] = "hook"
        /\ UNCHANGED <<env, feeding, request, network, stream, currentTask,
                       got, watch, output>>
    BY <1>1 DEF AfterSendHook
  <1>3. handler \in [Requests -> HandlerStates]
    BY DEF TypeOK, TaskType
  <1>4. Always'
    <2>1. Hooks' /\ Marked' /\ OwnChunks' /\ Awake'
      BY <1>2, <1>3
      DEF Always, Hooks, Marked, OwnChunks, Awake, Prompt, request, network,
          stream
    <2>. QED
      BY <1>2, <1>3, <2>1, AlwaysKept DEF Always, Quiet, request, output
  <1>5. UNCHANGED <<req, parser, status, readable, closed, closing, queue,
                    consumed, timers, timeoutTask, sent, streaming>>
    BY <1>2 DEF request, network, stream, watch, output
  <1>6. CASE Idle
    <2>1. Idle'
      BY <1>2, <1>3, <1>5, <1>6 DEF Idle, Prompt, Answered
    <2>. QED BY <1>4, <2>1 DEF Stage
  <1>7. CASE Streaming
    <2>1. Streaming'
      BY <1>2, <1>3, <1>5, <1>7 DEF Streaming, Late, Prompt, Answered
    <2>. QED BY <1>4, <2>1 DEF Stage
  <1>8. CASE Handling
    <2>1. r # req
      BY <1>2, <1>8 DEF Handling, Active
    <2>2. Prompt => Body'
      BY SMTT(20), <1>2, <1>3, <1>5, <1>8, <2>1
      DEF Handling, Body, Rest, request
    <2>3. Handling'
      BY <1>2, <1>3, <1>5, <1>8, <2>1, <2>2
      DEF Handling, Unanswered, Answered, Active, Prompt
    <2>. QED BY <1>4, <2>3 DEF Stage
  <1>9. CASE Failing
    <2>1. Failing'
      BY <1>2, <1>3, <1>5, <1>9
      DEF Failing, Unanswered, Answered, Late, Prompt, Unwatched
    <2>. QED BY <1>4, <2>1 DEF Stage
  <1>10. CASE Lost
    <2>1. Lost'
      BY <1>2, <1>3, <1>5, <1>10
      DEF Lost, Unanswered, Answered, Late, Prompt, Unwatched
    <2>. QED BY <1>4, <2>1 DEF Stage
  <1>. QED BY <1>6, <1>7, <1>8, <1>9, <1>10 DEF Stage
-----------------------------------------------------------------------------
(* The steps of a stream.  A stream that is under way is that of the       *)
(* current request.                                                        *)
LEMMA StreamIsCurrent ==
    ASSUME TypeOK, Always, Stage, NEW r \in Requests,
           streaming[r] \notin {"none", "over"}
    PROVE  r = req /\ Streaming
  <1>1. req \in Nat /\ r \in Nat
    BY BoundsAssumption DEF TypeOK, RequestType, Requests
  <1>2. r = req
    BY <1>1 DEF Always, Others, Settled, Untouched
  <1>3. req # 0
    BY <1>2 DEF Requests
  <1>. QED
    BY <1>2, <1>3 DEF Stage, Idle, Handling, Failing, Lost

(* Its headers, which answer the request.                                  *)
LEMMA StreamBeginsTurns ==
    ASSUME TypeOK, TypeOK', Orderly, Always, Stage,
           NEW r \in Requests, StreamBegins(r)
    PROVE  Always' /\ Stage'
  <1>1. r = req /\ Streaming
    BY StreamIsCurrent DEF StreamBegins
  <1>2. /\ req \in Requests /\ Written(req) /\ writable' /\ ~Answered(req)
        /\ streaming' = [streaming EXCEPT ![req] = "open"]
    BY <1>1, OrderlyEnv
    DEF StreamBegins, StreamTo, MayFillBuffer, Always, Quiet, Streaming
  <1>3. UNCHANGED <<env, feeding, req, put, parser, status, closed, queue,
                    consumed, handler, got, timers, timeoutTask, errors,
                    flushing>>
    BY DEF StreamBegins, request, network, stream, tasks, watch
  <1>4. (closed \/ Answered(req)') /\ AnsweredOnce'
    BY <1>2, <1>3, WrittenAnswers DEF Always, Answered
  <1>5. \A q \in Requests : q # req => streaming'[q] = streaming[q]
    BY <1>2
  <1>6. Others'
    BY <1>2, <1>3, <1>5, OthersKept DEF Always
  <1>7. Quiet' /\ Hooks' /\ Marked' /\ OwnChunks' /\ Awake'
    BY <1>2, <1>3
    DEF Always, Quiet, Hooks, Marked, OwnChunks, Awake, Prompt
  <1>8. streaming'[req] = "open"
    BY <1>2 DEF TypeOK, OutputType
  <1>9. Streaming'
    <2>1. Late'
      BY <1>1, <1>3 DEF Streaming, Late, Prompt
    <2>. QED
      BY <1>1, <1>2, <1>3, <1>4, <1>8, <2>1 DEF Streaming
  <1>. QED BY <1>4, <1>6, <1>7, <1>9 DEF Always, Stage

(* Its last chunk, which is followed by after_response().                  *)
LEMMA StreamEndsTurns ==
    ASSUME TypeOK, TypeOK', Orderly, Always, Stage,
           NEW r \in Requests, StreamEnds(r)
    PROVE  Always' /\ Stage'
  <1>1. r = req /\ Streaming
    BY StreamIsCurrent DEF StreamEnds
  <1>2. /\ req \in Requests /\ writable' /\ AfterResponse
        /\ streaming' = [streaming EXCEPT ![req] = "over"]
        /\ Answered(req) \/ closed
    BY <1>1, OrderlyEnv
    DEF StreamEnds, StreamTo, MayFillBuffer, Always, Quiet, Streaming
  <1>3. UNCHANGED <<env, feeding, req, put, parser, handler, got, errors,
                    flushing, sent>>
    BY DEF StreamEnds, request, tasks
  <1>4. /\ queue'.items = <<>> /\ ~queue'.finished /\ Marked'
        /\ ~consumed'
        /\ readable' \/ closed' \/ closing'
        /\ closed => closed'
        /\ timers' = timers \ {timeoutTask}
    BY <1>2, AfterResponseClears DEF Always
  <1>5. /\ streaming'[req] = "over"
        /\ \A q \in Requests : q # req => streaming'[q] = streaming[q]
    BY <1>2 DEF TypeOK, OutputType
  <1>6. Hooks' /\ OwnChunks' /\ Awake'
    BY <1>3, <1>5 DEF Always, Hooks, OwnChunks, Awake, Prompt, StreamEnds
  <1>7. Always'
    <2>1. Others'
      BY <1>3, <1>5, OthersKept DEF Always
    <2>2. Quiet' /\ AnsweredOnce'
      BY <1>2, <1>3 DEF Always, Quiet, AnsweredOnce
    <2>. QED BY <1>4, <1>6, <2>1, <2>2 DEF Always
  <1>8. Idle'
    <2>1. (Prompt => parser = "idle")' /\ (Answered(req) \/ closed)'
      BY <1>1, <1>2, <1>3, <1>4 DEF Streaming, Late, Prompt, Answered
    <2>2. timers' = {} /\ errors' = {}
      BY <1>1, <1>3, <1>4 DEF Streaming
    <2>3. handler'[req] \in {"hook", "done"}
      BY <1>1, <1>3 DEF Streaming
    <2>. QED
      BY <1>3, <1>4, <1>5, <2>1, <2>2, <2>3 DEF Idle, Prompt
  <1>. QED BY <1>7, <1>8 DEF Stage

(* Its failures: the generator raises, or complete_timeout is over.        *)
LEMMA StreamFailsTurns ==
    ASSUME TypeOK, TypeOK', Orderly, Always, Stage,
           NEW r \in Requests, StreamRaises(r) \/ CancelStreamingTask(r)
    PROVE  Always' /\ Stage'
  <1>1. r = req /\ Streaming
    <2>1. CASE StreamRaises(r)
      BY <2>1, StreamIsCurrent DEF StreamRaises
    <2>2. CASE CancelStreamingTask(r)
      <3>1. r \in timers /\ streaming[r] # "none"
        BY <2>2 DEF CancelStreamingTask
      <3>. QED
        BY <3>1 DEF Stage, Idle, Handling, Failing, Lost, Unwatched, Streaming
    <2>. QED BY <2>1, <2>2
  <1>2. UNCHANGED <<env, feeding, req, put, parser, status, queue, consumed,
                    handler, got, timeoutTask, errors, writable, flushing,
                    sent>>
    BY DEF StreamRaises, CancelStreamingTask, request, network, stream,
           tasks, watch
  <1>3. /\ streaming' = [streaming EXCEPT ![req] = "failed"]
        /\ timers' \subseteq timers
        /\ closed' \/ "raise" \in env
    BY <1>1
    DEF StreamRaises, CancelStreamingTask, StreamTo, Streaming, network, watch
  <1>4. /\ streaming'[req] = "failed"
        /\ \A q \in Requests : q # req => streaming'[q] = streaming[q]
    BY <1>1, <1>3 DEF TypeOK, OutputType, Streaming
  <1>5. Hooks' /\ Marked' /\ OwnChunks' /\ Awake'
    BY <1>2 DEF Always, Hooks, Marked, OwnChunks, Awake, Prompt
  <1>6. Always'
    BY <1>2, <1>4, <1>5, AlwaysKept DEF Always, Quiet
  <1>7. Streaming'
    BY <1>1, <1>2, <1>3, <1>4 DEF Streaming, Late, Prompt
  <1>. QED BY <1>6, <1>7 DEF Stage
-----------------------------------------------------------------------------
(* Timers and the other tasks.  cancel_request() finds the handler of its  *)
(* request at work, and no other.                                          *)
LEMMA CancelRequestTurns ==
    ASSUME TypeOK, TypeOK', Orderly, Always, Stage,
           NEW r \in Requests, CancelRequest(r)
    PROVE  Always' /\ Stage'
  <1>1. r = req /\ Handling
    BY DEF CancelRequest, Stage, Idle, Handling, Failing, Lost, Unwatched,
           Streaming
  <1>2. UNCHANGED <<env, feeding, req, put, parser, status, queue, consumed,
                    got, timeoutTask, writable, flushing, sent, streaming>>
    BY DEF CancelRequest, request, network, stream, output
  <1>3. /\ handler' = [handler EXCEPT ![req] = "done"]
        /\ timers' = {}
        /\ errors' = {[request |-> req, cause |-> "timeout"]}
    BY <1>1 DEF CancelRequest, Handling
  <1>4. /\ handler'[req] = "done"
        /\ \A q \in Requests : q # req => handler'[q] = handler[q]
    BY <1>1, <1>3 DEF TypeOK, TaskType, Handling, Unanswered
  <1>5. Late'
    <2>1. req \in Nat
      BY BoundsAssumption DEF TypeOK, RequestType
    <2>. QED
      BY <1>1, <1>2, <2>1
      DEF CancelRequest, Late, Handling, Received, Prompt
  <1>6. Hooks' /\ Marked' /\ OwnChunks' /\ Awake'
    BY <1>2, <1>4 DEF Always, Hooks, Marked, OwnChunks, Awake, Prompt
  <1>7. Always'
    BY <1>2, <1>4, <1>6, AlwaysKept DEF Always, Quiet
  <1>8. Unanswered' /\ Unwatched'
    BY <1>1, <1>2, <1>3 DEF Handling, Unanswered, Answered, Unwatched
  <1>9. Failing'
    BY <1>1, <1>2, <1>3, <1>4, <1>5, <1>8 DEF Failing, Handling, Causes
  <1>. QED BY <1>7, <1>9 DEF Stage

(* An application's exception handler that raises leaves nobody.           *)
LEMMA HandleExceptionFailsTurns ==
    ASSUME TypeOK, TypeOK', Orderly, Always, Stage,
           NEW e \in errors, HandleExceptionFails(e)
    PROVE  Always' /\ Stage'
  <1>1. Failing /\ errors' = {} /\ "failing" \in env
    BY DEF HandleExceptionFails, Stage, Idle, Handling, Failing, Lost,
           Streaming
  <1>2. UNCHANGED <<env, feeding, req, put, parser, status, queue, consumed,
                    handler, got, timers, timeoutTask, writable, flushing,
                    sent, streaming>>
    BY DEF HandleExceptionFails, request, network, stream, tasks, watch,
           output
  <1>3. Hooks' /\ Marked' /\ OwnChunks' /\ Awake'
    BY <1>2 DEF Always, Hooks, Marked, OwnChunks, Awake, Prompt
  <1>4. Always'
    BY <1>2, <1>3, AlwaysKept DEF Always, Quiet
  <1>5. Lost'
    BY <1>1, <1>2
    DEF Failing, Lost, Unanswered, Answered, Late, Prompt, Unwatched
  <1>. QED BY <1>4, <1>5 DEF Stage

(* What concerns the connection only: data_received() begins or returns,   *)
(* the connection is closed, or stop() asks for it.                        *)
LEMMA UndisturbedTurns ==
    ASSUME TypeOK, Always, Stage, Awake',
           UNCHANGED <<env, request, readable, stream, tasks, watch, errors,
                       output>>,
           status' = status \/ status' # "PENDING",
           closed => closed', closing => closing' \/ closed'
    PROVE  Always' /\ Stage'
  <1>1. UNCHANGED <<req, put, parser, queue, consumed, handler, got, timers,
                    currentTask, timeoutTask, writable, flushing, sent,
                    streaming>>
    BY DEF request, stream, tasks, watch, output
  <1>2. Hooks' /\ Marked' /\ OwnChunks'
    BY <1>1 DEF Always, Hooks, Marked, OwnChunks, Prompt
  <1>3. Always'
    BY <1>1, <1>2, AlwaysKept DEF Always, Quiet
  <1>4. CASE Idle
    <2>1. Idle'
      BY <1>1, <1>4 DEF Idle, Prompt, Answered
    <2>. QED BY <1>3, <2>1 DEF Stage
  <1>5. CASE Handling
    <2>1. Prompt => Body'
      BY <1>1, <1>5 DEF Handling, Body, Rest
    <2>2. Handling'
      BY <1>1, <1>5, <2>1 DEF Handling, Unanswered, Answered, Active, Prompt
    <2>. QED BY <1>3, <2>2 DEF Stage
  <1>6. CASE Failing
    <2>1. Failing'
      BY <1>1, <1>6
      DEF Failing, Unanswered, Answered, Late, Prompt, Unwatched
    <2>. QED BY <1>3, <2>1 DEF Stage
  <1>7. CASE Lost
    <2>1. Lost'
      BY <1>1, <1>7 DEF Lost, Unanswered, Answered, Late, Prompt, Unwatched
    <2>. QED BY <1>3, <2>1 DEF Stage
  <1>8. CASE Streaming
    <2>1. Streaming'
      BY <1>1, <1>8 DEF Streaming, Late, Prompt, Answered
    <2>. QED BY <1>3, <2>1 DEF Stage
  <1>. QED BY <1>4, <1>5, <1>6, <1>7, <1>8 DEF Stage

(* The actions of which this is true.                                       *)
LEMMA NetworkTurns ==
    ASSUME TypeOK, Always, Stage,
           \/ DataReceived \/ DataReceivedReturns \/ ConnectionLost
           \/ ScheduledClose \/ Stop \/ UNCHANGED vars
    PROVE  Always' /\ Stage'
  <1>1. CASE DataReceived
    BY <1>1, UndisturbedTurns DEF DataReceived, Awake
  <1>2. CASE DataReceivedReturns
    BY <1>2, UndisturbedTurns DEF DataReceivedReturns, Awake, network
  <1>3. CASE ConnectionLost
    BY <1>3, UndisturbedTurns DEF ConnectionLost, Always, Awake, Prompt
  <1>4. CASE ScheduledClose
    BY <1>4, UndisturbedTurns DEF ScheduledClose, Always, Awake, Prompt
  <1>5. CASE Stop
    BY <1>5, UndisturbedTurns DEF Stop, Always, Awake, Prompt
  <1>6. CASE UNCHANGED vars
    BY <1>6, UndisturbedTurns DEF vars, Always, Awake, Prompt, network
  <1>. QED BY <1>1, <1>2, <1>3, <1>4, <1>5, <1>6
-----------------------------------------------------------------------------
(* The parser.  A client that waits for the whole answer sends headers     *)
(* when nothing is under way.                                              *)
LEMMA HeadersFindIdle ==
    ASSUME TypeOK, Orderly, Always, Stage, HeadersParsed
    PROVE  /\ Idle /\ feeding /\ parser = "idle"
           /\ req \in Nat /\ req + 1 \in Requests
           /\ req' = req + 1 /\ parser' = "body"
           /\ req # 0 => Answered(req)
  <1>1. /\ feeding /\ parser = "idle" /\ req' = req + 1 /\ parser' = "body"
        /\ req < MaxRequests /\ \A r \in 1..req : AnsweredInFull(r)
    BY OrderlyEnv DEF HeadersParsed, ClientMaySend
  <1>2. req \in Nat /\ req + 1 \in Requests
    BY <1>1, BoundsAssumption DEF TypeOK, RequestType, Requests
  <1>3. req # 0 => AnsweredInFull(req)
    BY <1>1, <1>2
  <1>4. req \in Requests => req # 0
    BY DEF Requests
  <1>5. Idle
    BY <1>3, <1>4
    DEF Stage, Handling, Failing, Lost, Streaming, Unanswered, AnsweredInFull
  <1>. QED BY <1>1, <1>2, <1>3, <1>5 DEF AnsweredInFull

(* The request that was current is now one of the others.                  *)
LEMMA OthersNext ==
    ASSUME TypeOK, Others, Idle, req \in Nat, req' = req + 1,
           req # 0 => Answered(req),
           UNCHANGED <<put, got, streaming>>,
           sent' = sent \/ (req + 1 \in Requests /\ Written(req + 1)),
           \A q \in Requests : q # req + 1 => handler'[q] = handler[q]
    PROVE  Others'
  <1>. SUFFICES ASSUME NEW q \in Requests
                PROVE  /\ q < req' => Settled(q)'
                       /\ q > req' => Untouched(q)'
    BY DEF Others
  <1>1. q \in Nat /\ q # 0
    BY DEF Requests
  <1>2. q # req + 1 => (Answered(q)' <=> Answered(q))
    BY WrittenAnswers DEF Answered
  <1>3. CASE q < req
    BY <1>1, <1>2, <1>3 DEF Others, Settled
  <1>4. CASE q = req
    BY <1>1, <1>2, <1>4 DEF Idle, Settled
  <1>5. CASE q > req + 1
    BY <1>1, <1>2, <1>5 DEF Others, Untouched
  <1>. QED BY <1>1, <1>3, <1>4, <1>5

(* A new request begins: its handler, its watcher.                         *)
LEMMA HeadersTurns ==
    ASSUME TypeOK, TypeOK', Orderly, Always, Stage, OnHeadersComplete
    PROVE  Always' /\ Stage'
  <1>1. /\ Idle /\ feeding /\ parser = "idle"
        /\ req \in Nat /\ req + 1 \in Requests
        /\ req' = req + 1 /\ parser' = "body"
        /\ req # 0 => Answered(req)
    BY HeadersFindIdle DEF OnHeadersComplete
  <1>2. UNCHANGED <<env, feeding, put, status, queue, consumed, got, errors,
                    writable, flushing, sent, streaming>>
    BY DEF OnHeadersComplete, network, stream, output
  <1>3. /\ handler' = [handler EXCEPT ![req'] = "running"]
        /\ currentTask' = req' /\ timeoutTask' = req'
        /\ timers' = {req'}
    BY <1>1 DEF OnHeadersComplete, Idle
  <1>4. /\ handler'[req'] = "running"
        /\ \A q \in Requests : q # req' => handler'[q] = handler[q]
    BY <1>1, <1>3 DEF TypeOK, TaskType
  <1>5. Untouched(req')
    <2>1. req + 1 > req
      BY <1>1
    <2>. QED BY <1>1, <2>1 DEF Always, Others
  <1>6. Others'
    BY <1>1, <1>2, <1>4, OthersNext DEF Always
  <1>7. Quiet' /\ AnsweredOnce' /\ Hooks' /\ Marked' /\ OwnChunks' /\ Awake'
    BY <1>1, <1>2, <1>4
    DEF Always, Quiet, AnsweredOnce, Hooks, Marked, OwnChunks, Awake, Prompt
  <1>8. Unanswered' /\ streaming'[req'] = "none"
    BY <1>1, <1>2, <1>5 DEF Untouched, Unanswered, Answered
  <1>9. Prompt => status' # "PENDING" /\ Body'
    <2>. SUFFICES ASSUME Prompt PROVE status' # "PENDING" /\ Body'
      OBVIOUS
    <2>1. queue'.items = <<>> /\ ~queue'.finished /\ status' # "PENDING"
      BY <1>1, <1>2 DEF Idle, Always, Awake
    <2>2. got'[req'] = <<>> /\ put'[req'] = 0
      BY <1>1, <1>2, <1>5 DEF Untouched
    <2>3. Chunks(req', 0) = <<>>
      BY <1>1, ChunksFacts
    <2>4. Rest(0)' /\ Len(got'[req']) + 0 = put'[req']
      BY <2>1, <2>2, <2>3, EmptySeq DEF Rest
    <2>5. queue'.finished = (parser' = "idle")
      BY <1>1, <2>1, <1>2 DEF TypeOK, StreamType, QueueType
    <2>. QED BY <1>1, <1>4, <2>1, <2>4, <2>5 DEF Body
  <1>10. consumed' = (handler'[req'] = "read")
    BY <1>1, <1>2, <1>4 DEF Idle, TypeOK, StreamType
  <1>11. errors' = {} /\ Active(req)'
    BY <1>1, <1>2, <1>4 DEF Idle, Active
  <1>12. Handling'
    BY <1>2, <1>3, <1>4, <1>8, <1>9, <1>10, <1>11 DEF Handling, Prompt
  <1>. QED BY <1>6, <1>7, <1>12 DEF Always, Stage

(* It is answered from a cache at once.                                    *)
LEMMA CachedTurns ==
    ASSUME TypeOK, TypeOK', Orderly, Always, Stage, OnHeadersCompleteCached
    PROVE  Always' /\ Stage'
  <1>1. /\ Idle /\ req \in Nat /\ req + 1 \in Requests
        /\ req' = req + 1 /\ parser' = "body"
        /\ req # 0 => Answered(req)
    BY HeadersFindIdle DEF OnHeadersCompleteCached
  <1>2. /\ Written(req + 1) /\ AfterResponse
        /\ writable' /\ flushing' = flushing /\ streaming' = streaming
    BY <1>1, SendsAtOnce DEF OnHeadersCompleteCached, Always
  <1>3. ~Prompt /\ UNCHANGED <<env, put, handler, got, errors>>
    BY DEF OnHeadersCompleteCached, Prompt, tasks
  <1>4. /\ ~consumed' /\ Marked'
        /\ timers' = timers \ {timeoutTask}
        /\ closed => closed'
    BY <1>2, AfterResponseClears DEF Always
  <1>5. Untouched(req + 1)
    <2>1. req + 1 > req
      BY <1>1
    <2>. QED BY <1>1, <2>1 DEF Always, Others
  <1>6. Others'
    BY <1>1, <1>2, <1>3, OthersNext DEF Always
  <1>7. (closed \/ Answered(req)') /\ AnsweredOnce'
    <2>1. PICK new \in Requests : new = req + 1
      BY <1>1
    <2>2. Written(new) /\ ~Answered(new)
      BY <1>2, <1>5, <2>1 DEF Untouched
    <2>3. (closed \/ Answered(new)') /\ AnsweredOnce'
      BY <2>2, WrittenAnswers DEF Always
    <2>. QED BY <1>1, <2>1, <2>3 DEF Answered
  <1>8. Quiet' /\ Hooks' /\ OwnChunks' /\ Awake'
    BY <1>1, <1>2, <1>3
    DEF Always, Quiet, Hooks, OwnChunks, Awake, Prompt
  <1>9. handler'[req'] = "none" /\ streaming'[req'] = "none"
    BY <1>1, <1>2, <1>3, <1>5 DEF Untouched
  <1>10. timers' = {} /\ errors' = {}
    BY <1>1, <1>3, <1>4 DEF Idle
  <1>11. Idle'
    BY <1>3, <1>4, <1>7, <1>9, <1>10 DEF Idle, Prompt
  <1>. QED BY <1>4, <1>6, <1>7, <1>8, <1>11 DEF Always, Stage

(* What put() and end() leave in the queue.                                *)
LEMMA PutFacts ==
    ASSUME NEW q \in QueueType, NEW item \in Item
    PROVE  /\ Put(q, item).items = Append(q.items, item)
           /\ Put(q, item).items # <<>>
           /\ Put(q, item).dirty
           /\ Put(q, item).finished = q.finished
           /\ Put(q, item).waiting = q.waiting
           /\ q.waiting => Put(q, item).event
  BY AppendProperties DEF Put, QueueType

(* end() queues its marker for a waiting reader only.                       *)
LEMMA EndFacts ==
    ASSUME NEW q \in QueueType
    PROVE  /\ End(q).finished
           /\ End(q).waiting = q.waiting
           /\ ~q.waiting => /\ End(q).items = q.items
                            /\ End(q).event = q.event
                            /\ End(q).dirty = q.dirty
           /\ q.waiting => /\ End(q).items = Append(q.items, None)
                           /\ End(q).items # <<>>
                           /\ End(q).dirty /\ End(q).event
  <1>1. None \in Item
    BY DEF Item
  <1>2. Put(q, None) \in QueueType
    BY <1>1, PutType
  <1>3. /\ Put(q, None).items = Append(q.items, None)
        /\ Put(q, None).items # <<>> /\ Put(q, None).dirty
        /\ Put(q, None).waiting = q.waiting
        /\ q.waiting => Put(q, None).event
    BY <1>1, PutFacts
  <1>4. CASE q.waiting
    <2>1. End(q) = [Put(q, None) EXCEPT !.finished = TRUE]
      BY <1>4 DEF End
    <2>. QED BY <1>2, <1>3, <1>4, <2>1 DEF QueueType
  <1>5. CASE ~q.waiting
    <2>1. End(q) = [q EXCEPT !.finished = TRUE]
      BY <1>5 DEF End
    <2>. QED BY <1>5, <2>1 DEF QueueType
  <1>. QED BY <1>4, <1>5

(* What the parser hands over reaches the handler that waits for it, and   *)
(* no other.                                                               *)
LEMMA WakenedTurns ==
    ASSUME TypeOK, Always, Stage, req \in Requests, handler' = Wakened,
           queue.waiting => queue'.event
    PROVE  /\ \A q \in Requests : q # req => handler'[q] = handler[q]
           /\ handler'[req] = IF handler[req] = "blocked"
                              THEN "woken" ELSE handler[req]
  <1>1. \A q \in Requests :
            handler[q] = "blocked" => q = req /\ queue.waiting
    BY ActiveIsCurrent DEF Active, Handling
  <1>2. \A q \in Requests :
            handler'[q] = IF handler[q] = "blocked" /\ queue'.event
                          THEN "woken" ELSE handler[q]
    BY DEF Wakened
  <1>. QED BY <1>1, <1>2

(* A piece of the current message has no effect on what is not handling    *)
(* it.                                                                     *)
LEMMA ParsedTurns ==
    ASSUME TypeOK, TypeOK', Orderly, Always, Stage,
           OnBody \/ OnMessageComplete, req \in Requests,
           Marked', Handling /\ Prompt => Body', handler' = Wakened,
           queue.waiting => queue'.event /\ queue'.items # <<>>,
           queue.items # <<>> => queue'.items # <<>>,
           queue'.waiting = queue.waiting
    PROVE  Always' /\ Stage'
  <1>1. /\ \A q \in Requests : q # req => handler'[q] = handler[q]
        /\ handler'[req] = IF handler[req] = "blocked"
                           THEN "woken" ELSE handler[req]
    BY WakenedTurns
  <1>2. /\ UNCHANGED <<env, feeding, req, closed, closing, stopped, consumed,
                       currentTask, got, timers, timeoutTask, errors,
                       writable, flushing, sent, streaming>>
        /\ parser = "body" /\ parser' \in {"idle", "body"}
        /\ status' = status \/ status' # "PENDING"
        /\ \A q \in Requests : q # req => put'[q] = put[q]
    BY DEF OnBody, OnMessageComplete, watch, output, TypeOK, RequestType
  <1>3. Hooks' /\ OwnChunks' /\ Awake'
    BY <1>1, <1>2 DEF Always, Hooks, OwnChunks, Awake, Prompt
  <1>4. Always'
    BY <1>1, <1>2, <1>3, AlwaysKept DEF Always, Quiet
  <1>5. CASE Handling
    <2>1. /\ Unanswered' /\ Active(req)'
          /\ consumed' = (handler'[req] = "read")
          /\ handler'[req] # "blocked"
          /\ handler'[req] = "woken" => queue'.items # <<>>
      BY <1>1, <1>2, <1>5 DEF Handling, Unanswered, Answered, Active
    <2>2. Prompt => status' # "PENDING" /\ Body'
      BY <1>2, <1>5 DEF Handling
    <2>3. Handling'
      BY <1>2, <1>5, <2>1, <2>2 DEF Handling, Prompt
    <2>. QED BY <1>4, <2>3 DEF Stage
  <1>6. CASE ~Handling
    <2>1. handler'[req] = handler[req] /\ ~Active(req)
      BY <1>1, <1>6, ActiveIsCurrent DEF Active
    <2>2. ~Prompt
      BY <1>2, <1>6 DEF Stage, Idle, Failing, Lost, Streaming, Late
    <2>3. CASE Idle
      <3>1. Idle'
        BY <1>2, <2>1, <2>2, <2>3 DEF Idle, Prompt, Answered
      <3>. QED BY <1>4, <3>1 DEF Stage
    <2>4. CASE Failing
      <3>1. Failing'
        BY <1>2, <2>1, <2>2, <2>4
        DEF Failing, Unanswered, Answered, Late, Prompt, Unwatched
      <3>. QED BY <1>4, <3>1 DEF Stage
    <2>5. CASE Lost
      <3>1. Lost'
        BY <1>2, <2>1, <2>2, <2>5
        DEF Lost, Unanswered, Answered, Late, Prompt, Unwatched
      <3>. QED BY <1>4, <3>1 DEF Stage
    <2>6. CASE Streaming
      <3>1. Streaming'
        BY <1>2, <2>1, <2>2, <2>6 DEF Streaming, Late, Prompt, Answered
      <3>. QED BY <1>4, <3>1 DEF Stage
    <2>. QED BY <1>6, <2>3, <2>4, <2>5, <2>6 DEF Stage
  <1>. QED BY <1>5, <1>6

(* A chunk, which is one more of the current request.                       *)
LEMMA OnBodyTurns ==
    ASSUME TypeOK, TypeOK', Orderly, Always, Stage, OnBody
    PROVE  Always' /\ Stage'
  <1>1. /\ req \in Requests /\ queue \in QueueType /\ req \in Item
        /\ put \in [Requests -> 0..MaxBody]
    BY DEF OnBody, TypeOK, RequestType, StreamType, Item
  <1>2. queue' = Put(queue, req) /\ handler' = Wakened /\ parser = "body"
    BY DEF OnBody
  <1>3. /\ queue'.items = Append(queue.items, req) /\ queue'.items # <<>>
        /\ queue'.dirty /\ queue'.finished = queue.finished
        /\ queue'.waiting = queue.waiting
        /\ queue.waiting => queue'.event
    BY <1>1, <1>2, PutFacts
  <1>4. ASSUME Handling, Prompt
        PROVE  Body'
    <2>1. UNCHANGED <<req, parser, got>> /\ put'[req] = put[req] + 1
      BY <1>1 DEF OnBody
    <2>2. PICK n \in Nat : Rest(n) /\ Len(got[req]) + n = put[req]
      BY <1>4 DEF Handling, Body
    <2>3. queue.items = Chunks(req, n)
      BY <1>2, <2>2 DEF Rest
    <2>4. queue'.items = Chunks(req, n + 1)
      BY <1>1, <1>3, <2>3, ChunksFacts
    <2>5. n + 1 \in Nat /\ Len(got'[req]) + (n + 1) = put'[req]
      <3>1. got[req] \in Seq(Requests)
        BY <1>1 DEF TypeOK, TaskType
      <3>2. Len(got[req]) \in Nat
        BY <3>1, LenProperties
      <3>3. put[req] \in Nat
        BY <1>1, BoundsAssumption
      <3>4. Len(got'[req]) = Len(got[req])
        BY <2>1
      <3>5. \A a, b, c \in Nat : a + b = c => a + (b + 1) = c + 1
        OBVIOUS
      <3>6. Len(got[req]) + (n + 1) = put[req] + 1
        BY ZenonT(30), <2>2, <3>2, <3>3, <3>5
      <3>7. n + 1 \in Nat
        BY <2>2
      <3>8. put'[req] = put[req] + 1
        BY <2>1
      <3>. QED BY <3>4, <3>6, <3>7, <3>8
    <2>6. Rest(n + 1)'
      BY <2>1, <2>4 DEF Rest
    <2>7. handler'[req] # "read"
      <3>1. handler[req] # "read"
        BY <1>2, <1>4 DEF Handling, Body
      <3>. QED BY <1>1, <1>2, <3>1 DEF Wakened
    <2>. QED
      BY <1>2, <1>3, <1>4, <2>1, <2>5, <2>6, <2>7 DEF Handling, Body
  <1>5. Marked'
    BY <1>3 DEF Marked
  <1>. QED BY <1>1, <1>2, <1>3, <1>4, <1>5, ParsedTurns

(* The end of the message, which a waiting handler is told.                 *)
LEMMA OnMessageCompleteTurns ==
    ASSUME TypeOK, TypeOK', Orderly, Always, Stage, OnMessageComplete
    PROVE  Always' /\ Stage'
  <1>1. req \in Requests /\ queue \in QueueType /\ queue' \in QueueType
    BY DEF OnMessageComplete, TypeOK, RequestType, StreamType
  <1>2. queue' = End(queue) /\ handler' = Wakened /\ parser' = "idle"
    BY DEF OnMessageComplete
  <1>3. /\ queue'.finished /\ queue'.waiting = queue.waiting
        /\ \/ /\ ~queue.waiting
              /\ queue'.items = queue.items /\ queue'.event = queue.event
              /\ queue'.dirty = queue.dirty
           \/ /\ queue.waiting /\ queue'.items = Append(queue.items, None)
              /\ queue'.items # <<>> /\ queue'.dirty /\ queue'.event
    BY <1>1, <1>2, EndFacts
  <1>4. ASSUME Handling, Prompt
        PROVE  Body'
    <2>1. UNCHANGED <<req, put, got>> /\ parser = "body"
      BY DEF OnMessageComplete
    <2>2. PICK n \in Nat : Rest(n) /\ Len(got[req]) + n = put[req]
      BY <1>4 DEF Handling, Body
    <2>3. queue.items = Chunks(req, n)
      BY <2>1, <2>2 DEF Rest
    <2>4. Rest(n)' /\ Len(got'[req]) + n = put'[req]
      BY <1>2, <1>3, <2>1, <2>2, <2>3 DEF Rest
    <2>5. handler'[req] # "read"
      <3>1. handler[req] # "read"
        BY <1>4, <2>1 DEF Handling, Body
      <3>. QED BY <1>1, <1>2, <3>1 DEF Wakened
    <2>6. queue'.finished = (parser' = "idle")
      BY <1>1, <1>2, <1>3 DEF QueueType
    <2>. QED BY <2>1, <2>4, <2>5, <2>6 DEF Body
  <1>5. Marked'
    BY <1>3 DEF Always, Marked
  <1>. QED BY <1>1, <1>2, <1>3, <1>4, <1>5, ParsedTurns
-----------------------------------------------------------------------------
(* The steps that no such environment takes.                               *)
LEMMA Excluded ==
    ASSUME TypeOK, Orderly, Always, Stage, NEW r \in Requests
    PROVE  /\ ~DataReceivedFails /\ ~ResumeWriting
           /\ ~WaitClientConsume(r) /\ ~StreamWrites(r)
           /\ ~StreamFinishes(r) /\ ~StreamChunkIsLate(r)
  <1>1. ~DataReceivedFails /\ ~StreamWrites(r)
    BY OrderlyEnv DEF DataReceivedFails, StreamWrites
  <1>2. ~ResumeWriting /\ ~WaitClientConsume(r) /\ ~StreamChunkIsLate(r)
    BY DEF Always, Quiet, ResumeWriting, WaitClientConsume,
           StreamChunkIsLate, CanWrite
  <1>3. ~StreamFinishes(r)
    BY StreamIsCurrent DEF StreamFinishes, Streaming
  <1>. QED BY <1>1, <1>2, <1>3

(* The environment stays what it is.                                       *)
LEMMA EnvKept ==
    ASSUME [Next]_vars
    PROVE  env' = env
  <1>1. CASE UNCHANGED vars
    BY <1>1 DEF vars
  <1>2. ASSUME NEW r \in Requests, HandlerStep(r)
        PROVE  env' = env
    BY <1>2
    DEF HandlerStep, Read, ReadQueued, ReadFinished, ReadBlocks, ReadResumes,
        ReadFindsNothing, ReadRefused, Reply, ReplyStream, HandlerRaises,
        AfterSendHook
  <1>3. ASSUME NEW r \in Requests, StreamStep(r)
        PROVE  env' = env
    BY <1>3
    DEF StreamStep, StreamBegins, StreamWrites, StreamEnds, StreamFinishes,
        StreamChunkIsLate, StreamRaises, CancelStreamingTask
  <1>4. ASSUME NEW e \in errors, HandleException(e) \/ HandleExceptionFails(e)
        PROVE  env' = env
    BY <1>4 DEF HandleException, HandleExceptionFails
  <1>. QED
    BY <1>1, <1>2, <1>3, <1>4
    DEF Next, DataReceived, DataReceivedReturns, DataReceivedFails,
        OnHeadersComplete, OnHeadersCompleteCached, OnBody,
        OnMessageComplete, ConnectionLost, ResumeWriting, CancelRequest,
        WaitClientConsume, ScheduledClose, Stop

(* Requests take turns.                                                    *)
LEMMA InitTurns == Init => TakesTurns
  <1>. SUFFICES ASSUME Init PROVE Always /\ Stage
    BY DEF TakesTurns
  <1>1. Always
    <2>1. Others
      <3>. SUFFICES ASSUME NEW r \in Requests PROVE Untouched(r) /\ r > req
        BY DEF Others, Init, Requests
      <3>. QED BY EmptySeq DEF Init, Untouched, Answered, Requests
    <2>2. AnsweredOnce
      BY EmptySeq DEF Init, AnsweredOnce
    <2>3. OwnChunks
      BY EmptySeq DEF Init, OwnChunks
    <2>4. Quiet /\ Hooks /\ Marked /\ Awake
      BY DEF Init, Quiet, Hooks, Marked, Awake, EmptyQueue
    <2>. QED BY <2>1, <2>2, <2>3, <2>4 DEF Always
  <1>2. Idle
    BY DEF Init, Idle, EmptyQueue
  <1>. QED BY <1>1, <1>2 DEF Stage

(* Every step leads from one stage to one.                                  *)
LEMMA NextTurns ==
    ASSUME TypeOK, TypeOK', TakesTurns, [Next]_vars
    PROVE  TakesTurns'
  <1>. SUFFICES ASSUME Orderly PROVE Always' /\ Stage'
    BY EnvKept
    DEF TakesTurns, Orderly, OneWriter
  <1>1. Always /\ Stage
    BY DEF TakesTurns
  <1>2. CASE \/ DataReceived \/ DataReceivedReturns \/ ConnectionLost
             \/ ScheduledClose \/ Stop \/ UNCHANGED vars
    BY <1>1, <1>2, NetworkTurns
  <1>3. CASE OnHeadersComplete
    BY <1>1, <1>3, HeadersTurns
  <1>4. CASE OnHeadersCompleteCached
    BY <1>1, <1>4, CachedTurns
  <1>5. CASE OnBody
    BY <1>1, <1>5, OnBodyTurns
  <1>6. CASE OnMessageComplete
    BY <1>1, <1>6, OnMessageCompleteTurns
  <1>7. CASE DataReceivedFails
    BY <1>7, OrderlyEnv DEF DataReceivedFails
  <1>8. CASE ResumeWriting
    BY <1>1, <1>8 DEF ResumeWriting, Always, Quiet
  <1>9. ASSUME NEW r \in Requests, HandlerStep(r)
        PROVE  Always' /\ Stage'
    BY <1>1, <1>9, ReadQueuedTurns, ReadResumesTurns, ReadEmptyTurns,
       ReadDoesNotFail, ReplyTurns, ReplyStreamTurns, HandlerRaisesTurns,
       AfterSendHookTurns
    DEF HandlerStep, Read
  <1>10. ASSUME NEW r \in Requests, StreamStep(r)
         PROVE  Always' /\ Stage'
    BY <1>1, <1>10, StreamBeginsTurns, StreamEndsTurns, StreamFailsTurns,
       Excluded
    DEF StreamStep
  <1>11. ASSUME NEW r \in Requests, CancelRequest(r) \/ WaitClientConsume(r)
         PROVE  Always' /\ Stage'
    BY <1>1, <1>11, CancelRequestTurns, Excluded
  <1>12. ASSUME NEW e \in errors,
                HandleException(e) \/ HandleExceptionFails(e)
         PROVE  Always' /\ Stage'
    BY <1>1, <1>12, HandleExceptionTurns, HandleExceptionFailsTurns
  <1>. QED
    BY <1>2, <1>3, <1>4, <1>5, <1>6, <1>7, <1>8, <1>9, <1>10, <1>11, <1>12
    DEF Next
-----------------------------------------------------------------------------
(* One task for each request, in environments where nothing is cancelled.  *)
(* What a step may do to a request without concerning its task.            *)
LEMMA OneTaskKept ==
    ASSUME TypeOK, NEW q \in Requests, OneTask(q), env' = env,
           req' = req \/ req' = req + 1,
           Active(q)' => Active(q), streaming'[q] = streaming[q],
           handler'[q] = "hook" => handler[q] = "hook",
           handler[q] = "none" => handler'[q] = "none",
           Answered(q)' => Answered(q), HasError(q)' => HasError(q)
    PROVE  OneTask(q)'
  <1>1. req \in Nat /\ q \in Nat
    BY BoundsAssumption DEF TypeOK, RequestType, Requests
  <1>. QED BY <1>1 DEF OneTask

(* A step of the task of one request leaves the others alone.              *)
LEMMA OneTaskStep ==
    ASSUME TypeOK, OneTaskEach, Unhurried, NEW c \in Requests, env' = env,
           req' = req \/ req' = req + 1,
           OneTask(c)', sent' = sent \/ (Written(c) /\ ~Answered(c)),
           \A e \in errors' :
               e \in errors \/ (e.request = c /\ e.cause = "error"),
           \A q \in Requests : q # c => /\ handler'[q] = handler[q]
                                        /\ streaming'[q] = streaming[q]
    PROVE  OneTaskEach'
  <1>1. /\ \A q \in Requests : OneTask(q)
        /\ \A e \in errors : e.cause = "error"
        /\ AnsweredOnce
    BY DEF OneTaskEach
  <1>2. AnsweredOnce' /\ \A q \in Requests :
                             q # c => (Answered(q)' => Answered(q))
    <2>1. CASE sent' = sent
      BY <1>1, <2>1 DEF AnsweredOnce, Answered
    <2>2. CASE Written(c) /\ ~Answered(c)
      BY <1>1, <2>2, WrittenAnswers
    <2>. QED BY <2>1, <2>2
  <1>3. ASSUME NEW q \in Requests, q # c
        PROVE  OneTask(q)'
    <2>1. HasError(q)' => HasError(q)
      BY <1>3 DEF HasError
    <2>2. Active(q)' => Active(q)
      BY <1>3 DEF Active
    <2>. QED BY <1>1, <1>2, <1>3, <2>1, <2>2, OneTaskKept
  <1>. QED BY <1>1, <1>2, <1>3 DEF OneTaskEach

(* Steps that concern no task, and readers that are woken.                 *)
LEMMA NetworkOneTask ==
    ASSUME TypeOK, OneTaskEach, Unhurried, [Next]_vars, req' = req,
           UNCHANGED <<sent, errors, streaming>>,
           handler' = handler \/ handler' = Wakened
    PROVE  OneTaskEach'
  <1>1. /\ \A q \in Requests : OneTask(q)
        /\ \A e \in errors : e.cause = "error"
        /\ AnsweredOnce
    BY DEF OneTaskEach
  <1>2. ASSUME NEW q \in Requests
        PROVE  /\ Active(q)' <=> Active(q)
               /\ handler'[q] = "hook" => handler[q] = "hook"
               /\ handler[q] = "none" => handler'[q] = "none"
    BY DEF Active, Wakened
  <1>3. ASSUME NEW q \in Requests
        PROVE  OneTask(q)'
    <2>1. HasError(q)' => HasError(q)
      BY DEF HasError
    <2>2. Answered(q)' => Answered(q)
      BY DEF Answered
    <2>. QED BY <1>1, <1>2, <2>1, <2>2, EnvKept, OneTaskKept
  <1>. QED BY <1>1, <1>3 DEF OneTaskEach, AnsweredOnce

(* Where nothing is cancelled, hooks do not raise and parsing succeeds.    *)
LEMMA UnhurriedEnv ==
    ASSUME Unhurried
    PROVE  /\ "timeout" \notin env /\ "malformed" \notin env
           /\ "raise" \in env => "hook" \notin env
  BY OneWriterEnv DEF Unhurried

(* A handler that is at work owes its answer.                              *)
LEMMA ActiveOneTask ==
    ASSUME TypeOK, OneTaskEach, Unhurried, NEW r \in Requests, Active(r)
    PROVE  /\ r \in Nat /\ req \in Nat /\ ~(r > req)
           /\ ~Answered(r) /\ streaming[r] = "none" /\ ~HasError(r)
  <1>1. r \in Nat /\ req \in Nat
    BY BoundsAssumption DEF TypeOK, RequestType, Requests
  <1>2. OneTask(r)
    BY DEF OneTaskEach
  <1>. QED BY <1>1, <1>2 DEF OneTask, Active

(* Reading does not change that.                                            *)
LEMMA ReadOneTask ==
    ASSUME TypeOK, OneTaskEach, Unhurried, NEW r \in Requests, Read(r)
    PROVE  OneTaskEach'
  <1>1. /\ UNCHANGED <<env, req, sent, errors, streaming>>
        /\ Active(r)
        /\ \A q \in Requests : q # r => handler'[q] = handler[q]
        /\ handler'[r] \in {"running", "read", "blocked"}
    BY DEF Read, ReadQueued, ReadFinished, ReadBlocks, ReadResumes, Got,
           Active, request, output, TypeOK, TaskType
  <1>2. OneTask(r)'
    BY <1>1, ActiveOneTask DEF OneTask, Answered, HasError
  <1>. QED BY <1>1, <1>2, OneTaskStep

(* It ends in an exception, or in an answer.                               *)
LEMMA RaisesOneTask ==
    ASSUME TypeOK, OneTaskEach, Unhurried, NEW r \in Requests, Active(r),
           Raises(r), UNCHANGED <<env, req, sent, streaming>>
    PROVE  OneTaskEach'
  <1>1. /\ \A q \in Requests : q # r => handler'[q] = handler[q]
        /\ handler'[r] = "done"
        /\ errors' = errors \cup {[request |-> r, cause |-> "error"]}
    BY DEF Raises, TypeOK, TaskType
  <1>2. /\ r \in Nat /\ req \in Nat /\ ~(r > req)
        /\ ~Answered(r) /\ streaming[r] = "none"
    BY ActiveOneTask
  <1>3. ~Active(r)' /\ ~Answered(r)'
    BY <1>1, <1>2 DEF Active, Answered
  <1>4. OneTask(r)'
    BY <1>1, <1>2, <1>3 DEF OneTask
  <1>. QED BY <1>1, <1>4, OneTaskStep

(* Each end of a handler leaves at most one task in its place.              *)
LEMMA HandlerOneTask ==
    ASSUME TypeOK, OneTaskEach, Unhurried, NEW r \in Requests, HandlerStep(r)
    PROVE  OneTaskEach'
  <1>1. CASE Read(r)
    BY <1>1, ReadOneTask
  <1>2. CASE ReadFindsNothing(r) \/ ReadRefused(r) \/ HandlerRaises(r)
    BY <1>2, RaisesOneTask
    DEF ReadFindsNothing, ReadRefused, HandlerRaises, Active, request, output
  <1>3. CASE Reply(r)
    <2>1. Active(r) /\ Written(r)
      BY <1>3 DEF Reply, Send, Active
    <2>2. /\ UNCHANGED <<env, req, errors, streaming>>
          /\ \A q \in Requests : q # r => handler'[q] = handler[q]
          /\ handler'[r] = IF "hook" \in env THEN "hook" ELSE "done"
      BY <1>3 DEF Reply, Send, request, TypeOK, TaskType
    <2>3. /\ r \in Nat /\ req \in Nat /\ ~(r > req)
          /\ ~Answered(r) /\ streaming[r] = "none" /\ ~HasError(r)
      BY <2>1, ActiveOneTask
    <2>4. ~Active(r)' /\ ~HasError(r)'
      BY <2>2, <2>3 DEF Active, HasError
    <2>5. OneTask(r)'
      BY <2>2, <2>3, <2>4 DEF OneTask
    <2>. QED BY <2>1, <2>2, <2>3, <2>5, OneTaskStep
  <1>4. CASE ReplyStream(r)
    <2>1. Active(r)
      BY <1>4 DEF ReplyStream, Active
    <2>2. /\ UNCHANGED <<env, req, errors, sent>>
          /\ \A q \in Requests : q # r => /\ handler'[q] = handler[q]
                                          /\ streaming'[q] = streaming[q]
          /\ handler'[r] = IF "hook" \in env THEN "hook" ELSE "done"
      BY <1>4
      DEF ReplyStream, SendStream, request, TypeOK, TaskType, OutputType
    <2>3. /\ r \in Nat /\ req \in Nat /\ ~(r > req)
          /\ ~Answered(r) /\ streaming[r] = "none" /\ ~HasError(r)
      BY <2>1, ActiveOneTask
    <2>4. ~Active(r)' /\ ~HasError(r)' /\ ~Answered(r)'
      BY <2>2, <2>3 DEF Active, HasError, Answered
    <2>5. OneTask(r)'
      BY <2>2, <2>3, <2>4 DEF OneTask
    <2>. QED BY <2>2, <2>3, <2>5, OneTaskStep
  <1>5. CASE AfterSendHook(r)
    <2>1. OneTask(r) /\ handler[r] = "hook"
      BY <1>5 DEF OneTaskEach, AfterSendHook
    <2>2. "raise" \notin env
      BY <2>1, UnhurriedEnv DEF OneTask
    <2>3. /\ UNCHANGED <<env, req, errors, sent, streaming>>
          /\ \A q \in Requests : q # r => handler'[q] = handler[q]
          /\ handler'[r] = "done"
      BY <1>5, <2>2
      DEF AfterSendHook, request, output, TypeOK, TaskType
    <2>4. Active(r)' => Active(r)
      BY <2>3 DEF Active
    <2>5. OneTask(r)'
      BY <2>1, <2>3, <2>4, OneTaskKept DEF Answered, HasError
    <2>. QED BY <2>3, <2>5, OneTaskStep
  <1>. QED BY <1>1, <1>2, <1>3, <1>4, <1>5 DEF HandlerStep

(* A stream is the only task of its request.                               *)
LEMMA StreamOneTask ==
    ASSUME TypeOK, OneTaskEach, Unhurried, [Next]_vars,
           NEW r \in Requests, StreamStep(r)
    PROVE  OneTaskEach'
  <1>1. /\ r \in Nat /\ req \in Nat /\ OneTask(r)
    BY BoundsAssumption DEF TypeOK, RequestType, Requests, OneTaskEach
  <1>2. CASE StreamBegins(r)
    <2>1. Written(r) /\ ~Answered(r) /\ streaming[r] = "begun"
      BY <1>1, <1>2 DEF StreamBegins, OneTask
    <2>2. /\ UNCHANGED <<env, req, errors, handler>>
          /\ streaming'[r] = "open"
          /\ \A q \in Requests : q # r => streaming'[q] = streaming[q]
      BY <1>2 DEF StreamBegins, StreamTo, request, tasks, TypeOK, OutputType
    <2>3. ~Active(r)' /\ ~HasError(r)' /\ ~(r > req)
      BY <1>1, <2>1, <2>2 DEF OneTask, Active, HasError
    <2>4. OneTask(r)'
      BY <1>1, <2>2, <2>3 DEF OneTask
    <2>. QED BY <2>1, <2>2, <2>4, OneTaskStep
  <1>3. CASE StreamWrites(r)
    BY <1>3, NetworkOneTask DEF StreamWrites, request, tasks
  <1>4. CASE \/ StreamEnds(r) \/ StreamFinishes(r) \/ StreamChunkIsLate(r)
             \/ StreamRaises(r)
    <2>1. /\ UNCHANGED <<env, req, errors, handler, sent>>
          /\ streaming[r] \in {"open", "last", "whole"}
          /\ streaming'[r] \in {"last", "whole", "over", "failed"}
          /\ \A q \in Requests : q # r => streaming'[q] = streaming[q]
      BY <1>4
      DEF StreamEnds, StreamFinishes, StreamChunkIsLate, StreamRaises,
          StreamTo, request, tasks, TypeOK, OutputType
    <2>2. ~Active(r)' /\ ~HasError(r)' /\ ~(r > req)
      BY <1>1, <2>1 DEF OneTask, Active, HasError
    <2>3. OneTask(r)'
      BY <1>1, <2>1, <2>2 DEF OneTask
    <2>. QED BY <2>1, <2>3, OneTaskStep
  <1>5. ~CancelStreamingTask(r)
    BY UnhurriedEnv DEF CancelStreamingTask
  <1>. QED BY <1>2, <1>3, <1>4, <1>5 DEF StreamStep

(* So is the handler of its failure.                                       *)
LEMMA ErrorOneTask ==
    ASSUME TypeOK, OneTaskEach, Unhurried, NEW e \in errors,
           HandleException(e) \/ HandleExceptionFails(e)
    PROVE  OneTaskEach'
  <1>. DEFINE r == e.request
  <1>1. /\ r \in Requests /\ r \in Nat /\ req \in Nat
        /\ \A d \in errors : d = [request |-> d.request, cause |-> d.cause]
    BY BoundsAssumption DEF TypeOK, ErrorType, RequestType, Requests
  <1>2. OneTask(r) /\ HasError(r)
    BY <1>1 DEF OneTaskEach, HasError
  <1>3. /\ ~(r > req) /\ ~Answered(r) /\ ~Active(r) /\ streaming[r] = "none"
        /\ handler[r] = "hook" => "hook" \in env
    BY <1>1, <1>2 DEF OneTask
  <1>4. errors' = errors \ {e} /\ UNCHANGED <<env, req, handler, streaming>>
    BY DEF HandleException, HandleExceptionFails, Send, request, tasks,
           output
  <1>5. \A d \in errors' : d.request # r
    BY <1>1, <1>4 DEF OneTaskEach
  <1>6. sent' = sent \/ Written(r)
    BY DEF HandleException, HandleExceptionFails, Send, output
  <1>7. PICK c \in Requests : c = r
    BY <1>1
  <1>8. OneTask(c)'
    <2>1. ~Active(c)' /\ ~HasError(c)'
      BY <1>3, <1>4, <1>5, <1>7 DEF Active, HasError
    <2>. QED BY <1>1, <1>3, <1>4, <1>7, <2>1 DEF OneTask
  <1>9. ~Answered(c) /\ (sent' = sent \/ Written(c))
    BY <1>3, <1>6, <1>7
  <1>. QED BY <1>4, <1>8, <1>9, OneTaskStep

(* New headers find no trace of their request.                             *)
LEMMA HeadersOneTask ==
    ASSUME TypeOK, OneTaskEach, Unhurried,
           OnHeadersComplete \/ OnHeadersCompleteCached
    PROVE  OneTaskEach'
  <1>1. /\ req \in Nat /\ req + 1 \in Requests /\ req' = req + 1
    BY BoundsAssumption
    DEF OnHeadersComplete, OnHeadersCompleteCached, HeadersParsed,
        ClientMaySend, TypeOK, RequestType, Requests
  <1>2. PICK c \in Requests : c = req + 1
    BY <1>1
  <1>3. c > req /\ OneTask(c)
    BY <1>1, <1>2 DEF OneTaskEach
  <1>4. /\ handler[c] = "none" /\ streaming[c] = "none" /\ ~Answered(c)
        /\ ~HasError(c)
    BY <1>1, <1>2, <1>3 DEF OneTask
  <1>5. CASE OnHeadersComplete
    <2>1. /\ UNCHANGED <<env, errors, sent, streaming>>
          /\ handler'[c] = "running"
          /\ \A q \in Requests : q # c => handler'[q] = handler[q]
      BY <1>2, <1>5 DEF OnHeadersComplete, output, TypeOK, TaskType
    <2>2. ~Answered(c)' /\ ~HasError(c)'
      BY <1>4, <2>1 DEF Answered, HasError
    <2>3. OneTask(c)'
      BY <1>1, <1>2, <1>4, <2>1, <2>2 DEF OneTask
    <2>. QED BY <1>1, <2>1, <2>3, OneTaskStep
  <1>6. CASE OnHeadersCompleteCached
    <2>1. UNCHANGED <<env, errors, streaming, handler>> /\ Written(c)
      BY <1>2, <1>6 DEF OnHeadersCompleteCached, Send, tasks
    <2>2. ~Active(c)' /\ ~HasError(c)'
      BY <1>4, <2>1 DEF Active, HasError
    <2>3. OneTask(c)'
      BY <1>1, <1>2, <1>4, <2>1, <2>2 DEF OneTask
    <2>. QED BY <1>1, <1>4, <2>1, <2>3, OneTaskStep
  <1>. QED BY <1>5, <1>6

(* At first no request has a task.                                          *)
LEMMA InitOneTask == Init => OneTaskEach
  <1>. SUFFICES ASSUME Init PROVE OneTaskEach
    OBVIOUS
  <1>1. sent = <<>> /\ Len(sent) = 0
    BY EmptySeq DEF Init
  <1>2. AnsweredOnce /\ \A r \in Requests : ~Answered(r)
    BY <1>1 DEF AnsweredOnce, Answered
  <1>3. ASSUME NEW r \in Requests
        PROVE  OneTask(r)
    BY <1>2 DEF Init, OneTask, Active, HasError
  <1>. QED BY <1>2, <1>3 DEF OneTaskEach, Init

(* No step gives a request a second task.                                   *)
LEMMA NextOneTask ==
    ASSUME TypeOK, OneTaskEach, [Next]_vars
    PROVE  OneTaskEach'
  <1>. SUFFICES ASSUME Unhurried PROVE OneTaskEach'
    BY EnvKept DEF OneTaskEach, Unhurried, OneWriter
  <1>1. CASE \/ DataReceived \/ DataReceivedReturns \/ ConnectionLost
             \/ ResumeWriting \/ ScheduledClose \/ Stop \/ UNCHANGED vars
    BY <1>1, NetworkOneTask
    DEF DataReceived, DataReceivedReturns, ConnectionLost, ResumeWriting,
        ScheduledClose, Stop, vars, request, tasks, output
  <1>2. CASE OnBody \/ OnMessageComplete
    BY <1>2, NetworkOneTask DEF OnBody, OnMessageComplete, output
  <1>3. CASE OnHeadersComplete \/ OnHeadersCompleteCached
    BY <1>3, HeadersOneTask
  <1>4. ~DataReceivedFails
    BY UnhurriedEnv DEF DataReceivedFails
  <1>5. ASSUME NEW r \in Requests, HandlerStep(r) \/ StreamStep(r)
        PROVE  OneTaskEach'
    BY <1>5, HandlerOneTask, StreamOneTask
  <1>6. ASSUME NEW r \in Requests, CancelRequest(r)
        PROVE  FALSE
    BY <1>6, UnhurriedEnv DEF CancelRequest
  <1>7. ASSUME NEW r \in Requests, WaitClientConsume(r)
        PROVE  OneTaskEach'
    BY <1>7, NetworkOneTask DEF WaitClientConsume, request, tasks
  <1>8. ASSUME NEW e \in errors,
               HandleException(e) \/ HandleExceptionFails(e)
        PROVE  OneTaskEach'
    BY <1>8, ErrorOneTask
  <1>. QED
    BY <1>1, <1>2, <1>3, <1>4, <1>5, <1>6, <1>7, <1>8 DEF Next
-----------------------------------------------------------------------------
(* The inductive invariant, and the properties of Connection from it.      *)
THEOREM Invariance == Spec => []IInv
  <1>1. Init => IInv
    BY InitType, InitTurns, InitOneTask DEF IInv
  <1>2. IInv /\ [Next]_vars => IInv'
    BY NextType, NextTurns, NextOneTask DEF IInv
  <1>. QED BY <1>1, <1>2, PTL DEF Spec

(* The handler, its timeout watcher and its exception handler write one    *)
(* response to a request, however late any of them runs.                   *)
THEOREM OneAnswerHolds == Spec => []OneAnswer
  <1>1. IInv => OneAnswer
    BY OneWriterEnv
    DEF IInv, TakesTurns, OneTaskEach, Unhurried, Always, AnsweredOnce,
        OneAnswer
  <1>. QED BY <1>1, Invariance, PTL

(* The environment of IdleIsClean and OwnBody.                             *)
LEMMA InTimeEnv ==
    ASSUME InTime, OneWriter, IInv
    PROVE  Prompt /\ Orderly /\ TypeOK /\ Always /\ Stage
  <1>1. Prompt /\ Orderly
    BY DEF InTime, Prompt, Orderly
  <1>. QED BY <1>1 DEF IInv, TakesTurns

(* Only in the first stage is a connection marked as pending: the others   *)
(* come after data_received() and before after_response().                 *)
LEMMA PendingIsIdle ==
    ASSUME InTime, OneWriter, IInv, status = "PENDING"
    PROVE  Idle /\ ~feeding /\ \A r \in Requests : ~Active(r)
  <1>1. Prompt /\ TypeOK /\ Always /\ Stage
    BY InTimeEnv
  <1>2. Idle
    BY <1>1 DEF Stage, Handling, Failing, Lost, Streaming, Late
  <1>3. ~feeding
    BY <1>1 DEF Always, Awake
  <1>4. ~Handling
    BY <1>1 DEF Handling
  <1>. QED BY <1>1, <1>2, <1>3, <1>4, ActiveIsCurrent

(* Nothing of a request is left when after_response() is through.          *)
THEOREM IdleIsCleanHolds == Spec => []IdleIsClean
  <1>1. IInv => IdleIsClean
    BY PendingIsIdle, InTimeEnv DEF Idle, IdleIsClean
  <1>. QED BY <1>1, Invariance, PTL

(* Handlers get the chunks of their own request, and all of them.          *)
THEOREM OwnBodyHolds == Spec => []OwnBody
  <1>1. ASSUME IInv, InTime, OneWriter, NEW r \in Requests
        PROVE  /\ \A i \in 1..Len(got[r]) : got[r][i] = r
               /\ handler[r] = "read" => Received(r) /\ Len(got[r]) = put[r]
    <2>1. Prompt /\ TypeOK /\ Always /\ Stage
      BY <1>1, InTimeEnv
    <2>2. \A i \in 1..Len(got[r]) : got[r][i] = r
      BY <2>1 DEF Always, OwnChunks
    <2>3. ASSUME handler[r] = "read"
          PROVE  Received(r) /\ Len(got[r]) = put[r]
      <3>1. r = req /\ Handling
        BY <2>1, <2>3, ActiveIsCurrent DEF Active
      <3>. QED BY <2>1, <2>3, <3>1 DEF Handling, Body, Received
    <2>. QED BY <2>2, <2>3
  <1>2. IInv => OwnBody
    BY <1>1 DEF OwnBody
  <1>. QED BY <1>2, Invariance, PTL

(* While reading is paused, somebody is left to resume it or to close.     *)
THEOREM SomeoneWillResumeHolds == Spec => []SomeoneWillResume
  <1>1. ASSUME IInv, InTime, OneWriter, "failing" \notin env,
               ~ ({"streaming", "raise"} \subseteq env),
               ~readable, ~closed, ~feeding
        PROVE  \/ timers # {} \/ errors # {} \/ flushing # {} \/ closing
               \/ \E r \in Requests :
                      streaming[r] \in {"begun", "open", "last"}
    <2>1. Prompt /\ Stage
      BY <1>1, InTimeEnv
    <2>2. Idle => closing
      BY <1>1, <2>1 DEF Idle
    <2>3. Handling => timers # {}
      BY DEF Handling
    <2>4. Failing => errors # {}
      BY DEF Failing
    <2>5. ~Lost
      BY <1>1 DEF Lost
    <2>6. Streaming =>
              req \in Requests /\ streaming[req] \in {"begun", "open"}
      BY <1>1 DEF Streaming
    <2>. QED BY <2>1, <2>2, <2>3, <2>4, <2>5, <2>6 DEF Stage
  <1>2. IInv => SomeoneWillResume
    BY <1>1 DEF SomeoneWillResume
  <1>. QED BY <1>2, Invariance, PTL

(* Neither an IndexError nor StreamAlreadyConsumed.                        *)
THEOREM ReadNeverFailsHolds == Spec => []ReadNeverFails
  <1>1. ASSUME IInv, Orderly, NEW r \in Requests
        PROVE  /\ handler[r] = "woken" => queue.items # <<>>
               /\ handler[r] = "running" => ~consumed
    <2>1. TypeOK /\ Always /\ Stage
      BY <1>1 DEF IInv, TakesTurns
    <2>2. Active(r) => r = req /\ Handling
      BY <2>1, ActiveIsCurrent
    <2>. QED BY <2>2 DEF Active, Handling
  <1>2. IInv => ReadNeverFails
    BY <1>1 DEF ReadNeverFails, Orderly
  <1>. QED BY <1>2, Invariance, PTL

(* stop() finds "PENDING" on connections that owe nothing only.            *)
THEOREM StopSparesRequestsHolds == Spec => StopSparesRequests
  <1>1. ASSUME IInv, InTime, OneWriter, Stop, closed', NEW r \in 1..req
        PROVE  Answered(r)
    <2>1. status = "PENDING" /\ ~closed
      BY <1>1 DEF Stop
    <2>2. Idle /\ Always /\ TypeOK
      BY <1>1, <2>1, PendingIsIdle, InTimeEnv
    <2>3. r \in Requests /\ req \in Nat /\ r \in Nat
      BY BoundsAssumption, <2>2 DEF TypeOK, RequestType, Requests
    <2>4. CASE r = req
      BY <2>1, <2>2, <2>3, <2>4 DEF Idle
    <2>5. CASE r # req
      <3>1. r < req
        BY <2>3, <2>5
      <3>. QED BY <2>2, <2>3, <3>1 DEF Always, Others, Settled
    <2>. QED BY <2>4, <2>5
  <1>2. IInv => [InTime /\ OneWriter /\ Stop /\ closed'
                     => \A r \in 1..req : Answered(r)]_vars
    BY <1>1
  <1>. QED BY <1>2, Invariance, PTL DEF StopSparesRequests

(* Who writes while a stream is under way?                                 *)
THEOREM StreamIsUninterruptedHolds == Spec => StreamIsUninterrupted
  <1>1. ASSUME IInv, [Next]_vars, NEW r \in Requests, InTime, OneWriter,
               streaming[r] \in {"open", "last", "failed"}
        PROVE  sent' = sent
    <2>1. /\ TypeOK /\ Orderly /\ Always /\ Stage
          /\ r = req /\ Streaming /\ streaming[r] # "begun"
      BY <1>1, InTimeEnv, StreamIsCurrent
    <2>2. ASSUME NEW q \in Requests, HandlerStep(q)
          PROVE  sent' = sent
      <3>1. ~Active(q)
        BY <2>1, ActiveIsCurrent DEF Handling, Streaming
      <3>. QED
        BY <2>2, <3>1
        DEF HandlerStep, Read, ReadQueued, ReadFinished, ReadBlocks,
            ReadResumes, ReadFindsNothing, ReadRefused, Reply, ReplyStream,
            HandlerRaises, AfterSendHook, Active, output
    <2>3. ASSUME NEW q \in Requests, StreamStep(q)
          PROVE  sent' = sent
      <3>1. streaming[q] # "begun"
        BY <2>1, StreamIsCurrent
      <3>. QED
        BY <2>3, <3>1
        DEF StreamStep, StreamBegins, StreamWrites, StreamEnds,
            StreamFinishes, StreamChunkIsLate, StreamRaises,
            CancelStreamingTask
    <2>4. errors = {}
      BY <2>1 DEF Streaming
    <2>5. ~OnHeadersCompleteCached
      BY <1>1 DEF InTime, OnHeadersCompleteCached
    <2>. QED
      BY <1>1, <2>2, <2>3, <2>4, <2>5
      DEF Next, vars, output, DataReceived, DataReceivedReturns,
          DataReceivedFails, OnHeadersComplete, OnBody, OnMessageComplete,
          ConnectionLost, ResumeWriting, CancelRequest, WaitClientConsume,
          ScheduledClose, Stop
  <1>2. IInv /\ [Next]_vars =>
            [\A r \in Requests :
                InTime /\ OneWriter
                    /\ streaming[r] \in {"open", "last", "failed"}
                    => sent' = sent]_vars
    BY <1>1
  <1>. QED BY <1>2, Invariance, PTL DEF StreamIsUninterrupted, Spec
=============================================================================
