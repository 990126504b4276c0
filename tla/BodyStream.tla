----------------------------- MODULE BodyStream -----------------------------
(***************************************************************************)
(* The body of a request on its way from the socket to the handler:        *)
(* class Stream and class StreamQueue of vibora/request/request.pyx with   *)
(* the callbacks of vibora/protocol/cprotocol.pyx that fill the queue and  *)
(* turn reading from the socket on and off.                                *)
(*                                                                         *)
(* The event loop runs one callback or one task step at a time.  While     *)
(* data_received feeds a packet to the parser (feeding), the parser calls  *)
(* on_headers_complete, on_body and on_message_complete and nothing else   *)
(* runs.  The module assumes the contract that module Connection examines: *)
(* requests come one at a time, and a response is sent once the request    *)
(* has been received completely.                                           *)
(***************************************************************************)
EXTENDS Naturals, StreamQueue

CONSTANT MaxChunks  \* bound: chunks in one request's body

ASSUME MaxChunksAssumption == MaxChunks \in Nat

VARIABLES queue,     \* Stream.queue
          consumed,  \* Stream.consumed
          readable,  \* Connection.readable: the transport is not paused
          feeding,   \* data_received is running
          message,   \* where the parser is: between requests, in one, after it
          reader,    \* the handler: none, running its own code, waiting in
                     \* StreamQueue.get, or woken there but not yet run
          received,  \* history: body chunks of the current request
          delivered  \* history: chunks the handler was given

vars == <<queue, consumed, readable, feeding, message, reader, received,
          delivered>>

TypeOK ==
    /\ queue \in QueueType
    /\ consumed \in BOOLEAN
    /\ readable \in BOOLEAN
    /\ feeding \in BOOLEAN
    /\ message \in {"none", "body", "complete"}
    /\ reader \in {"none", "running", "blocked", "woken"}
    /\ received \in Seq(Chunk)
    /\ delivered \in Seq(Chunk)

Init ==
    /\ queue = EmptyQueue
    /\ consumed = FALSE
    /\ readable = TRUE
    /\ feeding = FALSE
    /\ message = "none"
    /\ reader = "none"
    /\ received = <<>>
    /\ delivered = <<>>

-----------------------------------------------------------------------------
(* The socket side. *)

DataReceived ==
    /\ ~feeding /\ readable /\ message # "complete"
    /\ feeding' = TRUE
    /\ UNCHANGED <<queue, consumed, readable, message, reader, received,
                   delivered>>

(* The parser has used up the packet. *)
DataReceivedReturns ==
    /\ feeding
    /\ feeding' = FALSE
    /\ UNCHANGED <<queue, consumed, readable, message, reader, received,
                   delivered>>

(* The handler's task is created; it runs after data_received. *)
OnHeadersComplete ==
    /\ feeding /\ message = "none"
    /\ message' = "body"
    /\ reader' = "running"
    /\ UNCHANGED <<queue, consumed, readable, feeding, received, delivered>>

(* event.set() completes the future of the coroutine that waits for it. *)
Wakened(q) == IF reader = "blocked" /\ q.event THEN "woken" ELSE reader

(* Fault: the socket is read on while a chunk waits. *)
OnBodyReadsOn(c) ==
    /\ feeding /\ message = "body"
    /\ Len(received) < MaxChunks
    /\ queue' = Put(queue, c)
    /\ reader' = Wakened(queue')
    /\ received' = Append(received, c)
    /\ UNCHANGED <<consumed, readable, feeding, message, delivered>>

OnBody(c) ==
    /\ feeding /\ message = "body"
    /\ Len(received) < MaxChunks
    /\ queue' = Put(queue, c)
    /\ reader' = Wakened(queue')
    /\ readable' = FALSE
    /\ received' = Append(received, c)
    /\ UNCHANGED <<consumed, feeding, message, delivered>>

OnMessageComplete ==
    /\ feeding /\ message = "body"
    /\ queue' = End(queue)
    /\ reader' = Wakened(queue')
    /\ message' = "complete"
    /\ UNCHANGED <<consumed, readable, feeding, received, delivered>>

-----------------------------------------------------------------------------
(* The handler: one step of `async for chunk in request.stream`.  The loop *)
(* of __aiter__ resumes reading and calls get(); when get() returns, the   *)
(* item either ends the iteration or is yielded with reading paused.       *)

Got(item) ==
    \/ /\ item = None
       /\ consumed' = TRUE
       /\ readable' = TRUE
       /\ UNCHANGED delivered
    \/ /\ item # None
       /\ delivered' = Append(delivered, item)
       /\ readable' = FALSE
       /\ UNCHANGED consumed

ReadQueued ==
    /\ ~feeding /\ reader = "running" /\ ~consumed
    /\ queue.items # <<>>
    /\ queue' = Pop(queue)
    /\ Got(Head(queue.items))
    /\ UNCHANGED <<feeding, message, reader, received>>

ReadFinished ==
    /\ ~feeding /\ reader = "running" /\ ~consumed
    /\ queue.items = <<>> /\ queue.finished
    /\ consumed' = TRUE
    /\ readable' = TRUE
    /\ UNCHANGED <<queue, feeding, message, reader, received, delivered>>

ReadBlocks ==
    /\ ~feeding /\ reader = "running" /\ ~consumed
    /\ queue.items = <<>> /\ ~queue.finished
    /\ readable' = TRUE
    /\ queue' = BeginWait(queue)
    /\ reader' = "blocked"
    /\ UNCHANGED <<consumed, feeding, message, received, delivered>>

ReadResumes ==
    /\ ~feeding /\ reader = "woken"
    /\ queue.items # <<>>
    /\ queue' = Resume(queue)
    /\ Got(Head(queue.items))
    /\ reader' = "running"
    /\ UNCHANGED <<feeding, message, received>>

(* The timeout watcher cancels the handler: CancelledError leaves get()    *)
(* at its await, so `waiting` stays as it is.  A cancellation in mid-body  *)
(* is answered in mid-body, which breaks the contract: see Connection.     *)
CancelRequest ==
    /\ ~feeding /\ reader # "none" /\ message = "complete"
    /\ reader' = "none"
    /\ UNCHANGED <<queue, consumed, readable, feeding, message, received,
                   delivered>>

(* after_response(): called for the handler's own response, or, when the   *)
(* handler was cancelled, for the response of the exception handler.       *)
AfterResponse ==
    /\ ~feeding /\ message = "complete"
    /\ reader \in {"none", "running"}
    /\ readable' = TRUE
    /\ queue' = Clear(queue)
    /\ consumed' = FALSE
    /\ message' = "none"
    /\ reader' = "none"
    /\ received' = <<>>
    /\ delivered' = <<>>
    /\ UNCHANGED feeding

Read == ReadQueued \/ ReadFinished \/ ReadBlocks \/ ReadResumes

Parse == OnHeadersComplete \/ (\E c \in Chunk : OnBody(c)) \/ OnMessageComplete

Next ==
    \/ DataReceived
    \/ DataReceivedReturns
    \/ OnHeadersComplete
    \/ \E c \in Chunk : OnBody(c)
    \/ OnMessageComplete
    \/ ReadQueued
    \/ ReadFinished
    \/ ReadBlocks
    \/ ReadResumes
    \/ CancelRequest
    \/ AfterResponse

Spec == Init /\ [][Next]_vars

(* The loop runs the tasks that are ready and returns from data_received,  *)
(* and the client sends the rest of a request it has begun: whenever a     *)
(* packet may be read, one that completes the request eventually is.       *)
Fairness ==
    /\ WF_vars(Read)
    /\ WF_vars(DataReceivedReturns)
    /\ WF_vars(DataReceived)
    /\ SF_vars(OnMessageComplete)

FairSpec == Spec /\ Fairness
-----------------------------------------------------------------------------
(* A handler that waits for the body waits for something that can still    *)
(* come: the socket is being read, the parser has not finished, and        *)
(* nothing has been queued without waking it.                              *)
NoLostWakeup ==
    reader = "blocked" =>
        /\ queue.waiting
        /\ readable
        /\ message = "body"
        /\ queue.items = <<>>

(* event.wait() never returns to an empty queue: the popleft() that        *)
(* follows it would raise IndexError into the handler.                     *)
WokenHasItem == reader = "woken" => queue.items # <<>>

(* While the socket is read, no body data waits in memory: a client can    *)
(* make the server buffer one packet and no more.                          *)
Backpressure ==
    readable => \A i \in 1..Len(queue.items) : queue.items[i] = None

(* A request whose body nobody has read and whose response has been sent   *)
(* leaves nothing to the next request on the connection.                   *)
NothingCarriedOver ==
    message = "none" =>
        /\ queue.items = <<>> /\ ~queue.finished
        /\ ~consumed
        /\ readable

(* The inductive invariant.  The queue holds the chunks that were received *)
(* and not yet delivered, in order, with the end marker behind them if     *)
(* end() found a reader registered.                                        *)
Ordered(items, body, n) ==
    \A i \in 1..Len(items) :
        IF items[i] = None THEN i = Len(items) ELSE items[i] = body[n + i]

Marked(items) == items # <<>> /\ items[Len(items)] = None

Complete(items, body, n) ==
    n + Len(items) = Len(body) + (IF Marked(items) THEN 1 ELSE 0)

QueueHoldsTheRest ==
    /\ Ordered(queue.items, received, Len(delivered))
    /\ Complete(queue.items, received, Len(delivered))
    /\ Marked(queue.items) => message = "complete"

Flags ==
    /\ queue.items # <<>> => queue.dirty
    /\ queue.finished <=> message = "complete"
    /\ consumed => /\ message = "complete"
                   /\ queue.items = <<>>
                   /\ Len(delivered) = Len(received)

Idle ==
    message = "none" =>
        /\ queue.items = <<>> /\ reader = "none" /\ readable
        /\ received = <<>> /\ delivered = <<>>

IInv ==
    /\ TypeOK
    /\ QueueHoldsTheRest
    /\ Flags
    /\ Idle
    /\ NoLostWakeup
    /\ WokenHasItem
    /\ Backpressure

(* The stream is the pipe the handler expects. *)
Pipe == INSTANCE BodyPipe WITH sent <- received,
                               ended <- message = "complete",
                               eof <- consumed
PipeSpec == Pipe!Spec

(* A handler that reads to the end gets there (or is cancelled). *)
BodyIsReadToTheEnd == (reader = "blocked") ~> (consumed \/ reader = "none")
=============================================================================
