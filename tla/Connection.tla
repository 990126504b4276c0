------------------------------ MODULE Connection ------------------------------
(***************************************************************************)
(* One HTTP/1.1 connection of a worker: class Connection of                *)
(* vibora/protocol/cprotocol.pyx with the stream of request/request.pyx    *)
(* and Response.send, wait_client_consume and the streaming tasks of       *)
(* responses/responses.pyx.                                                *)
(*                                                                         *)
(* The actors are the parser callbacks that data_received runs (nothing    *)
(* else of the event loop runs while feeding), the request handler's task, *)
(* the tasks of handle_exception, wait_client_consume, scheduled_close and *)
(* of streaming responses, the timers of loop.call_later, the transport's  *)
(* flow control and, on another thread, whoever calls stop().  Cython      *)
(* `cdef void` methods swallow exceptions.                                 *)
(***************************************************************************)
EXTENDS Naturals, Sequences, FiniteSets

CONSTANTS
    MaxRequests,  \* bound: requests the client sends on the connection
    MaxBody,      \* bound: body chunks of one request
    KeepAlive,    \* server_limits.keep_alive_timeout > 0
    Envs          \* environments to consider: sets of Behaviours

Behaviours ==
    {"pipelining",  \* the client sends a request before the last one's answer
     "early",       \* a handler answers before the body has arrived
     "timeout",     \* a handler or a stream may outlive its time limit
     "raise",       \* handlers, hooks and streams may raise
     "hook",        \* there is a hook for AFTER_RESPONSE_SENT
     "slow client", \* the write buffer may pass its limit
     "malformed",   \* the parser may reject what the client sends
     "failing",     \* the application's exception handlers may raise
     "cached",      \* a route may answer from a synchronous cache
     "streaming",   \* a handler may return a chunked StreamingResponse
     "length",      \* its length may be announced instead
     "stop"}        \* stop() is called

ASSUME BoundsAssumption == MaxRequests \in Nat /\ MaxBody \in Nat
ASSUME EnvAssumption ==
    /\ KeepAlive \in BOOLEAN
    /\ Envs # {} /\ Envs \subseteq SUBSET Behaviours
    /\ \A e \in Envs : ~ ({"streaming", "pipelining"} \subseteq e)

Requests == 1..MaxRequests
None == 0

(* A chunk of body is identified by the request it belongs to. *)
INSTANCE StreamQueue WITH Chunk <- Requests

VARIABLES
    env,          \* what this client, these handlers and operators may do
    feeding,      \* data_received is running
    parser,       \* between messages, in the message of req, or failed
    req,          \* number of requests whose headers were parsed
    put,          \* history: body chunks parsed, for each request
    status,       \* Connection.status
    readable,     \* Connection.readable
    writable,     \* Connection.writable
    closed,       \* Connection.closed
    stopped,      \* Connection._stopped
    queue,        \* Connection.queue (the stream's)
    consumed,     \* Connection.stream.consumed
    handler,      \* the task of handle_request, for each request
    currentTask,  \* whose task Connection.current_task is
    got,          \* history: chunks each handler was given
    timers,       \* requests whose call_later (or their stream's) is pending
    timeoutTask,  \* whose timer Connection.timeout_task is, or None
    errors,       \* tasks of handle_exception, by request and cause
    flushing,     \* requests with a task of wait_client_consume
    streaming,    \* the streaming task of each request
    permitted,    \* Connection.write_permission is set
    closing,      \* a task of scheduled_close exists
    sent          \* history: the request each written response answers

request == <<parser, req, put>>
network == <<status, readable, closed, closing>>
stream == <<queue, consumed>>
tasks == <<handler, currentTask, got>>
watch == <<timers, timeoutTask>>
output == <<writable, flushing, sent, streaming, permitted>>
vars == <<env, feeding, request, network, stopped, stream, tasks, watch,
          errors, output>>

HandlerStates ==
    {"none", "running", "blocked", "woken", "read", "hook", "done"}
(* A task was created; has sent the headers; waits for the client to read  *)
(* the last chunk; has sent all but not called after_response(); is over;  *)
(* ended without sending all.                                              *)
StreamStates ==
    {"none", "begun", "open", "last", "whole", "over", "failed"}
Causes == {"error", "timeout", "parse"}

RequestType ==
    /\ parser \in {"idle", "body", "failed"}
    /\ req \in 0..MaxRequests
    /\ put \in [Requests -> 0..MaxBody]
    /\ parser = "body" => req \in Requests

NetworkType ==
    /\ status \in {"PENDING", "RECEIVING", "PROCESSING"}
    /\ readable \in BOOLEAN
    /\ closed \in BOOLEAN
    /\ closing \in BOOLEAN

StreamType == queue \in QueueType /\ consumed \in BOOLEAN

TaskType ==
    /\ handler \in [Requests -> HandlerStates]
    /\ currentTask \in Requests \cup {None}
    /\ got \in [Requests -> Seq(Requests)]

WatchType == timers \subseteq Requests /\ timeoutTask \in Requests \cup {None}

ErrorType == errors \subseteq [request: Requests, cause: Causes]

OutputType ==
    /\ writable \in BOOLEAN
    /\ flushing \subseteq Requests
    /\ sent \in Seq(Requests)
    /\ streaming \in [Requests -> StreamStates] /\ permitted \in BOOLEAN

TypeOK ==
    /\ env \in Envs /\ feeding \in BOOLEAN /\ stopped \in BOOLEAN
    /\ RequestType /\ NetworkType /\ StreamType /\ TaskType
    /\ WatchType /\ ErrorType /\ OutputType

Init ==
    /\ env \in Envs
    /\ feeding = FALSE
    /\ parser = "idle" /\ req = 0 /\ put = [r \in Requests |-> 0]
    /\ status = "PENDING" /\ readable = TRUE /\ writable = TRUE
    /\ closed = FALSE /\ stopped = FALSE /\ closing = FALSE
    /\ queue = EmptyQueue /\ consumed = FALSE
    /\ handler = [r \in Requests |-> "none"]
    /\ currentTask = None
    /\ got = [r \in Requests |-> <<>>]
    /\ timers = {} /\ timeoutTask = None
    /\ errors = {} /\ flushing = {}
    /\ sent = <<>>
    /\ streaming = [r \in Requests |-> "none"] /\ permitted = FALSE

Answered(r) == \E i \in 1..Len(sent) : sent[i] = r
Received(r) == r < req \/ (r = req /\ parser = "idle")
Active(r) == handler[r] \in {"running", "blocked", "woken", "read"}
-----------------------------------------------------------------------------
(* What every answer ends in. *)

(* The branches of after_response(): close, close once the buffer is       *)
(* empty, or go on reading.  The faults leave the last or the second out.  *)
CloseOrStayPaused ==
    /\ closed' = (closed \/ ~KeepAlive)
    /\ closing' = (closing \/ (KeepAlive /\ stopped))
    /\ UNCHANGED readable

CloseOrForgetStop ==
    /\ closed' = (closed \/ ~KeepAlive)
    /\ readable' = (readable \/ KeepAlive)
    /\ UNCHANGED closing

CloseOrResume ==
    /\ closed' = (closed \/ ~KeepAlive)
    /\ closing' = (closing \/ (KeepAlive /\ stopped))
    /\ readable' = (readable \/ (KeepAlive /\ ~stopped))

(* Its end: timeout_task.cancel().  The fault leaves it out.               *)
KeepWatcher == UNCHANGED watch

RemoveWatcher ==
    /\ timers' = timers \ {timeoutTask}
    /\ timeoutTask' = None

AfterResponse ==
    /\ status' = "PENDING"
    /\ CloseOrResume
    /\ queue' = Clear(queue)
    /\ consumed' = FALSE
    /\ RemoveWatcher

(* A transport that was closed drops what is written to it. *)
Written(r) == sent' = IF closed THEN sent ELSE Append(sent, r)

(* A write may make the transport call pause_writing(). *)
MayFillBuffer ==
    \/ writable' = writable
    \/ "slow client" \in env /\ writable' = FALSE

(* Response.send() *)
Send(r) ==
    /\ Written(r)
    /\ MayFillBuffer
    /\ UNCHANGED <<streaming, permitted>>
    /\ \/ writable' /\ AfterResponse /\ UNCHANGED flushing
       \/ /\ ~writable'
          /\ flushing' = flushing \cup {r}
          /\ UNCHANGED <<network, stream, watch>>
-----------------------------------------------------------------------------
(* The socket: data_received and the callbacks of the parser. *)

(* The client that does not pipeline waits for the whole answer, so the    *)
(* write buffer has been drained when it goes on.                          *)
AnsweredInFull(r) ==
    Answered(r) /\ streaming[r] \notin {"open", "last", "failed"}

ClientMaySend ==
    \/ parser = "body"
    \/ /\ parser = "idle" /\ req < MaxRequests
       /\ \/ "pipelining" \in env
          \/ writable /\ \A r \in 1..req : AnsweredInFull(r)

(* Fault: the status is set when the message is complete, no earlier. *)
DataReceivedKeepsStatus ==
    /\ ~feeding /\ readable /\ ~closed /\ flushing = {}
    /\ ClientMaySend
    /\ feeding' = TRUE
    /\ UNCHANGED <<env, request, network, stopped, stream, tasks, watch,
                   errors, output>>

(* A task of wait_client_consume first runs before the loop polls again.   *)
DataReceived ==
    /\ ~feeding /\ readable /\ ~closed /\ flushing = {}
    /\ ClientMaySend
    /\ feeding' = TRUE
    /\ status' = "RECEIVING"
    /\ UNCHANGED <<env, request, readable, closed, closing, stopped, stream,
                   tasks, watch, errors, output>>

(* The parser has used up the packet. *)
DataReceivedReturns ==
    /\ feeding
    /\ feeding' = FALSE
    /\ UNCHANGED <<env, request, network, stopped, stream, tasks, watch,
                   errors, output>>

(* HttpParserError: the rest of the packet is dropped.  Whoever sent it    *)
(* sends no more.                                                          *)
DataReceivedFails ==
    /\ "malformed" \in env
    /\ feeding /\ ClientMaySend
    /\ feeding' = FALSE
    /\ parser' = "failed"
    /\ readable' = FALSE
    /\ LET r == IF parser = "body" THEN req ELSE req + 1
       IN  errors' = errors \cup {[request |-> r, cause |-> "parse"]}
    /\ UNCHANGED <<env, req, put, status, closed, closing, stopped, stream,
                   tasks, watch, output>>

HeadersParsed ==
    /\ feeding /\ parser = "idle"
    /\ ClientMaySend
    /\ parser' = "body"
    /\ req' = req + 1

OnHeadersComplete ==
    /\ HeadersParsed
    /\ handler' = [handler EXCEPT ![req + 1] = "running"]
    /\ currentTask' = req + 1
    /\ timers' = timers \cup {req + 1}
    /\ timeoutTask' = req + 1
    /\ UNCHANGED <<env, feeding, put, network, stopped, stream, got, errors,
                   output>>

(* The cached response is sent from inside the parser callback. *)
OnHeadersCompleteCached ==
    /\ "cached" \in env
    /\ HeadersParsed
    /\ Send(req + 1)
    /\ UNCHANGED <<env, feeding, put, stopped, tasks, errors>>

(* event.set() completes the futures of all coroutines that wait for it. *)
Wakened ==
    [r \in Requests |->
        IF handler[r] = "blocked" /\ queue'.event THEN "woken" ELSE handler[r]]

OnBody ==
    /\ feeding /\ parser = "body" /\ put[req] < MaxBody
    /\ put' = [put EXCEPT ![req] = @ + 1]
    /\ queue' = Put(queue, req)
    /\ handler' = Wakened
    /\ readable' = FALSE
    /\ UNCHANGED <<env, feeding, parser, req, status, closed, closing,
                   stopped, consumed, currentTask, got, watch, errors,
                   output>>

OnMessageComplete ==
    /\ feeding /\ parser = "body"
    /\ parser' = "idle"
    /\ queue' = End(queue)
    /\ handler' = Wakened
    /\ status' = "PROCESSING"
    /\ UNCHANGED <<env, feeding, req, put, readable, closed, closing, stopped,
                   consumed, currentTask, got, watch, errors, output>>

(* connection_lost() *)
ConnectionLost ==
    /\ ~feeding /\ ~closed
    /\ closed' = TRUE
    /\ UNCHANGED <<env, feeding, request, status, readable, closing, stopped,
                   stream, tasks, watch, errors, output>>

(* resume_writing(): nobody clears write_permission again. *)
ResumeWriting ==
    /\ ~feeding /\ ~writable
    /\ writable' = TRUE
    /\ permitted' = TRUE
    /\ UNCHANGED <<env, feeding, request, network, stopped, stream, tasks,
                   watch, errors, flushing, sent, streaming>>
-----------------------------------------------------------------------------
(* The request handler: one step of `async for chunk in request.stream`,   *)
(* the answer, or an exception.                                            *)

Got(r, item) ==
    \/ /\ item = None
       /\ consumed' = TRUE
       /\ readable' = TRUE
       /\ handler' = [handler EXCEPT ![r] = "read"]
       /\ UNCHANGED got
    \/ /\ item # None
       /\ got' = [got EXCEPT ![r] = Append(@, item)]
       /\ readable' = FALSE
       /\ handler' = [handler EXCEPT ![r] = "running"]
       /\ UNCHANGED consumed

ReadQueued(r) ==
    /\ ~feeding /\ handler[r] = "running" /\ ~consumed
    /\ queue.items # <<>>
    /\ queue' = Pop(queue)
    /\ Got(r, Head(queue.items))
    /\ UNCHANGED <<env, feeding, request, status, closed, closing, stopped,
                   currentTask, watch, errors, output>>

ReadFinished(r) ==
    /\ ~feeding /\ handler[r] = "running" /\ ~consumed
    /\ queue.items = <<>> /\ queue.finished
    /\ consumed' = TRUE
    /\ readable' = TRUE
    /\ handler' = [handler EXCEPT ![r] = "read"]
    /\ UNCHANGED <<env, feeding, request, status, closed, closing, stopped,
                   queue, currentTask, got, watch, errors, output>>

ReadBlocks(r) ==
    /\ ~feeding /\ handler[r] = "running" /\ ~consumed
    /\ queue.items = <<>> /\ ~queue.finished
    /\ readable' = TRUE
    /\ queue' = BeginWait(queue)
    /\ handler' = [handler EXCEPT ![r] = "blocked"]
    /\ UNCHANGED <<env, feeding, request, status, closed, closing, stopped,
                   consumed, currentTask, got, watch, errors, output>>

ReadResumes(r) ==
    /\ ~feeding /\ handler[r] = "woken"
    /\ queue.items # <<>>
    /\ queue' = Resume(queue)
    /\ Got(r, Head(queue.items))
    /\ UNCHANGED <<env, feeding, request, status, closed, closing, stopped,
                   currentTask, watch, errors, output>>

(* The task ends in `except Exception`: handle_exception is scheduled. *)
Raises(r) ==
    /\ handler' = [handler EXCEPT ![r] = "done"]
    /\ errors' = errors \cup {[request |-> r, cause |-> "error"]}

(* popleft() after event.wait() finds nothing: IndexError. *)
ReadFindsNothing(r) ==
    /\ ~feeding /\ handler[r] = "woken"
    /\ queue.items = <<>>
    /\ queue' = [queue EXCEPT !.event = FALSE, !.waiting = FALSE]
    /\ Raises(r)
    /\ UNCHANGED <<env, feeding, request, network, stopped, consumed,
                   currentTask, got, watch, output>>

(* StreamAlreadyConsumed, though this handler has not read to the end. *)
ReadRefused(r) ==
    /\ ~feeding /\ handler[r] = "running" /\ consumed
    /\ Raises(r)
    /\ UNCHANGED <<env, feeding, request, network, stopped, stream,
                   currentTask, got, watch, output>>

Reply(r) ==
    /\ ~feeding /\ handler[r] \in {"running", "read"}
    /\ "early" \in env \/ Received(r)
    /\ Send(r)
    /\ handler' =
        [handler EXCEPT ![r] = IF "hook" \in env THEN "hook" ELSE "done"]
    /\ UNCHANGED <<env, feeding, request, stopped, currentTask, got, errors>>

(* StreamingResponse.send(): the watcher of the request gives way to that  *)
(* of the stream, if complete_timeout is not 0.  Without a watcher to      *)
(* cancel, send() fails and nobody hears of it.                            *)
SendStream(r) ==
    \/ timeoutTask = None /\ UNCHANGED <<watch, streaming>>
    \/ /\ timeoutTask # None
       /\ streaming' = [streaming EXCEPT ![r] = "begun"]
       /\ \/ timers' = (timers \ {timeoutTask}) \cup {r} /\ timeoutTask' = r
          \/ timers' = timers \ {timeoutTask} /\ UNCHANGED timeoutTask

ReplyStream(r) ==
    /\ "streaming" \in env
    /\ ~feeding /\ handler[r] \in {"running", "read"}
    /\ "early" \in env \/ Received(r)
    /\ SendStream(r)
    /\ handler' =
        [handler EXCEPT ![r] = IF "hook" \in env THEN "hook" ELSE "done"]
    /\ UNCHANGED <<env, feeding, request, network, stopped, stream,
                   currentTask, got, errors, writable, flushing, sent,
                   permitted>>

HandlerRaises(r) ==
    /\ "raise" \in env
    /\ ~feeding /\ handler[r] \in {"running", "read"}
    /\ "early" \in env \/ Received(r)
    /\ Raises(r)
    /\ UNCHANGED <<env, feeding, request, network, stopped, stream,
                   currentTask, got, watch, output>>

AfterSendHook(r) ==
    /\ ~feeding /\ handler[r] = "hook"
    /\ \/ "raise" \in env /\ Raises(r)
       \/ handler' = [handler EXCEPT ![r] = "done"] /\ UNCHANGED errors
    /\ UNCHANGED <<env, feeding, request, network, stopped, stream,
                   currentTask, got, watch, output>>
-----------------------------------------------------------------------------
(* The task of a streaming response.                                       *)

(* write() waits for write_permission while the buffer is full. *)
CanWrite == writable \/ permitted

StreamTo(r, state) == streaming' = [streaming EXCEPT ![r] = state]

(* The status line and the headers. *)
StreamBegins(r) ==
    /\ ~feeding /\ streaming[r] = "begun"
    /\ Written(r)
    /\ MayFillBuffer
    /\ StreamTo(r, "open")
    /\ UNCHANGED <<env, feeding, request, network, stopped, stream, tasks,
                   watch, errors, flushing, permitted>>

(* A chunk that fills the write buffer. *)
StreamWrites(r) ==
    /\ "slow client" \in env
    /\ ~feeding /\ streaming[r] = "open" /\ writable
    /\ writable' = FALSE
    /\ UNCHANGED <<env, feeding, request, network, stopped, stream, tasks,
                   watch, errors, flushing, sent, streaming, permitted>>

(* The last chunk.  That of a chunked response is followed by an end mark, *)
(* which no wait_for() separates from after_response().                    *)
StreamEnds(r) ==
    /\ ~feeding /\ streaming[r] = "open" /\ CanWrite
    /\ MayFillBuffer
    /\ \/ "length" \in env /\ StreamTo(r, "whole")
          /\ UNCHANGED <<network, stream, watch>>
       \/ (writable' \/ permitted) /\ StreamTo(r, "over") /\ AfterResponse
       \/ ~writable' /\ ~permitted /\ StreamTo(r, "last")
          /\ UNCHANGED <<network, stream, watch>>
    /\ UNCHANGED <<env, feeding, request, stopped, tasks, errors, flushing,
                   sent, permitted>>

StreamFinishes(r) ==
    /\ ~feeding /\ streaming[r] \in {"last", "whole"} /\ CanWrite
    /\ StreamTo(r, "over")
    /\ AfterResponse
    /\ UNCHANGED <<env, feeding, request, stopped, tasks, errors, writable,
                   flushing, sent, permitted>>

(* chunk_timeout: wait_for() gives up a write. *)
StreamChunkIsLate(r) ==
    /\ "timeout" \in env
    /\ ~feeding /\ streaming[r] \in {"open", "whole"} /\ ~CanWrite
    /\ StreamTo(r, "failed")
    /\ closed' = TRUE
    /\ UNCHANGED <<env, feeding, request, status, readable, closing, stopped,
                   stream, tasks, watch, errors, writable, flushing, sent,
                   permitted>>

(* The generator raises: the task ends and nobody handles it. *)
StreamRaises(r) ==
    /\ "raise" \in env
    /\ ~feeding /\ streaming[r] = "open" /\ CanWrite
    /\ StreamTo(r, "failed")
    /\ UNCHANGED <<env, feeding, request, network, stopped, stream, tasks,
                   watch, errors, writable, flushing, sent, permitted>>

(* Fault: the task is cancelled, the connection stays open. *)
CancelStreamingTaskOnly(r) ==
    /\ "timeout" \in env
    /\ ~feeding /\ r \in timers /\ streaming[r] # "none"
    /\ timers' = timers \ {r}
    /\ StreamTo(r, IF streaming[r] = "over" THEN "over" ELSE "failed")
    /\ UNCHANGED <<env, feeding, request, network, stopped, stream, tasks,
                   timeoutTask, errors, writable, flushing, sent, permitted>>

(* cancel_streaming_task(), after complete_timeout. *)
CancelStreamingTask(r) ==
    /\ "timeout" \in env
    /\ ~feeding /\ r \in timers /\ streaming[r] # "none"
    /\ timers' = timers \ {r}
    /\ StreamTo(r, IF streaming[r] = "over" THEN "over" ELSE "failed")
    /\ closed' = TRUE
    /\ UNCHANGED <<env, feeding, request, status, readable, closing, stopped,
                   stream, tasks, timeoutTask, errors, writable, flushing,
                   sent, permitted>>

StreamStep(r) ==
    \/ StreamBegins(r) \/ StreamWrites(r) \/ StreamEnds(r)
    \/ StreamFinishes(r) \/ StreamChunkIsLate(r) \/ StreamRaises(r)
    \/ CancelStreamingTask(r)
-----------------------------------------------------------------------------
(* Timers and the other tasks. *)

(* Faults of cancel_request(): the handler goes on, the client gets no     *)
(* answer.                                                                 *)
CancelRequestKeepsHandler(r) ==
    /\ ~feeding /\ r \in timers
    /\ "timeout" \in env
    /\ "early" \in env \/ Received(r)
    /\ timers' = timers \ {r}
    /\ errors' = errors \cup {[request |-> r, cause |-> "timeout"]}
    /\ UNCHANGED <<env, feeding, request, network, stopped, stream, tasks,
                   timeoutTask, output>>

CancelRequestSilently(r) ==
    /\ ~feeding /\ r \in timers
    /\ "timeout" \in env
    /\ "early" \in env \/ Received(r)
    /\ timers' = timers \ {r}
    /\ handler' = [handler EXCEPT ![currentTask] = "done"]
    /\ UNCHANGED <<env, feeding, request, network, stopped, stream,
                   currentTask, got, timeoutTask, errors, output>>

(* Fault: a stream keeps the watcher of its request. *)
CancelRequestOfStream(r) ==
    /\ ~feeding /\ r \in timers
    /\ "timeout" \in env
    /\ "early" \in env \/ Received(r)
    /\ timers' = timers \ {r}
    /\ handler' = [handler EXCEPT ![currentTask] = "done"]
    /\ errors' = errors \cup {[request |-> r, cause |-> "timeout"]}
    /\ UNCHANGED <<env, feeding, request, network, stopped, stream,
                   currentTask, got, timeoutTask, output>>

(* cancel_request(): a cancelled task does nothing more. *)
CancelRequest(r) ==
    /\ ~feeding /\ r \in timers /\ streaming[r] = "none"
    /\ "timeout" \in env
    /\ "early" \in env \/ Received(r)
    /\ timers' = timers \ {r}
    /\ handler' = [handler EXCEPT ![currentTask] = "done"]
    /\ errors' = errors \cup {[request |-> r, cause |-> "timeout"]}
    /\ UNCHANGED <<env, feeding, request, network, stopped, stream,
                   currentTask, got, timeoutTask, output>>

(* handle_exception(): process_exception may await, so it can take long. *)
HandleException(e) ==
    /\ ~feeding /\ e \in errors
    /\ errors' = errors \ {e}
    /\ Send(e.request)
    /\ UNCHANGED <<env, feeding, request, stopped, tasks>>

(* Nobody handles what an exception handler raises: the task just ends. *)
HandleExceptionFails(e) ==
    /\ "failing" \in env
    /\ ~feeding /\ e \in errors
    /\ errors' = errors \ {e}
    /\ UNCHANGED <<env, feeding, request, network, stopped, stream, tasks,
                   watch, output>>

(* wait_client_consume(): Connection.writable is a C attribute that this   *)
(* coroutine, whose `protocol` has no type, cannot see, and it has no      *)
(* attribute write_premission: the task raises, and after_response() is    *)
(* not reached, whether or not the client has consumed the response.       *)
WaitClientConsume(r) ==
    /\ ~feeding /\ r \in flushing
    /\ flushing' = flushing \ {r}
    /\ UNCHANGED <<env, feeding, request, network, stopped, stream, tasks,
                   watch, errors, writable, sent, streaming, permitted>>

(* Fault: it gives up and leaves the connection open. *)
ScheduledCloseGivesUp ==
    /\ ~feeding /\ closing
    /\ closing' = FALSE
    /\ UNCHANGED <<env, feeding, request, status, readable, closed, stopped,
                   stream, tasks, watch, errors, output>>

(* scheduled_close(): polls until the write buffer is empty. *)
ScheduledClose ==
    /\ ~feeding /\ closing /\ writable
    /\ closing' = FALSE
    /\ closed' = TRUE
    /\ UNCHANGED <<env, feeding, request, status, readable, stopped, stream,
                   tasks, watch, errors, output>>

(* Fault: the connection is closed whatever it is doing. *)
StopAnyway ==
    /\ "stop" \in env
    /\ ~stopped /\ ~closed
    /\ stopped' = TRUE
    /\ closed' = TRUE
    /\ UNCHANGED <<env, feeding, request, status, readable, closing, stream,
                   tasks, watch, errors, output>>

(* stop(), from the reaper's thread or from stop_server. *)
Stop ==
    /\ "stop" \in env
    /\ ~stopped /\ ~closed
    /\ stopped' = TRUE
    /\ closed' = (status = "PENDING")
    /\ UNCHANGED <<env, feeding, request, status, readable, closing, stream,
                   tasks, watch, errors, output>>

Read(r) == ReadQueued(r) \/ ReadFinished(r) \/ ReadBlocks(r) \/ ReadResumes(r)

HandlerStep(r) ==
    \/ Read(r)
    \/ ReadFindsNothing(r) \/ ReadRefused(r)
    \/ Reply(r) \/ ReplyStream(r) \/ HandlerRaises(r) \/ AfterSendHook(r)

Next ==
    \/ DataReceived \/ DataReceivedReturns \/ DataReceivedFails
    \/ OnHeadersComplete \/ OnHeadersCompleteCached
    \/ OnBody \/ OnMessageComplete
    \/ ConnectionLost \/ ResumeWriting
    \/ \E r \in Requests : HandlerStep(r)
    \/ \E r \in Requests : StreamStep(r)
    \/ \E r \in Requests : CancelRequest(r)
    \/ \E r \in Requests : WaitClientConsume(r)
    \/ \E e \in errors : HandleException(e) \/ HandleExceptionFails(e)
    \/ ScheduledClose
    \/ Stop

Spec == Init /\ [][Next]_vars

(* The event loop runs everything that is ready between two polls of the   *)
(* sockets, so no stream of packets keeps timers and tasks from running.   *)
(* Nothing is assumed of handlers or clients.                              *)
LoopStep ==
    \/ \E r \in Requests : CancelRequest(r) \/ WaitClientConsume(r)
    \/ \E r \in Requests :
           StreamBegins(r) \/ StreamFinishes(r) \/ CancelStreamingTask(r)
    \/ \E e \in errors : HandleException(e) \/ HandleExceptionFails(e)
    \/ ScheduledClose

LoopFairness == WF_vars(DataReceivedReturns) /\ SF_vars(LoopStep)

FairSpec == Spec /\ LoopFairness
-----------------------------------------------------------------------------
(* The environments in which a property is claimed.  In the others the     *)
(* model has a counterexample: README.md describes them.                   *)

(* A response is written once its request has arrived, to a client that    *)
(* reads it before it sends the next, which it does not before the server  *)
(* has done with the last.                                                 *)
InTime ==
    env \cap {"early", "cached", "slow client", "pipelining", "malformed",
              "length"} = {}

(* Combinations in which two tasks may each answer one request: a failure  *)
(* and a timeout, a failure after the answer, a timeout whose watcher      *)
(* nobody removes, a body rejected while its handler reads it, a stream    *)
(* that ends in the middle of the next request.                            *)
TwoWriters == {{"raise", "timeout"}, {"raise", "hook"}, {"malformed"},
               {"slow client", "timeout"}, {"pipelining", "timeout"},
               {"length", "timeout"}}

OneWriter == \A causes \in TwoWriters : ~ (causes \subseteq env)

(* Between requests the connection carries nothing over: no body data, no  *)
(* flag of the stream, no running handler and no timeout watcher, which    *)
(* would answer the next request (after_response(), cprotocol.pyx:94).     *)
IdleIsClean ==
    InTime /\ OneWriter /\ status = "PENDING" /\ ~feeding =>
        /\ parser = "idle"
        /\ queue.items = <<>> /\ ~queue.finished /\ ~consumed
        /\ \A r \in Requests : ~Active(r)
        /\ timers = {}

(* The handler, its timeout watcher and its exception handler, three tasks *)
(* of the event loop, together write one response to a request.            *)
OneAnswer ==
    OneWriter => \A i, j \in 1..Len(sent) : sent[i] = sent[j] => i = j

(* A handler is given chunks of its own request only, and when it has read *)
(* to the end of request.stream, all of them.                              *)
OwnBody ==
    InTime /\ OneWriter => \A r \in Requests :
        /\ \A i \in 1..Len(got[r]) : got[r][i] = r
        /\ handler[r] = "read" => Received(r) /\ Len(got[r]) = put[r]

(* Reading is never paused for good: somebody is left who will call        *)
(* resume_reading() or close().  (A stream without a complete_timeout that *)
(* raises leaves nobody.)                                                  *)
SomeoneWillResume ==
    InTime /\ OneWriter /\ "failing" \notin env
        /\ ~ ({"streaming", "raise"} \subseteq env)
        /\ ~readable /\ ~closed /\ ~feeding =>
            \/ timers # {} \/ errors # {} \/ flushing # {} \/ closing
            \/ \E r \in Requests : streaming[r] \in {"begun", "open", "last"}

(* A handler that reads its body once meets neither the IndexError of      *)
(* popleft() after event.wait() nor StreamAlreadyConsumed, not even if it  *)
(* answers before it has read the whole body.                              *)
ReadNeverFails ==
    OneWriter /\ env \cap {"slow client", "pipelining", "length"} = {} =>
        \A r \in Requests :
            /\ handler[r] = "woken" => queue.items # <<>>
            /\ handler[r] = "running" => ~consumed

(* Whatever clients and handlers do, a connection that stop() found busy   *)
(* is not left open once it is idle: after_response() schedules its close. *)
StoppedIsNotIdle == stopped /\ status = "PENDING" => closed \/ closing

(* What the reaper and stop_server see of this connection.                 *)
Life == INSTANCE ConnectionLife
            WITH conn <- [status |-> status, stopped |-> stopped,
                          closing |-> closing, closed |-> closed]
LifeSpec == Life!Spec

(* stop(), which the reaper's thread may call between any two steps of the *)
(* event loop, closes no connection that owes an answer.                   *)
StopSparesRequests ==
    [][InTime /\ OneWriter /\ Stop /\ closed'
           => \A r \in 1..req : Answered(r)]_vars

(* Neither does the close that after_response() schedules: "Waiting all    *)
(* connections finish their tasks" (workers/handler.py).                   *)
CloseSparesRequests == [][ScheduledClose => \A r \in 1..req : Answered(r)]_vars

(* after_response() "must be called after each response": a request that   *)
(* was answered in full is not still marked as being processed, unless a   *)
(* task is there to call it.                                               *)
AfterEachResponse ==
    status = "PROCESSING" /\ ~feeding /\ ~closed =>
        (\E r \in 1..req : ~Answered(r)) \/ flushing # {}

(* Between the headers of a stream and its end nothing else is written to  *)
(* the connection, not even the answer to a timeout, which the client      *)
(* would take for a part of the content (responses.pyx:237).               *)
StreamIsUninterrupted ==
    [][\A r \in Requests :
        InTime /\ OneWriter /\ streaming[r] \in {"open", "last", "failed"}
            => sent' = sent]_vars

(* Where requests have a time limit and exception handlers work, a request *)
(* is answered or its connection is closed though handlers hang and        *)
(* clients stop in the middle of a body: nothing removes the timeout       *)
(* watcher before that.                                                    *)
Limited == {"timeout", "early"} \subseteq env /\ "failing" \notin env

EveryRequestAnswered ==
    \A r \in Requests : (Limited /\ req >= r) ~> (Answered(r) \/ closed)

(* A stream with a complete_timeout is completed or its connection closed, *)
(* whatever the generator and the client do: nobody else's answer takes    *)
(* its watcher away.                                                       *)
Broken(r) == streaming[r] \in {"begun", "open", "last", "failed"}

StreamsEnd ==
    \A r \in Requests :
        ("timeout" \in env /\ OneWriter /\ Broken(r) /\ r \in timers)
            ~> (closed \/ ~Broken(r))

(* stop() closes the connection in the end, unless the client has begun to *)
(* send something (RECEIVING) and does not go on, or a stream without a    *)
(* complete_timeout hangs.                                                 *)
StopFinishes ==
    (InTime /\ stopped) ~>
        \/ closed \/ status = "RECEIVING"
        \/ \E r \in Requests : Broken(r) /\ r \notin timers
=============================================================================
