---------------------------- MODULE StreamQueue ----------------------------
(***************************************************************************)
(* The queue between the HTTP parser and the coroutine that reads a        *)
(* request's body: class StreamQueue of vibora/request/request.pyx, as     *)
(* operators on a record with the fields of the class.  Every method runs  *)
(* on the event loop without an await, except get(), whose three parts     *)
(* (pop, start waiting, resume) are separate operators.                    *)
(***************************************************************************)
EXTENDS Naturals, Sequences

CONSTANTS Chunk,  \* the pieces of body the parser hands over
          None    \* the end marker that end() queues for a waiting reader

ASSUME NoneAssumption == None \notin Chunk

Item == Chunk \cup {None}

QueueType == [items: Seq(Item), event: BOOLEAN, waiting: BOOLEAN,
              dirty: BOOLEAN, finished: BOOLEAN]

EmptyQueue == [items |-> <<>>, event |-> FALSE, waiting |-> FALSE,
               dirty |-> FALSE, finished |-> FALSE]

(* Faults of put(), to see that the properties notice them: the waiting    *)
(* reader is not woken, the queue is not marked for clear().               *)
PutSilently(q, item) ==
    [q EXCEPT !.items = Append(q.items, item), !.dirty = TRUE]

PutUnmarked(q, item) ==
    [q EXCEPT !.items = Append(q.items, item), !.event = q.event \/ q.waiting]

(* put(): event.set() is called only when a reader registered itself. *)
Put(q, item) ==
    [q EXCEPT !.items = Append(q.items, item),
              !.dirty = TRUE,
              !.event = q.event \/ q.waiting]

(* Faults of end(): the reader is woken to an empty queue, or not at all.  *)
EndWakesOnly(q) == [q EXCEPT !.finished = TRUE, !.event = q.event \/ q.waiting]

EndSilently(q) == [q EXCEPT !.finished = TRUE]

(* end(): a waiting reader gets the marker, any other sees finished. *)
End(q) ==
    [(IF q.waiting THEN Put(q, None) ELSE q) EXCEPT !.finished = TRUE]

(* Fault of clear(): nothing at all is done to a queue that is not dirty.  *)
ClearIfDirty(q) ==
    IF q.dirty
    THEN [q EXCEPT !.items = <<>>, !.event = FALSE, !.dirty = FALSE,
                   !.finished = FALSE]
    ELSE q

(* clear(): `waiting` survives it. *)
Clear(q) ==
    [q EXCEPT !.items = IF q.dirty THEN <<>> ELSE q.items,
              !.event = q.event /\ ~q.dirty,
              !.dirty = FALSE,
              !.finished = FALSE]

(* Fault of get(): pop() for popleft(). *)
PopLast(q) == [q EXCEPT !.items = SubSeq(q.items, 1, Len(q.items) - 1)]

(* get(), first line: something is queued. *)
Pop(q) == [q EXCEPT !.items = Tail(q.items)]

(* get(), nothing queued and not finished: register and wait for event. *)
BeginWait(q) == [q EXCEPT !.event = FALSE, !.waiting = TRUE]

(* get() after event.wait() returned. *)
Resume(q) ==
    [q EXCEPT !.event = FALSE, !.waiting = FALSE, !.items = Tail(q.items)]
=============================================================================
