--------------------------- MODULE ConnectionState ---------------------------
(***************************************************************************)
(* What the rest of a worker sees of a connection: its status, whether it  *)
(* was asked to stop and whether it is closed.  The methods of class       *)
(* Connection (vibora/protocol/cprotocol.pyx) as operators on a record.    *)
(***************************************************************************)

CONSTANT KeepAlive  \* server_limits.keep_alive_timeout > 0

ASSUME KeepAliveAssumption == KeepAlive \in BOOLEAN

Statuses == {"PENDING", "RECEIVING", "PROCESSING"}

ConnectionType ==
    [status: Statuses, stopped: BOOLEAN, closing: BOOLEAN, closed: BOOLEAN]

(* __init__() *)
Fresh == [status |-> "PENDING", stopped |-> FALSE, closing |-> FALSE,
          closed |-> FALSE]

(* data_received(), on_message_complete() *)
Received(c) == [c EXCEPT !.status = "RECEIVING"]
Completed(c) == [c EXCEPT !.status = "PROCESSING"]

(* close() *)
Closed(c) == [c EXCEPT !.closed = TRUE]

(* Fault: an idle connection is only marked. *)
StoppedLater(c) == [c EXCEPT !.stopped = TRUE]

(* stop(): only an idle connection is closed at once. *)
Stopped(c) ==
    [c EXCEPT !.stopped = TRUE, !.closed = c.closed \/ c.status = "PENDING"]

(* after_response(): what stop() put off is scheduled now. *)
Responded(c) ==
    [c EXCEPT !.status = "PENDING",
              !.closing = c.closing \/ (KeepAlive /\ c.stopped),
              !.closed = c.closed \/ ~KeepAlive]

(* The end of scheduled_close(). *)
CloseDone(c) == [c EXCEPT !.closing = FALSE, !.closed = TRUE]
=============================================================================
