---------------------------- MODULE ConnectionLife ----------------------------
(***************************************************************************)
(* The life of one connection as the reaper and stop_server rely on it: an *)
(* abstract specification that module Connection implements.               *)
(***************************************************************************)
EXTENDS ConnectionState

VARIABLE conn

Init == conn = Fresh

Receive == ~conn.closed /\ conn' = Received(conn)
Complete == conn' = Completed(conn)
Respond == conn' = Responded(conn)
Stop == conn' = Stopped(conn)
FinishClose == conn.closing /\ conn' = CloseDone(conn)
Lose == conn' = Closed(conn)

Next == Receive \/ Complete \/ Respond \/ Stop \/ FinishClose \/ Lose

Spec == Init /\ [][Next]_conn
=============================================================================
