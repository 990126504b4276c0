--------------------------- MODULE ConnectionPool ---------------------------
(***************************************************************************)
(* vibora/client/pool.py: the connections of one server.  A pool is a      *)
(* record; the right end of the deque is the end of the sequence.          *)
(***************************************************************************)
EXTENDS Integers, Sequences

EmptyPool == [available |-> <<>>, connections |-> {}]

(* create_connection(), once the socket is open. *)
Created(pool, c) == [pool EXCEPT !.connections = @ \cup {c}]

(* The first line of get_connection(). *)
HasAvailable(pool) == pool.available # <<>>
Popped(pool) == pool.available[Len(pool.available)]
Rest(pool) ==
    [pool EXCEPT !.available = SubSeq(@, 1, Len(@) - 1)]

(* release_connection(): kept for later, or closed and forgotten. *)
Kept(pool, c) == [pool EXCEPT !.available = <<c>> \o @]
Discarded(pool, c) == [pool EXCEPT !.connections = @ \ {c}]
=============================================================================
