----------------------------- MODULE RouteCache -----------------------------
(***************************************************************************)
(* class LRUCache of vibora/router/router.py, the cache in front of the    *)
(* route tables: a record of its dictionary, its deque (whose left end is  *)
(* the head of the sequence) and its counter.                              *)
(***************************************************************************)
EXTENDS Naturals, Sequences

CONSTANT MaxSize  \* max_size

ASSUME MaxSizeAssumption == MaxSize \in Nat

(* The dictionary `table` after `table[key] = value` for some keys. *)
With(table, keys, value) ==
    [k \in DOMAIN table \cup keys |-> IF k \in keys THEN value ELSE table[k]]

EmptyCache == [values |-> <<>>, queue |-> <<>>, size |-> 0]

(* Nothing is dropped before the counter has passed max_size. *)
Overflows(cache) == cache.size > MaxSize

(* set(): once the cache is full, the key that was dropped takes the place *)
(* of the one that was asked for.                                          *)
Store(cache, asked, route) ==
    LET n == Len(cache.queue)
        full == Overflows(cache)
        key == IF full THEN cache.queue[n] ELSE asked
        kept == IF full THEN SubSeq(cache.queue, 1, n - 1) ELSE cache.queue
    IN  [values |-> With(cache.values, {key}, route),
         queue |-> <<key>> \o kept,
         size |-> cache.size + 1]
=============================================================================
