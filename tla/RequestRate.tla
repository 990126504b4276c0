----------------------------- MODULE RequestRate -----------------------------
(***************************************************************************)
(* vibora/client/limits.py: a limit of Count requests per Period.  The     *)
(* limiter is a record; flush is _next_flush, with NotSet for None.        *)
(***************************************************************************)
EXTENDS Integers

CONSTANTS Count, Period, Optimistic

ASSUME RateAssumption ==
    Count \in Nat /\ Period \in Nat /\ Optimistic \in BOOLEAN

NotSet == -1
NewRate == [flush |-> NotSet, usage |-> 0]

(* Fault: one request too many. *)
MustSleepLate(rate, now) ==
    rate.flush # NotSet /\ now < rate.flush /\ rate.usage > Count

(* notify() sleeps before it counts the request. *)
MustSleep(rate, now) ==
    rate.flush # NotSet /\ now < rate.flush /\ rate.usage >= Count

WaitTime(rate, now) == IF Optimistic THEN rate.flush - now ELSE Period

Opens(rate, now) == rate.flush = NotSet \/ now > rate.flush

(* notify() without sleep, and its last two lines after one. *)
Admitted(rate, now) ==
    IF Opens(rate, now)
    THEN [flush |-> now + Period,
          usage |-> IF rate.flush = NotSet THEN rate.usage + 1 ELSE 1]
    ELSE [rate EXCEPT !.usage = @ + 1]

AdmittedAfterSleep(rate) == [rate EXCEPT !.usage = 1]
=============================================================================
