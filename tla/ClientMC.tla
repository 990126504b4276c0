------------------------------ MODULE ClientMC ------------------------------
(* An instance of Client for TLC: what servers answer, what users ask for. *)
EXTENDS Client

Reply(kind, location, retry, keep) ==
    [kind |-> kind, location |-> location, retry |-> retry, keep |-> keep]

Bodies == {Reply(kind, NoOne, FALSE, keep) :
              kind \in {"length", "chunked", "empty", "emptyGzip",
                       "bodiless", "unframed"},
              keep \in BOOLEAN}
Plain == {Reply("length", NoOne, FALSE, TRUE)}
Moved == {Reply("empty", h, FALSE, TRUE) : h \in Hosts}
Again503 == {Reply("length", NoOne, TRUE, TRUE)}

MCReplies == Bodies \cup Moved \cup Again503

Policy(methods, failures, statuses) ==
    [network |-> [m \in methods |-> failures], statuses |-> statuses]
NoPolicy == Policy({}, 0, 0)
Never == Policy({"GET"}, 0, 0)

(* What a session sees: all kinds of bodies; failures and retries;         *)
(* redirects and retries; the limiter.                                     *)
Setup(replies, methods, policies) ==
    [replies |-> replies, methods |-> methods, policies |-> policies,
     stream |-> {FALSE}, calls |-> 3, keepAlive |-> TRUE, limited |-> FALSE,
     timeout |-> TRUE, faults |-> FALSE, closed |-> FALSE]

MCSetups ==
    {[Setup(Bodies, {"GET"}, {NoPolicy})
         EXCEPT !.stream = BOOLEAN, !.timeout = FALSE],
     [Setup(Plain, Methods, {NoPolicy, Never, Policy(Methods, 1, 0)})
         EXCEPT !.faults = TRUE, !.closed = TRUE, !.calls = 2],
     [Setup(Plain \cup Moved \cup Again503, {"POST"}, {Policy({"GET"}, 1, 1)})
         EXCEPT !.keepAlive = FALSE, !.calls = 2],
     [Setup(Plain, {"GET"}, {NoPolicy}) EXCEPT !.limited = TRUE]}
=============================================================================
