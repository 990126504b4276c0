----------------------------- MODULE HttpParser -----------------------------
(***************************************************************************)
(* class HttpParser of vibora/parsers/parser.pyx: what the callbacks of    *)
(* the C parser do with the pieces of a message, and the limits of its     *)
(* size.  A piece is what one packet holds of a URL, of the name or value  *)
(* of a header, or of a body; <<>> stands for None.                        *)
(***************************************************************************)
EXTENDS Naturals, Sequences, SequencesExt

CONSTANTS HeadersLimit, BodyLimit  \* 0 for no limit

ASSUME LimitsAssumption == HeadersLimit \in Nat /\ BodyLimit \in Nat

NewParser ==
    [url |-> <<>>, headers |-> <<>>, name |-> <<>>, value |-> <<>>,
     headersSize |-> 0, bodySize |-> 0, maxBody |-> BodyLimit,
     error |-> "none"]

Exceeds(size, limit) == limit > 0 /\ size > limit

(* cb_on_url(), cb_on_header_field() and cb_on_header_value() begin alike. *)
Counted(p, text) ==
    LET size == p.headersSize + Len(text)
    IN  [p EXCEPT !.headersSize = size,
                  !.error = IF Exceeds(size, HeadersLimit)
                            THEN "HeadersLimitError" ELSE @]

Failed(p) == p.error # "none"

(* _maybe_call_on_header() *)
WithHeader(p) ==
    IF p.name = <<>> THEN p
    ELSE [p EXCEPT !.headers = Append(@, [name |-> p.name, value |-> p.value]),
                   !.name = <<>>, !.value = <<>>]

OnUrl(p, text) ==
    LET q == Counted(p, text)
    IN  IF Failed(q) THEN q ELSE [q EXCEPT !.url = text]

(* _on_header_field() takes every piece of a name for a name. *)
OnHeaderField(p, text) ==
    LET q == Counted(p, text)
    IN  IF Failed(q) THEN q ELSE [WithHeader(q) EXCEPT !.name = text]

(* Fault: the last piece is the value. *)
OnHeaderValueLast(p, text) ==
    LET q == Counted(p, text)
    IN  IF Failed(q) THEN q ELSE [q EXCEPT !.value = text]

OnHeaderValue(p, text) ==
    LET q == Counted(p, text)
    IN  IF Failed(q) THEN q ELSE [q EXCEPT !.value = @ \o text]

(* _on_headers_complete(), around the call of the connection. *)
HeadersToGive(p) == WithHeader(p).headers
HeadersGiven(p) == [WithHeader(p) EXCEPT !.headers = <<>>]

(* _on_chunk_header() and _on_chunk_complete(), the latter after trailers  *)
(* too.                                                                    *)
OnChunkHeader(p) ==
    IF p.name # <<>> \/ p.value # <<>>
    THEN [p EXCEPT !.error = "HttpParserError"] ELSE p
OnChunkComplete(p) == WithHeader(p)

(* cb_on_body(), before the call of the connection. *)
OnBody(p, text) ==
    LET size == p.bodySize + Len(text)
    IN  IF p.maxBody = 0 THEN p
        ELSE [p EXCEPT !.bodySize = size,
                       !.error = IF Exceeds(size, p.maxBody)
                                 THEN "BodyLimitError" ELSE @]

(* Fault: the size of headers is counted on. *)
OnMessageCompleteKeeps(p) ==
    [p EXCEPT !.bodySize = 0, !.maxBody = BodyLimit]

(* cb_on_message_complete(), before the call of the connection. *)
OnMessageComplete(p) ==
    [p EXCEPT !.bodySize = 0, !.headersSize = 0, !.maxBody = BodyLimit]
=============================================================================
