----------------------------- MODULE Multipart -----------------------------
(***************************************************************************)
(* class MultipartParser of vibora/multipart/parser.pyx with the SmartFile *)
(* it writes to, and MultipartEncoder of containers.py.  A text is a       *)
(* sequence of symbols; "--", "bound" and the header of a part are symbols *)
(* of their own.                                                           *)
(***************************************************************************)
EXTENDS Integers, Sequences, SequencesExt

CONSTANTS
    FlushFactor,  \* how many boundaries fit into what is kept unflushed
    MemoryLimit,  \* in_memory_limit of SmartFile
    Disposition   \* for the header of a part, its field and whether it is
                  \* a file

ASSUME MultipartAssumption ==
    FlushFactor \in Nat \ {0} /\ MemoryLimit \in Nat

(* A field has a name; a header is no line break. *)
ASSUME DispositionAssumption ==
    \A header \in DOMAIN Disposition :
        header \notin {"CR", "LF"} /\ Disposition[header].name # "none"

Dashes == "--"
CRLF == <<"CR", "LF">>
StartBoundary == <<Dashes, "bound">>
EndBoundary == StartBoundary \o <<Dashes>> \o CRLF
Delimiter == CRLF \o StartBoundary
L == Len(StartBoundary)

(* bytearray.find(): the first index, counted from 0, or -1. *)
Find(text, piece) ==
    LET at == {i \in 0..Len(text) - Len(piece) :
                  SubSeq(text, i + 1, i + Len(piece)) = piece}
    IN  IF at = {} THEN -1 ELSE CHOOSE i \in at : \A j \in at : i <= j

(* text[:n] and text[n:] of Python, where a negative index counts from the *)
(* end.                                                                    *)
Before(text, n) ==
    SubSeq(text, 1, IF n < 0 THEN Len(text) + n ELSE n)
From(text, n) == SubSeq(text, n + 1, Len(text))
-----------------------------------------------------------------------------
(* SmartFile *)

NewFile(header) == [file |-> Disposition[header].file, buffer |-> <<>>]

(* write(): what does not fit into memory should go to a DiskFile, whose    *)
(* __init__() assigns attributes that the class does not declare.          *)
Overflows(f, text) == Len(f.buffer) + Len(text) > MemoryLimit
Written(f, text) == [f EXCEPT !.buffer = @ \o text]
-----------------------------------------------------------------------------
(* MultipartParser *)

NewForm ==
    [data |-> <<>>, values |-> <<>>, current |-> "none", status |-> "boundary",
     returned |-> FALSE, error |-> "none", hurt |-> FALSE]

Return(f) == [f EXCEPT !.returned = TRUE]
Raise(f, error) == [f EXCEPT !.returned = TRUE, !.error = error]

(* parse_header(): nothing happens without a name. *)
WithPart(f, text) ==
    LET headers == {h \in DOMAIN Disposition : \E i \in DOMAIN text :
                        text[i] = h}
        header == CHOOSE h \in headers : TRUE
        name == Disposition[header].name
    IN  IF headers = {} THEN f
        ELSE [f EXCEPT
                !.current = name,
                !.values = [n \in DOMAIN f.values \cup {name} |->
                               IF n = name THEN NewFile(header)
                               ELSE f.values[n]]]

(* `await self.current_buffer.write()`: there is no buffer, or no DiskFile. *)
Write(f, text) ==
    IF f.current = "none" \/ Overflows(f.values[f.current], text)
    THEN Raise(f, "AttributeError")
    ELSE [f EXCEPT !.values[f.current] = Written(@, text)]

Finish(f) ==
    IF f.data = <<>> \/ f.data = EndBoundary THEN Return(f) ELSE f

ExpectBoundary(f) ==
    LET pos == Find(f.data, StartBoundary)
    IN  IF f.returned \/ f.status # "boundary" THEN f
        ELSE IF Len(f.data) < L THEN Return(f)
        ELSE IF pos = -1 THEN Raise(f, "ValueError")
        ELSE [f EXCEPT !.data = From(@, pos + L), !.status = "headers"]

ExpectHeaders(f) ==
    LET pos == Find(f.data, CRLF \o CRLF)
    IN  IF f.returned \/ f.status # "headers" THEN f
        ELSE IF pos = -1 THEN Return(f)
        ELSE [WithPart(f, Before(f.data, pos)) EXCEPT
                !.data = From(@, pos + 4), !.status = "buffer"]

(* Fault: what is flushed is all there is. *)
FlushAll(f) == Return([Write(f, f.data) EXCEPT !.data = <<>>])

(* The last symbols stay, for a boundary may be sliced between two chunks; *)
(* hurt tells that the line break before it was not counted.               *)
Flush(f) ==
    LET n == Len(f.data)
    IN  Return([Write(f, Before(f.data, n - L)) EXCEPT
                  !.data = From(@, n - L),
                  !.hurt = @ \/ IsSuffix(Front(Delimiter), f.data)])

ExpectBuffer(f) ==
    LET pos == Find(f.data, StartBoundary)
    IN  IF f.returned \/ f.status # "buffer" THEN f
        ELSE IF pos # -1
        THEN [Write(f, Before(f.data, pos - 2)) EXCEPT
                !.data = From(@, pos), !.current = "none",
                !.status = "boundary"]
        ELSE IF Len(f.data) >= L * FlushFactor THEN Flush(f)
        ELSE Return(f)

(* One turn of the loop of feed(); every turn but the first that does not  *)
(* return leaves less data.                                                *)
Turn(f) == ExpectBuffer(ExpectHeaders(ExpectBoundary(Finish(f))))

TurnUnlessReturned(f, i) == IF f.returned THEN f ELSE Turn(f)

Feed(f, text) ==
    LET data == f.data \o text
    IN  IF f.error # "none" THEN f
        ELSE FoldLeftDomain(TurnUnlessReturned,
                            [f EXCEPT !.data = data, !.returned = FALSE],
                            Append(data, "LF"))

(* consume() *)
Consume(f) ==
    [n \in DOMAIN f.values |->
        [file |-> f.values[n].file, content |-> f.values[n].buffer]]
-----------------------------------------------------------------------------
(* MultipartEncoder.__iter__() *)

EncodedPart(part) ==
    StartBoundary \o CRLF \o <<part.header>> \o CRLF \o CRLF \o part.content
        \o CRLF

Encoded(parts) ==
    FlattenSeq([i \in DOMAIN parts |-> EncodedPart(parts[i])])
        \o StartBoundary \o <<Dashes>>

(* What a form of these parts should be parsed to: the last of the parts   *)
(* with the same name.                                                     *)
Expected(parts) ==
    LET NameOf(p) == Disposition[p.header].name
        names == {NameOf(parts[i]) : i \in DOMAIN parts}
        part(n) == parts[SelectLastInSeq(parts, LAMBDA p : NameOf(p) = n)]
    IN  [n \in names |-> [file |-> Disposition[part(n).header].file,
                          content |-> part(n).content]]

(* Whether every part fits into memory. *)
AllFit(parts) ==
    \A i \in DOMAIN parts : Len(parts[i].content) <= MemoryLimit
=============================================================================
