--------------------------- MODULE Uploads_proofs ---------------------------
(***************************************************************************)
(* Proofs about Uploads for every client, every division of what it sends  *)
(* into packets, and all limits: a message is refused for its own size     *)
(* only, a handler gets the URL and headers that were sent, a form is      *)
(* parsed to the fields and files that were sent, and what is loaded keeps *)
(* the promise of its class.                                               *)
(*                                                                         *)
(* The messages of a connection are one sequence of pieces.  What has      *)
(* arrived of it, whole pieces and o symbols of the next one, says what    *)
(* the parser holds and has counted; that is what IInv says, and what each *)
(* callback keeps.                                                         *)
(***************************************************************************)
EXTENDS Uploads, Multipart_proofs
-----------------------------------------------------------------------------
(* What pieces there are. *)
Kinds == {"url", "field", "value", "headers", "chunk", "body", "chunkEnd",
          "end"}
PieceType == [kind : Kinds, text : Seq(Symbols \cup {"LF"})]

(* What is left of the connection: the pieces of the messages w are        *)
(* numbered from 0, and so are the pieces of one message m.                *)
All(w) == FlattenSeq([i \in DOMAIN w |-> Pieces(w[i])])

Start(w, k) == Len(Joined([i \in DOMAIN w |-> Pieces(w[i])], k - 1))

HeadersAt(m) == 2 * Len(m.headers) + 1
BodyAt(m) == HeadersAt(m) + 1
TrailersAt(m) == BodyAt(m) + 3 * Len(m.body) + 1

SizeTo(h, i) == SizeOf(SubSeq(HeaderPieces(h), 1, i))
HeadersSizeOf(m) == Len(m.url) + SizeOf(HeaderPieces(m.headers))
TrailersSizeOf(m) == SizeOf(HeaderPieces(m.trailers))
BodySizeOf(m) == Len(FlattenSeq(m.body))

(* The symbols of the URL and headers, and of the body, among the first i  *)
(* pieces of a message.                                                    *)
HeadersTo(m, i) ==
    IF i = 0 THEN 0
    ELSE IF i <= HeadersAt(m) THEN Len(m.url) + SizeTo(m.headers, i - 1)
    ELSE IF ~m.chunked \/ i <= TrailersAt(m) THEN HeadersSizeOf(m)
    ELSE IF i <= TrailersAt(m) + 2 * Len(m.trailers)
    THEN HeadersSizeOf(m) + SizeTo(m.trailers, i - TrailersAt(m))
    ELSE HeadersSizeOf(m) + TrailersSizeOf(m)

BodyTo(m, i) ==
    IF i <= BodyAt(m) THEN 0
    ELSE IF m.chunked /\ i < TrailersAt(m)
    THEN Len(Joined(m.body, (i - BodyAt(m) + 1) \div 3))
    ELSE BodySizeOf(m)
-----------------------------------------------------------------------------
(* What a parser holds that has read headers h up to the jth name and      *)
(* value, and after that name o symbols of its value; before them it had   *)
(* the headers b.                                                          *)
Idle(p, b) == p.name = <<>> /\ p.value = <<>> /\ p.headers = b

InValue(p, b, h, j, o) ==
    /\ p.name = h[j].name
    /\ p.value = SubSeq(h[j].value, 1, o)
    /\ p.headers = b \o SubSeq(h, 1, j - 1)

Between(p, b, h, j) ==
    IF j = 0 THEN Idle(p, b) ELSE InValue(p, b, h, j, Len(h[j].value))

Trail(w, k) == IF k = 1 THEN <<>> ELSE w[k - 1].trailers

(* What it holds in a message without cuts after i pieces and o symbols.   *)
InHeaders(p, m, b, i, o) ==
    /\ p.url = m.url
    /\ \A j \in 0..Len(m.headers) :
          i = 1 + 2 * j => o = 0 /\ Between(p, b, m.headers, j)
    /\ \A j \in 1..Len(m.headers) :
          i = 2 * j => InValue(p, b, m.headers, j, o)

InTrailers(p, m, i, o) ==
    /\ \A j \in 0..Len(m.trailers) :
          i = TrailersAt(m) + 2 * j => o = 0 /\ Between(p, <<>>, m.trailers, j)
    /\ \A j \in 1..Len(m.trailers) :
          i = TrailersAt(m) + 2 * j - 1 => InValue(p, <<>>, m.trailers, j, o)
    /\ i = TrailersAt(m) + 2 * Len(m.trailers) + 1 => Idle(p, m.trailers)

Faithful(p, w, k, i, o) ==
    IF i = 0 THEN o = 0 /\ Idle(p, Trail(w, k))
    ELSE IF i <= HeadersAt(w[k]) THEN InHeaders(p, w[k], Trail(w, k), i, o)
    ELSE IF ~w[k].chunked \/ i < TrailersAt(w[k]) THEN Idle(p, <<>>)
    ELSE InTrailers(p, w[k], i, o)

Uncut(C, k) == \A c \in C : c > k
-----------------------------------------------------------------------------
(* The state of a connection, as the callbacks have it. *)
Errors == {"none", "HeadersLimitError", "BodyLimitError", "HttpParserError"}
ParserType ==
    [url : Text, headers : Seq(HeaderLine), name : Text, value : Text,
     headersSize : Nat, bodySize : Nat, maxBody : Nat, error : Errors]
RequestType == [url : Text, headers : Seq(HeaderLine)]

StateType(s) ==
    /\ s = [parser |-> s.parser, requests |-> s.requests, form |-> s.form,
            forms |-> s.forms]
    /\ s.parser \in ParserType
    /\ s.requests \in Seq(RequestType)
    /\ s.forms \in Seq(Range(s.forms))

(* What is true of all requests so far. *)
Limits(w, s, C) ==
    LET n == Len(s.forms) + 1
        error == s.parser.error
    IN  /\ error = "HeadersLimitError" =>
              Exceeds(HeadersSizeOf(w[n]) + TrailersSizeOf(w[n]),
                      HeadersLimit)
        /\ error = "BodyLimitError" =>
              Exceeds(BodySizeOf(w[n]), LimitOf(s.requests[n].url))
        /\ error = "HttpParserError" => C # {}
        /\ \A m \in DOMAIN s.requests :
              ~Exceeds(HeadersSizeOf(w[m]), HeadersLimit)
        /\ \A m \in DOMAIN s.forms :
              /\ ~Exceeds(HeadersSizeOf(w[m]) + TrailersSizeOf(w[m]),
                          HeadersLimit)
              /\ ~Exceeds(BodySizeOf(w[m]), LimitOf(s.requests[m].url))

Given(w, s, C) ==
    \A m \in DOMAIN s.requests :
        Uncut(C, m) =>
            /\ w[m] \in Message
            /\ s.requests[m].url = w[m].url
            /\ s.requests[m].headers = Trail(w, m) \o w[m].headers

History(w, s, C) ==
    C \in SUBSET Nat /\ StateType(s) /\ Limits(w, s, C) /\ Given(w, s, C)

(* The form of a request with the headers h after n symbols of its body; a *)
(* body that says to be multipart is one if that is what was sent.  And    *)
(* what handlers got of theirs.                                            *)
FormUpTo(h, m, n) ==
    IF IsJson(h)
    THEN [error |-> "text", text |-> SubSeq(FlattenSeq(m.body), 1, n)]
    ELSE NoForm

Letters ==
    Symbols \cup {"CR", "LF", Dashes, "bound"} \cup DOMAIN Disposition

FormIs(h, m, f, n) ==
    /\ ~IsMultipart(h) => f = FormUpTo(h, m, n)
    /\ IsMultipart(h) /\ IsMultipart(m.headers) =>
          Parsed(Letters, m.parts, f, n)

HandedForm(m, f) ==
    ~f.hurt => IF AllFit(m.parts)
               THEN f.error = "none" /\ f.values = Expected(m.parts)
               ELSE f.error = "AttributeError"

HandedOne(m, h, f) ==
    /\ m \in Message
    /\ ~IsMultipart(h) => f = FormOf(FormUpTo(h, m, BodySizeOf(m)))
    /\ IsMultipart(h) /\ IsMultipart(m.headers) =>
          HandedForm(m, f)

Handed(w, s) ==
    \A n \in DOMAIN s.forms :
        HandedOne(w[n], s.requests[n].headers, s.forms[n])

Known(w, s, C) == History(w, s, C) /\ Handed(w, s)

(* The sizes and limits of a parser that has not failed, after i pieces of *)
(* the kth message and o symbols of the next one.                          *)
Sizes(s, m, k, i, o) ==
    LET kind == Pieces(m)[i + 1].kind
        p == s.parser
    IN  /\ p.headersSize =
              HeadersTo(m, i) + (IF kind \in Delimited THEN o ELSE 0)
        /\ ~Exceeds(p.headersSize, HeadersLimit)
        /\ p.maxBody = IF i < BodyAt(m) THEN BodyLimit
                       ELSE LimitOf(s.requests[k].url)
        /\ p.bodySize = IF p.maxBody = 0 THEN 0
                        ELSE BodyTo(m, i) + (IF kind = "body" THEN o ELSE 0)
        /\ ~Exceeds(p.bodySize, p.maxBody)

(* It is in the kth message, or after the last one. *)
InMessage(w, s, C, k, i, o) ==
    /\ k \in 1..Len(w) /\ i \in 0..Len(Pieces(w[k])) - 1
    /\ o \in 0..Len(Pieces(w[k])[i + 1].text)
    /\ Len(s.forms) = k - 1
    /\ Len(s.requests) = IF i < BodyAt(w[k]) THEN k - 1 ELSE k
    /\ Sizes(s, w[k], k, i, o)
    /\ Uncut(C, k) => Faithful(s.parser, w, k, i, o)

(* What has arrived of its body. *)
BodyUpTo(m, i, o) ==
    BodyTo(m, i) + (IF Pieces(m)[i + 1].kind = "body" THEN o ELSE 0)

Fed(w, s, k, i, o) ==
    ~(i < BodyAt(w[k])) =>
        FormIs(s.requests[k].headers, w[k], s.form, BodyUpTo(w[k], i, o))

AtEnd(w, s, C, k, i, o) ==
    /\ k = Len(w) + 1 /\ i = 0 /\ o = 0
    /\ Len(s.forms) = k - 1 /\ Len(s.requests) = k - 1

Reached(w, s, C, at, o) ==
    /\ ~Failed(s.parser)
    /\ \E k \in 1..Len(w) + 1 : \E i \in 0..Len(All(w)) :
          /\ at = Start(w, k) + i
          /\ \/ InMessage(w, s, C, k, i, o) /\ Fed(w, s, k, i, o)
             \/ AtEnd(w, s, C, k, i, o)

(* rest is what follows the first at pieces and o symbols. *)
Left(w, r, at, o) ==
    /\ r \in Seq(PieceType) /\ Len(r) = Len(All(w)) - at
    /\ o # 0 => at < Len(All(w))
    /\ \A x \in 1..Len(r) :
          r[x] = IF x = 1 THEN [All(w)[at + 1] EXCEPT !.text = From(@, o)]
                 ELSE All(w)[at + x]

Held(w, r, s, C) ==
    \E at \in 0..Len(All(w)) :
        \E o \in 0..(IF at < Len(All(w))
                     THEN Len(All(w)[at + 1].text) ELSE 0) :
            Left(w, r, at, o) /\ Reached(w, s, C, at, o)

Now == [parser |-> parser, requests |-> requests, form |-> form,
        forms |-> forms]

IInv ==
    /\ setup \in Setups
    /\ Known(setup, Now, cut)
    /\ ~Failed(parser) => Held(setup, rest, Now, cut)
-----------------------------------------------------------------------------
-----------------------------------------------------------------------------
(* A size grows piece by piece. *)
LEMMA SizeSteps ==
    ASSUME NEW pieces \in Seq(PieceType)
    PROVE  \E f : /\ f[0] = 0 /\ SizeOf(pieces) = f[Len(pieces)]
                  /\ \A i \in 1..Len(pieces) :
                        f[i] = f[i - 1] + Len(pieces[i].text)
<1>1. PICK k \in Nat : k = Len(pieces) /\ DOMAIN pieces = 1..k
  OBVIOUS
<1>2. \A i \in 1..k : Len(pieces[i].text) \in Nat
  BY <1>1 DEF PieceType
<1> DEFINE Fine(g) == g = [x \in SUBSET DOMAIN pieces |->
                 IF x = {} THEN 0
                 ELSE g[x \ {Max(x)}] + Len(pieces[Max(x)].text)]
           step == [i \in 1..k |->
                       [s \in Nat |-> s + Len(pieces[i].text)]]
<1>3. IsStep(step, k, Nat)
  BY <1>2 DEF IsStep
<1>4. PICK f : FoldsBy(f, k, Nat, 0, step)
  <2> HIDE DEF step
  <2> QED BY <1>3, FoldExists
<1> DEFINE h == [x \in SUBSET (1..k) |-> f[x]]
<1>5. ASSUME NEW x \in SUBSET (1..k), x # {}
      PROVE  h[x] = h[x \ {Max(x)}] + Len(pieces[Max(x)].text)
  <2>1. Max(x) \in 1..k /\ x \ {Max(x)} \in SUBSET (1..k)
    BY <1>5, MaxExists
  <2>2. /\ f[x \ {Max(x)}] \in Nat
        /\ f[x] = step[Max(x)][f[x \ {Max(x)}]]
    BY <1>4, <1>5, <2>1 DEF FoldsBy
  <2> QED BY <2>1, <2>2
<1>6. h[{}] = 0
  BY <1>4 DEF FoldsBy
<1>7. Fine(h)
  BY <1>1, <1>5, <1>6
<1>8. Fine(CHOOSE g : Fine(g))
  <2> HIDE DEF Fine
  <2> QED BY <1>7
<1>9. SizeOf(pieces) = (CHOOSE g : Fine(g))[DOMAIN pieces]
  BY DEF SizeOf, FoldLeft, MapThenFoldSet
<1>10. PICK g : Fine(g) /\ SizeOf(pieces) = g[DOMAIN pieces]
  <2> HIDE DEF Fine
  <2> QED BY <1>8, <1>9
<1> DEFINE e == [i \in 0..k |-> g[1..i]]
<1>11. e[0] = 0
  <2>1. 1..0 = {} /\ 0 \in 0..k
    OBVIOUS
  <2>2. g[{}] = 0
    BY <1>10
  <2> QED BY <2>1, <2>2
<1>12. ASSUME NEW i \in 1..k PROVE e[i] = e[i - 1] + Len(pieces[i].text)
  <2>1. /\ 1..i \in SUBSET (1..k) /\ 1..i # {}
        /\ Max(1..i) = i /\ (1..i) \ {i} = 1..i - 1
    BY FoldSteps
  <2>2. g[1..i] = g[1..i - 1] + Len(pieces[i].text)
    BY <1>1, <1>10, <2>1
  <2>3. i \in 0..k /\ i - 1 \in 0..k
    OBVIOUS
  <2> QED BY <2>2, <2>3
<1>13. SizeOf(pieces) = e[k]
  BY <1>1, <1>10
<1> HIDE DEF e
<1> QED BY <1>1, <1>11, <1>12, <1>13

(* What one more piece adds to a size. *)
LEMMA SizeAppend ==
    ASSUME NEW pieces \in Seq(PieceType)
    PROVE  /\ SizeOf(<<>>) = 0 /\ SizeOf(pieces) \in Nat
           /\ \A x \in PieceType :
                 SizeOf(Append(pieces, x)) = SizeOf(pieces) + Len(x.text)
<1>1. ASSUME NEW q \in Seq(PieceType), NEW n \in Nat, n = Len(q), NEW f,
             f[0] = 0, \A i \in 1..n : f[i] = f[i - 1] + Len(q[i].text)
      PROVE  \A i \in 0..n : f[i] \in Nat
  <2> DEFINE T == {i \in 0..n : f[i] \in Nat}
  <2>1. 0 \in T
    BY <1>1
  <2>2. ASSUME NEW i \in 1..n, i - 1 \in T PROVE i \in T
    <3>1. Len(q[i].text) \in Nat /\ f[i] = f[i - 1] + Len(q[i].text)
      BY <1>1 DEF PieceType
    <3>2. f[i - 1] \in Nat /\ i \in 0..n
      BY <2>2
    <3> QED BY <3>1, <3>2
  <2>3. 0..n \subseteq T
    <3> HIDE DEF T
    <3> QED BY <2>1, <2>2, InductionTo
  <2> QED BY <2>3
<1>2. SizeOf(<<>>) = 0
  <2>1. <<>> \in Seq(PieceType) /\ Len(<<>>) = 0
    OBVIOUS
  <2> QED BY <2>1, SizeSteps
<1>3. SizeOf(pieces) \in Nat
  <2>1. PICK n \in Nat : n = Len(pieces)
    OBVIOUS
  <2>2. PICK f : /\ f[0] = 0 /\ SizeOf(pieces) = f[n]
                 /\ \A i \in 1..n : f[i] = f[i - 1] + Len(pieces[i].text)
    BY <2>1, SizeSteps
  <2>3. \A i \in 0..n : f[i] \in Nat
    BY <1>1, <2>1, <2>2
  <2> QED BY <2>2, <2>3
<1>4. ASSUME NEW x \in PieceType
      PROVE  SizeOf(Append(pieces, x)) = SizeOf(pieces) + Len(x.text)
  <2>1. PICK n \in Nat : n = Len(pieces)
    OBVIOUS
  <2>2. PICK f : /\ f[0] = 0 /\ SizeOf(pieces) = f[n]
                 /\ \A i \in 1..n : f[i] = f[i - 1] + Len(pieces[i].text)
    BY <2>1, SizeSteps
  <2> DEFINE q == Append(pieces, x)
  <2>3. /\ q \in Seq(PieceType) /\ Len(q) = n + 1 /\ q[n + 1] = x
        /\ \A i \in 1..n : q[i] = pieces[i]
    BY <2>1
  <2> HIDE DEF q
  <2>4. PICK g : /\ g[0] = 0 /\ SizeOf(q) = g[n + 1]
                 /\ \A i \in 1..n + 1 : g[i] = g[i - 1] + Len(q[i].text)
    <3>1. PICK g : /\ g[0] = 0 /\ SizeOf(q) = g[Len(q)]
                   /\ \A i \in 1..Len(q) :
                         g[i] = g[i - 1] + Len(q[i].text)
      BY <2>3, SizeSteps
    <3> QED BY <2>3, <3>1
  <2> DEFINE T == {i \in 0..n : f[i] = g[i]}
  <2>5. 0 \in T
    BY <2>2, <2>4
  <2>6. ASSUME NEW i \in 1..n, i - 1 \in T PROVE i \in T
    <3>1. i \in 1..n + 1 /\ i \in 0..n /\ f[i - 1] = g[i - 1]
      BY <2>6
    <3>2. g[i] = g[i - 1] + Len(q[i].text)
      BY <2>4, <3>1
    <3>3. f[i] = f[i - 1] + Len(pieces[i].text)
      BY <2>2
    <3>4. q[i] = pieces[i]
      BY <2>3
    <3> QED BY <3>1, <3>2, <3>3, <3>4
  <2>7. 0..n \subseteq T
    <3> HIDE DEF T
    <3> QED BY <2>5, <2>6, InductionTo
  <2>8. f[n] = g[n]
    BY <2>7
  <2>9. n + 1 \in 1..n + 1 /\ (n + 1) - 1 = n
    OBVIOUS
  <2>10. g[n + 1] = g[n] + Len(q[n + 1].text)
    BY <2>4, <2>9
  <2> QED BY <2>2, <2>3, <2>4, <2>8, <2>10 DEF q
<1> QED BY <1>2, <1>3, <1>4

(* The size of beginnings. *)
LEMMA SizesTo ==
    ASSUME NEW pieces \in Seq(PieceType), NEW n \in Nat, n = Len(pieces)
    PROVE  /\ SizeOf(SubSeq(pieces, 1, 0)) = 0
           /\ SizeOf(SubSeq(pieces, 1, n)) = SizeOf(pieces)
           /\ \A i \in 0..n :
                 /\ SizeOf(SubSeq(pieces, 1, i)) \in Nat
                 /\ SizeOf(SubSeq(pieces, 1, i)) <= SizeOf(pieces)
           /\ \A i \in 0..n - 1 :
                 SizeOf(SubSeq(pieces, 1, i + 1)) =
                     SizeOf(SubSeq(pieces, 1, i)) + Len(pieces[i + 1].text)
<1> DEFINE f == [i \in 0..n |-> SizeOf(SubSeq(pieces, 1, i))]
<1>1. SubSeq(pieces, 1, 0) = <<>> /\ SubSeq(pieces, 1, n) = pieces
  BY Beginnings
<1>2. f[0] = 0 /\ f[n] = SizeOf(pieces)
  <2>1. 0 \in 0..n /\ n \in 0..n /\ SizeOf(<<>>) = 0
    BY SizeAppend
  <2> QED BY <1>1, <2>1
<1>3. ASSUME NEW i \in 0..n PROVE f[i] \in Nat
  BY Beginnings, SizeAppend
<1>4. ASSUME NEW i \in 0..n - 1
      PROVE  /\ f[i + 1] = f[i] + Len(pieces[i + 1].text)
             /\ Len(pieces[i + 1].text) \in Nat
  <2>1. /\ i \in 0..n /\ i + 1 \in 0..n /\ i + 1 \in 1..n
        /\ pieces[i + 1] \in PieceType
    OBVIOUS
  <2>2. SubSeq(pieces, 1, i) \in Seq(PieceType)
    BY <2>1, Beginnings
  <2>3. SubSeq(pieces, 1, i + 1) = Append(SubSeq(pieces, 1, i), pieces[i + 1])
    BY Beginnings
  <2>4. f[i + 1] = f[i] + Len(pieces[i + 1].text)
    BY <2>1, <2>2, <2>3, SizeAppend
  <2>5. Len(pieces[i + 1].text) \in Nat
    BY <2>1 DEF PieceType
  <2> QED BY <2>4, <2>5
<1> DEFINE T == {i \in 0..n : \A j \in 0..i : f[j] <= f[i]}
<1>5. 0 \in T
  <2>1. f[0] <= f[0] /\ 0 \in 0..n /\ \A j \in 0..0 : j = 0
    BY <1>2
  <2> HIDE DEF f
  <2> QED BY <2>1
<1>6. ASSUME NEW i \in 1..n, i - 1 \in T PROVE i \in T
  <2>1. i - 1 \in 0..n - 1 /\ (i - 1) + 1 = i /\ i \in 0..n /\ i - 1 \in 0..n
    OBVIOUS
  <2>2. f[i] = f[i - 1] + Len(pieces[i].text) /\ Len(pieces[i].text) \in Nat
    <3> HIDE DEF f
    <3> QED BY <1>4, <2>1
  <2>3. f[i - 1] \in Nat /\ f[i] \in Nat
    BY <1>3, <2>1
  <2> HIDE DEF f
  <2>4. f[i - 1] <= f[i]
    BY <2>2, <2>3
  <2>5. ASSUME NEW j \in 0..i PROVE f[j] <= f[i]
    <3>1. CASE j = i
      BY <2>3, <3>1
    <3>2. CASE j # i
      <4>1. j \in 0..i - 1 /\ j \in 0..n
        BY <3>2
      <4>2. f[j] <= f[i - 1] /\ f[j] \in Nat
        BY <1>3, <1>6, <4>1
      <4> QED BY <2>3, <2>4, <4>2
    <3> QED BY <3>1, <3>2
  <2> QED BY <2>1, <2>5
<1>7. n \in T
  <2>1. n \in 0..n
    OBVIOUS
  <2> HIDE DEF T
  <2>2. 0..n \subseteq T
    BY <1>5, <1>6, InductionTo
  <2> QED BY <2>1, <2>2
<1>8. ASSUME NEW i \in 0..n PROVE f[i] <= f[n]
  BY <1>7
<1>9. \A i \in 0..n : f[i] = SizeOf(SubSeq(pieces, 1, i))
  OBVIOUS
<1>10. \A i \in 0..n - 1 : i \in 0..n /\ i + 1 \in 0..n
  OBVIOUS
<1>11. 0 \in 0..n /\ n \in 0..n
  OBVIOUS
<1> HIDE DEF f
<1>12. ASSUME NEW i \in 0..n
       PROVE  /\ SizeOf(SubSeq(pieces, 1, i)) \in Nat
              /\ SizeOf(SubSeq(pieces, 1, i)) <= SizeOf(pieces)
  BY <1>2, <1>3, <1>8, <1>9
<1>13. ASSUME NEW i \in 0..n - 1
       PROVE  SizeOf(SubSeq(pieces, 1, i + 1)) =
                  SizeOf(SubSeq(pieces, 1, i)) + Len(pieces[i + 1].text)
  BY <1>4, <1>9, <1>10
<1>14. SizeOf(SubSeq(pieces, 1, 0)) = 0
  BY <1>2, <1>9, <1>11
<1>15. SizeOf(SubSeq(pieces, 1, n)) = SizeOf(pieces)
  BY <1>1
<1> QED BY <1>12, <1>13, <1>14, <1>15

(* Sequences of 2 or 3 elements join to those. *)
LEMMA Blocks ==
    ASSUME NEW S, NEW q \in Seq(Seq(S)), NEW b \in {2, 3},
           \A c \in 1..Len(q) : Len(q[c]) = b
    PROVE  /\ FlattenSeq(q) \in Seq(S) /\ Len(FlattenSeq(q)) = b * Len(q)
           /\ \A c \in 0..Len(q) : Len(Joined(q, c)) = b * c
           /\ \A c \in 1..Len(q) : \A j \in 1..b :
                 FlattenSeq(q)[b * (c - 1) + j] = q[c][j]
<1>1. PICK n \in Nat : n = Len(q)
  OBVIOUS
<1> DEFINE f == [c \in 0..n |-> Len(Joined(q, c))]
           T == {c \in 0..n : f[c] = b * c}
<1>2. 0 \in T
  <2>1. Joined(q, 0) = <<>> /\ 0 \in 0..n
    BY JoinedSteps
  <2>2. f[0] = 0
    BY <2>1
  <2> HIDE DEF f
  <2> QED BY <2>1, <2>2
<1>3. ASSUME NEW c \in 1..n, c - 1 \in T PROVE c \in T
  <2>1. c - 1 \in 0..n /\ c \in 0..n /\ c \in 1..Len(q)
    BY <1>1
  <2>2. f[c] = f[c - 1] + b
    BY <1>1, <2>1, JoinedAt, ZenonT(40)
  <2> HIDE DEF f
  <2>3. f[c - 1] = b * (c - 1)
    BY <1>3
  <2>4. CASE b = 2
    BY <2>1, <2>2, <2>3, <2>4
  <2>5. CASE b = 3
    BY <2>1, <2>2, <2>3, <2>5
  <2> QED BY <2>4, <2>5
<1>4. 0..n \subseteq T
  <2> HIDE DEF T
  <2> QED BY <1>2, <1>3, InductionTo
<1>5. \A c \in 0..n : Len(Joined(q, c)) = b * c
  <2>1. \A c \in 0..n : f[c] = b * c
    <3> HIDE DEF f
    <3> QED BY <1>4
  <2> QED BY <2>1
<1>6. Len(FlattenSeq(q)) = b * n
  <2>1. n \in 0..n /\ Joined(q, n) = FlattenSeq(q)
    BY <1>1, JoinedSteps
  <2> QED BY <1>5, <2>1
<1>7. ASSUME NEW c \in 1..n, NEW j \in 1..b
      PROVE  FlattenSeq(q)[b * (c - 1) + j] = q[c][j]
  <2>1. c - 1 \in 0..n /\ Len(q[c]) = b
    BY <1>1
  <2>2. Len(Joined(q, c - 1)) = b * (c - 1)
    BY <1>5, <2>1
  <2>3. c \in 1..Len(q) /\ j \in 1..Len(q[c])
    BY <1>1, <2>1
  <2>4. FlattenSeq(q)[Len(Joined(q, c - 1)) + j] = q[c][j]
    BY <2>3, JoinedAt, ZenonT(40)
  <2> QED BY <2>2, <2>4
<1> QED BY <1>1, <1>5, <1>6, <1>7, FlattenType

(* Headers are written as names and values in turn. *)
LEMMA HeaderPiecesAre ==
    ASSUME NEW h \in Seq(HeaderLine)
    PROVE  /\ HeaderPieces(h) \in Seq(PieceType)
           /\ Len(HeaderPieces(h)) = 2 * Len(h)
           /\ \A j \in 1..Len(h) :
                 /\ HeaderPieces(h)[2 * j - 1] = Piece("field", h[j].name)
                 /\ HeaderPieces(h)[2 * j] = Piece("value", h[j].value)
<1> DEFINE q == [i \in DOMAIN h |->
                    <<Piece("field", h[i].name), Piece("value", h[i].value)>>]
<1>1. PICK n \in Nat : n = Len(h) /\ DOMAIN h = 1..n
  OBVIOUS
<1>2. ASSUME NEW i \in 1..n
      PROVE  /\ q[i] = <<Piece("field", h[i].name),
                          Piece("value", h[i].value)>>
             /\ Piece("field", h[i].name) \in PieceType
             /\ Piece("value", h[i].value) \in PieceType
  <2>1. h[i].name \in Seq(Symbols) /\ h[i].value \in Seq(Symbols)
    <3>1. h[i] \in HeaderLine
      BY <1>1
    <3> QED BY <3>1 DEF HeaderLine, Text
  <2>2. /\ h[i].name \in Seq(Symbols \cup {"LF"})
        /\ h[i].value \in Seq(Symbols \cup {"LF"})
    BY <2>1
  <2>3. q[i] = <<Piece("field", h[i].name), Piece("value", h[i].value)>>
    BY <1>1
  <2>4. /\ Piece("field", h[i].name) \in PieceType
        /\ Piece("value", h[i].value) \in PieceType
    BY <2>2 DEF Piece, PieceType, Kinds
  <2> QED BY <2>3, <2>4
<1>3. ASSUME NEW i \in 1..n
      PROVE  q[i] \in Seq(PieceType) /\ Len(q[i]) = 2
  <2>1. PICK x \in PieceType, y \in PieceType : q[i] = <<x, y>>
    <3> HIDE DEF q
    <3> QED BY <1>2
  <2> HIDE DEF q
  <2> QED BY <2>1
<1>4. q \in Seq(Seq(PieceType)) /\ Len(q) = n
  <2>1. q = [i \in 1..n |-> q[i]]
    BY <1>1
  <2> HIDE DEF q
  <2> QED BY <1>3, <2>1
<1>5. HeaderPieces(h) = FlattenSeq(q)
  BY DEF HeaderPieces
<1> HIDE DEF q
<1>6. /\ FlattenSeq(q) \in Seq(PieceType) /\ Len(FlattenSeq(q)) = 2 * n
      /\ \A c \in 1..n : \A j \in 1..2 :
            FlattenSeq(q)[2 * (c - 1) + j] = q[c][j]
  <2>1. /\ 2 \in {2, 3} /\ q \in Seq(Seq(PieceType))
        /\ \A c \in 1..Len(q) : Len(q[c]) = 2
    BY <1>3, <1>4
  <2>2. /\ FlattenSeq(q) \in Seq(PieceType)
        /\ Len(FlattenSeq(q)) = 2 * Len(q)
        /\ \A c \in 1..Len(q) : \A j \in 1..2 :
              FlattenSeq(q)[2 * (c - 1) + j] = q[c][j]
    BY <2>1, Blocks
  <2> QED BY <1>4, <2>2
<1>7. ASSUME NEW j \in 1..n
      PROVE  /\ HeaderPieces(h)[2 * j - 1] = Piece("field", h[j].name)
             /\ HeaderPieces(h)[2 * j] = Piece("value", h[j].value)
  <2>1. /\ FlattenSeq(q)[2 * (j - 1) + 1] = q[j][1]
        /\ FlattenSeq(q)[2 * (j - 1) + 2] = q[j][2]
    BY <1>6
  <2>2. 2 * (j - 1) + 1 = 2 * j - 1 /\ 2 * (j - 1) + 2 = 2 * j
    OBVIOUS
  <2> QED BY <1>2, <1>5, <2>1, <2>2
<1> QED BY <1>1, <1>5, <1>6, <1>7
-----------------------------------------------------------------------------
(* What can be next in a message after i pieces. *)
AtUrl(m, i, x) == i = 0 /\ x = Piece("url", m.url)
AtField(m, i, x) ==
    \E j \in 1..Len(m.headers) :
        i = 2 * j - 1 /\ x = Piece("field", m.headers[j].name)
AtValue(m, i, x) ==
    \E j \in 1..Len(m.headers) :
        i = 2 * j /\ x = Piece("value", m.headers[j].value)
AtHeaders(m, i, x) == i = HeadersAt(m) /\ x = Mark("headers")
AtWhole(m, i, x) ==
    /\ ~m.chunked /\ i = BodyAt(m) /\ x = Piece("body", FlattenSeq(m.body))
AtChunk(m, i, x) ==
    /\ m.chunked /\ x = Mark("chunk")
    /\ \E c \in 1..Len(m.body) + 1 : i = BodyAt(m) + 3 * (c - 1)
AtBody(m, i, x) ==
    /\ m.chunked
    /\ \E c \in 1..Len(m.body) :
          i = BodyAt(m) + 3 * (c - 1) + 1 /\ x = Piece("body", m.body[c])
AtChunkEnd(m, i, x) ==
    /\ m.chunked /\ x = Mark("chunkEnd")
    /\ \E c \in 1..Len(m.body) : i = BodyAt(m) + 3 * (c - 1) + 2
AtTrailerField(m, i, x) ==
    /\ m.chunked
    /\ \E j \in 1..Len(m.trailers) :
          /\ i = TrailersAt(m) + 2 * (j - 1)
          /\ x = Piece("field", m.trailers[j].name)
AtTrailerValue(m, i, x) ==
    /\ m.chunked
    /\ \E j \in 1..Len(m.trailers) :
          /\ i = TrailersAt(m) + 2 * (j - 1) + 1
          /\ x = Piece("value", m.trailers[j].value)
AtTrailersEnd(m, i, x) ==
    /\ m.chunked /\ i = TrailersAt(m) + 2 * Len(m.trailers)
    /\ x = Mark("chunkEnd")
AtEndOf(m, i, x) ==
    /\ i + 1 = Len(Pieces(m)) /\ x = End
    /\ IF m.chunked THEN i = TrailersAt(m) + 2 * Len(m.trailers) + 1
       ELSE i = IF FlattenSeq(m.body) = <<>> THEN BodyAt(m) ELSE BodyAt(m) + 1

InHead(m, i, x) ==
    AtUrl(m, i, x) \/ AtField(m, i, x) \/ AtValue(m, i, x)
        \/ AtHeaders(m, i, x)
InChunks(m, i, x) ==
    AtWhole(m, i, x) \/ AtChunk(m, i, x) \/ AtBody(m, i, x)
        \/ AtChunkEnd(m, i, x)
InTail(m, i, x) ==
    AtTrailerField(m, i, x) \/ AtTrailerValue(m, i, x)
        \/ AtTrailersEnd(m, i, x) \/ AtEndOf(m, i, x)

(* The types of the parts of a message. *)
LEMMA MessageParts ==
    ASSUME NEW m \in Message
    PROVE  /\ m.url \in Text /\ m.body \in Seq(Text) /\ m.chunked \in BOOLEAN
           /\ m.headers \in Seq(HeaderLine) /\ m.trailers \in Seq(HeaderLine)
           /\ Len(m.headers) \in Nat /\ Len(m.trailers) \in Nat
           /\ Len(m.body) \in Nat /\ Len(m.url) \in Nat
           /\ HeadersAt(m) = 2 * Len(m.headers) + 1
           /\ BodyAt(m) = 2 * Len(m.headers) + 2
           /\ TrailersAt(m) = 2 * Len(m.headers) + 3 * Len(m.body) + 3
<1>1. /\ m.url \in Text /\ m.body \in Seq(Text) /\ m.chunked \in BOOLEAN
      /\ m.headers \in Seq(HeaderLine) /\ m.trailers \in Seq(HeaderLine)
  <2>1. m.url \in Text /\ m.body \in Seq(Text)
    BY DEF Message
  <2>2. m.chunked \in BOOLEAN
    BY ZenonT(30) DEF Message
  <2>3. m.headers \in Seq(HeaderLine) /\ m.trailers \in Seq(HeaderLine)
    BY DEF Message
  <2> QED BY <2>1, <2>2, <2>3
<1>2. /\ Len(m.headers) \in Nat /\ Len(m.trailers) \in Nat
      /\ Len(m.body) \in Nat /\ Len(m.url) \in Nat
  BY <1>1 DEF Text
<1>3. /\ HeadersAt(m) = 2 * Len(m.headers) + 1
      /\ BodyAt(m) = 2 * Len(m.headers) + 2
      /\ TrailersAt(m) = 2 * Len(m.headers) + 3 * Len(m.body) + 3
  <2>1. PICK h \in Nat : h = Len(m.headers)
    BY <1>2
  <2>2. PICK b \in Nat : b = Len(m.body)
    BY <1>2
  <2>3. HeadersAt(m) = 2 * h + 1
    BY <2>1 DEF HeadersAt
  <2>4. BodyAt(m) = 2 * h + 2
    BY <2>3 DEF BodyAt
  <2>5. TrailersAt(m) = 2 * h + 3 * b + 3
    <3>1. TrailersAt(m) = BodyAt(m) + 3 * b + 1
      BY <2>2 DEF TrailersAt
    <3> QED BY <2>4, <3>1
  <2> QED BY <2>1, <2>2, <2>3, <2>4, <2>5
<1> QED BY <1>1, <1>2, <1>3

(* The marks and texts are pieces. *)
LEMMA PieceTypes ==
    /\ \A kind \in Kinds : Mark(kind) \in PieceType
    /\ End \in PieceType
    /\ \A kind \in Kinds, text \in Text : Piece(kind, text) \in PieceType
<1>1. ASSUME NEW kind \in Kinds, NEW text \in Seq(Symbols \cup {"LF"})
      PROVE  Piece(kind, text) \in PieceType
  BY DEF Piece, PieceType
<1>2. <<"LF">> \in Seq(Symbols \cup {"LF"})
      /\ <<>> \in Seq(Symbols \cup {"LF"})
  OBVIOUS
<1>3. \A text \in Text : text \in Seq(Symbols \cup {"LF"})
  BY DEF Text
<1>4. "end" \in Kinds
  BY DEF Kinds
<1> QED BY <1>1, <1>2, <1>3, <1>4 DEF Mark, End

(* What a sequence holds that is joined of two. *)
LEMMA Concatenated ==
    ASSUME NEW S, NEW a \in Seq(S), NEW b \in Seq(S)
    PROVE  /\ a \o b \in Seq(S) /\ Len(a \o b) = Len(a) + Len(b)
           /\ \A i \in 1..Len(a) : (a \o b)[i] = a[i]
           /\ \A i \in 1..Len(b) : (a \o b)[Len(a) + i] = b[i]
OBVIOUS

(* What the pieces of a body in chunks are. *)
ChunksAre(m, B, K) ==
    /\ BodyPieces(m) \in Seq(PieceType)
    /\ Len(BodyPieces(m)) = 3 * B + 2 * K + 2
    /\ \A c \in 1..B :
          /\ BodyPieces(m)[3 * (c - 1) + 1] = Mark("chunk")
          /\ BodyPieces(m)[3 * (c - 1) + 2] = Piece("body", m.body[c])
          /\ BodyPieces(m)[3 * (c - 1) + 3] = Mark("chunkEnd")
    /\ BodyPieces(m)[3 * B + 1] = Mark("chunk")
    /\ \A j \in 1..K :
          /\ BodyPieces(m)[3 * B + 2 * j] =
                 Piece("field", m.trailers[j].name)
          /\ BodyPieces(m)[3 * B + 2 * j + 1] =
                 Piece("value", m.trailers[j].value)
    /\ BodyPieces(m)[3 * B + 2 * K + 2] = Mark("chunkEnd")

(* The pieces of a body in chunks. *)
LEMMA ChunkPiecesAre ==
    ASSUME NEW m \in Message, m.chunked
    PROVE  ChunksAre(m, Len(m.body), Len(m.trailers))
<1> DEFINE q == [i \in DOMAIN m.body |->
                    <<Mark("chunk"), Piece("body", m.body[i]),
                      Mark("chunkEnd")>>]
           t == HeaderPieces(m.trailers)
           a == FlattenSeq(q)
<1>a. PICK B \in Nat : B = Len(m.body)
  BY MessageParts
<1>b. PICK K \in Nat : K = Len(m.trailers)
  BY MessageParts
<1>1. m.body \in Seq(Text) /\ m.trailers \in Seq(HeaderLine)
  BY MessageParts
<1>2. m.body \in Seq(Text) /\ DOMAIN m.body = 1..B
      /\ m.trailers \in Seq(HeaderLine)
  BY <1>1, <1>a
<1>3. Mark("chunk") \in PieceType /\ Mark("chunkEnd") \in PieceType
  BY PieceTypes DEF Kinds
<1>4. ASSUME NEW i \in 1..B
      PROVE  /\ q[i] = <<Mark("chunk"), Piece("body", m.body[i]),
                         Mark("chunkEnd")>>
             /\ Piece("body", m.body[i]) \in PieceType
  <2>1. m.body[i] \in Text
    BY <1>2
  <2>2. q[i] = <<Mark("chunk"), Piece("body", m.body[i]), Mark("chunkEnd")>>
    BY <1>2
  <2> QED BY <2>1, <2>2, PieceTypes DEF Kinds
<1>5. ASSUME NEW i \in 1..B
      PROVE  q[i] \in Seq(PieceType) /\ Len(q[i]) = 3
  <2>1. PICK x \in PieceType, y \in PieceType, z \in PieceType :
            q[i] = <<x, y, z>>
    <3> HIDE DEF q
    <3> QED BY <1>3, <1>4
  <2> HIDE DEF q
  <2> QED BY <2>1
<1>6. q \in Seq(Seq(PieceType)) /\ Len(q) = B
  <2>1. q = [i \in 1..B |-> q[i]]
    BY <1>2
  <2> HIDE DEF q
  <2>2. \A i \in 1..B : q[i] \in Seq(PieceType)
    BY <1>5
  <2> HIDE DEF PieceType
  <2>3. q \in Seq(Seq(PieceType))
    BY <2>1, <2>2
  <2> QED BY <2>1, <2>3
<1>7. BodyPieces(m) = a \o <<Mark("chunk")>> \o t \o <<Mark("chunkEnd")>>
  BY DEF BodyPieces
<1>8. /\ a \in Seq(PieceType) /\ Len(a) = 3 * B
      /\ \A c \in 1..B : \A j \in 1..3 : a[3 * (c - 1) + j] = q[c][j]
  <2> HIDE DEF q
  <2>1. /\ 3 \in {2, 3} /\ q \in Seq(Seq(PieceType))
        /\ \A c \in 1..Len(q) : Len(q[c]) = 3
    BY <1>5, <1>6
  <2>2. /\ a \in Seq(PieceType) /\ Len(a) = 3 * Len(q)
        /\ \A c \in 1..Len(q) : \A j \in 1..3 : a[3 * (c - 1) + j] = q[c][j]
    BY <2>1, Blocks
  <2> QED BY <1>6, <2>2
<1>9. /\ t \in Seq(PieceType) /\ Len(t) = 2 * K
      /\ \A j \in 1..K : /\ t[2 * j - 1] = Piece("field", m.trailers[j].name)
                         /\ t[2 * j] = Piece("value", m.trailers[j].value)
  BY <1>2, <1>b, HeaderPiecesAre
<1>10. ASSUME NEW c \in 1..B
      PROVE  /\ a[3 * (c - 1) + 1] = Mark("chunk")
             /\ a[3 * (c - 1) + 2] = Piece("body", m.body[c])
             /\ a[3 * (c - 1) + 3] = Mark("chunkEnd")
  <2> HIDE DEF q, a
  <2>1. /\ a[3 * (c - 1) + 1] = q[c][1] /\ a[3 * (c - 1) + 2] = q[c][2]
        /\ a[3 * (c - 1) + 3] = q[c][3]
    BY <1>8
  <2> QED BY <1>4, <2>1
<1> HIDE DEF q, a, t
<1>11. PICK u \in PieceType, v \in PieceType :
           u = Mark("chunk") /\ v = Mark("chunkEnd")
  BY <1>3
<1> DEFINE x == a \o <<u>>
           y == x \o t
           z == y \o <<v>>
<1>12. BodyPieces(m) = z
  BY <1>7, <1>11
<1>13. <<u>> \in Seq(PieceType) /\ Len(<<u>>) = 1 /\ <<u>>[1] = u
       /\ <<v>> \in Seq(PieceType) /\ Len(<<v>>) = 1 /\ <<v>>[1] = v
  OBVIOUS
<1>14. /\ x \in Seq(PieceType) /\ Len(x) = 3 * B + 1
       /\ \A i \in 1..3 * B : x[i] = a[i]
       /\ x[3 * B + 1] = u
  <2>1. /\ x \in Seq(PieceType) /\ Len(x) = Len(a) + Len(<<u>>)
        /\ \A i \in 1..Len(a) : x[i] = a[i]
        /\ \A i \in 1..Len(<<u>>) : x[Len(a) + i] = <<u>>[i]
    BY <1>8, <1>13, Concatenated
  <2>2. 1 \in 1..1
    OBVIOUS
  <2> HIDE DEF x
  <2> QED BY <1>8, <1>13, <2>1, <2>2
<1> HIDE DEF x
<1>15. /\ y \in Seq(PieceType) /\ Len(y) = 3 * B + 1 + 2 * K
       /\ \A i \in 1..3 * B + 1 : y[i] = x[i]
       /\ \A i \in 1..2 * K : y[3 * B + 1 + i] = t[i]
  <2>1. /\ y \in Seq(PieceType) /\ Len(y) = Len(x) + Len(t)
        /\ \A i \in 1..Len(x) : y[i] = x[i]
        /\ \A i \in 1..Len(t) : y[Len(x) + i] = t[i]
    BY <1>9, <1>14, Concatenated
  <2> HIDE DEF y
  <2> QED BY <1>9, <1>14, <2>1
<1> HIDE DEF y
<1>16. /\ z \in Seq(PieceType) /\ Len(z) = 3 * B + 2 * K + 2
       /\ \A i \in 1..3 * B + 1 + 2 * K : z[i] = y[i]
       /\ z[3 * B + 2 * K + 2] = v
  <2>1. /\ z \in Seq(PieceType) /\ Len(z) = (3 * B + 1 + 2 * K) + 1
        /\ \A i \in 1..3 * B + 1 + 2 * K : z[i] = y[i]
        /\ z[(3 * B + 1 + 2 * K) + 1] = <<v>>[1]
    <3>1. /\ z \in Seq(PieceType) /\ Len(z) = Len(y) + Len(<<v>>)
          /\ \A i \in 1..Len(y) : z[i] = y[i]
          /\ \A i \in 1..Len(<<v>>) : z[Len(y) + i] = <<v>>[i]
      BY <1>13, <1>15, Concatenated
    <3>2. 1 \in 1..1
      OBVIOUS
    <3> HIDE DEF z
    <3> QED BY <1>13, <1>15, <3>1, <3>2
  <2>2. (3 * B + 1 + 2 * K) + 1 = 3 * B + 2 * K + 2
    OBVIOUS
  <2> QED BY <1>13, <2>1, <2>2
<1> HIDE DEF z
<1>17. /\ \A i \in 1..3 * B : z[i] = a[i]
       /\ z[3 * B + 1] = u
       /\ \A i \in 1..2 * K : z[3 * B + 1 + i] = t[i]
  <2>1. 3 * B + 1 \in 1..3 * B + 1 /\ 3 * B + 1 \in 1..3 * B + 1 + 2 * K
    OBVIOUS
  <2>2. \A i \in 1..3 * B : i \in 1..3 * B + 1 /\ i \in 1..3 * B + 1 + 2 * K
    OBVIOUS
  <2>3. \A i \in 1..2 * K : 3 * B + 1 + i \in 1..3 * B + 1 + 2 * K
    OBVIOUS
  <2>4. z[3 * B + 1] = u
    BY <1>14, <1>15, <1>16, <2>1
  <2>5. \A i \in 1..3 * B : z[i] = a[i]
    BY <1>14, <1>15, <1>16, <2>2
  <2>6. \A i \in 1..2 * K : z[3 * B + 1 + i] = t[i]
    BY <1>15, <1>16, <2>3
  <2> QED BY <2>4, <2>5, <2>6
<1>18. ASSUME NEW c \in 1..B
       PROVE  /\ BodyPieces(m)[3 * (c - 1) + 1] = Mark("chunk")
              /\ BodyPieces(m)[3 * (c - 1) + 2] = Piece("body", m.body[c])
              /\ BodyPieces(m)[3 * (c - 1) + 3] = Mark("chunkEnd")
  <2>1. \A d \in 1..3 : 3 * (c - 1) + d \in 1..3 * B
    OBVIOUS
  <2>2. \A d \in 1..3 : z[3 * (c - 1) + d] = a[3 * (c - 1) + d]
    BY <1>17, <2>1
  <2>3. /\ z[3 * (c - 1) + 1] = a[3 * (c - 1) + 1]
        /\ z[3 * (c - 1) + 2] = a[3 * (c - 1) + 2]
        /\ z[3 * (c - 1) + 3] = a[3 * (c - 1) + 3]
    BY <2>2
  <2> QED BY <1>10, <1>12, <2>3
<1>19. ASSUME NEW j \in 1..K
       PROVE  /\ BodyPieces(m)[3 * B + 2 * j] =
                     Piece("field", m.trailers[j].name)
              /\ BodyPieces(m)[3 * B + 2 * j + 1] =
                     Piece("value", m.trailers[j].value)
  <2>1. /\ 2 * j - 1 \in 1..2 * K /\ 2 * j \in 1..2 * K
        /\ j \in Int
        /\ 3 * B + 1 + (2 * j - 1) = 3 * B + 2 * j
        /\ 3 * B + 1 + 2 * j = 3 * B + 2 * j + 1
    OBVIOUS
  <2>2. /\ z[3 * B + 1 + (2 * j - 1)] = t[2 * j - 1]
        /\ z[3 * B + 1 + 2 * j] = t[2 * j]
    BY <1>17, <2>1
  <2>3. /\ z[3 * B + 2 * j] = t[2 * j - 1]
        /\ z[3 * B + 2 * j + 1] = t[2 * j]
    BY <2>1, <2>2
  <2> QED BY <1>9, <1>12, <2>3
<1>20. /\ BodyPieces(m) \in Seq(PieceType)
       /\ Len(BodyPieces(m)) = 3 * B + 2 * K + 2
       /\ BodyPieces(m)[3 * B + 1] = Mark("chunk")
       /\ BodyPieces(m)[3 * B + 2 * K + 2] = Mark("chunkEnd")
  BY <1>11, <1>12, <1>16, <1>17
<1>21. ChunksAre(m, B, K)
  BY <1>18, <1>19, <1>20 DEF ChunksAre
<1> QED BY <1>a, <1>b, <1>21

(* The pieces of any body. *)
LEMMA BodyPiecesAre ==
    ASSUME NEW m \in Message
    PROVE  /\ BodyPieces(m) \in Seq(PieceType)
           /\ FlattenSeq(m.body) \in Text
           /\ ~m.chunked =>
                 IF FlattenSeq(m.body) = <<>> THEN BodyPieces(m) = <<>>
                 ELSE BodyPieces(m) = <<Piece("body", FlattenSeq(m.body))>>
<1>1. FlattenSeq(m.body) \in Text
  <2>1. m.body \in Seq(Seq(Symbols))
    BY MessageParts DEF Text
  <2> QED BY <2>1, FlattenType DEF Text
<1>2. CASE m.chunked
  <2>1. BodyPieces(m) \in Seq(PieceType)
    <3>1. ChunksAre(m, Len(m.body), Len(m.trailers))
      BY <1>2, ChunkPiecesAre, ZenonT(30)
    <3> QED BY <3>1 DEF ChunksAre
  <2> QED BY <1>1, <1>2, <2>1
<1>3. CASE ~m.chunked
  <2>1. IF FlattenSeq(m.body) = <<>> THEN BodyPieces(m) = <<>>
        ELSE BodyPieces(m) = <<Piece("body", FlattenSeq(m.body))>>
    BY <1>3 DEF BodyPieces
  <2>2. Piece("body", FlattenSeq(m.body)) \in PieceType
    BY <1>1, PieceTypes DEF Kinds
  <2>3. BodyPieces(m) \in Seq(PieceType)
    <3>1. PICK x \in PieceType : x = Piece("body", FlattenSeq(m.body))
      BY <2>2
    <3>2. <<>> \in Seq(PieceType) /\ <<x>> \in Seq(PieceType)
      OBVIOUS
    <3>3. BodyPieces(m) = <<>> \/ BodyPieces(m) = <<x>>
      BY <2>1, <3>1
    <3> QED BY <3>2, <3>3
  <2> QED BY <1>1, <2>1, <2>3
<1> QED BY <1>2, <1>3

(* The pieces of a message. *)
LEMMA PiecesAre ==
    ASSUME NEW m \in Message
    PROVE  LET H == Len(m.headers)
               B == Len(BodyPieces(m))
           IN
           /\ Pieces(m) \in Seq(PieceType)
           /\ Len(Pieces(m)) = 2 * H + B + 3
           /\ Pieces(m)[1] = Piece("url", m.url)
           /\ \A j \in 1..H :
                 /\ Pieces(m)[2 * j] = Piece("field", m.headers[j].name)
                 /\ Pieces(m)[2 * j + 1] = Piece("value", m.headers[j].value)
           /\ Pieces(m)[2 * H + 2] = Mark("headers")
           /\ \A i \in 1..B : Pieces(m)[2 * H + 2 + i] = BodyPieces(m)[i]
           /\ Pieces(m)[2 * H + B + 3] = End
<1> DEFINE h == HeaderPieces(m.headers)
           b == BodyPieces(m)
<1>1. PICK H \in Nat : H = Len(m.headers)
  BY MessageParts
<1>2. b \in Seq(PieceType)
  BY BodyPiecesAre
<1> HIDE DEF b
<1>3. PICK B \in Nat : B = Len(b)
  BY <1>2
<1>4. /\ h \in Seq(PieceType) /\ Len(h) = 2 * H
      /\ \A j \in 1..H : /\ h[2 * j - 1] = Piece("field", m.headers[j].name)
                         /\ h[2 * j] = Piece("value", m.headers[j].value)
  BY <1>1, MessageParts, HeaderPiecesAre
<1> HIDE DEF h
<1>5. PICK u \in PieceType : u = Piece("url", m.url)
  <2>1. m.url \in Text
    BY MessageParts
  <2> QED BY <2>1, PieceTypes DEF Kinds
<1>6. PICK v \in PieceType : v = Mark("headers")
  BY PieceTypes DEF Kinds
<1>7. PICK e \in PieceType : e = End
  BY PieceTypes
<1>8. /\ <<u>> \in Seq(PieceType) /\ Len(<<u>>) = 1 /\ <<u>>[1] = u
      /\ <<v>> \in Seq(PieceType) /\ Len(<<v>>) = 1 /\ <<v>>[1] = v
      /\ <<e>> \in Seq(PieceType) /\ Len(<<e>>) = 1 /\ <<e>>[1] = e
  OBVIOUS
<1> DEFINE w == <<u>> \o h
           x == w \o <<v>>
           y == x \o b
           z == y \o <<e>>
<1>9. Pieces(m) = z
  BY <1>5, <1>6, <1>7 DEF Pieces, h, b
<1>10. /\ w \in Seq(PieceType) /\ Len(w) = 2 * H + 1
       /\ w[1] = u /\ \A i \in 1..2 * H : w[i + 1] = h[i]
  <2>1. /\ w \in Seq(PieceType) /\ Len(w) = Len(<<u>>) + Len(h)
        /\ \A i \in 1..Len(<<u>>) : w[i] = <<u>>[i]
        /\ \A i \in 1..Len(h) : w[Len(<<u>>) + i] = h[i]
    BY <1>4, <1>8, Concatenated
  <2>2. 1 \in 1..1 /\ \A i \in 1..2 * H : 1 + i = i + 1
    OBVIOUS
  <2> HIDE DEF w
  <2> QED BY <1>4, <1>8, <2>1, <2>2
<1> HIDE DEF w
<1>11. /\ x \in Seq(PieceType) /\ Len(x) = 2 * H + 2
       /\ \A i \in 1..2 * H + 1 : x[i] = w[i]
       /\ x[2 * H + 2] = v
  <2>1. /\ x \in Seq(PieceType) /\ Len(x) = Len(w) + Len(<<v>>)
        /\ \A i \in 1..Len(w) : x[i] = w[i]
        /\ \A i \in 1..Len(<<v>>) : x[Len(w) + i] = <<v>>[i]
    BY <1>8, <1>10, Concatenated
  <2>2. 1 \in 1..1 /\ (2 * H + 1) + 1 = 2 * H + 2
    OBVIOUS
  <2> HIDE DEF x
  <2> QED BY <1>8, <1>10, <2>1, <2>2
<1> HIDE DEF x
<1>12. /\ y \in Seq(PieceType) /\ Len(y) = 2 * H + 2 + B
       /\ \A i \in 1..2 * H + 2 : y[i] = x[i]
       /\ \A i \in 1..B : y[2 * H + 2 + i] = b[i]
  <2>1. /\ y \in Seq(PieceType) /\ Len(y) = Len(x) + Len(b)
        /\ \A i \in 1..Len(x) : y[i] = x[i]
        /\ \A i \in 1..Len(b) : y[Len(x) + i] = b[i]
    <3>1. y = x \o b
      OBVIOUS
    <3>2. x \in Seq(PieceType)
      BY <1>11
    <3> HIDE DEF y
    <3> QED BY <1>2, <3>1, <3>2, Concatenated
  <2> HIDE DEF y
  <2> QED BY <1>3, <1>11, <2>1
<1> HIDE DEF y
<1>13. /\ z \in Seq(PieceType) /\ Len(z) = 2 * H + B + 3
       /\ \A i \in 1..2 * H + 2 + B : z[i] = y[i]
       /\ z[2 * H + B + 3] = e
  <2>1. /\ z \in Seq(PieceType) /\ Len(z) = Len(y) + Len(<<e>>)
        /\ \A i \in 1..Len(y) : z[i] = y[i]
        /\ \A i \in 1..Len(<<e>>) : z[Len(y) + i] = <<e>>[i]
    <3>1. z = y \o <<e>>
      OBVIOUS
    <3>2. PICK s : s = <<e>> /\ s \in Seq(PieceType)
      BY <1>8
    <3>3. y \in Seq(PieceType)
      BY <1>12
    <3> HIDE DEF z
    <3>4. /\ z \in Seq(PieceType) /\ Len(z) = Len(y) + Len(s)
          /\ \A i \in 1..Len(y) : z[i] = y[i]
          /\ \A i \in 1..Len(s) : z[Len(y) + i] = s[i]
      BY <3>1, <3>2, <3>3, Concatenated
    <3> QED BY <3>2, <3>4
  <2>2. 1 \in 1..1 /\ (2 * H + 2 + B) + 1 = 2 * H + B + 3
    OBVIOUS
  <2> HIDE DEF z
  <2> QED BY <1>8, <1>12, <2>1, <2>2
<1> HIDE DEF z
<1>14. /\ z[1] = u /\ z[2 * H + 2] = v
       /\ \A i \in 1..2 * H : z[i + 1] = h[i]
       /\ \A i \in 1..B : z[2 * H + 2 + i] = b[i]
  <2>1. /\ 1 \in 1..2 * H + 1 /\ 1 \in 1..2 * H + 2 /\ 1 \in 1..2 * H + 2 + B
        /\ 2 * H + 2 \in 1..2 * H + 2 /\ 2 * H + 2 \in 1..2 * H + 2 + B
    OBVIOUS
  <2>2. \A i \in 1..2 * H : /\ i + 1 \in 1..2 * H + 1
                            /\ i + 1 \in 1..2 * H + 2
                            /\ i + 1 \in 1..2 * H + 2 + B
    OBVIOUS
  <2>3. \A i \in 1..B : 2 * H + 2 + i \in 1..2 * H + 2 + B
    OBVIOUS
  <2>4. z[1] = u
    BY <1>10, <1>11, <1>12, <1>13, <2>1
  <2>5. z[2 * H + 2] = v
    BY <1>11, <1>12, <1>13, <2>1
  <2>6. \A i \in 1..2 * H : z[i + 1] = h[i]
    BY <1>10, <1>11, <1>12, <1>13, <2>2
  <2>7. \A i \in 1..B : z[2 * H + 2 + i] = b[i]
    BY <1>12, <1>13, <2>3
  <2> QED BY <2>4, <2>5, <2>6, <2>7
<1>15. ASSUME NEW j \in 1..H
       PROVE  /\ z[2 * j] = Piece("field", m.headers[j].name)
              /\ z[2 * j + 1] = Piece("value", m.headers[j].value)
  <2>1. /\ 2 * j - 1 \in 1..2 * H /\ 2 * j \in 1..2 * H
        /\ (2 * j - 1) + 1 = 2 * j
    OBVIOUS
  <2>2. z[(2 * j - 1) + 1] = h[2 * j - 1] /\ z[2 * j + 1] = h[2 * j]
    BY <1>14, <2>1
  <2> QED BY <1>4, <2>1, <2>2
<1> QED BY <1>1, <1>3, <1>5, <1>6, <1>7, <1>9, <1>13, <1>14, <1>15 DEF b

(* Every number is twice or three times another, with a rest. *)
LEMMA Remainders ==
    ASSUME NEW n \in Nat
    PROVE  /\ \E j \in Nat : n = 2 * j \/ n = 2 * j + 1
           /\ \E c \in Nat : n = 3 * c \/ n = 3 * c + 1 \/ n = 3 * c + 2
<1>1. \E j \in Nat : n = 2 * j \/ n = 2 * j + 1
  <2>1. n \div 2 \in Nat /\ (n = 2 * (n \div 2) \/ n = 2 * (n \div 2) + 1)
    OBVIOUS
  <2> QED BY <2>1
<1>2. \E c \in Nat : n = 3 * c \/ n = 3 * c + 1 \/ n = 3 * c + 2
  <2>1. /\ n \div 3 \in Nat
        /\ \/ n = 3 * (n \div 3) \/ n = 3 * (n \div 3) + 1
           \/ n = 3 * (n \div 3) + 2
    OBVIOUS
  <2> QED BY <2>1
<1> QED BY <1>1, <1>2

(* Every piece of a message is in one of these places. *)
LEMMA Places ==
    ASSUME NEW m \in Message, NEW i \in 0..Len(Pieces(m)) - 1, NEW x,
           x = Pieces(m)[i + 1]
    PROVE  InHead(m, i, x) \/ InChunks(m, i, x) \/ InTail(m, i, x)
<1>1. PICK H \in Nat : H = Len(m.headers)
  BY MessageParts
<1>2. PICK B \in Nat : B = Len(m.body)
  BY MessageParts
<1>3. PICK K \in Nat : K = Len(m.trailers)
  BY MessageParts
<1>4. PICK N \in Nat : N = Len(BodyPieces(m))
  BY BodyPiecesAre
<1>5. /\ HeadersAt(m) = 2 * H + 1 /\ BodyAt(m) = 2 * H + 2
      /\ TrailersAt(m) = 2 * H + 3 * B + 3
  BY <1>1, <1>2, MessageParts
<1>6. Len(Pieces(m)) = 2 * H + N + 3
  BY <1>1, <1>4, PiecesAre
<1>7. i \in Nat /\ i <= 2 * H + N + 2
  BY <1>6
<1>8. CASE i = 0
  <2>1. x = Piece("url", m.url)
    BY <1>8, PiecesAre
  <2> QED BY <1>8, <2>1 DEF InHead, AtUrl
<1>9. CASE i # 0 /\ i <= 2 * H
  <2>1. PICK j \in Nat : i = 2 * j \/ i = 2 * j + 1
    BY <1>7, Remainders
  <2>2. \A d \in 1..H :
            /\ Pieces(m)[2 * d] = Piece("field", m.headers[d].name)
            /\ Pieces(m)[2 * d + 1] = Piece("value", m.headers[d].value)
    BY <1>1, PiecesAre
  <2>3. CASE i = 2 * j
    <3>1. j \in 1..H
      BY <1>9, <2>3
    <3>2. x = Piece("value", m.headers[j].value)
      BY <2>2, <2>3, <3>1
    <3> QED BY <1>1, <2>3, <3>1, <3>2 DEF InHead, AtValue
  <2>4. CASE i = 2 * j + 1
    <3>1. j + 1 \in 1..H /\ i = 2 * (j + 1) - 1 /\ i + 1 = 2 * (j + 1)
      BY <1>9, <2>4
    <3>2. x = Piece("field", m.headers[j + 1].name)
      BY <2>2, <3>1
    <3>3. AtField(m, i, x)
      BY <1>1, <3>1, <3>2 DEF AtField
    <3> QED BY <3>3 DEF InHead
  <2> QED BY <2>1, <2>3, <2>4
<1>10. CASE i = 2 * H + 1
  <2>1. i + 1 = 2 * H + 2
    BY <1>10
  <2>2. x = Mark("headers")
    BY <1>1, <2>1, PiecesAre
  <2> QED BY <1>5, <1>10, <2>2 DEF InHead, AtHeaders
<1>11. CASE i >= 2 * H + 2 /\ i < 2 * H + N + 2
  <2>1. PICK y \in Nat : y = i - (2 * H + 2)
    BY <1>7, <1>11
  <2>2. y + 1 \in 1..N /\ i = 2 * H + 2 + y /\ i + 1 = 2 * H + 2 + (y + 1)
    BY <1>7, <1>11, <2>1
  <2>3. x = BodyPieces(m)[y + 1]
    BY <1>1, <1>4, <2>2, PiecesAre
  <2>4. CASE ~m.chunked
    <3>1. FlattenSeq(m.body) # <<>>
      <4>1. Len(<<>>) = 0 /\ N # 0
        BY <2>2
      <4> QED BY <1>4, <2>4, <4>1, BodyPiecesAre
    <3>2. PICK p : /\ p = Piece("body", FlattenSeq(m.body))
                   /\ BodyPieces(m) = <<p>>
      BY <2>4, <3>1, BodyPiecesAre
    <3>3. N = 1
      BY <1>4, <3>2
    <3>4. y = 0
      BY <2>2, <3>3
    <3>5. x = p
      BY <2>3, <3>2, <3>4
    <3>6. i = BodyAt(m)
      BY <1>5, <2>2, <3>4
    <3> QED BY <2>4, <3>2, <3>5, <3>6 DEF InChunks, AtWhole
  <2>5. CASE m.chunked
    <3>1. ChunksAre(m, B, K)
      BY <1>2, <1>3, <2>5, ChunkPiecesAre
    <3>2. N = 3 * B + 2 * K + 2
      BY <1>4, <3>1 DEF ChunksAre
    <3>3. CASE y < 3 * B
      <4>1. PICK c \in Nat : y = 3 * c \/ y = 3 * c + 1 \/ y = 3 * c + 2
        BY Remainders
      <4>2. PICK d \in Nat : d = c + 1
        OBVIOUS
      <4>3. d \in 1..B /\ (d - 1 = c)
        BY <3>3, <4>1, <4>2
      <4>4. /\ BodyPieces(m)[3 * (d - 1) + 1] = Mark("chunk")
            /\ BodyPieces(m)[3 * (d - 1) + 2] = Piece("body", m.body[d])
            /\ BodyPieces(m)[3 * (d - 1) + 3] = Mark("chunkEnd")
        BY <3>1, <4>3 DEF ChunksAre
      <4>5. CASE y = 3 * c
        <5>1. y + 1 = 3 * (d - 1) + 1 /\ d \in 1..B + 1
              /\ i = BodyAt(m) + 3 * (d - 1)
          BY <1>5, <2>2, <4>3, <4>5
        <5>2. x = Mark("chunk")
          BY <2>3, <4>4, <5>1
        <5>3. AtChunk(m, i, x)
          BY <1>2, <2>5, <5>1, <5>2 DEF AtChunk
        <5> QED BY <5>3 DEF InChunks
      <4>6. CASE y = 3 * c + 1
        <5>1. y + 1 = 3 * (d - 1) + 2 /\ i = BodyAt(m) + 3 * (d - 1) + 1
          BY <1>5, <2>2, <4>3, <4>6
        <5>2. x = Piece("body", m.body[d])
          BY <2>3, <4>4, <5>1
        <5>3. AtBody(m, i, x)
          BY <1>2, <2>5, <4>3, <5>1, <5>2 DEF AtBody
        <5> QED BY <5>3 DEF InChunks
      <4>7. CASE y = 3 * c + 2
        <5>1. y + 1 = 3 * (d - 1) + 3 /\ i = BodyAt(m) + 3 * (d - 1) + 2
          BY <1>5, <2>2, <4>3, <4>7
        <5>2. x = Mark("chunkEnd")
          BY <2>3, <4>4, <5>1
        <5>3. AtChunkEnd(m, i, x)
          BY <1>2, <2>5, <4>3, <5>1, <5>2 DEF AtChunkEnd
        <5> QED BY <5>3 DEF InChunks
      <4> QED BY <4>1, <4>5, <4>6, <4>7
    <3>4. CASE y = 3 * B
      <4>1. x = Mark("chunk")
        BY <2>3, <3>1, <3>4 DEF ChunksAre
      <4>2. B + 1 \in 1..B + 1 /\ i = BodyAt(m) + 3 * ((B + 1) - 1)
        BY <1>5, <2>2, <3>4
      <4>3. AtChunk(m, i, x)
        BY <1>2, <2>5, <4>1, <4>2 DEF AtChunk
      <4> QED BY <4>3 DEF InChunks
    <3>5. CASE y > 3 * B /\ y <= 3 * B + 2 * K
      <4>1. PICK z \in Nat : z = y - 3 * B - 1
        BY <3>5
      <4>2. PICK c \in Nat : z = 2 * c \/ z = 2 * c + 1
        BY Remainders
      <4>3. PICK j \in Nat : j = c + 1
        OBVIOUS
      <4>4. j \in 1..K /\ (y = 3 * B + 2 * j - 1 \/ y = 3 * B + 2 * j)
        BY <3>5, <4>1, <4>2, <4>3
      <4>5. /\ BodyPieces(m)[3 * B + 2 * j] =
                   Piece("field", m.trailers[j].name)
            /\ BodyPieces(m)[3 * B + 2 * j + 1] =
                   Piece("value", m.trailers[j].value)
        BY <3>1, <4>4 DEF ChunksAre
      <4>6. CASE y = 3 * B + 2 * j - 1
        <5>1. y + 1 = 3 * B + 2 * j /\ i = TrailersAt(m) + 2 * (j - 1)
          BY <1>5, <2>2, <4>6
        <5>2. x = Piece("field", m.trailers[j].name)
          BY <2>3, <4>5, <5>1
        <5>3. AtTrailerField(m, i, x)
          BY <1>3, <2>5, <4>4, <5>1, <5>2 DEF AtTrailerField
        <5> QED BY <5>3 DEF InTail
      <4>7. CASE y = 3 * B + 2 * j
        <5>1. y + 1 = 3 * B + 2 * j + 1 /\ i = TrailersAt(m) + 2 * (j - 1) + 1
          BY <1>5, <2>2, <4>7
        <5>2. x = Piece("value", m.trailers[j].value)
          BY <2>3, <4>5, <5>1
        <5>3. AtTrailerValue(m, i, x)
          BY <1>3, <2>5, <4>4, <5>1, <5>2 DEF AtTrailerValue
        <5> QED BY <5>3 DEF InTail
      <4> QED BY <4>4, <4>6, <4>7
    <3>6. CASE y > 3 * B + 2 * K
      <4>1. y + 1 = 3 * B + 2 * K + 2
        BY <2>2, <3>2, <3>6
      <4>2. x = Mark("chunkEnd")
        BY <2>3, <3>1, <4>1 DEF ChunksAre
      <4>3. i = TrailersAt(m) + 2 * K
        BY <1>5, <2>2, <4>1
      <4>4. AtTrailersEnd(m, i, x)
        BY <1>3, <2>5, <4>2, <4>3 DEF AtTrailersEnd
      <4> QED BY <4>4 DEF InTail
    <3> QED BY <3>3, <3>4, <3>5, <3>6
  <2> QED BY <2>4, <2>5
<1>12. CASE i = 2 * H + N + 2
  <2>1. i + 1 = 2 * H + N + 3
    BY <1>12
  <2>2. x = End
    BY <1>1, <1>4, <2>1, PiecesAre
  <2>3. i + 1 = Len(Pieces(m))
    BY <1>6, <2>1
  <2>4. CASE m.chunked
    <3>1. N = 3 * B + 2 * K + 2
      BY <1>2, <1>3, <1>4, <2>4, ChunkPiecesAre DEF ChunksAre
    <3>2. i = TrailersAt(m) + 2 * K + 1
      BY <1>5, <1>12, <3>1
    <3> QED BY <1>3, <2>2, <2>3, <2>4, <3>2 DEF InTail, AtEndOf
  <2>5. CASE ~m.chunked
    <3>1. i = IF FlattenSeq(m.body) = <<>> THEN BodyAt(m) ELSE BodyAt(m) + 1
      <4>1. CASE FlattenSeq(m.body) = <<>>
        <5>1. BodyPieces(m) = <<>> /\ Len(<<>>) = 0
          BY <2>5, <4>1, BodyPiecesAre
        <5>2. N = 0
          BY <1>4, <5>1
        <5> QED BY <1>5, <1>12, <4>1, <5>2
      <4>2. CASE FlattenSeq(m.body) # <<>>
        <5>1. PICK p : BodyPieces(m) = <<p>>
          BY <2>5, <4>2, BodyPiecesAre
        <5>2. N = 1
          BY <1>4, <5>1
        <5> QED BY <1>5, <1>12, <4>2, <5>2
      <4> QED BY <4>1, <4>2
    <3> QED BY <2>2, <2>3, <2>5, <3>1 DEF InTail, AtEndOf
  <2> QED BY <2>4, <2>5
<1> QED BY <1>7, <1>8, <1>9, <1>10, <1>11, <1>12
-----------------------------------------------------------------------------
(* The sizes of headers, name by name and value by value. *)
LEMMA SizeToSteps ==
    ASSUME NEW h \in Seq(HeaderLine), NEW n \in Nat, n = Len(h)
    PROVE  /\ SizeTo(h, 0) = 0 /\ SizeTo(h, 2 * n) = SizeOf(HeaderPieces(h))
           /\ SizeOf(HeaderPieces(h)) \in Nat
           /\ \A i \in 0..2 * n : /\ SizeTo(h, i) \in Nat
                                  /\ SizeTo(h, i) <= SizeOf(HeaderPieces(h))
           /\ \A j \in 1..n :
                 /\ Len(h[j].name) \in Nat /\ Len(h[j].value) \in Nat
                 /\ SizeTo(h, 2 * j - 1) =
                        SizeTo(h, 2 * (j - 1)) + Len(h[j].name)
                 /\ SizeTo(h, 2 * j) =
                        SizeTo(h, 2 * j - 1) + Len(h[j].value)
<1>1. PICK k \in Nat : k = 2 * n
  OBVIOUS
<1>2. /\ HeaderPieces(h) \in Seq(PieceType) /\ Len(HeaderPieces(h)) = k
      /\ \A j \in 1..n :
            /\ HeaderPieces(h)[2 * j - 1] = Piece("field", h[j].name)
            /\ HeaderPieces(h)[2 * j] = Piece("value", h[j].value)
  BY <1>1, HeaderPiecesAre
<1>3. /\ SizeTo(h, 0) = 0 /\ SizeTo(h, k) = SizeOf(HeaderPieces(h))
      /\ SizeOf(HeaderPieces(h)) \in Nat
      /\ \A i \in 0..k : /\ SizeTo(h, i) \in Nat
                         /\ SizeTo(h, i) <= SizeOf(HeaderPieces(h))
      /\ \A i \in 0..k - 1 :
            SizeTo(h, i + 1) = SizeTo(h, i) + Len(HeaderPieces(h)[i + 1].text)
  BY <1>2, SizesTo, SizeAppend DEF SizeTo
<1>4. ASSUME NEW j \in 1..n
      PROVE  /\ Len(h[j].name) \in Nat /\ Len(h[j].value) \in Nat
             /\ SizeTo(h, 2 * j - 1) =
                    SizeTo(h, 2 * (j - 1)) + Len(h[j].name)
             /\ SizeTo(h, 2 * j) = SizeTo(h, 2 * j - 1) + Len(h[j].value)
  <2>1. h[j] \in HeaderLine
    OBVIOUS
  <2>2. Len(h[j].name) \in Nat /\ Len(h[j].value) \in Nat
    BY <2>1 DEF HeaderLine, Text
  <2>3. /\ 2 * (j - 1) \in 0..k - 1 /\ 2 * j - 1 \in 0..k - 1
        /\ 2 * (j - 1) + 1 = 2 * j - 1 /\ (2 * j - 1) + 1 = 2 * j
    BY <1>1
  <2>4. /\ HeaderPieces(h)[2 * (j - 1) + 1].text = h[j].name
        /\ HeaderPieces(h)[(2 * j - 1) + 1].text = h[j].value
    <3>1. /\ HeaderPieces(h)[2 * (j - 1) + 1] = Piece("field", h[j].name)
          /\ HeaderPieces(h)[(2 * j - 1) + 1] = Piece("value", h[j].value)
      BY <1>2, <2>3
    <3>2. /\ Piece("field", h[j].name).text = h[j].name
          /\ Piece("value", h[j].value).text = h[j].value
      BY DEF Piece
    <3> QED BY <3>1, <3>2
  <2>5. /\ SizeTo(h, 2 * (j - 1) + 1) =
               SizeTo(h, 2 * (j - 1)) + Len(h[j].name)
        /\ SizeTo(h, (2 * j - 1) + 1) =
               SizeTo(h, 2 * j - 1) + Len(h[j].value)
    BY <1>3, <2>3, <2>4
  <2> QED BY <2>2, <2>3, <2>5
<1> QED BY <1>1, <1>3, <1>4

(* The sizes of bodies, chunk by chunk. *)
LEMMA BodySteps ==
    ASSUME NEW m \in Message, NEW n \in Nat, n = Len(m.body)
    PROVE  /\ Len(Joined(m.body, 0)) = 0 /\ BodySizeOf(m) \in Nat
           /\ Len(Joined(m.body, n)) = BodySizeOf(m)
           /\ \A c \in 0..n : /\ Len(Joined(m.body, c)) \in Nat
                              /\ Len(Joined(m.body, c)) <= BodySizeOf(m)
           /\ \A c \in 1..n :
                 /\ Len(m.body[c]) \in Nat
                 /\ Len(Joined(m.body, c)) =
                        Len(Joined(m.body, c - 1)) + Len(m.body[c])
<1>1. m.body \in Seq(Seq(Symbols))
  BY MessageParts DEF Text
<1>2. Joined(m.body, 0) = <<>> /\ Joined(m.body, n) = FlattenSeq(m.body)
  BY <1>1, JoinedSteps
<1>3. FlattenSeq(m.body) \in Seq(Symbols)
  BY <1>1, FlattenType
<1>4. BodySizeOf(m) \in Nat /\ BodySizeOf(m) = Len(FlattenSeq(m.body))
  BY <1>3 DEF BodySizeOf
<1>5. ASSUME NEW c \in 0..n
      PROVE  /\ Len(Joined(m.body, c)) \in Nat
             /\ Len(Joined(m.body, c)) <= BodySizeOf(m)
  <2>1. Joined(m.body, c) \in Seq(Symbols)
    BY <1>1, JoinedSteps
  <2>2. CASE c = 0
    BY <1>2, <1>4, <2>2
  <2>3. CASE c # 0
    <3>1. c \in 1..n
      BY <2>3
    <3>2. Len(Joined(m.body, c)) <= Len(FlattenSeq(m.body))
      BY <1>1, <3>1, JoinedAt
    <3> QED BY <1>4, <2>1, <3>2
  <2> QED BY <2>2, <2>3
<1>6. ASSUME NEW c \in 1..n
      PROVE  /\ Len(m.body[c]) \in Nat
             /\ Len(Joined(m.body, c)) =
                    Len(Joined(m.body, c - 1)) + Len(m.body[c])
  <2>1. m.body[c] \in Seq(Symbols)
    BY <1>1
  <2>2. Len(Joined(m.body, c)) = Len(Joined(m.body, c - 1)) + Len(m.body[c])
    BY <1>1, JoinedAt
  <2> QED BY <2>1, <2>2
<1> QED BY <1>2, <1>4, <1>5, <1>6

(* What a piece adds to the sizes of its message. *)
Adds(m, i, x) ==
    /\ Len(x.text) \in Nat
    /\ HeadersTo(m, i) \in Nat /\ BodyTo(m, i) \in Nat
    /\ HeadersTo(m, i + 1) =
           HeadersTo(m, i) + (IF x.kind \in Delimited THEN Len(x.text) ELSE 0)
    /\ HeadersTo(m, i + 1) <= HeadersSizeOf(m) + TrailersSizeOf(m)
    /\ BodyTo(m, i + 1) =
           BodyTo(m, i) + (IF x.kind = "body" THEN Len(x.text) ELSE 0)
    /\ BodyTo(m, i + 1) <= BodySizeOf(m)

(* The sizes up to each place. *)
HeadersToIs(m, H, B, K) ==
    /\ HeadersTo(m, 0) = 0
    /\ \A i \in 1..2 * H + 1 :
          HeadersTo(m, i) = Len(m.url) + SizeTo(m.headers, i - 1)
    /\ \A i \in Nat : /\ i > 2 * H + 1
                      /\ ~m.chunked \/ i <= 2 * H + 3 * B + 3
                      => HeadersTo(m, i) = HeadersSizeOf(m)
    /\ m.chunked => \A y \in 0..2 * K :
          HeadersTo(m, 2 * H + 3 * B + 3 + y) =
              HeadersSizeOf(m) + SizeTo(m.trailers, y)
    /\ m.chunked => \A y \in Nat : y > 2 * K =>
          HeadersTo(m, 2 * H + 3 * B + 3 + y) =
              HeadersSizeOf(m) + TrailersSizeOf(m)

BodyToIs(m, H, B) ==
    /\ \A i \in Nat : i <= 2 * H + 2 => BodyTo(m, i) = 0
    /\ m.chunked => \A c \in 0..B :
          BodyTo(m, 2 * H + 2 + 3 * c) = Len(Joined(m.body, c))
    /\ m.chunked => \A c \in 1..B :
          /\ BodyTo(m, 2 * H + 2 + 3 * (c - 1) + 1) =
                 Len(Joined(m.body, c - 1))
          /\ BodyTo(m, 2 * H + 2 + 3 * (c - 1) + 2) = Len(Joined(m.body, c))
    /\ \A i \in Nat : /\ i > 2 * H + 2
                      /\ ~m.chunked \/ i >= 2 * H + 3 * B + 3
                      => BodyTo(m, i) = BodySizeOf(m)

(* HeadersTo and BodyTo are the functions said above.                      *)
LEMMA SizesAre ==
    ASSUME NEW m \in Message
    PROVE  /\ HeadersToIs(m, Len(m.headers), Len(m.body), Len(m.trailers))
           /\ BodyToIs(m, Len(m.headers), Len(m.body))
           /\ HeadersSizeOf(m) = Len(m.url) + SizeOf(HeaderPieces(m.headers))
           /\ HeadersSizeOf(m) \in Nat /\ TrailersSizeOf(m) \in Nat
<1>1. PICK H \in Nat : H = Len(m.headers)
  BY MessageParts
<1>2. PICK B \in Nat : B = Len(m.body)
  BY MessageParts
<1>3. PICK K \in Nat : K = Len(m.trailers)
  BY MessageParts
<1>4. /\ HeadersAt(m) = 2 * H + 1 /\ BodyAt(m) = 2 * H + 2
      /\ TrailersAt(m) = 2 * H + 3 * B + 3
  BY <1>1, <1>2, MessageParts
<1>5. /\ SizeTo(m.headers, 2 * H) = SizeOf(HeaderPieces(m.headers))
      /\ SizeTo(m.trailers, 0) = 0
      /\ SizeTo(m.trailers, 2 * K) = SizeOf(HeaderPieces(m.trailers))
      /\ SizeOf(HeaderPieces(m.headers)) \in Nat
      /\ SizeOf(HeaderPieces(m.trailers)) \in Nat
  <2>1. m.headers \in Seq(HeaderLine) /\ m.trailers \in Seq(HeaderLine)
    BY MessageParts
  <2> QED BY <1>1, <1>3, <2>1, SizeToSteps
<1>6. HeadersSizeOf(m) \in Nat /\ TrailersSizeOf(m) \in Nat
      /\ HeadersSizeOf(m) = Len(m.url) + SizeOf(HeaderPieces(m.headers))
  <2>1. Len(m.url) \in Nat
    BY MessageParts
  <2> QED BY <1>5, <2>1 DEF HeadersSizeOf, TrailersSizeOf
<1>7. HeadersTo(m, 0) = 0
  BY DEF HeadersTo
<1>8. ASSUME NEW i \in 1..2 * H + 1
      PROVE  HeadersTo(m, i) = Len(m.url) + SizeTo(m.headers, i - 1)
  <2>1. i # 0 /\ i <= HeadersAt(m)
    BY <1>4
  <2> QED BY <2>1 DEF HeadersTo
<1>9. ASSUME NEW i \in Nat, i > 2 * H + 1,
             ~m.chunked \/ i <= 2 * H + 3 * B + 3
      PROVE  HeadersTo(m, i) = HeadersSizeOf(m)
  <2>1. i # 0 /\ ~(i <= HeadersAt(m))
    BY <1>4, <1>9
  <2>2. ~m.chunked \/ i <= TrailersAt(m)
    BY <1>4, <1>9
  <2> QED BY <2>1, <2>2 DEF HeadersTo
<1>10. ASSUME m.chunked, NEW y \in 0..2 * K
       PROVE  HeadersTo(m, 2 * H + 3 * B + 3 + y) =
                  HeadersSizeOf(m) + SizeTo(m.trailers, y)
  <2>1. PICK i \in Nat : i = 2 * H + 3 * B + 3 + y
    OBVIOUS
  <2>2. CASE y = 0
    <3>1. HeadersTo(m, i) = HeadersSizeOf(m)
      BY <1>9, <2>1, <2>2
    <3> QED BY <1>5, <1>6, <2>1, <2>2, <3>1
  <2>3. CASE y # 0
    <3>1. i # 0 /\ ~(i <= HeadersAt(m)) /\ ~(i <= TrailersAt(m))
      BY <1>4, <2>1, <2>3
    <3>2. i <= TrailersAt(m) + 2 * Len(m.trailers) /\ i - TrailersAt(m) = y
      <4>1. i <= TrailersAt(m) + 2 * K /\ i - TrailersAt(m) = y
        BY <1>4, <2>1
      <4> QED BY <1>3, <4>1
    <3>3. HeadersTo(m, i) = HeadersSizeOf(m) + SizeTo(m.trailers, y)
      BY <1>10, <3>1, <3>2 DEF HeadersTo
    <3> QED BY <2>1, <3>3
  <2> QED BY <2>2, <2>3
<1>11. ASSUME m.chunked, NEW y \in Nat, y > 2 * K
       PROVE  HeadersTo(m, 2 * H + 3 * B + 3 + y) =
                  HeadersSizeOf(m) + TrailersSizeOf(m)
  <2>1. PICK i \in Nat : i = 2 * H + 3 * B + 3 + y
    OBVIOUS
  <2>2. i # 0 /\ ~(i <= HeadersAt(m)) /\ ~(i <= TrailersAt(m))
    BY <1>4, <1>11, <2>1
  <2>3. ~(i <= TrailersAt(m) + 2 * Len(m.trailers))
    <3>1. ~(i <= TrailersAt(m) + 2 * K)
      BY <1>4, <1>11, <2>1
    <3> QED BY <1>3, <3>1
  <2>4. HeadersTo(m, i) = HeadersSizeOf(m) + TrailersSizeOf(m)
    BY <1>11, <2>2, <2>3 DEF HeadersTo
  <2> QED BY <2>1, <2>4
<1>12. ASSUME NEW i \in Nat, i <= 2 * H + 2
       PROVE  BodyTo(m, i) = 0
  BY <1>4, <1>12 DEF BodyTo
<1>13. ASSUME NEW i \in Nat, i > 2 * H + 2,
              ~m.chunked \/ i >= 2 * H + 3 * B + 3
       PROVE  BodyTo(m, i) = BodySizeOf(m)
  <2>1. ~(i <= BodyAt(m))
    BY <1>4, <1>13
  <2>2. ~(m.chunked /\ i < TrailersAt(m))
    BY <1>4, <1>13
  <2> QED BY <2>1, <2>2 DEF BodyTo
<1>14. ASSUME m.chunked, NEW y \in 1..3 * B
       PROVE  BodyTo(m, 2 * H + 2 + y) = Len(Joined(m.body, (y + 1) \div 3))
  <2>1. PICK i \in Nat : i = 2 * H + 2 + y
    OBVIOUS
  <2>2. ~(i <= BodyAt(m)) /\ i < TrailersAt(m) /\ i - BodyAt(m) + 1 = y + 1
    BY <1>4, <2>1
  <2>3. BodyTo(m, i) = Len(Joined(m.body, (y + 1) \div 3))
    BY <1>14, <2>2 DEF BodyTo
  <2> QED BY <2>1, <2>3
<1>15. Len(Joined(m.body, 0)) = 0
  BY <1>2, BodySteps
<1>16. ASSUME m.chunked, NEW c \in 0..B
       PROVE  BodyTo(m, 2 * H + 2 + 3 * c) = Len(Joined(m.body, c))
  <2>1. CASE c = 0
    BY <1>12, <1>15, <2>1
  <2>2. CASE c # 0
    <3>1. 3 * c \in 1..3 * B /\ (3 * c + 1) \div 3 = c
      BY <2>2
    <3> QED BY <1>14, <1>16, <3>1
  <2> QED BY <2>1, <2>2
<1>17. ASSUME m.chunked, NEW c \in 1..B
       PROVE  /\ BodyTo(m, 2 * H + 2 + 3 * (c - 1) + 1) =
                     Len(Joined(m.body, c - 1))
              /\ BodyTo(m, 2 * H + 2 + 3 * (c - 1) + 2) =
                     Len(Joined(m.body, c))
  <2>1. PICK y \in Nat : y = 3 * (c - 1) + 1
    OBVIOUS
  <2>2. /\ y \in 1..3 * B /\ y + 1 \in 1..3 * B /\ (y + 1) \div 3 = c - 1
        /\ (y + 1 + 1) \div 3 = c
        /\ 2 * H + 2 + y = 2 * H + 2 + 3 * (c - 1) + 1
        /\ 2 * H + 2 + (y + 1) = 2 * H + 2 + 3 * (c - 1) + 2
    BY <2>1
  <2>3. /\ BodyTo(m, 2 * H + 2 + y) = Len(Joined(m.body, c - 1))
        /\ BodyTo(m, 2 * H + 2 + (y + 1)) = Len(Joined(m.body, c))
    BY <1>14, <1>17, <2>2
  <2> QED BY <2>2, <2>3
<1>18. HeadersToIs(m, H, B, K)
  BY <1>7, <1>8, <1>9, <1>10, <1>11 DEF HeadersToIs
<1>19. BodyToIs(m, H, B)
  BY <1>12, <1>13, <1>16, <1>17 DEF BodyToIs
<1> QED BY <1>1, <1>2, <1>3, <1>6, <1>18, <1>19

(* Each piece adds what it holds. *)
LEMMA AddsInHead ==
    ASSUME NEW m \in Message, NEW i \in 0..Len(Pieces(m)) - 1, NEW x,
           InHead(m, i, x)
    PROVE  Adds(m, i, x)
<1>1. PICK H \in Nat : H = Len(m.headers)
  BY MessageParts
<1>2. PICK B \in Nat : B = Len(m.body)
  BY MessageParts
<1>3. PICK K \in Nat : K = Len(m.trailers)
  BY MessageParts
<1>4. HeadersToIs(m, H, B, K) /\ BodyToIs(m, H, B)
  BY <1>1, <1>2, <1>3, SizesAre
<1>5. PICK hs \in Nat : hs = HeadersSizeOf(m)
  BY SizesAre
<1>6. PICK ts \in Nat : ts = TrailersSizeOf(m)
  BY SizesAre
<1>7. PICK bs \in Nat : bs = BodySizeOf(m)
  BY BodySteps, MessageParts
<1>8. PICK u \in Nat : u = Len(m.url)
  BY MessageParts
<1>9. PICK sh \in Nat : sh = SizeOf(HeaderPieces(m.headers))
  BY MessageParts, SizeToSteps
<1>10. hs = u + sh
  BY <1>5, <1>8, <1>9, SizesAre
<1>11. /\ SizeTo(m.headers, 0) = 0 /\ SizeTo(m.headers, 2 * H) = sh
       /\ \A y \in 0..2 * H : SizeTo(m.headers, y) \in Nat
                              /\ SizeTo(m.headers, y) <= sh
       /\ \A j \in 1..H :
             /\ Len(m.headers[j].name) \in Nat
             /\ Len(m.headers[j].value) \in Nat
             /\ SizeTo(m.headers, 2 * j - 1) =
                    SizeTo(m.headers, 2 * (j - 1)) + Len(m.headers[j].name)
             /\ SizeTo(m.headers, 2 * j) =
                    SizeTo(m.headers, 2 * j - 1) + Len(m.headers[j].value)
  <2>1. m.headers \in Seq(HeaderLine)
    BY MessageParts
  <2> QED BY <1>1, <1>9, <2>1, SizeToSteps
<1>12. /\ HeadersTo(m, 0) = 0
       /\ \A y \in 1..2 * H + 1 :
             HeadersTo(m, y) = u + SizeTo(m.headers, y - 1)
       /\ HeadersTo(m, 2 * H + 2) = hs
  <2>1. 2 * H + 2 \in Nat /\ 2 * H + 2 > 2 * H + 1
        /\ 2 * H + 2 <= 2 * H + 3 * B + 3
    OBVIOUS
  <2> QED BY <1>4, <1>5, <1>8, <2>1 DEF HeadersToIs
<1>13. \A y \in 0..2 * H + 2 : BodyTo(m, y) = 0
  BY <1>4 DEF BodyToIs
<1>14. ASSUME i + 1 \in 0..2 * H + 2, i \in Nat, NEW n \in Nat,
              n = Len(x.text), x.kind # "body",
              HeadersTo(m, i) \in Nat,
              HeadersTo(m, i + 1) =
                  HeadersTo(m, i) + (IF x.kind \in Delimited THEN n ELSE 0),
              HeadersTo(m, i + 1) <= hs
       PROVE  Adds(m, i, x)
  <2>1. BodyTo(m, i) = 0 /\ BodyTo(m, i + 1) = 0
    BY <1>13, <1>14
  <2>2. HeadersTo(m, i + 1) \in Nat
    BY <1>14
  <2>3. HeadersTo(m, i + 1) <= HeadersSizeOf(m) + TrailersSizeOf(m)
    <3>1. HeadersTo(m, i + 1) <= hs + ts
      BY <1>14, <2>2
    <3> QED BY <1>5, <1>6, <3>1
  <2>4. 0 <= BodySizeOf(m)
    <3>1. 0 <= bs
      OBVIOUS
    <3> QED BY <1>7, <3>1
  <2> QED BY <1>14, <2>1, <2>3, <2>4 DEF Adds
<1>15. CASE AtUrl(m, i, x)
  <2>1. i = 0 /\ x.text = m.url /\ x.kind = "url"
    BY <1>15 DEF AtUrl, Piece
  <2>2. HeadersTo(m, i) = 0 /\ HeadersTo(m, i + 1) = u
    <3>1. 1 \in 1..2 * H + 1 /\ 1 - 1 = 0
      OBVIOUS
    <3>2. HeadersTo(m, 1) = u + 0
      BY <1>11, <1>12, <3>1
    <3> QED BY <1>12, <2>1, <3>2
  <2>3. i + 1 \in 0..2 * H + 2 /\ i \in Nat /\ u <= hs /\ 0 \in Nat
        /\ u = 0 + u
    BY <1>10, <2>1
  <2>4. x.kind \in Delimited /\ x.kind # "body"
    BY <2>1 DEF Delimited
  <2> QED BY <1>8, <1>14, <2>1, <2>2, <2>3, <2>4
<1>16. CASE AtField(m, i, x)
  <2>1. PICK j \in 1..H :
            i = 2 * j - 1 /\ x = Piece("field", m.headers[j].name)
    BY <1>1, <1>16 DEF AtField
  <2>2. x.text = m.headers[j].name /\ x.kind = "field"
    BY <2>1 DEF Piece
  <2>3. PICK n \in Nat : n = Len(x.text)
    BY <1>11, <2>2
  <2>4. /\ i \in 1..2 * H + 1 /\ i + 1 \in 1..2 * H + 1
        /\ i - 1 = 2 * (j - 1) /\ (i + 1) - 1 = 2 * j - 1
        /\ 2 * (j - 1) \in 0..2 * H /\ 2 * j - 1 \in 0..2 * H
    BY <2>1
  <2>5. /\ HeadersTo(m, i) = u + SizeTo(m.headers, 2 * (j - 1))
        /\ HeadersTo(m, i + 1) = u + SizeTo(m.headers, 2 * j - 1)
    BY <1>12, <2>4
  <2>6. SizeTo(m.headers, 2 * j - 1) = SizeTo(m.headers, 2 * (j - 1)) + n
    BY <1>11, <2>2, <2>3
  <2>7. PICK a \in Nat : a = SizeTo(m.headers, 2 * (j - 1))
    BY <1>11, <2>4
  <2>8. a + n <= sh
    BY <1>11, <2>4, <2>6, <2>7
  <2>9. HeadersTo(m, i) = u + a /\ HeadersTo(m, i + 1) = u + (a + n)
    BY <2>5, <2>6, <2>7
  <2>10. /\ HeadersTo(m, i) \in Nat /\ HeadersTo(m, i + 1) <= hs
         /\ HeadersTo(m, i + 1) = HeadersTo(m, i) + n
    BY <1>10, <2>8, <2>9
  <2>11. x.kind \in Delimited /\ x.kind # "body"
    BY <2>2 DEF Delimited
  <2>12. i + 1 \in 0..2 * H + 2 /\ i \in Nat
    BY <2>4
  <2> QED BY <1>14, <2>3, <2>10, <2>11, <2>12
<1>17. CASE AtValue(m, i, x)
  <2>1. PICK j \in 1..H :
            i = 2 * j /\ x = Piece("value", m.headers[j].value)
    BY <1>1, <1>17 DEF AtValue
  <2>2. x.text = m.headers[j].value /\ x.kind = "value"
    BY <2>1 DEF Piece
  <2>3. PICK n \in Nat : n = Len(x.text)
    BY <1>11, <2>2
  <2>4. /\ i \in 1..2 * H + 1 /\ i + 1 \in 1..2 * H + 1
        /\ i - 1 = 2 * j - 1 /\ (i + 1) - 1 = 2 * j
        /\ 2 * j \in 0..2 * H /\ 2 * j - 1 \in 0..2 * H
    BY <2>1
  <2>5. /\ HeadersTo(m, i) = u + SizeTo(m.headers, 2 * j - 1)
        /\ HeadersTo(m, i + 1) = u + SizeTo(m.headers, 2 * j)
    BY <1>12, <2>4
  <2>6. SizeTo(m.headers, 2 * j) = SizeTo(m.headers, 2 * j - 1) + n
    BY <1>11, <2>2, <2>3
  <2>7. PICK a \in Nat : a = SizeTo(m.headers, 2 * j - 1)
    BY <1>11, <2>4
  <2>8. a + n <= sh
    BY <1>11, <2>4, <2>6, <2>7
  <2>9. HeadersTo(m, i) = u + a /\ HeadersTo(m, i + 1) = u + (a + n)
    BY <2>5, <2>6, <2>7
  <2>10. /\ HeadersTo(m, i) \in Nat /\ HeadersTo(m, i + 1) <= hs
         /\ HeadersTo(m, i + 1) = HeadersTo(m, i) + n
    BY <1>10, <2>8, <2>9
  <2>11. x.kind \in Delimited /\ x.kind # "body"
    BY <2>2 DEF Delimited
  <2>12. i + 1 \in 0..2 * H + 2 /\ i \in Nat
    BY <2>4
  <2> QED BY <1>14, <2>3, <2>10, <2>11, <2>12
<1>18. CASE AtHeaders(m, i, x)
  <2>1. i = 2 * H + 1
    BY <1>1, <1>18, MessageParts DEF AtHeaders
  <2>2. x.kind = "headers" /\ Len(x.text) = 1
    BY <1>18 DEF AtHeaders, Mark, Piece
  <2>3. HeadersTo(m, i) = hs /\ HeadersTo(m, i + 1) = hs
    <3>1. 2 * H + 1 \in 1..2 * H + 1 /\ (2 * H + 1) - 1 = 2 * H
          /\ i + 1 = 2 * H + 2
      BY <2>1
    <3>2. HeadersTo(m, 2 * H + 1) = u + sh
      BY <1>11, <1>12, <3>1
    <3> QED BY <1>10, <1>12, <2>1, <3>1, <3>2
  <2>4. x.kind \notin Delimited /\ x.kind # "body"
    BY <2>2 DEF Delimited
  <2>5. i + 1 \in 0..2 * H + 2 /\ i \in Nat /\ 1 \in Nat /\ hs <= hs
        /\ hs = hs + 0
    BY <2>1
  <2> QED BY <1>14, <2>2, <2>3, <2>4, <2>5
<1> QED BY <1>15, <1>16, <1>17, <1>18 DEF InHead

(* The same within a body in chunks.                                       *)
LEMMA AddsInChunks ==
    ASSUME NEW m \in Message, NEW i \in 0..Len(Pieces(m)) - 1, NEW x,
           InChunks(m, i, x)
    PROVE  Adds(m, i, x)
<1>1. PICK H \in Nat : H = Len(m.headers)
  BY MessageParts
<1>2. PICK B \in Nat : B = Len(m.body)
  BY MessageParts
<1>3. PICK K \in Nat : K = Len(m.trailers)
  BY MessageParts
<1>4. HeadersToIs(m, H, B, K) /\ BodyToIs(m, H, B)
  BY <1>1, <1>2, <1>3, SizesAre
<1>5. PICK hs \in Nat : hs = HeadersSizeOf(m)
  BY SizesAre
<1>6. PICK ts \in Nat : ts = TrailersSizeOf(m)
  BY SizesAre
<1>7. PICK bs \in Nat : bs = BodySizeOf(m)
  BY BodySteps, MessageParts
<1>8. /\ HeadersAt(m) = 2 * H + 1 /\ BodyAt(m) = 2 * H + 2
      /\ TrailersAt(m) = 2 * H + 3 * B + 3
  BY <1>1, <1>2, MessageParts
<1>9. /\ \A c \in 0..B : Len(Joined(m.body, c)) \in Nat
                         /\ Len(Joined(m.body, c)) <= bs
      /\ Len(Joined(m.body, B)) = bs
      /\ \A c \in 1..B :
            /\ Len(m.body[c]) \in Nat
            /\ Len(Joined(m.body, c)) =
                   Len(Joined(m.body, c - 1)) + Len(m.body[c])
  BY <1>2, <1>7, BodySteps
<1>10. \A y \in Nat : /\ y > 2 * H + 1
                      /\ ~m.chunked \/ y <= 2 * H + 3 * B + 3
                      => HeadersTo(m, y) = hs
  BY <1>4, <1>5 DEF HeadersToIs
<1>11. ASSUME i \in Nat, i > 2 * H + 1,
              ~m.chunked \/ i + 1 <= 2 * H + 3 * B + 3,
              NEW n \in Nat, n = Len(x.text),
              x.kind \notin Delimited,
              BodyTo(m, i) \in Nat,
              BodyTo(m, i + 1) =
                  BodyTo(m, i) + (IF x.kind = "body" THEN n ELSE 0),
              BodyTo(m, i + 1) <= bs
       PROVE  Adds(m, i, x)
  <2>1. /\ i + 1 \in Nat /\ i + 1 > 2 * H + 1
        /\ ~m.chunked \/ i <= 2 * H + 3 * B + 3
    BY <1>11
  <2>2. HeadersTo(m, i) = hs /\ HeadersTo(m, i + 1) = hs
    BY <1>10, <1>11, <2>1
  <2>3. HeadersTo(m, i + 1) <= HeadersSizeOf(m) + TrailersSizeOf(m)
    <3>1. hs <= hs + ts
      OBVIOUS
    <3> QED BY <1>5, <1>6, <2>2, <3>1
  <2>4. HeadersTo(m, i) \in Nat /\ HeadersTo(m, i + 1) = HeadersTo(m, i) + 0
    BY <2>2
  <2> QED BY <1>7, <1>11, <2>3, <2>4 DEF Adds
<1>12. CASE AtWhole(m, i, x)
  <2>1. ~m.chunked
    BY <1>12 DEF AtWhole
  <2>2. i = 2 * H + 2
    BY <1>8, <1>12 DEF AtWhole
  <2>3. x.text = FlattenSeq(m.body) /\ x.kind = "body"
    BY <1>12 DEF AtWhole, Piece
  <2>4. bs = Len(x.text)
    BY <1>7, <2>3 DEF BodySizeOf
  <2>5. BodyTo(m, i) = 0
    BY <1>4, <2>2 DEF BodyToIs
  <2>6. BodyTo(m, i + 1) = bs
    <3>1. i + 1 \in Nat /\ i + 1 > 2 * H + 2
      BY <2>2
    <3> QED BY <1>4, <1>7, <2>1, <3>1 DEF BodyToIs
  <2>7. i \in Nat /\ i > 2 * H + 1 /\ 0 \in Nat /\ bs = 0 + bs /\ bs <= bs
    BY <2>2
  <2>8. x.kind \notin Delimited
    BY <2>3 DEF Delimited
  <2> QED BY <1>11, <2>1, <2>3, <2>4, <2>5, <2>6, <2>7, <2>8
<1>13. CASE AtChunk(m, i, x)
  <2>1. m.chunked
    BY <1>13 DEF AtChunk
  <2>2. PICK c \in 1..B + 1 : i = 2 * H + 2 + 3 * (c - 1)
    <3>1. PICK c \in 1..B + 1 : i = BodyAt(m) + 3 * (c - 1)
      BY <1>2, <1>13 DEF AtChunk
    <3> QED BY <1>8, <3>1
  <2>3. x.kind = "chunk" /\ Len(x.text) = 1
    BY <1>13 DEF AtChunk, Mark, Piece
  <2>4. PICK d \in Nat : d = c - 1
    OBVIOUS
  <2>5. d \in 0..B /\ i = 2 * H + 2 + 3 * d
    BY <2>2, <2>4
  <2>6. PICK a \in Nat : a = Len(Joined(m.body, d))
    BY <1>9, <2>5
  <2>7. BodyTo(m, i) = a
    BY <1>4, <2>1, <2>5, <2>6 DEF BodyToIs
  <2>8. BodyTo(m, i + 1) = a
    <3>1. CASE c <= B
      <4>1. c \in 1..B /\ i + 1 = 2 * H + 2 + 3 * (c - 1) + 1
        BY <2>2, <3>1
      <4>2. BodyTo(m, i + 1) = Len(Joined(m.body, c - 1))
        BY <1>4, <2>1, <4>1 DEF BodyToIs
      <4> QED BY <2>4, <2>6, <4>2
    <3>2. CASE c = B + 1
      <4>1. i + 1 \in Nat /\ i + 1 > 2 * H + 2 /\ i + 1 >= 2 * H + 3 * B + 3
            /\ d = B
        BY <2>2, <2>4, <3>2
      <4>2. BodyTo(m, i + 1) = bs
        BY <1>4, <1>7, <4>1 DEF BodyToIs
      <4> QED BY <1>9, <2>6, <4>1, <4>2
    <3> QED BY <3>1, <3>2
  <2>9. x.kind \notin Delimited /\ x.kind # "body"
    BY <2>3 DEF Delimited
  <2>10. /\ i \in Nat /\ i > 2 * H + 1 /\ i + 1 <= 2 * H + 3 * B + 3
         /\ 1 \in Nat /\ a = a + 0
    BY <2>5
  <2>11. a <= bs
    BY <1>9, <2>5, <2>6
  <2> QED BY <1>11, <2>3, <2>7, <2>8, <2>9, <2>10, <2>11
<1>14. CASE AtBody(m, i, x)
  <2>1. m.chunked
    BY <1>14 DEF AtBody
  <2>2. PICK c \in 1..B : /\ i = 2 * H + 2 + 3 * (c - 1) + 1
                          /\ x = Piece("body", m.body[c])
    <3>1. PICK c \in 1..B : /\ i = BodyAt(m) + 3 * (c - 1) + 1
                            /\ x = Piece("body", m.body[c])
      BY <1>2, <1>14 DEF AtBody
    <3> QED BY <1>8, <3>1
  <2>3. x.kind = "body" /\ x.text = m.body[c]
    BY <2>2 DEF Piece
  <2>4. PICK n \in Nat : n = Len(x.text)
    BY <1>9, <2>3
  <2>5. c - 1 \in 0..B /\ c \in 0..B
        /\ i + 1 = 2 * H + 2 + 3 * (c - 1) + 2
    BY <2>2
  <2>6. PICK a \in Nat : a = Len(Joined(m.body, c - 1))
    BY <1>9, <2>5
  <2>7. Len(Joined(m.body, c)) = a + n
    BY <1>9, <2>3, <2>4, <2>6
  <2>8. BodyTo(m, i) = a /\ BodyTo(m, i + 1) = a + n
    <3>1. /\ BodyTo(m, i) = Len(Joined(m.body, c - 1))
          /\ BodyTo(m, i + 1) = Len(Joined(m.body, c))
      BY <1>4, <2>1, <2>2, <2>5 DEF BodyToIs
    <3> QED BY <2>6, <2>7, <3>1
  <2>9. a + n <= bs
    BY <1>9, <2>5, <2>7
  <2>10. x.kind \notin Delimited
    BY <2>3 DEF Delimited
  <2>11. i \in Nat /\ i > 2 * H + 1 /\ i + 1 <= 2 * H + 3 * B + 3
    BY <2>2
  <2> QED BY <1>11, <2>3, <2>4, <2>8, <2>9, <2>10, <2>11
<1>15. CASE AtChunkEnd(m, i, x)
  <2>1. m.chunked
    BY <1>15 DEF AtChunkEnd
  <2>2. PICK c \in 1..B : i = 2 * H + 2 + 3 * (c - 1) + 2
    <3>1. PICK c \in 1..B : i = BodyAt(m) + 3 * (c - 1) + 2
      BY <1>2, <1>15 DEF AtChunkEnd
    <3> QED BY <1>8, <3>1
  <2>3. x.kind = "chunkEnd" /\ Len(x.text) = 1
    BY <1>15 DEF AtChunkEnd, Mark, Piece
  <2>4. c \in 0..B /\ i + 1 = 2 * H + 2 + 3 * c
    BY <2>2
  <2>5. PICK a \in Nat : a = Len(Joined(m.body, c))
    BY <1>9, <2>4
  <2>6. BodyTo(m, i) = a /\ BodyTo(m, i + 1) = a
    BY <1>4, <2>1, <2>2, <2>4, <2>5 DEF BodyToIs
  <2>7. a <= bs
    BY <1>9, <2>4, <2>5
  <2>8. x.kind \notin Delimited /\ x.kind # "body"
    BY <2>3 DEF Delimited
  <2>9. /\ i \in Nat /\ i > 2 * H + 1 /\ i + 1 <= 2 * H + 3 * B + 3
        /\ 1 \in Nat /\ a = a + 0
    BY <2>2
  <2> QED BY <1>11, <2>3, <2>6, <2>7, <2>8, <2>9
<1> QED BY <1>12, <1>13, <1>14, <1>15 DEF InChunks

(* The same after a body.                                                  *)
LEMMA AddsInTail ==
    ASSUME NEW m \in Message, NEW i \in 0..Len(Pieces(m)) - 1, NEW x,
           InTail(m, i, x)
    PROVE  Adds(m, i, x)
<1>1. PICK H \in Nat : H = Len(m.headers)
  BY MessageParts
<1>2. PICK B \in Nat : B = Len(m.body)
  BY MessageParts
<1>3. PICK K \in Nat : K = Len(m.trailers)
  BY MessageParts
<1>4. HeadersToIs(m, H, B, K) /\ BodyToIs(m, H, B)
  BY <1>1, <1>2, <1>3, SizesAre
<1>5. PICK hs \in Nat : hs = HeadersSizeOf(m)
  BY SizesAre
<1>6. PICK ts \in Nat : ts = TrailersSizeOf(m)
  BY SizesAre
<1>7. PICK bs \in Nat : bs = BodySizeOf(m)
  BY BodySteps, MessageParts
<1>8. /\ HeadersAt(m) = 2 * H + 1 /\ BodyAt(m) = 2 * H + 2
      /\ TrailersAt(m) = 2 * H + 3 * B + 3
  BY <1>1, <1>2, MessageParts
<1>9. /\ SizeTo(m.trailers, 2 * K) = ts
      /\ \A y \in 0..2 * K : SizeTo(m.trailers, y) \in Nat
                             /\ SizeTo(m.trailers, y) <= ts
      /\ \A j \in 1..K :
            /\ Len(m.trailers[j].name) \in Nat
            /\ Len(m.trailers[j].value) \in Nat
            /\ SizeTo(m.trailers, 2 * j - 1) =
                   SizeTo(m.trailers, 2 * (j - 1)) + Len(m.trailers[j].name)
            /\ SizeTo(m.trailers, 2 * j) =
                   SizeTo(m.trailers, 2 * j - 1) + Len(m.trailers[j].value)
  <2>1. m.trailers \in Seq(HeaderLine)
    BY MessageParts
  <2>2. ts = SizeOf(HeaderPieces(m.trailers))
    BY <1>6 DEF TrailersSizeOf
  <2> QED BY <1>3, <2>1, <2>2, SizeToSteps
<1>10. ASSUME i \in Nat, i > 2 * H + 2,
              ~m.chunked \/ i >= 2 * H + 3 * B + 3,
              NEW n \in Nat, n = Len(x.text), x.kind # "body",
              HeadersTo(m, i) \in Nat,
              HeadersTo(m, i + 1) =
                  HeadersTo(m, i) + (IF x.kind \in Delimited THEN n ELSE 0),
              HeadersTo(m, i + 1) <= hs + ts
       PROVE  Adds(m, i, x)
  <2>1. /\ i + 1 \in Nat /\ i + 1 > 2 * H + 2
        /\ ~m.chunked \/ i + 1 >= 2 * H + 3 * B + 3
    BY <1>10
  <2>2. BodyTo(m, i) = bs /\ BodyTo(m, i + 1) = bs
    BY <1>4, <1>7, <1>10, <2>1 DEF BodyToIs
  <2>3. HeadersTo(m, i + 1) <= HeadersSizeOf(m) + TrailersSizeOf(m)
    BY <1>5, <1>6, <1>10
  <2>4. BodyTo(m, i + 1) = BodyTo(m, i) + 0 /\ BodyTo(m, i) \in Nat
    BY <2>2
  <2>5. BodyTo(m, i + 1) <= BodySizeOf(m)
    <3>1. bs <= bs
      OBVIOUS
    <3> QED BY <1>7, <2>2, <3>1
  <2> QED BY <1>10, <2>3, <2>4, <2>5 DEF Adds
<1>11. ASSUME m.chunked, NEW y \in 0..2 * K
       PROVE  HeadersTo(m, 2 * H + 3 * B + 3 + y) =
                  hs + SizeTo(m.trailers, y)
  BY <1>4, <1>5, <1>11 DEF HeadersToIs
<1>12. ASSUME m.chunked, NEW y \in Nat, y > 2 * K
       PROVE  HeadersTo(m, 2 * H + 3 * B + 3 + y) = hs + ts
  BY <1>4, <1>5, <1>6, <1>12 DEF HeadersToIs
<1>13. CASE AtTrailerField(m, i, x)
  <2>1. m.chunked
    BY <1>13 DEF AtTrailerField
  <2>2. PICK j \in 1..K : /\ i = 2 * H + 3 * B + 3 + 2 * (j - 1)
                          /\ x = Piece("field", m.trailers[j].name)
    <3>1. PICK j \in 1..K : /\ i = TrailersAt(m) + 2 * (j - 1)
                            /\ x = Piece("field", m.trailers[j].name)
      BY <1>3, <1>13 DEF AtTrailerField
    <3> QED BY <1>8, <3>1
  <2>3. x.kind = "field" /\ x.text = m.trailers[j].name
    BY <2>2 DEF Piece
  <2>4. PICK n \in Nat : n = Len(x.text)
    BY <1>9, <2>3
  <2>5. /\ 2 * (j - 1) \in 0..2 * K /\ 2 * j - 1 \in 0..2 * K
        /\ i + 1 = 2 * H + 3 * B + 3 + (2 * j - 1)
    BY <2>2
  <2>6. PICK a \in Nat : a = SizeTo(m.trailers, 2 * (j - 1))
    BY <1>9, <2>5
  <2>7. SizeTo(m.trailers, 2 * j - 1) = a + n
    BY <1>9, <2>3, <2>4, <2>6
  <2>8. HeadersTo(m, i) = hs + a /\ HeadersTo(m, i + 1) = hs + (a + n)
    BY <1>11, <2>1, <2>2, <2>5, <2>6, <2>7
  <2>9. a + n <= ts
    BY <1>9, <2>5, <2>7
  <2>10. /\ HeadersTo(m, i) \in Nat /\ HeadersTo(m, i + 1) <= hs + ts
         /\ HeadersTo(m, i + 1) = HeadersTo(m, i) + n
    BY <2>8, <2>9
  <2>11. x.kind \in Delimited /\ x.kind # "body"
    BY <2>3 DEF Delimited
  <2>12. i \in Nat /\ i > 2 * H + 2 /\ i >= 2 * H + 3 * B + 3
    BY <2>2
  <2> QED BY <1>10, <2>4, <2>10, <2>11, <2>12
<1>14. CASE AtTrailerValue(m, i, x)
  <2>1. m.chunked
    BY <1>14 DEF AtTrailerValue
  <2>2. PICK j \in 1..K : /\ i = 2 * H + 3 * B + 3 + (2 * j - 1)
                          /\ x = Piece("value", m.trailers[j].value)
    <3>1. PICK j \in 1..K : /\ i = TrailersAt(m) + 2 * (j - 1) + 1
                            /\ x = Piece("value", m.trailers[j].value)
      BY <1>3, <1>14 DEF AtTrailerValue
    <3> QED BY <1>8, <3>1
  <2>3. x.kind = "value" /\ x.text = m.trailers[j].value
    BY <2>2 DEF Piece
  <2>4. PICK n \in Nat : n = Len(x.text)
    BY <1>9, <2>3
  <2>5. /\ 2 * j \in 0..2 * K /\ 2 * j - 1 \in 0..2 * K
        /\ i + 1 = 2 * H + 3 * B + 3 + 2 * j
    <3>1. 2 * j \in 0..2 * K /\ 2 * j - 1 \in 0..2 * K
      OBVIOUS
    <3>2. (2 * H + 3 * B + 3 + (2 * j - 1)) + 1 = 2 * H + 3 * B + 3 + 2 * j
      OBVIOUS
    <3> QED BY <2>2, <3>1, <3>2
  <2>6. PICK a \in Nat : a = SizeTo(m.trailers, 2 * j - 1)
    BY <1>9, <2>5
  <2>7. SizeTo(m.trailers, 2 * j) = a + n
    BY <1>9, <2>3, <2>4, <2>6
  <2>8. HeadersTo(m, i) = hs + a /\ HeadersTo(m, i + 1) = hs + (a + n)
    BY <1>11, <2>1, <2>2, <2>5, <2>6, <2>7
  <2>9. a + n <= ts
    BY <1>9, <2>5, <2>7
  <2>10. /\ HeadersTo(m, i) \in Nat /\ HeadersTo(m, i + 1) <= hs + ts
         /\ HeadersTo(m, i + 1) = HeadersTo(m, i) + n
    BY <2>8, <2>9
  <2>11. x.kind \in Delimited /\ x.kind # "body"
    BY <2>3 DEF Delimited
  <2>12. i \in Nat /\ i > 2 * H + 2 /\ i >= 2 * H + 3 * B + 3
    BY <2>2
  <2> QED BY <1>10, <2>4, <2>10, <2>11, <2>12
<1>15. CASE AtTrailersEnd(m, i, x)
  <2>1. m.chunked
    BY <1>15 DEF AtTrailersEnd
  <2>2. i = 2 * H + 3 * B + 3 + 2 * K
    BY <1>3, <1>8, <1>15 DEF AtTrailersEnd
  <2>3. x.kind = "chunkEnd" /\ Len(x.text) = 1
    BY <1>15 DEF AtTrailersEnd, Mark, Piece
  <2>4. /\ 2 * K \in 0..2 * K /\ 2 * K + 1 \in Nat /\ 2 * K + 1 > 2 * K
        /\ i + 1 = 2 * H + 3 * B + 3 + (2 * K + 1)
    BY <2>2
  <2>5. HeadersTo(m, i) = hs + ts /\ HeadersTo(m, i + 1) = hs + ts
    BY <1>9, <1>11, <1>12, <2>1, <2>2, <2>4
  <2>6. x.kind \notin Delimited /\ x.kind # "body"
    BY <2>3 DEF Delimited
  <2>7. /\ i \in Nat /\ i > 2 * H + 2 /\ i >= 2 * H + 3 * B + 3 /\ 1 \in Nat
        /\ hs + ts \in Nat /\ hs + ts = hs + ts + 0 /\ hs + ts <= hs + ts
    BY <2>2
  <2> QED BY <1>10, <2>3, <2>5, <2>6, <2>7
<1>16. CASE AtEndOf(m, i, x)
  <2>1. x.kind = "end" /\ Len(x.text) = 0
    BY <1>16 DEF AtEndOf, End, Piece
  <2>2. x.kind \notin Delimited /\ x.kind # "body"
    BY <2>1 DEF Delimited
  <2>3. CASE m.chunked
    <3>1. i = 2 * H + 3 * B + 3 + (2 * K + 1)
      <4>1. i = TrailersAt(m) + 2 * K + 1
        BY <1>3, <1>16, <2>3 DEF AtEndOf
      <4> QED BY <1>8, <4>1
    <3>2. /\ 2 * K + 1 \in Nat /\ 2 * K + 1 > 2 * K /\ 2 * K + 2 \in Nat
          /\ 2 * K + 2 > 2 * K /\ i + 1 = 2 * H + 3 * B + 3 + (2 * K + 2)
      BY <3>1
    <3>3. HeadersTo(m, i) = hs + ts /\ HeadersTo(m, i + 1) = hs + ts
      BY <1>12, <2>3, <3>1, <3>2
    <3>4. /\ i \in Nat /\ i > 2 * H + 2 /\ i >= 2 * H + 3 * B + 3 /\ 0 \in Nat
          /\ hs + ts \in Nat /\ hs + ts = hs + ts + 0 /\ hs + ts <= hs + ts
      BY <3>1
    <3> QED BY <1>10, <2>1, <2>2, <3>3, <3>4
  <2>4. CASE ~m.chunked
    <3>1. \A y \in Nat : y > 2 * H + 1 => HeadersTo(m, y) = hs
      BY <1>4, <1>5, <2>4 DEF HeadersToIs
    <3>2. \A y \in Nat : y > 2 * H + 2 => BodyTo(m, y) = bs
      BY <1>4, <1>7, <2>4 DEF BodyToIs
    <3>3. i = IF FlattenSeq(m.body) = <<>> THEN 2 * H + 2 ELSE 2 * H + 3
      <4>1. i = IF FlattenSeq(m.body) = <<>> THEN BodyAt(m)
                ELSE BodyAt(m) + 1
        BY <1>16, <2>4 DEF AtEndOf
      <4>2. BodyAt(m) + 1 = 2 * H + 3
        BY <1>8
      <4> QED BY <1>8, <4>1, <4>2
    <3>4. i \in Nat /\ i > 2 * H + 1 /\ i + 1 \in Nat /\ i + 1 > 2 * H + 1
          /\ i + 1 > 2 * H + 2
      BY <3>3
    <3>5. HeadersTo(m, i) = hs /\ HeadersTo(m, i + 1) = hs
          /\ BodyTo(m, i + 1) = bs
      BY <3>1, <3>2, <3>4
    <3>6. BodyTo(m, i) = bs
      <4>1. CASE FlattenSeq(m.body) = <<>>
        <5>1. bs = 0
          <6>1. Len(<<>>) = 0
            OBVIOUS
          <6> QED BY <1>7, <4>1, <6>1 DEF BodySizeOf
        <5>2. i <= 2 * H + 2
          BY <3>3, <4>1
        <5> QED BY <1>4, <3>4, <5>1, <5>2 DEF BodyToIs
      <4>2. CASE FlattenSeq(m.body) # <<>>
        <5>1. i > 2 * H + 2
          BY <3>3, <4>2
        <5> QED BY <3>2, <3>4, <5>1
      <4> QED BY <4>1, <4>2
    <3>7. HeadersTo(m, i + 1) <= HeadersSizeOf(m) + TrailersSizeOf(m)
      <4>1. hs <= hs + ts
        OBVIOUS
      <4> QED BY <1>5, <1>6, <3>5, <4>1
    <3>8. BodyTo(m, i + 1) <= BodySizeOf(m)
      <4>1. bs <= bs
        OBVIOUS
      <4> QED BY <1>7, <3>5, <4>1
    <3>9. hs = hs + 0 /\ bs = bs + 0
      OBVIOUS
    <3> QED BY <2>1, <2>2, <3>5, <3>6, <3>7, <3>8, <3>9 DEF Adds
  <2> QED BY <2>3, <2>4
<1> QED BY <1>13, <1>14, <1>15, <1>16 DEF InTail
-----------------------------------------------------------------------------
(* Parts of texts. *)
LEMMA Parts ==
    ASSUME NEW S, NEW t \in Seq(S), NEW o \in 0..Len(t), NEW e \in o..Len(t)
    PROVE  /\ SubSeq(t, o + 1, e) \in Seq(S)
           /\ Len(SubSeq(t, o + 1, e)) = e - o
           /\ SubSeq(t, 1, o) \o SubSeq(t, o + 1, e) = SubSeq(t, 1, e)
           /\ SubSeq(t, 1, Len(t)) = t /\ SubSeq(t, 1, 0) = <<>>
<1>1. PICK n \in Nat : n = Len(t)
  OBVIOUS
<1>2. o \in Nat /\ e \in Nat /\ o <= e /\ e <= n
  BY <1>1
<1>3. SubSeq(t, o + 1, e) \in Seq(S) /\ Len(SubSeq(t, o + 1, e)) = e - o
  BY <1>1, <1>2
<1>4. SubSeq(t, 1, o) \in Seq(S) /\ Len(SubSeq(t, 1, o)) = o
  BY <1>1, <1>2
<1>5. SubSeq(t, 1, e) \in Seq(S) /\ Len(SubSeq(t, 1, e)) = e
  BY <1>1, <1>2
<1> DEFINE a == SubSeq(t, 1, o)
           b == SubSeq(t, o + 1, e)
           c == SubSeq(t, 1, e)
<1>6. /\ \A i \in 1..o : a[i] = t[i]
      /\ \A i \in 1..e - o : b[i] = t[o + i]
      /\ \A i \in 1..e : c[i] = t[i]
  BY <1>1, <1>2
<1>7. /\ a \in Seq(S) /\ Len(a) = o /\ b \in Seq(S) /\ Len(b) = e - o
      /\ c \in Seq(S) /\ Len(c) = e
  BY <1>3, <1>4, <1>5
<1> HIDE DEF a, b, c
<1>8. /\ a \o b \in Seq(S) /\ Len(a \o b) = e
      /\ \A i \in 1..o : (a \o b)[i] = a[i]
      /\ \A i \in 1..e - o : (a \o b)[o + i] = b[i]
  <2>1. /\ a \o b \in Seq(S) /\ Len(a \o b) = Len(a) + Len(b)
        /\ \A i \in 1..Len(a) : (a \o b)[i] = a[i]
        /\ \A i \in 1..Len(b) : (a \o b)[Len(a) + i] = b[i]
    BY <1>7, Concatenated
  <2>2. o + (e - o) = e
    BY <1>2
  <2> QED BY <1>7, <2>1, <2>2
<1>9. ASSUME NEW i \in 1..e PROVE (a \o b)[i] = c[i]
  <2>1. CASE i <= o
    <3>1. i \in 1..o
      BY <2>1
    <3> QED BY <1>6, <1>8, <3>1
  <2>2. CASE i > o
    <3>1. PICK j \in Nat : j = i - o
      BY <1>2, <2>2
    <3>2. j \in 1..e - o /\ i = o + j
      BY <1>2, <2>2, <3>1
    <3>3. (a \o b)[o + j] = b[j] /\ b[j] = t[o + j]
      BY <1>6, <1>8, <3>2
    <3>4. c[i] = t[i]
      BY <1>6
    <3>5. (a \o b)[o + j] = c[i]
      BY <3>2, <3>3, <3>4
    <3> HIDE DEF c
    <3> QED BY <3>2, <3>5
  <2>3. i <= o \/ i > o
    BY <1>2
  <2> QED BY <2>1, <2>2, <2>3
<1>10. a \o b = c
  BY <1>7, <1>8, <1>9
<1>11. SubSeq(t, 1, Len(t)) = t /\ SubSeq(t, 1, 0) = <<>>
  OBVIOUS
<1> QED BY <1>3, <1>10, <1>11 DEF a, b, c

(* A size is counted, and may be too much. *)
CountedIs(p, q, n) ==
    /\ q \in ParserType
    /\ q.headersSize = p.headersSize + n
    /\ q.bodySize = p.bodySize /\ q.maxBody = p.maxBody
    /\ q.error = IF Exceeds(p.headersSize + n, HeadersLimit)
                 THEN "HeadersLimitError" ELSE "none"

(* Counted() keeps the type, adds the length, and fails only above the     *)
(* limit.                                                                  *)
LEMMA CountedType ==
    ASSUME NEW p \in ParserType, ~Failed(p), NEW text \in Text,
           NEW q, q = Counted(p, text)
    PROVE  /\ CountedIs(p, q, Len(text))
           /\ q.url = p.url /\ q.headers = p.headers
           /\ q.name = p.name /\ q.value = p.value
           /\ Failed(q) <=> q.error # "none"
<1>1. PICK n \in Nat : n = Len(text)
  BY DEF Text
<1>2. PICK z \in Nat : z = p.headersSize + n
  <2>1. p.headersSize \in Nat
    BY DEF ParserType
  <2> QED BY <2>1
<1>3. PICK x \in Errors :
          x = IF Exceeds(z, HeadersLimit) THEN "HeadersLimitError" ELSE "none"
  BY DEF Errors
<1>4. p.error = "none"
  BY DEF Failed
<1>5. q = [p EXCEPT !.headersSize = z, !.error = x]
  <2>1. p.headersSize + Len(text) = z
    BY <1>1, <1>2
  <2>2. CASE Exceeds(z, HeadersLimit)
    <3>1. HeadersLimit > 0 /\ z > HeadersLimit /\ x = "HeadersLimitError"
      BY <1>3, <2>2 DEF Exceeds
    <3> QED BY <1>4, <2>1, <3>1 DEF Counted, Exceeds
  <2>3. CASE ~Exceeds(z, HeadersLimit)
    <3>1. ~(HeadersLimit > 0 /\ z > HeadersLimit) /\ x = "none"
      BY <1>3, <2>3 DEF Exceeds
    <3> QED BY <1>4, <2>1, <3>1 DEF Counted, Exceeds
  <2> QED BY <2>2, <2>3
<1>6. /\ q \in ParserType /\ q.headersSize = z /\ q.error = x
      /\ q.bodySize = p.bodySize /\ q.maxBody = p.maxBody
      /\ q.url = p.url /\ q.headers = p.headers
      /\ q.name = p.name /\ q.value = p.value
  BY <1>5 DEF ParserType
<1>7. CountedIs(p, q, n)
  BY <1>2, <1>3, <1>6 DEF CountedIs
<1> QED BY <1>1, <1>6, <1>7 DEF Failed

(* The pending header is filed. *)
LEMMA WithHeaderIs ==
    ASSUME NEW p \in ParserType, NEW q, q = WithHeader(p)
    PROVE  /\ q \in ParserType
           /\ q.url = p.url /\ q.error = p.error
           /\ q.headersSize = p.headersSize /\ q.bodySize = p.bodySize
           /\ q.maxBody = p.maxBody
           /\ p.name = <<>> => q = p
           /\ p.name # <<>> =>
                 /\ q.name = <<>> /\ q.value = <<>>
                 /\ q.headers = Append(p.headers, [name |-> p.name,
                                                   value |-> p.value])
<1>1. CASE p.name = <<>>
  BY <1>1 DEF WithHeader
<1>2. CASE p.name # <<>>
  <2>1. PICK x \in HeaderLine : x = [name |-> p.name, value |-> p.value]
    BY <1>2 DEF ParserType, HeaderLine
  <2>2. PICK hs \in Seq(HeaderLine) : hs = Append(p.headers, x)
    <3>1. PICK h \in Seq(HeaderLine) : h = p.headers
      BY DEF ParserType
    <3> HIDE DEF HeaderLine
    <3>2. Append(h, x) \in Seq(HeaderLine)
      OBVIOUS
    <3> QED BY <3>1, <3>2
  <2>3. q = [p EXCEPT !.headers = hs, !.name = <<>>, !.value = <<>>]
    BY <1>2, <2>1, <2>2 DEF WithHeader
  <2>4. <<>> \in Text
    BY DEF Text
  <2>5. /\ q \in ParserType /\ q.url = p.url /\ q.error = p.error
        /\ q.headersSize = p.headersSize /\ q.bodySize = p.bodySize
        /\ q.maxBody = p.maxBody /\ q.name = <<>> /\ q.value = <<>>
        /\ q.headers = hs
    BY <2>3, <2>4 DEF ParserType
  <2> QED BY <1>2, <2>1, <2>2, <2>5
<1> QED BY <1>1, <1>2

(* OnUrl(), OnHeaderField() and OnHeaderValue(). *)
LEMMA OnUrlIs ==
    ASSUME NEW p \in ParserType, ~Failed(p), NEW text \in Text,
           NEW q, q = OnUrl(p, text)
    PROVE  /\ CountedIs(p, q, Len(text))
           /\ ~Failed(q) => /\ q.url = text /\ q.headers = p.headers
                            /\ q.name = p.name /\ q.value = p.value
<1>1. PICK r : r = Counted(p, text)
  OBVIOUS
<1>2. CountedIs(p, r, Len(text)) /\ r.url = p.url /\ r.headers = p.headers
      /\ r.name = p.name /\ r.value = p.value
  BY <1>1, CountedType
<1>3. CASE Failed(r)
  <2>1. q = r
    BY <1>1, <1>3 DEF OnUrl
  <2> QED BY <1>2, <1>3, <2>1
<1>4. CASE ~Failed(r)
  <2>1. q = [r EXCEPT !.url = text]
    BY <1>1, <1>4 DEF OnUrl
  <2>2. r \in ParserType
    BY <1>2 DEF CountedIs
  <2>3. /\ q \in ParserType /\ q.url = text /\ q.headers = r.headers
        /\ q.name = r.name /\ q.value = r.value /\ q.error = r.error
        /\ q.headersSize = r.headersSize /\ q.bodySize = r.bodySize
        /\ q.maxBody = r.maxBody
    BY <2>1, <2>2 DEF ParserType
  <2>4. CountedIs(p, q, Len(text))
    BY <1>2, <2>3 DEF CountedIs
  <2> QED BY <1>2, <2>3, <2>4
<1> QED BY <1>3, <1>4

(* So does a name of a header (_on_header_field()).                        *)
LEMMA OnHeaderFieldIs ==
    ASSUME NEW p \in ParserType, ~Failed(p), NEW text \in Text,
           NEW q, q = OnHeaderField(p, text)
    PROVE  /\ CountedIs(p, q, Len(text))
           /\ ~Failed(q) =>
                 /\ q.url = p.url /\ q.name = text
                 /\ p.name = <<>> =>
                       q.headers = p.headers /\ q.value = p.value
                 /\ p.name # <<>> =>
                       /\ q.value = <<>>
                       /\ q.headers =
                              Append(p.headers, [name |-> p.name,
                                                 value |-> p.value])
<1>1. PICK r : r = Counted(p, text)
  OBVIOUS
<1>2. CountedIs(p, r, Len(text)) /\ r.url = p.url /\ r.headers = p.headers
      /\ r.name = p.name /\ r.value = p.value
  BY <1>1, CountedType
<1>3. CASE Failed(r)
  <2>1. q = r
    BY <1>1, <1>3 DEF OnHeaderField
  <2> QED BY <1>2, <1>3, <2>1
<1>4. CASE ~Failed(r)
  <2>1. PICK v : v = WithHeader(r)
    OBVIOUS
  <2>2. r \in ParserType
    BY <1>2 DEF CountedIs
  <2>3. /\ v \in ParserType
        /\ v.url = r.url /\ v.error = r.error
        /\ v.headersSize = r.headersSize /\ v.bodySize = r.bodySize
        /\ v.maxBody = r.maxBody
        /\ r.name = <<>> => v = r
        /\ r.name # <<>> =>
              /\ v.name = <<>> /\ v.value = <<>>
              /\ v.headers = Append(r.headers, [name |-> r.name,
                                                value |-> r.value])
    BY <2>1, <2>2, WithHeaderIs
  <2>4. q = [v EXCEPT !.name = text]
    BY <1>1, <1>4, <2>1 DEF OnHeaderField
  <2>5. /\ q \in ParserType /\ q.url = v.url /\ q.headers = v.headers
        /\ q.name = text /\ q.value = v.value /\ q.error = v.error
        /\ q.headersSize = v.headersSize /\ q.bodySize = v.bodySize
        /\ q.maxBody = v.maxBody
    BY <2>3, <2>4 DEF ParserType
  <2>6. CountedIs(p, q, Len(text))
    BY <1>2, <2>3, <2>5 DEF CountedIs
  <2> QED BY <1>2, <2>3, <2>5, <2>6
<1> QED BY <1>3, <1>4

(* So does a value (_on_header_value()).                                   *)
LEMMA OnHeaderValueIs ==
    ASSUME NEW p \in ParserType, ~Failed(p), NEW text \in Text,
           NEW q, q = OnHeaderValue(p, text)
    PROVE  /\ CountedIs(p, q, Len(text))
           /\ ~Failed(q) => /\ q.url = p.url /\ q.headers = p.headers
                            /\ q.name = p.name
                            /\ q.value = p.value \o text
<1>1. PICK r : r = Counted(p, text)
  OBVIOUS
<1>2. CountedIs(p, r, Len(text)) /\ r.url = p.url /\ r.headers = p.headers
      /\ r.name = p.name /\ r.value = p.value
  BY <1>1, CountedType
<1>3. CASE Failed(r)
  <2>1. q = r
    BY <1>1, <1>3 DEF OnHeaderValue
  <2> QED BY <1>2, <1>3, <2>1
<1>4. CASE ~Failed(r)
  <2>1. r \in ParserType
    BY <1>2 DEF CountedIs
  <2>2. PICK v \in Text : v = r.value \o text
    <3>1. r.value \in Seq(Symbols) /\ text \in Seq(Symbols)
      BY <2>1 DEF ParserType, Text
    <3>2. r.value \o text \in Seq(Symbols)
      BY <3>1
    <3> QED BY <3>2 DEF Text
  <2>3. q = [r EXCEPT !.value = v]
    BY <1>1, <1>4, <2>2 DEF OnHeaderValue
  <2>4. /\ q \in ParserType /\ q.url = r.url /\ q.headers = r.headers
        /\ q.name = r.name /\ q.value = v /\ q.error = r.error
        /\ q.headersSize = r.headersSize /\ q.bodySize = r.bodySize
        /\ q.maxBody = r.maxBody
    BY <2>1, <2>3 DEF ParserType
  <2>5. CountedIs(p, q, Len(text))
    BY <1>2, <2>4 DEF CountedIs
  <2> QED BY <1>2, <2>2, <2>4, <2>5
<1> QED BY <1>3, <1>4

(* The beginning of a sequence of headers after another one. *)
LEMMA Longer ==
    ASSUME NEW S, NEW b \in Seq(S), NEW h \in Seq(S)
    PROVE  /\ b \o SubSeq(h, 1, 0) = b /\ b \o SubSeq(h, 1, Len(h)) = b \o h
           /\ \A c \in 0..Len(h) - 1 :
                 b \o SubSeq(h, 1, c + 1) =
                     Append(b \o SubSeq(h, 1, c), h[c + 1])
           /\ \A c \in 0..Len(h) : b \o SubSeq(h, 1, c) \in Seq(S)
<1>1. /\ SubSeq(h, 1, 0) = <<>> /\ SubSeq(h, 1, Len(h)) = h
      /\ \A c \in 0..Len(h) : SubSeq(h, 1, c) \in Seq(S)
      /\ \A c \in 0..Len(h) - 1 :
            SubSeq(h, 1, c + 1) = Append(SubSeq(h, 1, c), h[c + 1])
  BY Beginnings
<1>2. b \o <<>> = b
  OBVIOUS
<1>3. ASSUME NEW a \in Seq(S), NEW x \in S
      PROVE  b \o Append(a, x) = Append(b \o a, x)
  OBVIOUS
<1>4. ASSUME NEW c \in 0..Len(h) - 1
      PROVE  b \o SubSeq(h, 1, c + 1) = Append(b \o SubSeq(h, 1, c), h[c + 1])
  <2>1. PICK n \in Nat : n = Len(h)
    OBVIOUS
  <2>2. c + 1 \in 1..Len(h) /\ c \in 0..Len(h)
    BY <2>1
  <2>3. PICK x \in S : x = h[c + 1]
    BY <2>2
  <2>4. PICK a \in Seq(S) : a = SubSeq(h, 1, c)
    BY <1>1, <2>2
  <2>5. SubSeq(h, 1, c + 1) = Append(a, x)
    BY <1>1, <2>3, <2>4
  <2> QED BY <1>3, <2>3, <2>4, <2>5
<1>5. ASSUME NEW c \in 0..Len(h) PROVE b \o SubSeq(h, 1, c) \in Seq(S)
  <2>1. PICK a \in Seq(S) : a = SubSeq(h, 1, c)
    BY <1>1
  <2>2. b \o a \in Seq(S)
    OBVIOUS
  <2> QED BY <2>1, <2>2
<1> QED BY <1>1, <1>2, <1>4, <1>5

(* A name is read: the header before it is filed. *)
LEMMA FieldRead ==
    ASSUME NEW p \in ParserType, ~Failed(p),
           NEW b \in Seq(HeaderLine), NEW h \in Seq(HeaderLine),
           NEW j \in 1..Len(h), Between(p, b, h, j - 1),
           NEW q, q = OnHeaderField(p, h[j].name), ~Failed(q)
    PROVE  q.url = p.url /\ InValue(q, b, h, j, 0)
<1>1. PICK y \in HeaderLine : y = h[j]
  OBVIOUS
<1>2. y.name \in Text /\ y.value \in Text
  BY DEF HeaderLine
<1>3. /\ q.url = p.url /\ q.name = y.name
      /\ p.name = <<>> => q.headers = p.headers /\ q.value = p.value
      /\ p.name # <<>> =>
            /\ q.value = <<>>
            /\ q.headers = Append(p.headers, [name |-> p.name,
                                              value |-> p.value])
  BY <1>1, <1>2, OnHeaderFieldIs
<1>4. SubSeq(y.value, 1, 0) = <<>>
  BY <1>2 DEF Text
<1>5. SUFFICES q.value = <<>> /\ q.headers = b \o SubSeq(h, 1, j - 1)
  BY <1>1, <1>3, <1>4 DEF InValue
<1>6. CASE j = 1
  <2>1. Idle(p, b)
    BY <1>6 DEF Between
  <2>2. b \o SubSeq(h, 1, 0) = b
    BY Longer
  <2> QED BY <1>3, <1>6, <2>1, <2>2 DEF Idle
<1>7. CASE j # 1
  <2>1. PICK n \in Nat : n = Len(h)
    OBVIOUS
  <2>2. PICK c \in 0..n - 1 : c = j - 2
    BY <1>7, <2>1
  <2>3. j - 1 = c + 1 /\ c + 1 # 0 /\ c + 1 \in 1..Len(h)
    BY <1>7, <2>1, <2>2
  <2>4. InValue(p, b, h, c + 1, Len(h[c + 1].value))
    BY <2>3 DEF Between
  <2>5. PICK z \in HeaderLine : z = h[c + 1]
    BY <2>3
  <2>6. /\ z.name \in Text \ {<<>>} /\ z.value \in Text
        /\ z = [name |-> z.name, value |-> z.value]
    BY DEF HeaderLine
  <2>7. SubSeq(z.value, 1, Len(z.value)) = z.value
    BY <2>6 DEF Text
  <2>8. p.name = z.name /\ p.value = z.value
        /\ p.headers = b \o SubSeq(h, 1, (c + 1) - 1)
    BY <2>4, <2>5, <2>7 DEF InValue
  <2>9. (c + 1) - 1 = c
    BY <2>2
  <2>10. p.headers = b \o SubSeq(h, 1, c)
    BY <2>8, <2>9
  <2>11. q.value = <<>> /\ q.headers = Append(b \o SubSeq(h, 1, c), z)
    BY <1>3, <2>6, <2>8, <2>10
  <2>12. b \o SubSeq(h, 1, c + 1) = Append(b \o SubSeq(h, 1, c), h[c + 1])
    BY Longer, <2>1, <2>2
  <2> QED BY <2>3, <2>5, <2>11, <2>12
<1> QED BY <1>6, <1>7

(* A value is read, from its oth symbol up to its eth. *)
LEMMA ValueRead ==
    ASSUME NEW p \in ParserType, ~Failed(p),
           NEW b \in Seq(HeaderLine), NEW h \in Seq(HeaderLine),
           NEW j \in 1..Len(h), NEW o \in 0..Len(h[j].value),
           NEW e \in o..Len(h[j].value), InValue(p, b, h, j, o),
           NEW q, q = OnHeaderValue(p, SubSeq(h[j].value, o + 1, e)),
           ~Failed(q)
    PROVE  q.url = p.url /\ InValue(q, b, h, j, e)
<1>1. PICK y \in HeaderLine : y = h[j]
  OBVIOUS
<1>2. y.value \in Seq(Symbols)
  BY DEF HeaderLine, Text
<1>3. PICK t \in Seq(Symbols) : t = h[j].value
  BY <1>1, <1>2
<1>4. /\ SubSeq(t, o + 1, e) \in Text
      /\ SubSeq(t, 1, o) \o SubSeq(t, o + 1, e) = SubSeq(t, 1, e)
  BY <1>3, Parts DEF Text
<1>5. /\ q.url = p.url /\ q.headers = p.headers /\ q.name = p.name
      /\ q.value = p.value \o SubSeq(t, o + 1, e)
  BY <1>3, <1>4, OnHeaderValueIs
<1> QED BY <1>3, <1>4, <1>5 DEF InValue

(* All headers are read: the last one is filed. *)
LEMMA Finished ==
    ASSUME NEW p \in ParserType,
           NEW b \in Seq(HeaderLine), NEW h \in Seq(HeaderLine),
           Between(p, b, h, Len(h)), NEW q, q = WithHeader(p)
    PROVE  Idle(q, b \o h)
<1>1. PICK n \in Nat : n = Len(h)
  OBVIOUS
<1>2. /\ p.name = <<>> => q = p
      /\ p.name # <<>> =>
            /\ q.name = <<>> /\ q.value = <<>>
            /\ q.headers = Append(p.headers, [name |-> p.name,
                                              value |-> p.value])
  BY WithHeaderIs
<1>3. CASE n = 0
  <2>1. Idle(p, b)
    BY <1>1, <1>3 DEF Between
  <2>2. q = p
    <3>1. p.name = <<>>
      BY <2>1 DEF Idle
    <3> QED BY <1>2, <3>1, Zenon
  <2>3. b \o h = b
    <3>1. b \o SubSeq(h, 1, 0) = b /\ b \o SubSeq(h, 1, Len(h)) = b \o h
      BY Longer
    <3>2. Len(h) = 0
      BY <1>1, <1>3
    <3>3. SubSeq(h, 1, Len(h)) = SubSeq(h, 1, 0)
      BY <3>2
    <3> QED BY <3>1, <3>3
  <2> QED BY <2>1, <2>2, <2>3
<1>4. CASE n # 0
  <2>1. PICK c \in 0..n - 1 : n = c + 1
    <3>1. n - 1 \in 0..n - 1 /\ n = (n - 1) + 1
      BY <1>4
    <3> QED BY <3>1
  <2>2. n \in 1..Len(h) /\ (c + 1) - 1 = c
    BY <1>1, <1>4, <2>1
  <2>3. InValue(p, b, h, n, Len(h[n].value))
    BY <1>1, <1>4 DEF Between
  <2>4. PICK z \in HeaderLine : z = h[n]
    BY <2>2
  <2>5. /\ z.name \in Text \ {<<>>} /\ z.value \in Text
        /\ z = [name |-> z.name, value |-> z.value]
    BY DEF HeaderLine
  <2>6. SubSeq(z.value, 1, Len(z.value)) = z.value
    BY <2>5 DEF Text
  <2>7. p.name = z.name /\ p.value = z.value
        /\ p.headers = b \o SubSeq(h, 1, n - 1)
    BY <2>3, <2>4, <2>6 DEF InValue
  <2>8. p.headers = b \o SubSeq(h, 1, c)
    BY <2>1, <2>2, <2>7
  <2>9. q.name = <<>> /\ q.value = <<>>
        /\ q.headers = Append(b \o SubSeq(h, 1, c), z)
    BY <1>2, <2>5, <2>7, <2>8
  <2>10. b \o SubSeq(h, 1, c + 1) = Append(b \o SubSeq(h, 1, c), h[c + 1])
    BY Longer, <1>1, <2>1
  <2>11. b \o SubSeq(h, 1, Len(h)) = b \o h
    BY Longer
  <2>12. q.headers = b \o h
    BY <1>1, <2>1, <2>4, <2>9, <2>10, <2>11
  <2> QED BY <2>9, <2>12 DEF Idle
<1> QED BY <1>3, <1>4

(* What every piece adds. *)
LEMMA Added ==
    ASSUME NEW m \in Message, NEW i \in 0..Len(Pieces(m)) - 1
    PROVE  /\ Pieces(m)[i + 1] \in PieceType
           /\ Adds(m, i, Pieces(m)[i + 1])
           /\ i \in Nat /\ i < Len(Pieces(m)) /\ Len(Pieces(m)) \in Nat
<1>1. PICK x : x = Pieces(m)[i + 1]
  OBVIOUS
<1>2. InHead(m, i, x) \/ InChunks(m, i, x) \/ InTail(m, i, x)
  BY <1>1, Places
<1>3. Adds(m, i, x)
  BY <1>2, AddsInHead, AddsInChunks, AddsInTail
<1>4. Pieces(m) \in Seq(PieceType)
  BY PiecesAre
<1>5. PICK n \in Nat : n = Len(Pieces(m))
  BY <1>4
<1>6. i + 1 \in 1..n /\ i \in Nat /\ i < n
  BY <1>5
<1>7. Pieces(m)[i + 1] \in PieceType
  <2> HIDE DEF PieceType
  <2> QED BY <1>4, <1>5, <1>6
<1> QED BY <1>1, <1>3, <1>5, <1>6, <1>7

(* How much of a form or file does not concern what is known here: a step  *)
(* that gives no handler anything and completes no message keeps what is   *)
(* known of those.                                                         *)
ErrorIs(w, s, q, k, D) ==
    /\ q.error = "HeadersLimitError" =>
          Exceeds(HeadersSizeOf(w[k]) + TrailersSizeOf(w[k]), HeadersLimit)
    /\ q.error = "BodyLimitError" =>
          Exceeds(BodySizeOf(w[k]), LimitOf(s.requests[k].url))
    /\ q.error = "HttpParserError" => D # {}

With(s, q, f) == [s EXCEPT !.parser = q, !.form = f]

Put(s, q) == [s EXCEPT !.parser = q]

(* A callback that leaves the requests and forms alone, and fails only     *)
(* where it should, keeps what is known of them.                           *)
LEMMA HistoryKept ==
    ASSUME NEW w, NEW s, NEW D, History(w, s, D), NEW q \in ParserType, NEW f,
           NEW s2, s2 = With(s, q, f),
           ErrorIs(w, s, q, Len(s.forms) + 1, D)
    PROVE  /\ History(w, s2, D)
           /\ s2.parser = q /\ s2.requests = s.requests /\ s2.forms = s.forms
<1>1. /\ s = [parser |-> s.parser, requests |-> s.requests, form |-> s.form,
              forms |-> s.forms]
      /\ s.requests \in Seq(RequestType) /\ s.forms \in Seq(Range(s.forms))
      /\ Limits(w, s, D) /\ Given(w, s, D) /\ D \in SUBSET Nat
  BY DEF History, StateType
<1>2. /\ s2 = [parser |-> q, requests |-> s.requests, form |-> f,
               forms |-> s.forms]
      /\ s2.parser = q /\ s2.requests = s.requests /\ s2.forms = s.forms
      /\ s2.form = f
  BY <1>1 DEF With
<1>3. StateType(s2)
  BY <1>1, <1>2 DEF StateType
<1>4. Limits(w, s2, D)
  BY <1>1, <1>2 DEF Limits, ErrorIs
<1>5. Given(w, s2, D)
  BY <1>1, <1>2 DEF Given
<1> QED BY <1>1, <1>2, <1>3, <1>4, <1>5 DEF History

(* The state before and after a piece x, or the part of it up to its eth   *)
(* symbol, when o of them had been there.                                  *)
Reading(w, s, D, k, i, o, x) ==
    /\ w \in Setups /\ History(w, s, D) /\ ~Failed(s.parser)
    /\ InMessage(w, s, D, k, i, o) /\ x = Pieces(w[k])[i + 1]

After(w, s2, D, k, i, e, whole) ==
    /\ History(w, s2, D)
    /\ ~Failed(s2.parser) =>
          IF whole THEN InMessage(w, s2, D, k, i + 1, 0)
          ELSE InMessage(w, s2, D, k, i, e)

FaithfulAfter(w, q, D, k, i, e, whole) ==
    Uncut(D, k) /\ ~Failed(q) =>
        IF whole THEN Faithful(q, w, k, i + 1, 0) ELSE Faithful(q, w, k, i, e)

(* What is at hand before a piece. *)
Facts(w, s, k, i, o, x) ==
    /\ w[k] \in Message /\ k \in 1..Len(w)
    /\ i \in 0..Len(Pieces(w[k])) - 1 /\ i \in Nat
    /\ x \in PieceType /\ Adds(w[k], i, x) /\ o \in 0..Len(x.text)
    /\ x # End => i + 1 \in 0..Len(Pieces(w[k])) - 1
    /\ Len(s.forms) + 1 = k
    /\ s.parser \in ParserType /\ s.parser.error = "none"
    /\ BodyAt(w[k]) \in Nat

(* What is known before a callback, from the invariant.                    *)
LEMMA FactsBefore ==
    ASSUME NEW w, NEW s, NEW D, NEW k, NEW i, NEW o, NEW x,
           Reading(w, s, D, k, i, o, x)
    PROVE  Facts(w, s, k, i, o, x)
<1>1. /\ w \in Seq(Message) /\ k \in 1..Len(w)
      /\ i \in 0..Len(Pieces(w[k])) - 1 /\ x = Pieces(w[k])[i + 1]
      /\ o \in 0..Len(x.text) /\ Len(s.forms) = k - 1
  BY SetupsAssumption DEF Reading, InMessage
<1>2. PICK m \in Message : m = w[k]
  <2> HIDE DEF Message
  <2> QED BY <1>1
<1>3. /\ x \in PieceType /\ Adds(m, i, x)
      /\ i \in Nat /\ i < Len(Pieces(m)) /\ Len(Pieces(m)) \in Nat
  BY <1>1, <1>2, Added
<1>4. ASSUME x # End PROVE i + 1 \in 0..Len(Pieces(m)) - 1
  <2>1. Pieces(m)[Len(Pieces(m))] = End
    BY PiecesAre
  <2>2. i + 1 # Len(Pieces(m))
    BY <1>1, <1>2, <1>4, <2>1
  <2>3. PICK n \in Nat : n = Len(Pieces(m))
    BY <1>3
  <2> QED BY <1>3, <2>2, <2>3
<1>5. Len(s.forms) + 1 = k
  <2>1. PICK l \in Nat : l = Len(s.forms)
    <3>1. s.forms \in Seq(Range(s.forms))
      BY DEF Reading, History, StateType
    <3> QED BY <3>1
  <2>2. k \in Int
    BY <1>1
  <2> QED BY <1>1, <2>1, <2>2
<1>6. s.parser \in ParserType /\ s.parser.error = "none"
  BY DEF Reading, History, StateType, Failed
<1>7. BodyAt(m) \in Nat
  <2>1. PICK n \in Nat : n = Len(m.headers)
    BY MessageParts
  <2>2. BodyAt(m) = 2 * Len(m.headers) + 2
    BY MessageParts
  <2>3. BodyAt(m) = 2 * n + 2
    BY <2>1, <2>2
  <2> QED BY <2>3
<1> QED BY <1>1, <1>2, <1>3, <1>4, <1>5, <1>6, <1>7 DEF Facts

(* Whether a message is over the limits only depends on its size. *)
LEMMA Exceeding ==
    ASSUME NEW limit, NEW a \in Nat, NEW b \in Nat, a <= b,
           Exceeds(a, limit), limit \in Nat
    PROVE  Exceeds(b, limit)
BY DEF Exceeds

(* Where the limit of the body is set: not at a name or a value. *)
LEMMA BeforeBody ==
    ASSUME NEW m \in Message, NEW i \in Nat, i < Len(Pieces(m)),
           Pieces(m)[i + 1] # Mark("headers")
    PROVE  (i < BodyAt(m)) <=> (i + 1 < BodyAt(m))
<1>1. PICK h \in Nat : h = Len(m.headers)
  BY MessageParts
<1>2. Pieces(m)[2 * h + 2] = Mark("headers")
  BY <1>1, PiecesAre
<1>3. i + 1 # 2 * h + 2
  BY <1>2
<1>4. BodyAt(m) = 2 * h + 2
  BY <1>1, MessageParts
<1> QED BY <1>3, <1>4

(* The URL, names and values are counted as headers. *)
LEMMA CountStep ==
    ASSUME NEW w, NEW s, NEW D, NEW k, NEW i, NEW o, NEW x,
           Reading(w, s, D, k, i, o, x), x.kind \in Delimited,
           NEW e \in o..Len(x.text), NEW n \in Nat, n = e - o,
           NEW whole \in BOOLEAN, whole => e = Len(x.text),
           NEW q, CountedIs(s.parser, q, n),
           FaithfulAfter(w, q, D, k, i, e, whole),
           NEW s2, s2 = Put(s, q)
    PROVE  After(w, s2, D, k, i, e, whole)
<1>1. Facts(w, s, k, i, o, x)
  BY FactsBefore
<1>2. /\ History(w, s, D) /\ x = Pieces(w[k])[i + 1]
      /\ Sizes(s, w[k], k, i, o)
      /\ Len(s.requests) = IF i < BodyAt(w[k]) THEN k - 1 ELSE k
  BY DEF Reading, InMessage
<1>3. PICK m \in Message : m = w[k]
  BY <1>1 DEF Facts
<1>4. x # End /\ x # Mark("headers") /\ x.kind # "body"
  BY DEF Delimited, End, Mark, Piece
<1>5. PICK t \in Nat : t = Len(x.text)
  BY <1>1 DEF Facts, Adds
<1>6. o \in 0..t /\ e \in o..t /\ (whole => e = t) /\ o \in Nat /\ e \in Nat
  BY <1>1, <1>5 DEF Facts
<1>7. PICK a \in Nat : a = HeadersTo(m, i)
  BY <1>1, <1>3 DEF Facts, Adds
<1>8. PICK b \in Nat : b = BodyTo(m, i)
  BY <1>1, <1>3 DEF Facts, Adds
<1>9. /\ HeadersTo(m, i + 1) = a + t
      /\ a + t <= HeadersSizeOf(m) + TrailersSizeOf(m)
      /\ BodyTo(m, i + 1) = b
  <2>1. HeadersTo(m, i + 1) = HeadersTo(m, i) + Len(x.text)
    BY <1>1, <1>3 DEF Facts, Adds
  <2>2. HeadersTo(m, i + 1) <= HeadersSizeOf(m) + TrailersSizeOf(m)
    BY <1>1, <1>3 DEF Facts, Adds
  <2>3. BodyTo(m, i + 1) = BodyTo(m, i) + 0
    BY <1>1, <1>3, <1>4 DEF Facts, Adds
  <2> QED BY <1>5, <1>7, <1>8, <2>1, <2>2, <2>3
<1>10. PICK z \in Nat : z = HeadersSizeOf(m) + TrailersSizeOf(m)
  <2>1. HeadersSizeOf(m) \in Nat /\ TrailersSizeOf(m) \in Nat
    BY SizesAre
  <2> QED BY <2>1
<1>11. s.parser.headersSize = a + o
  BY <1>2, <1>3, <1>7 DEF Sizes
<1>12. s.parser.headersSize + n = a + e
  BY <1>6, <1>11
<1>13. /\ q \in ParserType /\ q.headersSize = a + e
       /\ q.bodySize = s.parser.bodySize /\ q.maxBody = s.parser.maxBody
       /\ q.error = IF Exceeds(a + e, HeadersLimit)
                    THEN "HeadersLimitError" ELSE "none"
  BY <1>12 DEF CountedIs
<1>14. ErrorIs(w, s, q, Len(s.forms) + 1, D)
  <2>1. ASSUME Exceeds(a + e, HeadersLimit) PROVE Exceeds(z, HeadersLimit)
    <3>1. a + e <= z
      BY <1>5, <1>6, <1>9, <1>10
    <3> QED BY <1>6, <2>1, <3>1, LimitsAssumption, Exceeding
  <2> QED BY <1>1, <1>3, <1>10, <1>13, <2>1 DEF ErrorIs, Facts
<1>15. PICK f : f = s.form
  OBVIOUS
<1>16. s2 = With(s, q, f)
  <2>1. s = [parser |-> s.parser, requests |-> s.requests, form |-> s.form,
             forms |-> s.forms]
    BY <1>2 DEF History, StateType
  <2> QED BY <1>15, <2>1 DEF With, Put
<1>17. /\ History(w, s2, D)
       /\ s2.parser = q /\ s2.requests = s.requests /\ s2.forms = s.forms
  <2>1. History(w, s, D) /\ q \in ParserType
    BY <1>2, <1>13
  <2> QED BY <1>14, <1>16, <2>1, HistoryKept
<1>18. SUFFICES ASSUME ~Failed(q)
                PROVE  IF whole THEN InMessage(w, s2, D, k, i + 1, 0)
                       ELSE InMessage(w, s2, D, k, i, e)
  BY <1>17 DEF After
<1>19. ~Exceeds(a + e, HeadersLimit)
  BY <1>13, <1>18 DEF Failed
<1>20. Len(s2.forms) = k - 1
  BY <1>17 DEF Reading, InMessage
<1>21. s.parser.maxBody = IF i < BodyAt(m) THEN BodyLimit
                          ELSE LimitOf(s.requests[k].url)
  BY <1>2, <1>3 DEF Sizes
<1>22. s.parser.bodySize = IF s.parser.maxBody = 0 THEN 0 ELSE b
  <2>1. s.parser.bodySize = IF s.parser.maxBody = 0 THEN 0
                            ELSE BodyTo(m, i) + 0
    BY <1>2, <1>3, <1>4 DEF Sizes
  <2> QED BY <1>8, <2>1
<1>23. ~Exceeds(s.parser.bodySize, s.parser.maxBody)
  BY <1>2 DEF Sizes
<1>24. CASE whole
  <2>1. Sizes(s2, m, k, i + 1, 0)
    <3>1. (i < BodyAt(m)) <=> (i + 1 < BodyAt(m))
      BY <1>1, <1>2, <1>3, <1>4, BeforeBody, Added DEF Facts
    <3>2. q.headersSize = HeadersTo(m, i + 1) + 0
      BY <1>5, <1>6, <1>9, <1>13, <1>24
    <3>3. q.bodySize = IF q.maxBody = 0 THEN 0 ELSE BodyTo(m, i + 1) + 0
      BY <1>9, <1>13, <1>22
    <3>4. q.maxBody = IF i + 1 < BodyAt(m) THEN BodyLimit
                      ELSE LimitOf(s2.requests[k].url)
      BY <1>13, <1>17, <1>21, <3>1
    <3>5. ~Exceeds(q.headersSize, HeadersLimit)
      BY <1>13, <1>19
    <3>6. ~Exceeds(q.bodySize, q.maxBody)
      BY <1>13, <1>23
    <3> QED BY <1>17, <3>2, <3>3, <3>4, <3>5, <3>6 DEF Sizes
  <2>2. i + 1 \in 0..Len(Pieces(w[k])) - 1 /\ k \in 1..Len(w)
    BY <1>1, <1>4 DEF Facts
  <2>3. 0 \in 0..Len(Pieces(w[k])[i + 1 + 1].text)
    <3>1. Adds(m, i + 1, Pieces(m)[i + 1 + 1])
      BY <1>3, <2>2, Added
    <3>2. Len(Pieces(m)[i + 1 + 1].text) \in Nat
      BY <3>1 DEF Adds
    <3> QED BY <1>3, <3>2
  <2>4. Len(s2.requests) = IF i + 1 < BodyAt(w[k]) THEN k - 1 ELSE k
    <3>1. (i < BodyAt(m)) <=> (i + 1 < BodyAt(m))
      BY <1>1, <1>2, <1>3, <1>4, BeforeBody, Added DEF Facts
    <3> QED BY <1>2, <1>3, <1>17, <3>1
  <2>5. Uncut(D, k) => Faithful(s2.parser, w, k, i + 1, 0)
    BY <1>17, <1>18, <1>24 DEF FaithfulAfter
  <2>6. InMessage(w, s2, D, k, i + 1, 0)
    BY <1>3, <1>20, <2>1, <2>2, <2>3, <2>4, <2>5 DEF InMessage
  <2> QED BY <1>24, <2>6
<1>25. CASE ~whole
  <2>1. Sizes(s2, m, k, i, e)
    <3>1. q.headersSize = HeadersTo(m, i) + e
      BY <1>7, <1>13
    <3>2. q.bodySize = IF q.maxBody = 0 THEN 0 ELSE BodyTo(m, i) + 0
      BY <1>8, <1>13, <1>22
    <3>3. q.maxBody = IF i < BodyAt(m) THEN BodyLimit
                      ELSE LimitOf(s2.requests[k].url)
      BY <1>13, <1>17, <1>21
    <3>4. ~Exceeds(q.headersSize, HeadersLimit)
      BY <1>13, <1>19
    <3>5. ~Exceeds(q.bodySize, q.maxBody)
      BY <1>13, <1>23
    <3>6. x.kind = Pieces(m)[i + 1].kind
      BY <1>2, <1>3
    <3> QED BY <1>4, <1>17, <3>1, <3>2, <3>3, <3>4, <3>5, <3>6 DEF Sizes
  <2>2. i \in 0..Len(Pieces(w[k])) - 1 /\ k \in 1..Len(w)
    BY <1>1 DEF Facts
  <2>3. e \in 0..Len(Pieces(w[k])[i + 1].text)
    BY <1>2, <1>5, <1>6
  <2>4. Len(s2.requests) = IF i < BodyAt(w[k]) THEN k - 1 ELSE k
    BY <1>2, <1>17
  <2>5. Uncut(D, k) => Faithful(s2.parser, w, k, i, e)
    BY <1>17, <1>18, <1>25 DEF FaithfulAfter
  <2>6. InMessage(w, s2, D, k, i, e)
    BY <1>3, <1>20, <2>1, <2>2, <2>3, <2>4, <2>5 DEF InMessage
  <2> QED BY <1>25, <2>6
<1> QED BY <1>24, <1>25

(* The callbacks of each kind of piece. *)
LEMMA Calls ==
    ASSUME NEW s, ~Failed(s.parser), NEW y
    PROVE  /\ y.kind = "url" =>
                 Callback(s, y) = Put(s, OnUrl(s.parser, y.text))
           /\ y.kind = "field" =>
                 Callback(s, y) = Put(s, OnHeaderField(s.parser, y.text))
           /\ y.kind = "value" =>
                 Callback(s, y) = Put(s, OnHeaderValue(s.parser, y.text))
           /\ y.kind = "headers" => Callback(s, y) = OnHeadersComplete(s)
           /\ y.kind = "chunk" =>
                 Callback(s, y) = Put(s, OnChunkHeader(s.parser))
           /\ y.kind = "body" => Callback(s, y) = OnBodyOfRequest(s, y.text)
           /\ y.kind = "chunkEnd" =>
                 Callback(s, y) = Put(s, OnChunkComplete(s.parser))
           /\ y.kind = "end" => Callback(s, y) = OnMessageCompleteOfRequest(s)
<1>1. CASE y.kind = "url"
  BY <1>1, Zenon DEF Callback, Put
<1>2. CASE y.kind = "field"
  BY <1>2, Zenon DEF Callback, Put
<1>3. CASE y.kind = "value"
  BY <1>3, Zenon DEF Callback, Put
<1>4. CASE y.kind = "headers"
  BY <1>4, Zenon DEF Callback, Put
<1>5. CASE y.kind = "chunk"
  BY <1>5, Zenon DEF Callback, Put
<1>6. CASE y.kind = "body"
  BY <1>6, Zenon DEF Callback, Put
<1>7. CASE y.kind = "chunkEnd"
  BY <1>7, Zenon DEF Callback, Put
<1>8. CASE y.kind = "end"
  BY <1>8, Zenon DEF Callback, Put
<1> QED BY <1>1, <1>2, <1>3, <1>4, <1>5, <1>6, <1>7, <1>8

(* The part of a piece in a packet. *)
Part(x, o, e) == Piece(x.kind, SubSeq(x.text, o + 1, e))

Taken(x, o, e, whole, D, k) ==
    /\ e \in o..Len(x.text)
    /\ whole => e = Len(x.text)
    /\ ~whole => x.kind \in Delimited \cup {"body"}
    /\ ~whole /\ x.kind \in {"url", "field"} => k \in D

(* The places of the parts of messages. *)
LEMMA PlacesAre ==
    ASSUME NEW m \in Message
    PROVE  \E h \in Nat, n \in Nat, b \in Nat :
               /\ h = Len(m.headers) /\ n = Len(m.trailers) /\ b = Len(m.body)
               /\ HeadersAt(m) = 2 * h + 1 /\ BodyAt(m) = 2 * h + 2
               /\ TrailersAt(m) = 2 * h + 3 * b + 3
BY MessageParts

(* The URL. *)
LEMMA UrlStep ==
    ASSUME NEW w, NEW s, NEW D, NEW k, NEW i, NEW o, NEW x,
           Reading(w, s, D, k, i, o, x), AtUrl(w[k], i, x),
           NEW e, NEW whole \in BOOLEAN, Taken(x, o, e, whole, D, k)
    PROVE  After(w, Callback(s, Part(x, o, e)), D, k, i, e, whole)
<1>1. Facts(w, s, k, i, o, x)
  BY FactsBefore
<1>2. PICK m \in Message : m = w[k]
  BY <1>1 DEF Facts
<1>3. i = 0 /\ x.kind = "url" /\ x.text = m.url
  BY <1>2 DEF AtUrl, Piece
<1>4. PICK t \in Seq(Symbols) : t = x.text
  BY <1>3, MessageParts DEF Text
<1>5. o \in 0..Len(t) /\ e \in o..Len(t)
  BY <1>1, <1>4 DEF Facts, Taken
<1>6. PICK part : part = SubSeq(t, o + 1, e)
  OBVIOUS
<1>7. part \in Text /\ Len(part) = e - o /\ SubSeq(t, 1, Len(t)) = t
  BY <1>4, <1>5, <1>6, Parts DEF Text
<1>8. PICK q : q = OnUrl(s.parser, part)
  OBVIOUS
<1>9. PICK n \in Nat : n = e - o
  BY <1>5
<1>10. s.parser \in ParserType /\ ~Failed(s.parser)
  BY <1>1 DEF Facts, Failed
<1>11. /\ CountedIs(s.parser, q, n)
       /\ ~Failed(q) => /\ q.url = part /\ q.headers = s.parser.headers
                        /\ q.name = s.parser.name /\ q.value = s.parser.value
  BY <1>7, <1>8, <1>9, <1>10, OnUrlIs
<1>12. Callback(s, Part(x, o, e)) = Put(s, q)
  <2>1. Part(x, o, e).kind = "url" /\ Part(x, o, e).text = part
    BY <1>3, <1>4, <1>6 DEF Part, Piece
  <2> QED BY <1>8, <1>10, <2>1, Calls
<1>13. FaithfulAfter(w, q, D, k, i, e, whole)
  <2>1. SUFFICES ASSUME Uncut(D, k), ~Failed(q)
                 PROVE  IF whole THEN Faithful(q, w, k, i + 1, 0)
                        ELSE Faithful(q, w, k, i, e)
    BY DEF FaithfulAfter
  <2>2. whole
    <3>1. k \in Nat
      BY <1>1 DEF Facts
    <3> QED BY <1>3, <2>1, <3>1 DEF Uncut, Taken
  <2>3. o = 0 /\ Idle(s.parser, Trail(w, k))
    BY <1>3, <2>1 DEF Reading, InMessage, Faithful
  <2>4. part = m.url
    <3>1. e = Len(t) /\ o + 1 = 1
      BY <1>4, <2>2, <2>3 DEF Taken
    <3> QED BY <1>3, <1>4, <1>6, <1>7, <3>1
  <2>5. q.url = m.url /\ Idle(q, Trail(w, k))
    BY <1>11, <2>1, <2>3, <2>4 DEF Idle
  <2>6. InHeaders(q, m, Trail(w, k), 1, 0)
    <3>1. \A j \in 0..Len(m.headers) : 1 = 1 + 2 * j => j = 0
      OBVIOUS
    <3>2. \A j \in 1..Len(m.headers) : 1 # 2 * j
      OBVIOUS
    <3> QED BY <2>5, <3>1, <3>2 DEF InHeaders, Between
  <2>7. Faithful(q, w, k, 1, 0)
    <3>1. 1 <= HeadersAt(m)
      BY PlacesAre
    <3> QED BY <1>2, <2>6, <3>1 DEF Faithful
  <2> QED BY <1>3, <2>2, <2>7
<1> QED
  <2>1. x.kind \in Delimited
    BY <1>3 DEF Delimited
  <2>2. e \in o..Len(x.text) /\ (whole => e = Len(x.text))
    BY DEF Taken
  <2> QED BY <1>9, <1>11, <1>12, <1>13, <2>1, <2>2, CountStep

(* Types of the headers before a message, and of the requests before it. *)
LEMMA TrailType ==
    ASSUME NEW w \in Seq(Message), NEW k \in 1..Len(w)
    PROVE  Trail(w, k) \in Seq(HeaderLine)
<1>1. CASE k = 1
  BY <1>1 DEF Trail
<1>2. CASE k # 1
  <2>1. k - 1 \in 1..Len(w)
    BY <1>2
  <2>2. PICK m \in Message : m = w[k - 1]
    <3> HIDE DEF Message
    <3> QED BY <2>1
  <2>3. m.trailers \in Seq(HeaderLine)
    BY MessageParts
  <2> QED BY <1>2, <2>2, <2>3 DEF Trail
<1> QED BY <1>1, <1>2

(* What a parser without cuts holds among the headers of a message. *)
LEMMA AmongHeaders ==
    ASSUME NEW p, NEW m, NEW b, NEW o, NEW n \in Nat, n = Len(m.headers),
           NEW j \in 0..n
    PROVE  /\ InHeaders(p, m, b, 1 + 2 * j, o) <=>
                 p.url = m.url /\ o = 0 /\ Between(p, b, m.headers, j)
           /\ j # 0 => (InHeaders(p, m, b, 2 * j, o) <=>
                           p.url = m.url /\ InValue(p, b, m.headers, j, o))
<1>1. ASSUME NEW a \in Nat, 1 + 2 * j = 1 + 2 * a PROVE j = a
  BY <1>1
<1>2. ASSUME NEW a \in Nat, 2 * j = 2 * a PROVE j = a
  BY <1>2
<1>3. \A a \in Nat, c \in Nat : 1 + 2 * a # 2 * c
  OBVIOUS
<1>4. j \in 0..Len(m.headers) /\ (j # 0 => j \in 1..Len(m.headers))
  <2>1. j # 0 => j \in 1..n
    OBVIOUS
  <2> QED BY <2>1
<1>5. InHeaders(p, m, b, 1 + 2 * j, o) <=>
          p.url = m.url /\ o = 0 /\ Between(p, b, m.headers, j)
  BY <1>1, <1>3, <1>4 DEF InHeaders
<1>6. ASSUME j # 0
      PROVE  InHeaders(p, m, b, 2 * j, o) <=>
                 p.url = m.url /\ InValue(p, b, m.headers, j, o)
  BY <1>2, <1>3, <1>4, <1>6 DEF InHeaders
<1> QED BY <1>5, <1>6

(* And among its trailers. *)
LEMMA AmongTrailers ==
    ASSUME NEW p, NEW m, NEW o, NEW n \in Nat, n = Len(m.trailers),
           NEW t \in Nat, t = TrailersAt(m), NEW j \in 0..n
    PROVE  /\ InTrailers(p, m, t + 2 * j, o) <=>
                 o = 0 /\ Between(p, <<>>, m.trailers, j)
           /\ j # 0 => (InTrailers(p, m, t + 2 * j - 1, o) <=>
                           InValue(p, <<>>, m.trailers, j, o))
           /\ InTrailers(p, m, t + 2 * n + 1, o) <=> Idle(p, m.trailers)
<1>1. ASSUME NEW a \in Nat, t + 2 * j = t + 2 * a PROVE j = a
  BY <1>1
<1>2. ASSUME NEW a \in Nat, t + 2 * j - 1 = t + 2 * a - 1 PROVE j = a
  BY <1>2
<1>3. \A a \in Nat, c \in Nat : t + 2 * a # t + 2 * c - 1
  OBVIOUS
<1>4. j \in 0..Len(m.trailers) /\ (j # 0 => j \in 1..Len(m.trailers))
  <2>1. j # 0 => j \in 1..n
    OBVIOUS
  <2> QED BY <2>1
<1>5. /\ t + 2 * j # t + 2 * n + 1
      /\ j # 0 => t + 2 * j - 1 # t + 2 * n + 1
  OBVIOUS
<1>6. InTrailers(p, m, t + 2 * j, o) <=>
          o = 0 /\ Between(p, <<>>, m.trailers, j)
  BY <1>1, <1>3, <1>4, <1>5, SMTT(40) DEF InTrailers
<1>7. ASSUME j # 0
      PROVE  InTrailers(p, m, t + 2 * j - 1, o) <=>
                 InValue(p, <<>>, m.trailers, j, o)
  BY <1>2, <1>3, <1>4, <1>5, <1>7 DEF InTrailers
<1>8. InTrailers(p, m, t + 2 * n + 1, o) <=> Idle(p, m.trailers)
  <2>1. \A a \in 0..n : t + 2 * n + 1 # t + 2 * a
    OBVIOUS
  <2>2. \A a \in 1..n : t + 2 * n + 1 # t + 2 * a - 1
    OBVIOUS
  <2> QED BY <2>1, <2>2 DEF InTrailers
<1> QED BY <1>6, <1>7, <1>8

(* The same, from the name after the header. *)
LEMMA BeforeName ==
    ASSUME NEW p, NEW m, NEW b, NEW o, NEW n \in Nat, n = Len(m.headers),
           NEW j \in 1..n, NEW i \in Nat, i = 2 * j - 1,
           InHeaders(p, m, b, i, o)
    PROVE  p.url = m.url /\ o = 0 /\ Between(p, b, m.headers, j - 1)
<1>1. j - 1 \in 0..Len(m.headers) /\ i = 1 + 2 * (j - 1)
  <2>1. j - 1 \in 0..n /\ i = 1 + 2 * (j - 1)
    OBVIOUS
  <2> QED BY <2>1
<1>2. o = 0 /\ Between(p, b, m.headers, j - 1)
  BY <1>1 DEF InHeaders
<1> QED BY <1>2 DEF InHeaders

(* What the parser holds before the name of a trailer.                     *)
LEMMA BeforeTrailer ==
    ASSUME NEW p, NEW m, NEW o, NEW n \in Nat, n = Len(m.trailers),
           NEW t \in Nat, t = TrailersAt(m), NEW j \in 1..n,
           NEW i \in Nat, i = t + 2 * (j - 1), InTrailers(p, m, i, o)
    PROVE  o = 0 /\ Between(p, <<>>, m.trailers, j - 1)
<1>1. j - 1 \in 0..Len(m.trailers) /\ i = TrailersAt(m) + 2 * (j - 1)
  <2>1. j - 1 \in 0..n
    OBVIOUS
  <2> QED BY <2>1
<1> QED BY <1>1 DEF InTrailers

(* The body is between the headers and the trailers. *)
LEMMA PlacesIn ==
    ASSUME NEW m \in Message
    PROVE  /\ HeadersAt(m) \in Nat /\ TrailersAt(m) \in Nat
           /\ HeadersAt(m) < TrailersAt(m)
           /\ HeadersAt(m) = 2 * Len(m.headers) + 1
<1>1. PICK h \in Nat : h = Len(m.headers)
  BY MessageParts
<1>2. PICK b \in Nat : b = Len(m.body)
  BY MessageParts
<1>3. /\ HeadersAt(m) = 2 * Len(m.headers) + 1
      /\ TrailersAt(m) = 2 * Len(m.headers) + 3 * Len(m.body) + 3
  BY MessageParts
<1>4. HeadersAt(m) = 2 * h + 1 /\ TrailersAt(m) = 2 * h + 3 * b + 3
  BY <1>1, <1>2, <1>3
<1>5. HeadersAt(m) \in Nat /\ TrailersAt(m) \in Nat
      /\ HeadersAt(m) < TrailersAt(m)
  BY <1>4
<1> QED BY <1>3, <1>5

(* Faithful, before and after the body. *)
LEMMA FaithfulIs ==
    ASSUME NEW p, NEW w, NEW k, NEW m, m = w[k], NEW i \in Nat, NEW o,
           NEW h \in Nat, h = HeadersAt(m), NEW t \in Nat, t = TrailersAt(m),
           h < t
    PROVE  /\ i \in 1..h =>
                 (Faithful(p, w, k, i, o) <=>
                     InHeaders(p, m, Trail(w, k), i, o))
           /\ m.chunked /\ i \in h + 1..t - 1 =>
                 (Faithful(p, w, k, i, o) <=> Idle(p, <<>>))
           /\ ~m.chunked /\ i > h =>
                 (Faithful(p, w, k, i, o) <=> Idle(p, <<>>))
           /\ m.chunked /\ i >= t =>
                 (Faithful(p, w, k, i, o) <=> InTrailers(p, m, i, o))
<1>1. ASSUME i \in 1..h
      PROVE  Faithful(p, w, k, i, o) <=> InHeaders(p, m, Trail(w, k), i, o)
  <2>1. i # 0 /\ i <= HeadersAt(w[k])
    BY <1>1
  <2> QED BY <2>1, Zenon DEF Faithful
<1>2. ASSUME m.chunked, i \in h + 1..t - 1
      PROVE  Faithful(p, w, k, i, o) <=> Idle(p, <<>>)
  <2>1. i # 0 /\ ~(i <= HeadersAt(w[k])) /\ i < TrailersAt(w[k])
    BY <1>2
  <2> QED BY <2>1, Zenon DEF Faithful
<1>3. ASSUME ~m.chunked, i > h
      PROVE  Faithful(p, w, k, i, o) <=> Idle(p, <<>>)
  <2>1. i # 0 /\ ~(i <= HeadersAt(w[k]))
    BY <1>3
  <2>2. ~w[k].chunked
    BY <1>3
  <2> QED BY <2>1, <2>2, Zenon DEF Faithful
<1>4. ASSUME m.chunked, i >= t
      PROVE  Faithful(p, w, k, i, o) <=> InTrailers(p, m, i, o)
  <2>1. i # 0 /\ ~(i <= HeadersAt(w[k])) /\ ~(i < TrailersAt(w[k]))
    BY <1>4
  <2>2. w[k].chunked
    BY <1>4
  <2> QED BY <2>1, <2>2, Zenon DEF Faithful
<1> QED BY <1>1, <1>2, <1>3, <1>4

(* A name among the headers is read. *)
LEMMA FieldFaithful ==
    ASSUME NEW w \in Seq(Message), NEW k \in 1..Len(w), NEW m, m = w[k],
           NEW i, NEW x, AtField(m, i, x), NEW p \in ParserType, ~Failed(p),
           NEW o, Faithful(p, w, k, i, o),
           NEW q, q = OnHeaderField(p, x.text), ~Failed(q)
    PROVE  o = 0 /\ Faithful(q, w, k, i + 1, 0)
<1>1. m \in Message
  <2> HIDE DEF Message
  <2> QED OBVIOUS
<1>2. PICK n \in Nat : n = Len(m.headers)
  BY <1>1, MessageParts
<1>3. m.headers \in Seq(HeaderLine) /\ Trail(w, k) \in Seq(HeaderLine)
  BY <1>1, MessageParts, TrailType
<1>4. PICK j \in 1..n : i = 2 * j - 1 /\ x.text = m.headers[j].name
  BY <1>2 DEF AtField, Piece
<1>5. PICK h \in Nat, t \in Nat : h = HeadersAt(m) /\ t = TrailersAt(m)
                                  /\ h < t /\ h = 2 * n + 1
  <2>1. PICK h \in Nat : h = HeadersAt(m) /\ h < TrailersAt(m)
                         /\ h = 2 * Len(m.headers) + 1
    BY <1>1, PlacesIn
  <2>2. PICK t \in Nat : t = TrailersAt(m)
    BY <1>1, PlacesIn
  <2> QED BY <1>2, <2>1, <2>2
<1>6. PICK c \in 0..n : c = j - 1
  BY <1>4
<1>7. i = 1 + 2 * c /\ i \in 1..h /\ i + 1 = 2 * j /\ i + 1 \in 1..h
      /\ i \in Nat /\ i + 1 \in Nat /\ j \in 0..n /\ j # 0
  BY <1>4, <1>5, <1>6
<1>8. InHeaders(p, m, Trail(w, k), i, o)
  BY <1>5, <1>7, FaithfulIs
<1>9. p.url = m.url /\ o = 0 /\ Between(p, Trail(w, k), m.headers, j - 1)
  BY <1>2, <1>4, <1>7, <1>8, BeforeName, SMTT(40)
<1>10. q.url = m.url /\ InValue(q, Trail(w, k), m.headers, j, 0)
  BY <1>2, <1>3, <1>4, <1>9, FieldRead, SMTT(40)
<1>11. InHeaders(q, m, Trail(w, k), 2 * j, 0)
  BY <1>2, <1>7, <1>10, AmongHeaders
<1>12. InHeaders(q, m, Trail(w, k), i + 1, 0)
  BY <1>7, <1>11
<1>13. Faithful(q, w, k, i + 1, 0)
  BY <1>5, <1>7, <1>12, FaithfulIs
<1> QED BY <1>9, <1>13

(* A name among the trailers is read. *)
LEMMA TrailerFieldFaithful ==
    ASSUME NEW w \in Seq(Message), NEW k \in 1..Len(w), NEW m, m = w[k],
           NEW i, NEW x, AtTrailerField(m, i, x),
           NEW p \in ParserType, ~Failed(p), NEW o, Faithful(p, w, k, i, o),
           NEW q, q = OnHeaderField(p, x.text), ~Failed(q)
    PROVE  o = 0 /\ Faithful(q, w, k, i + 1, 0)
<1>1. m \in Message
  <2> HIDE DEF Message
  <2> QED OBVIOUS
<1>2. PICK n \in Nat : n = Len(m.trailers)
  BY <1>1, MessageParts
<1>3. m.trailers \in Seq(HeaderLine) /\ <<>> \in Seq(HeaderLine)
  <2>1. <<>> \in Seq(HeaderLine)
    OBVIOUS
  <2> QED BY <1>1, <2>1, MessageParts
<1>4. PICK h \in Nat, t \in Nat : h = HeadersAt(m) /\ t = TrailersAt(m)
                                  /\ h < t
  BY <1>1, PlacesIn
<1>5. PICK j \in 1..n : i = t + 2 * (j - 1) /\ x.text = m.trailers[j].name
  BY <1>2, <1>4 DEF AtTrailerField, Piece
<1>6. PICK c \in 0..n : c = j - 1
  BY <1>5
<1>7. i = t + 2 * c /\ i >= t /\ i + 1 = t + 2 * j - 1 /\ i + 1 >= t
      /\ i \in Nat /\ i + 1 \in Nat /\ j \in 0..n /\ j # 0
  <2>1. t \in Nat /\ c \in Nat /\ j = c + 1 /\ j \in 1..n
    BY <1>4, <1>6
  <2>2. i = t + 2 * c
    BY <1>5, <1>6
  <2> QED BY <2>1, <2>2
<1>8. m.chunked
  BY DEF AtTrailerField
<1>9. InTrailers(p, m, i, o)
  BY <1>4, <1>7, <1>8, FaithfulIs
<1>10. o = 0 /\ Between(p, <<>>, m.trailers, j - 1)
  <2>1. t \in Nat /\ t = TrailersAt(m)
    BY <1>4
  <2>2. i \in Nat /\ i = t + 2 * (j - 1)
    BY <1>5, <1>7
  <2> QED BY <1>2, <1>9, <2>1, <2>2, BeforeTrailer
<1>11. InValue(q, <<>>, m.trailers, j, 0)
  BY <1>2, <1>3, <1>5, <1>10, FieldRead
<1>12. InTrailers(q, m, t + 2 * j - 1, 0)
  BY <1>2, <1>4, <1>7, <1>11, AmongTrailers
<1>13. InTrailers(q, m, i + 1, 0)
  BY <1>7, <1>12
<1>14. Faithful(q, w, k, i + 1, 0)
  BY <1>4, <1>7, <1>8, <1>13, FaithfulIs
<1> QED BY <1>10, <1>14

(* A part of a value among the headers is read. *)
LEMMA ValueFaithful ==
    ASSUME NEW w \in Seq(Message), NEW k \in 1..Len(w), NEW m, m = w[k],
           NEW i, NEW x, AtValue(m, i, x), NEW p \in ParserType, ~Failed(p),
           NEW o \in 0..Len(x.text), NEW e \in o..Len(x.text),
           Faithful(p, w, k, i, o),
           NEW q, q = OnHeaderValue(p, SubSeq(x.text, o + 1, e)), ~Failed(q)
    PROVE  /\ Faithful(q, w, k, i, e)
           /\ e = Len(x.text) => Faithful(q, w, k, i + 1, 0)
<1>1. m \in Message
  <2> HIDE DEF Message
  <2> QED OBVIOUS
<1>2. PICK n \in Nat : n = Len(m.headers)
  BY <1>1, MessageParts
<1>3. m.headers \in Seq(HeaderLine) /\ Trail(w, k) \in Seq(HeaderLine)
  BY <1>1, MessageParts, TrailType
<1>4. PICK j \in 1..n : i = 2 * j /\ x.text = m.headers[j].value
  BY <1>2 DEF AtValue, Piece
<1>5. PICK h \in Nat, t \in Nat : h = HeadersAt(m) /\ t = TrailersAt(m)
                                  /\ h < t /\ h = 2 * n + 1
  <2>1. PICK h \in Nat : h = HeadersAt(m) /\ h < TrailersAt(m)
                         /\ h = 2 * Len(m.headers) + 1
    BY <1>1, PlacesIn
  <2>2. PICK t \in Nat : t = TrailersAt(m)
    BY <1>1, PlacesIn
  <2> QED BY <1>2, <2>1, <2>2
<1>6. i = 2 * j /\ i \in 1..h /\ i + 1 = 1 + 2 * j /\ i + 1 \in 1..h
      /\ i \in Nat /\ i + 1 \in Nat /\ j \in 0..n /\ j # 0
  BY <1>4, <1>5
<1>7. InHeaders(p, m, Trail(w, k), i, o)
  BY <1>5, <1>6, FaithfulIs
<1>8. p.url = m.url /\ InValue(p, Trail(w, k), m.headers, j, o)
  BY <1>2, <1>6, <1>7, AmongHeaders
<1>9. q.url = m.url /\ InValue(q, Trail(w, k), m.headers, j, e)
  <2>1. j \in 1..Len(m.headers)
    BY <1>2
  <2>2. /\ o \in 0..Len(m.headers[j].value) /\ e \in o..Len(m.headers[j].value)
        /\ q = OnHeaderValue(p, SubSeq(m.headers[j].value, o + 1, e))
    BY <1>4
  <2>3. PICK b \in Seq(HeaderLine) : b = Trail(w, k)
    BY <1>3
  <2>4. m.headers \in Seq(HeaderLine) /\ InValue(p, b, m.headers, j, o)
    BY <1>3, <1>8, <2>3
  <2>5. q.url = p.url /\ InValue(q, b, m.headers, j, e)
    BY <2>1, <2>2, <2>4, ValueRead
  <2> QED BY <1>8, <2>3, <2>5
<1>10. InHeaders(q, m, Trail(w, k), i, e)
  BY <1>2, <1>6, <1>9, AmongHeaders
<1>11. Faithful(q, w, k, i, e)
  BY <1>5, <1>6, <1>10, FaithfulIs
<1>12. ASSUME e = Len(x.text) PROVE Faithful(q, w, k, i + 1, 0)
  <2>1. Between(q, Trail(w, k), m.headers, j)
    BY <1>4, <1>6, <1>9, <1>12 DEF Between
  <2>2. InHeaders(q, m, Trail(w, k), 1 + 2 * j, 0)
    BY <1>2, <1>6, <1>9, <2>1, AmongHeaders
  <2>3. InHeaders(q, m, Trail(w, k), i + 1, 0)
    BY <1>6, <2>2
  <2> QED BY <1>5, <1>6, <2>3, FaithfulIs
<1> QED BY <1>11, <1>12

(* A part of a value among the trailers is read. *)
LEMMA TrailerValueFaithful ==
    ASSUME NEW w \in Seq(Message), NEW k \in 1..Len(w), NEW m, m = w[k],
           NEW i, NEW x, AtTrailerValue(m, i, x),
           NEW p \in ParserType, ~Failed(p),
           NEW o \in 0..Len(x.text), NEW e \in o..Len(x.text),
           Faithful(p, w, k, i, o),
           NEW q, q = OnHeaderValue(p, SubSeq(x.text, o + 1, e)), ~Failed(q)
    PROVE  /\ Faithful(q, w, k, i, e)
           /\ e = Len(x.text) => Faithful(q, w, k, i + 1, 0)
<1>1. m \in Message
  <2> HIDE DEF Message
  <2> QED OBVIOUS
<1>2. PICK n \in Nat : n = Len(m.trailers)
  BY <1>1, MessageParts
<1>3. m.trailers \in Seq(HeaderLine) /\ <<>> \in Seq(HeaderLine)
  <2>1. <<>> \in Seq(HeaderLine)
    OBVIOUS
  <2> QED BY <1>1, <2>1, MessageParts
<1>4. PICK h \in Nat, t \in Nat : h = HeadersAt(m) /\ t = TrailersAt(m)
                                  /\ h < t
  BY <1>1, PlacesIn
<1>5. PICK j \in 1..n : i = t + 2 * (j - 1) + 1
                        /\ x.text = m.trailers[j].value
  BY <1>2, <1>4 DEF AtTrailerValue, Piece
<1>6. i = t + 2 * j - 1 /\ i >= t /\ i + 1 = t + 2 * j /\ i + 1 >= t
      /\ i \in Nat /\ i + 1 \in Nat /\ j \in 0..n /\ j # 0
  <2>1. t \in Nat /\ j \in Nat /\ j >= 1 /\ j <= n
    BY <1>4
  <2>2. i = t + 2 * (j - 1) + 1
    BY <1>5
  <2> QED BY <2>1, <2>2
<1>7. m.chunked
  BY DEF AtTrailerValue
<1>8. InTrailers(p, m, i, o)
  BY <1>4, <1>6, <1>7, FaithfulIs
<1>9. InValue(p, <<>>, m.trailers, j, o)
  BY <1>2, <1>4, <1>6, <1>8, AmongTrailers
<1>10. InValue(q, <<>>, m.trailers, j, e)
  <2>1. j \in 1..Len(m.trailers)
    BY <1>2
  <2>2. /\ o \in 0..Len(m.trailers[j].value)
        /\ e \in o..Len(m.trailers[j].value)
        /\ q = OnHeaderValue(p, SubSeq(m.trailers[j].value, o + 1, e))
    BY <1>5
  <2> QED BY <1>3, <1>9, <2>1, <2>2, ValueRead
<1>11. InTrailers(q, m, i, e)
  BY <1>2, <1>4, <1>6, <1>10, AmongTrailers
<1>12. Faithful(q, w, k, i, e)
  BY <1>4, <1>6, <1>7, <1>11, FaithfulIs
<1>13. ASSUME e = Len(x.text) PROVE Faithful(q, w, k, i + 1, 0)
  <2>1. Between(q, <<>>, m.trailers, j)
    BY <1>5, <1>6, <1>10, <1>13 DEF Between
  <2>2. InTrailers(q, m, t + 2 * j, 0)
    BY <1>2, <1>4, <1>6, <2>1, AmongTrailers
  <2>3. InTrailers(q, m, i + 1, 0)
    BY <1>6, <2>2
  <2> QED BY <1>4, <1>6, <1>7, <2>3, FaithfulIs
<1> QED BY <1>12, <1>13

(* Without cuts, no part of a name has been read. *)
LEMMA NameIsWhole ==
    ASSUME NEW w \in Seq(Message), NEW k \in 1..Len(w), NEW i, NEW x, NEW p,
           NEW o, Faithful(p, w, k, i, o),
           AtField(w[k], i, x) \/ AtTrailerField(w[k], i, x)
    PROVE  o = 0
<1>1. PICK m \in Message : m = w[k]
  <2> HIDE DEF Message
  <2> QED OBVIOUS
<1>2. PICK h \in Nat, t \in Nat : h = HeadersAt(m) /\ t = TrailersAt(m)
                                  /\ h < t /\ h = 2 * Len(m.headers) + 1
  BY <1>1, PlacesIn
<1>3. CASE AtField(m, i, x)
  <2>1. PICK n \in Nat : n = Len(m.headers)
    BY <1>1, MessageParts
  <2>2. PICK j \in 1..n : i = 2 * j - 1
    BY <1>3, <2>1 DEF AtField
  <2>3. i \in Nat /\ i \in 1..h /\ h = 2 * n + 1
    BY <1>2, <2>1, <2>2
  <2>4. InHeaders(p, m, Trail(w, k), i, o)
    BY <1>1, <1>2, <2>3, FaithfulIs
  <2> QED BY <2>1, <2>2, <2>3, <2>4, BeforeName
<1>4. CASE AtTrailerField(m, i, x)
  <2>1. PICK n \in Nat : n = Len(m.trailers)
    BY <1>1, MessageParts
  <2>2. PICK j \in 1..n : i = t + 2 * (j - 1)
    BY <1>2, <1>4, <2>1 DEF AtTrailerField
  <2>3. t \in Nat /\ t = TrailersAt(m)
    BY <1>2
  <2>4. i \in Nat /\ i >= t
    BY <2>2, <2>3
  <2>5. m.chunked
    BY <1>4 DEF AtTrailerField
  <2>6. InTrailers(p, m, i, o)
    BY <1>1, <1>2, <2>4, <2>5, FaithfulIs
  <2> QED BY <2>1, <2>2, <2>3, <2>4, <2>6, BeforeTrailer
<1> QED BY <1>1, <1>3, <1>4

(* The types of names and values. *)
LEMMA HeaderTexts ==
    ASSUME NEW m \in Message, NEW i, NEW x
    PROVE  /\ AtField(m, i, x) \/ AtTrailerField(m, i, x) =>
                 x.kind = "field" /\ x.text \in Text
           /\ AtValue(m, i, x) \/ AtTrailerValue(m, i, x) =>
                 x.kind = "value" /\ x.text \in Text
<1>1. m.headers \in Seq(HeaderLine) /\ m.trailers \in Seq(HeaderLine)
  BY MessageParts
<1>2. ASSUME NEW h \in Seq(HeaderLine), NEW j \in 1..Len(h)
      PROVE  h[j].name \in Text /\ h[j].value \in Text
  <2>1. PICK y \in HeaderLine : y = h[j]
    OBVIOUS
  <2> QED BY <2>1 DEF HeaderLine
<1>3. AtField(m, i, x) => x.kind = "field" /\ x.text \in Text
  BY <1>1, <1>2 DEF AtField, Piece
<1>4. AtTrailerField(m, i, x) => x.kind = "field" /\ x.text \in Text
  BY <1>1, <1>2 DEF AtTrailerField, Piece
<1>5. AtValue(m, i, x) => x.kind = "value" /\ x.text \in Text
  BY <1>1, <1>2 DEF AtValue, Piece
<1>6. AtTrailerValue(m, i, x) => x.kind = "value" /\ x.text \in Text
  BY <1>1, <1>2 DEF AtTrailerValue, Piece
<1> QED BY <1>3, <1>4, <1>5, <1>6

(* What is at hand when a part of a text is read. *)
LEMMA PartOf ==
    ASSUME NEW w, NEW s, NEW D, NEW k, NEW i, NEW o, NEW x,
           Reading(w, s, D, k, i, o, x), x.text \in Text,
           NEW e, NEW whole, Taken(x, o, e, whole, D, k)
    PROVE  /\ w \in Seq(Message) /\ k \in 1..Len(w) /\ w[k] \in Message
           /\ o \in 0..Len(x.text) /\ e \in o..Len(x.text)
           /\ SubSeq(x.text, o + 1, e) \in Text
           /\ Len(SubSeq(x.text, o + 1, e)) = e - o /\ e - o \in Nat
           /\ SubSeq(x.text, 1, Len(x.text)) = x.text
           /\ s.parser \in ParserType /\ ~Failed(s.parser)
           /\ Part(x, o, e).kind = x.kind
           /\ Part(x, o, e).text = SubSeq(x.text, o + 1, e)
           /\ Uncut(D, k) => Faithful(s.parser, w, k, i, o)
<1>1. Facts(w, s, k, i, o, x)
  BY FactsBefore
<1>2. PICK t \in Seq(Symbols) : t = x.text
  BY DEF Text
<1>3. o \in 0..Len(t) /\ e \in o..Len(t)
  BY <1>1, <1>2 DEF Facts, Taken
<1>4. /\ SubSeq(t, o + 1, e) \in Seq(Symbols)
      /\ Len(SubSeq(t, o + 1, e)) = e - o /\ SubSeq(t, 1, Len(t)) = t
  BY <1>3, Parts
<1>5. e - o \in Nat
  BY <1>3
<1>6. w \in Seq(Message)
  BY SetupsAssumption DEF Reading
<1>7. /\ s.parser \in ParserType /\ ~Failed(s.parser)
      /\ k \in 1..Len(w) /\ w[k] \in Message
  BY <1>1 DEF Facts, Failed
<1>8. Uncut(D, k) => Faithful(s.parser, w, k, i, o)
  BY DEF Reading, InMessage
<1>9. /\ Part(x, o, e).kind = x.kind
      /\ Part(x, o, e).text = SubSeq(x.text, o + 1, e)
  BY DEF Part, Piece
<1> QED BY <1>2, <1>3, <1>4, <1>5, <1>6, <1>7, <1>8, <1>9 DEF Text

(* A message that a packet cut is not among the uncut ones. *)
LEMMA CutIsNotUncut ==
    ASSUME NEW D, NEW k \in Nat, k \in D
    PROVE  ~Uncut(D, k)
BY DEF Uncut

(* The name of a header or trailer. *)
LEMMA FieldStep ==
    ASSUME NEW w, NEW s, NEW D, NEW k, NEW i, NEW o, NEW x,
           Reading(w, s, D, k, i, o, x),
           AtField(w[k], i, x) \/ AtTrailerField(w[k], i, x),
           NEW e, NEW whole \in BOOLEAN, Taken(x, o, e, whole, D, k)
    PROVE  After(w, Callback(s, Part(x, o, e)), D, k, i, e, whole)
<1>1. Facts(w, s, k, i, o, x)
  BY FactsBefore
<1>2. x.kind = "field" /\ x.text \in Text
  BY <1>1, HeaderTexts DEF Facts
<1>3. /\ w \in Seq(Message) /\ k \in 1..Len(w) /\ w[k] \in Message
      /\ SubSeq(x.text, o + 1, e) \in Text
      /\ Len(SubSeq(x.text, o + 1, e)) = e - o /\ e - o \in Nat
      /\ SubSeq(x.text, 1, Len(x.text)) = x.text
      /\ s.parser \in ParserType /\ ~Failed(s.parser)
      /\ Part(x, o, e).kind = x.kind
      /\ Part(x, o, e).text = SubSeq(x.text, o + 1, e)
      /\ Uncut(D, k) => Faithful(s.parser, w, k, i, o)
  BY <1>2, PartOf
<1>4. PICK part \in Text : part = SubSeq(x.text, o + 1, e)
  BY <1>3
<1>5. PICK q : q = OnHeaderField(s.parser, part)
  OBVIOUS
<1>6. PICK n \in Nat : n = e - o
  BY <1>3
<1>7. CountedIs(s.parser, q, n)
  BY <1>3, <1>4, <1>5, <1>6, OnHeaderFieldIs, ZenonT(40)
<1>8. Callback(s, Part(x, o, e)) = Put(s, q)
  BY <1>2, <1>3, <1>4, <1>5, Calls
<1>9. FaithfulAfter(w, q, D, k, i, e, whole)
  <2>1. SUFFICES ASSUME Uncut(D, k), ~Failed(q)
                 PROVE  IF whole THEN Faithful(q, w, k, i + 1, 0)
                        ELSE Faithful(q, w, k, i, e)
    BY DEF FaithfulAfter
  <2>2. whole
    <3>1. k \in Nat
      BY <1>3
    <3> QED BY <1>2, <2>1, <3>1, CutIsNotUncut DEF Taken
  <2>3. Faithful(s.parser, w, k, i, o)
    BY <1>3, <2>1
  <2>4. o = 0 /\ e = Len(x.text) => part = x.text
    BY <1>3, <1>4
  <2>5. o = 0
    BY <1>3, <2>3, NameIsWhole
  <2>6. q = OnHeaderField(s.parser, x.text)
    BY <1>5, <2>2, <2>4, <2>5 DEF Taken
  <2>7. Faithful(q, w, k, i + 1, 0)
    BY <1>3, <2>1, <2>3, <2>6, FieldFaithful, TrailerFieldFaithful
  <2> QED BY <2>2, <2>7
<1> QED
  <2>1. x.kind \in Delimited
    BY <1>2 DEF Delimited
  <2>2. e \in o..Len(x.text) /\ (whole => e = Len(x.text))
    BY DEF Taken
  <2> QED BY <1>6, <1>7, <1>8, <1>9, <2>1, <2>2, CountStep

(* The value of a header or trailer. *)
LEMMA ValueStep ==
    ASSUME NEW w, NEW s, NEW D, NEW k, NEW i, NEW o, NEW x,
           Reading(w, s, D, k, i, o, x),
           AtValue(w[k], i, x) \/ AtTrailerValue(w[k], i, x),
           NEW e, NEW whole \in BOOLEAN, Taken(x, o, e, whole, D, k)
    PROVE  After(w, Callback(s, Part(x, o, e)), D, k, i, e, whole)
<1>1. Facts(w, s, k, i, o, x)
  BY FactsBefore
<1>2. x.kind = "value" /\ x.text \in Text
  BY <1>1, HeaderTexts DEF Facts
<1>3. /\ w \in Seq(Message) /\ k \in 1..Len(w) /\ w[k] \in Message
      /\ o \in 0..Len(x.text) /\ e \in o..Len(x.text)
      /\ SubSeq(x.text, o + 1, e) \in Text
      /\ Len(SubSeq(x.text, o + 1, e)) = e - o /\ e - o \in Nat
      /\ s.parser \in ParserType /\ ~Failed(s.parser)
      /\ Part(x, o, e).kind = x.kind
      /\ Part(x, o, e).text = SubSeq(x.text, o + 1, e)
      /\ Uncut(D, k) => Faithful(s.parser, w, k, i, o)
  BY <1>2, PartOf
<1>4. PICK part \in Text : part = SubSeq(x.text, o + 1, e)
  BY <1>3
<1>5. PICK q : q = OnHeaderValue(s.parser, part)
  OBVIOUS
<1>6. PICK n \in Nat : n = e - o
  BY <1>3
<1>7. CountedIs(s.parser, q, n)
  BY <1>3, <1>4, <1>5, <1>6, OnHeaderValueIs, ZenonT(40)
<1>8. Callback(s, Part(x, o, e)) = Put(s, q)
  BY <1>2, <1>3, <1>4, <1>5, Calls
<1>9. FaithfulAfter(w, q, D, k, i, e, whole)
  <2>1. SUFFICES ASSUME Uncut(D, k), ~Failed(q)
                 PROVE  IF whole THEN Faithful(q, w, k, i + 1, 0)
                        ELSE Faithful(q, w, k, i, e)
    BY DEF FaithfulAfter
  <2>2. Faithful(s.parser, w, k, i, o)
    BY <1>3, <2>1
  <2>3. /\ Faithful(q, w, k, i, e)
        /\ e = Len(x.text) => Faithful(q, w, k, i + 1, 0)
    BY <1>3, <1>4, <1>5, <2>1, <2>2, ValueFaithful, TrailerValueFaithful
  <2> QED BY <2>3 DEF Taken
<1> QED
  <2>1. x.kind \in Delimited
    BY <1>2 DEF Delimited
  <2>2. e \in o..Len(x.text) /\ (whole => e = Len(x.text))
    BY DEF Taken
  <2> QED BY <1>6, <1>7, <1>8, <1>9, <2>1, <2>2, CountStep

(* The next piece of a message that is not its end begins with nothing. *)
LEMMA NextPlace ==
    ASSUME NEW w, NEW s, NEW k, NEW i, NEW o, NEW x, Facts(w, s, k, i, o, x),
           x # End
    PROVE  /\ i + 1 \in 0..Len(Pieces(w[k])) - 1 /\ k \in 1..Len(w)
           /\ 0 \in 0..Len(Pieces(w[k])[i + 1 + 1].text)
<1>1. i + 1 \in 0..Len(Pieces(w[k])) - 1 /\ k \in 1..Len(w)
      /\ w[k] \in Message
  BY DEF Facts
<1>2. PICK m \in Message : m = w[k]
  BY <1>1
<1>3. Adds(m, i + 1, Pieces(m)[i + 1 + 1])
  BY <1>1, <1>2, Added
<1>4. Len(Pieces(m)[i + 1 + 1].text) \in Nat
  BY <1>3 DEF Adds
<1> QED BY <1>1, <1>2, <1>4

(* The marks before and after chunks count for nothing. *)
LEMMA MarkStep ==
    ASSUME NEW w, NEW s, NEW D, NEW k, NEW i, NEW o, NEW x,
           Reading(w, s, D, k, i, o, x), x.kind \in {"chunk", "chunkEnd"},
           NEW e, NEW q \in ParserType,
           q.headersSize = s.parser.headersSize,
           q.bodySize = s.parser.bodySize, q.maxBody = s.parser.maxBody,
           q.error \in {"none", "HttpParserError"},
           q.error = "HttpParserError" => D # {},
           FaithfulAfter(w, q, D, k, i, e, TRUE),
           NEW s2, s2 = Put(s, q)
    PROVE  After(w, s2, D, k, i, e, TRUE)
<1>1. Facts(w, s, k, i, o, x)
  BY FactsBefore
<1>2. /\ History(w, s, D) /\ x = Pieces(w[k])[i + 1]
      /\ Sizes(s, w[k], k, i, o)
      /\ Len(s.requests) = IF i < BodyAt(w[k]) THEN k - 1 ELSE k
  BY DEF Reading, InMessage
<1>3. PICK m \in Message : m = w[k]
  BY <1>1 DEF Facts
<1>4. x # End /\ x # Mark("headers") /\ x.kind # "body"
      /\ x.kind \notin Delimited
  BY DEF Delimited, End, Mark, Piece
<1>5. PICK a \in Nat : a = HeadersTo(m, i)
  BY <1>1, <1>3 DEF Facts, Adds
<1>6. PICK b \in Nat : b = BodyTo(m, i)
  BY <1>1, <1>3 DEF Facts, Adds
<1>7. HeadersTo(m, i + 1) = a /\ BodyTo(m, i + 1) = b
  <2>1. HeadersTo(m, i + 1) = HeadersTo(m, i) + 0
    BY <1>1, <1>3, <1>4 DEF Facts, Adds
  <2>2. BodyTo(m, i + 1) = BodyTo(m, i) + 0
    BY <1>1, <1>3, <1>4 DEF Facts, Adds
  <2> QED BY <1>5, <1>6, <2>1, <2>2
<1>8. s.parser.headersSize = a
  <2>1. s.parser.headersSize = HeadersTo(m, i) + 0
    BY <1>2, <1>3, <1>4 DEF Sizes
  <2> QED BY <1>5, <2>1
<1>9. ErrorIs(w, s, q, Len(s.forms) + 1, D)
  BY DEF ErrorIs
<1>10. PICK f : f = s.form
  OBVIOUS
<1>11. s2 = With(s, q, f)
  <2>1. s = [parser |-> s.parser, requests |-> s.requests, form |-> s.form,
             forms |-> s.forms]
    BY <1>2 DEF History, StateType
  <2> QED BY <1>10, <2>1 DEF With, Put
<1>12. /\ History(w, s2, D)
       /\ s2.parser = q /\ s2.requests = s.requests /\ s2.forms = s.forms
  BY <1>2, <1>9, <1>11, HistoryKept
<1>13. SUFFICES ASSUME ~Failed(q) PROVE InMessage(w, s2, D, k, i + 1, 0)
  BY <1>12 DEF After
<1>14. Len(s2.forms) = k - 1
  BY <1>12 DEF Reading, InMessage
<1>15. s.parser.maxBody = IF i < BodyAt(m) THEN BodyLimit
                          ELSE LimitOf(s.requests[k].url)
  BY <1>2, <1>3 DEF Sizes
<1>16. s.parser.bodySize = IF s.parser.maxBody = 0 THEN 0 ELSE b
  <2>1. s.parser.bodySize = IF s.parser.maxBody = 0 THEN 0
                            ELSE BodyTo(m, i) + 0
    BY <1>2, <1>3, <1>4 DEF Sizes
  <2> QED BY <1>6, <2>1
<1>17. /\ ~Exceeds(s.parser.headersSize, HeadersLimit)
       /\ ~Exceeds(s.parser.bodySize, s.parser.maxBody)
  BY <1>2 DEF Sizes
<1>18. (i < BodyAt(m)) <=> (i + 1 < BodyAt(m))
  BY <1>1, <1>2, <1>3, <1>4, BeforeBody, Added DEF Facts
<1>19. Sizes(s2, m, k, i + 1, 0)
  <2>1. q.headersSize = HeadersTo(m, i + 1) + 0
    BY <1>7, <1>8
  <2>2. q.bodySize = IF q.maxBody = 0 THEN 0 ELSE BodyTo(m, i + 1) + 0
    BY <1>7, <1>16
  <2>3. q.maxBody = IF i + 1 < BodyAt(m) THEN BodyLimit
                    ELSE LimitOf(s2.requests[k].url)
    BY <1>12, <1>15, <1>18
  <2> QED BY <1>12, <1>17, <2>1, <2>2, <2>3 DEF Sizes
<1>20. Len(s2.requests) = IF i + 1 < BodyAt(w[k]) THEN k - 1 ELSE k
  BY <1>2, <1>3, <1>12, <1>18
<1>21. Uncut(D, k) => Faithful(s2.parser, w, k, i + 1, 0)
  BY <1>12, <1>13 DEF FaithfulAfter
<1>22. i + 1 \in 0..Len(Pieces(w[k])) - 1 /\ k \in 1..Len(w)
       /\ 0 \in 0..Len(Pieces(w[k])[i + 1 + 1].text)
  BY <1>1, <1>4, NextPlace
<1> QED BY <1>3, <1>14, <1>19, <1>20, <1>21, <1>22 DEF InMessage

(* The places of chunks, and what a parser holds there. *)
LEMMA AtChunks ==
    ASSUME NEW m \in Message, NEW i, NEW x
    PROVE  /\ AtChunk(m, i, x) =>
                 /\ m.chunked /\ i > HeadersAt(m) /\ i < TrailersAt(m)
                 /\ i \in Nat
           /\ AtBody(m, i, x) \/ AtChunkEnd(m, i, x) =>
                 /\ m.chunked /\ i > HeadersAt(m) /\ i + 1 < TrailersAt(m)
                 /\ i \in Nat
           /\ AtWhole(m, i, x) =>
                 ~m.chunked /\ i > HeadersAt(m) /\ i \in Nat
<1>1. PICK h \in Nat : h = Len(m.headers)
  BY MessageParts
<1>2. PICK b \in Nat : b = Len(m.body)
  BY MessageParts
<1>3. /\ HeadersAt(m) = 2 * h + 1 /\ BodyAt(m) = 2 * h + 2
      /\ TrailersAt(m) = 2 * h + 3 * b + 3
  <2>1. /\ HeadersAt(m) = 2 * Len(m.headers) + 1
        /\ BodyAt(m) = 2 * Len(m.headers) + 2
        /\ TrailersAt(m) = 2 * Len(m.headers) + 3 * Len(m.body) + 3
    BY MessageParts
  <2> QED BY <1>1, <1>2, <2>1
<1>4. ASSUME AtChunk(m, i, x)
      PROVE  /\ m.chunked /\ i > HeadersAt(m) /\ i < TrailersAt(m)
             /\ i \in Nat
  <2>1. PICK c \in 1..b + 1 : i = 2 * h + 2 + 3 * (c - 1)
    BY <1>2, <1>3, <1>4 DEF AtChunk
  <2>2. i \in Nat /\ i > 2 * h + 1 /\ i < 2 * h + 3 * b + 3
    BY <2>1
  <2>3. m.chunked
    BY <1>4 DEF AtChunk
  <2> QED BY <1>3, <2>2, <2>3
<1>5. ASSUME AtBody(m, i, x)
      PROVE  /\ m.chunked /\ i > HeadersAt(m) /\ i + 1 < TrailersAt(m)
             /\ i \in Nat
  <2>1. PICK c \in 1..b : i = 2 * h + 2 + 3 * (c - 1) + 1
    BY <1>2, <1>3, <1>5 DEF AtBody
  <2>2. i \in Nat /\ i > 2 * h + 1 /\ i + 1 < 2 * h + 3 * b + 3
    BY <2>1
  <2>3. m.chunked
    BY <1>5 DEF AtBody
  <2> QED BY <1>3, <2>2, <2>3
<1>6. ASSUME AtChunkEnd(m, i, x)
      PROVE  /\ m.chunked /\ i > HeadersAt(m) /\ i + 1 < TrailersAt(m)
             /\ i \in Nat
  <2>1. PICK c \in 1..b : i = 2 * h + 2 + 3 * (c - 1) + 2
    BY <1>2, <1>3, <1>6 DEF AtChunkEnd
  <2>2. i \in Nat /\ i > 2 * h + 1 /\ i + 1 < 2 * h + 3 * b + 3
    BY <2>1
  <2>3. m.chunked
    BY <1>6 DEF AtChunkEnd
  <2> QED BY <1>3, <2>2, <2>3
<1>7. ASSUME AtWhole(m, i, x)
      PROVE  ~m.chunked /\ i > HeadersAt(m) /\ i \in Nat
  <2>1. ~m.chunked /\ i = 2 * h + 2
    BY <1>3, <1>7 DEF AtWhole
  <2> QED BY <1>3, <2>1
<1> QED BY <1>4, <1>5, <1>6, <1>7

(* Chunks find the headers given, or a name that a packet cut. *)
LEMMA ChunkStep ==
    ASSUME NEW w, NEW s, NEW D, NEW k, NEW i, NEW o, NEW x,
           Reading(w, s, D, k, i, o, x), AtChunk(w[k], i, x), NEW e
    PROVE  After(w, Callback(s, Part(x, o, e)), D, k, i, e, TRUE)
<1>1. Facts(w, s, k, i, o, x)
  BY FactsBefore
<1>2. PICK m \in Message : m = w[k]
  BY <1>1 DEF Facts
<1>3. x.kind = "chunk"
  BY DEF AtChunk, Mark, Piece
<1>4. s.parser \in ParserType /\ ~Failed(s.parser) /\ s.parser.error = "none"
  BY <1>1 DEF Facts, Failed
<1>5. PICK q : q = OnChunkHeader(s.parser)
  OBVIOUS
<1>6. Callback(s, Part(x, o, e)) = Put(s, q)
  <2>1. Part(x, o, e).kind = "chunk"
    BY <1>3 DEF Part, Piece
  <2> QED BY <1>4, <1>5, <2>1, Calls
<1>7. PICK h \in Nat, t \in Nat : h = HeadersAt(m) /\ t = TrailersAt(m)
                                  /\ h < t
  BY PlacesIn
<1>8. m.chunked /\ i \in Nat /\ i \in h + 1..t - 1
  BY <1>2, <1>7, AtChunks
<1>9. Uncut(D, k) => Idle(s.parser, <<>>)
  BY <1>2, <1>7, <1>8, FaithfulIs DEF Reading, InMessage
<1>10. CASE s.parser.name = <<>> /\ s.parser.value = <<>>
  <2>1. q = s.parser
    BY <1>5, <1>10 DEF OnChunkHeader
  <2>2. FaithfulAfter(w, q, D, k, i, e, TRUE)
    <3>1. SUFFICES ASSUME Uncut(D, k) PROVE Faithful(q, w, k, i + 1, 0)
      BY DEF FaithfulAfter
    <3>2. Idle(q, <<>>)
      BY <1>9, <2>1, <3>1
    <3>3. CASE i + 1 <= t - 1
      <4>1. i + 1 \in h + 1..t - 1 /\ i + 1 \in Nat
        BY <1>7, <1>8, <3>3
      <4> QED BY <1>2, <1>7, <1>8, <3>2, <4>1, FaithfulIs
    <3>4. CASE i + 1 = t
      <4>1. PICK n \in Nat : n = Len(m.trailers)
        BY MessageParts
      <4>2. PICK j \in 0..n : j = 0
        OBVIOUS
      <4>3. Between(q, <<>>, m.trailers, j)
        BY <3>2, <4>2 DEF Between
      <4>4. t \in Nat /\ t = TrailersAt(m)
        BY <1>7
      <4>5. InTrailers(q, m, t + 2 * j, 0)
        BY <4>1, <4>3, <4>4, AmongTrailers
      <4>6. t + 2 * j = i + 1 /\ i + 1 \in Nat /\ i + 1 >= t
        BY <3>4, <4>2, <4>4
      <4>7. InTrailers(q, m, i + 1, 0)
        BY <4>5, <4>6
      <4> QED BY <1>2, <1>7, <1>8, <4>6, <4>7, FaithfulIs
    <3>5. i + 1 <= t - 1 \/ i + 1 = t
      BY <1>7, <1>8
    <3> QED BY <3>3, <3>4, <3>5
  <2> QED BY <1>3, <1>4, <1>6, <2>1, <2>2, MarkStep
<1>11. CASE ~(s.parser.name = <<>> /\ s.parser.value = <<>>)
  <2>1. q = [s.parser EXCEPT !.error = "HttpParserError"]
    BY <1>5, <1>11 DEF OnChunkHeader
  <2>2. /\ q \in ParserType /\ q.error = "HttpParserError"
        /\ q.headersSize = s.parser.headersSize
        /\ q.bodySize = s.parser.bodySize /\ q.maxBody = s.parser.maxBody
    BY <1>4, <2>1 DEF ParserType, Errors
  <2>3. ~Uncut(D, k)
    BY <1>9, <1>11 DEF Idle
  <2>4. D # {}
    BY <2>3 DEF Uncut
  <2>5. FaithfulAfter(w, q, D, k, i, e, TRUE)
    BY <2>3 DEF FaithfulAfter
  <2> QED BY <1>3, <1>6, <2>2, <2>4, <2>5, MarkStep
<1> QED BY <1>10, <1>11

(* The end of a chunk, or of the trailers. *)
LEMMA ChunkEndStep ==
    ASSUME NEW w, NEW s, NEW D, NEW k, NEW i, NEW o, NEW x,
           Reading(w, s, D, k, i, o, x),
           AtChunkEnd(w[k], i, x) \/ AtTrailersEnd(w[k], i, x), NEW e
    PROVE  After(w, Callback(s, Part(x, o, e)), D, k, i, e, TRUE)
<1>1. Facts(w, s, k, i, o, x)
  BY FactsBefore
<1>2. PICK m \in Message : m = w[k]
  BY <1>1 DEF Facts
<1>3. x.kind = "chunkEnd"
  BY DEF AtChunkEnd, AtTrailersEnd, Mark, Piece
<1>4. s.parser \in ParserType /\ ~Failed(s.parser) /\ s.parser.error = "none"
  BY <1>1 DEF Facts, Failed
<1>5. PICK q : q = WithHeader(s.parser)
  OBVIOUS
<1>6. Callback(s, Part(x, o, e)) = Put(s, q)
  <2>1. Part(x, o, e).kind = "chunkEnd"
    BY <1>3 DEF Part, Piece
  <2> QED BY <1>4, <1>5, <2>1, Calls DEF OnChunkComplete
<1>7. PICK h \in Nat, t \in Nat : h = HeadersAt(m) /\ t = TrailersAt(m)
                                  /\ h < t
  BY PlacesIn
<1>8. /\ q \in ParserType /\ q.error = "none"
      /\ q.headersSize = s.parser.headersSize
      /\ q.bodySize = s.parser.bodySize /\ q.maxBody = s.parser.maxBody
      /\ s.parser.name = <<>> => q = s.parser
  BY <1>4, <1>5, WithHeaderIs
<1>9. Uncut(D, k) => Faithful(s.parser, w, k, i, o)
  BY DEF Reading, InMessage
<1>10. FaithfulAfter(w, q, D, k, i, e, TRUE)
  <2>1. SUFFICES ASSUME Uncut(D, k) PROVE Faithful(q, w, k, i + 1, 0)
    BY DEF FaithfulAfter
  <2>2. Faithful(s.parser, w, k, i, o)
    BY <1>9, <2>1
  <2>3. CASE AtChunkEnd(m, i, x)
    <3>1. m.chunked /\ i \in Nat /\ i > HeadersAt(m)
          /\ i + 1 < TrailersAt(m)
      BY <2>3, AtChunks
    <3>2. h \in Nat /\ t \in Nat
      BY <1>7
    <3>3. i \in h + 1..t - 1 /\ i + 1 \in h + 1..t - 1 /\ i + 1 \in Nat
      BY <1>7, <3>1, <3>2
    <3>4. Idle(s.parser, <<>>)
      BY <1>2, <1>7, <2>2, <3>1, <3>3, FaithfulIs
    <3>5. Idle(q, <<>>)
      BY <1>8, <3>4 DEF Idle
    <3> QED BY <1>2, <1>7, <3>1, <3>3, <3>5, FaithfulIs
  <2>4. CASE AtTrailersEnd(m, i, x)
    <3>1. PICK n \in Nat : n = Len(m.trailers)
      BY MessageParts
    <3>2. m.chunked /\ i = t + 2 * n
      BY <1>7, <2>4, <3>1 DEF AtTrailersEnd
    <3>3. t \in Nat /\ t = TrailersAt(m) /\ n \in 0..n
      BY <1>7
    <3>4. i \in Nat /\ i >= t /\ i + 1 = t + 2 * n + 1 /\ i + 1 \in Nat
          /\ i + 1 >= t
      BY <3>2, <3>3
    <3>5. InTrailers(s.parser, m, t + 2 * n, o)
      BY <1>2, <1>7, <2>2, <3>2, <3>4, FaithfulIs
    <3>6. Between(s.parser, <<>>, m.trailers, n)
      BY <3>1, <3>3, <3>5, AmongTrailers
    <3>7. m.trailers \in Seq(HeaderLine) /\ <<>> \in Seq(HeaderLine)
      <4>1. <<>> \in Seq(HeaderLine)
        OBVIOUS
      <4> QED BY <4>1, MessageParts
    <3>8. Idle(q, <<>> \o m.trailers)
      BY <1>4, <1>5, <3>1, <3>6, <3>7, Finished
    <3>9. <<>> \o m.trailers = m.trailers
      <4>1. PICK u \in Seq(HeaderLine) : u = m.trailers
        BY <3>7
      <4>2. <<>> \o u = u
        OBVIOUS
      <4> QED BY <4>1, <4>2
    <3>10. InTrailers(q, m, t + 2 * n + 1, 0)
      BY <3>1, <3>3, <3>8, <3>9, AmongTrailers
    <3>11. InTrailers(q, m, i + 1, 0)
      BY <3>4, <3>10
    <3> QED BY <1>2, <1>7, <3>2, <3>4, <3>11, FaithfulIs
  <2> QED BY <1>2, <2>3, <2>4
<1> QED BY <1>3, <1>6, <1>8, <1>10, MarkStep

(* What OnBody() does. *)
LEMMA OnBodyIs ==
    ASSUME NEW p \in ParserType, ~Failed(p), NEW text, NEW n \in Nat,
           n = Len(text), NEW q, q = OnBody(p, text)
    PROVE  /\ q \in ParserType
           /\ q.headersSize = p.headersSize /\ q.maxBody = p.maxBody
           /\ q.headers = p.headers /\ q.name = p.name /\ q.value = p.value
           /\ p.maxBody = 0 => q.bodySize = p.bodySize /\ q.error = "none"
           /\ p.maxBody # 0 =>
                 /\ q.bodySize = p.bodySize + n
                 /\ q.error = IF Exceeds(p.bodySize + n, p.maxBody)
                              THEN "BodyLimitError" ELSE "none"
<1>1. p.error = "none"
  BY DEF Failed
<1>2. CASE p.maxBody = 0
  BY <1>1, <1>2 DEF OnBody
<1>3. CASE p.maxBody # 0
  <2>1. PICK z \in Nat : z = p.bodySize + n
    <3>1. p.bodySize \in Nat
      BY DEF ParserType
    <3> QED BY <3>1
  <2>2. PICK x \in Errors :
            x = IF Exceeds(z, p.maxBody) THEN "BodyLimitError" ELSE "none"
    BY DEF Errors
  <2>3. p.bodySize + Len(text) = z
    BY <2>1
  <2>4. q = [p EXCEPT !.bodySize = z, !.error = x]
    <3>1. CASE Exceeds(z, p.maxBody)
      <4>1. p.maxBody > 0 /\ z > p.maxBody /\ x = "BodyLimitError"
        BY <2>2, <3>1 DEF Exceeds
      <4> QED BY <1>1, <1>3, <2>3, <4>1 DEF OnBody, Exceeds
    <3>2. CASE ~Exceeds(z, p.maxBody)
      <4>1. ~(p.maxBody > 0 /\ z > p.maxBody) /\ x = "none"
        BY <2>2, <3>2 DEF Exceeds
      <4> QED BY <1>1, <1>3, <2>3, <4>1 DEF OnBody, Exceeds
    <3> QED BY <3>1, <3>2
  <2>5. /\ q \in ParserType /\ q.bodySize = z /\ q.error = x
        /\ q.headersSize = p.headersSize /\ q.maxBody = p.maxBody
        /\ q.headers = p.headers /\ q.name = p.name /\ q.value = p.value
    BY <2>4 DEF ParserType
  <2> QED BY <1>3, <2>1, <2>2, <2>5
<1> QED BY <1>2, <1>3

(* The texts of a body. *)
LEMMA BodyTexts ==
    ASSUME NEW m \in Message, NEW i, NEW x,
           AtWhole(m, i, x) \/ AtBody(m, i, x)
    PROVE  /\ x.kind = "body" /\ x.text \in Text
           /\ i \in Nat /\ ~(i < BodyAt(m)) /\ ~(i + 1 < BodyAt(m))
<1>1. PICK h \in Nat : h = Len(m.headers)
  BY MessageParts
<1>2. HeadersAt(m) = 2 * h + 1 /\ BodyAt(m) = 2 * h + 2
  BY <1>1, MessageParts
<1>3. i > HeadersAt(m) /\ i \in Nat
  BY AtChunks
<1>4. ~(i < BodyAt(m)) /\ ~(i + 1 < BodyAt(m))
  BY <1>2, <1>3
<1>5. CASE AtWhole(m, i, x)
  <2>1. FlattenSeq(m.body) \in Text
    BY BodyPiecesAre
  <2> QED BY <1>3, <1>4, <1>5, <2>1 DEF AtWhole, Piece
<1>6. CASE AtBody(m, i, x)
  <2>1. PICK c \in 1..Len(m.body) : x = Piece("body", m.body[c])
    BY <1>6 DEF AtBody
  <2>2. m.body \in Seq(Text)
    BY MessageParts
  <2>3. m.body[c] \in Text
    BY <2>2
  <2> QED BY <1>3, <1>4, <2>1, <2>3 DEF Piece
<1> QED BY <1>5, <1>6

(* Without cuts, the headers of a message are given when its body comes. *)
LEMMA BodyFaithful ==
    ASSUME NEW m \in Message, NEW i, NEW x,
           AtWhole(m, i, x) \/ AtBody(m, i, x),
           NEW w, NEW k, m = w[k], NEW p, NEW q, NEW o, NEW e,
           Faithful(p, w, k, i, o), q.name = p.name, q.value = p.value,
           q.headers = p.headers
    PROVE  Faithful(q, w, k, i, e) /\ Faithful(q, w, k, i + 1, 0)
<1>1. PICK h \in Nat, t \in Nat : h = HeadersAt(m) /\ t = TrailersAt(m)
                                  /\ h < t
  BY PlacesIn
<1>2. h \in Nat /\ t \in Nat
  BY <1>1
<1>3. CASE AtWhole(m, i, x)
  <2>1. ~m.chunked /\ i \in Nat /\ i > h /\ i + 1 \in Nat /\ i + 1 > h
    <3>1. ~m.chunked /\ i > HeadersAt(m) /\ i \in Nat
      BY <1>3, AtChunks
    <3> QED BY <1>1, <1>2, <3>1
  <2>2. Idle(p, <<>>)
    BY <1>1, <2>1, FaithfulIs
  <2>3. Idle(q, <<>>)
    BY <2>2 DEF Idle
  <2> QED BY <1>1, <2>1, <2>3, FaithfulIs
<1>4. CASE AtBody(m, i, x)
  <2>1. m.chunked /\ i > HeadersAt(m) /\ i + 1 < TrailersAt(m) /\ i \in Nat
    BY <1>4, AtChunks
  <2>2. i \in h + 1..t - 1 /\ i + 1 \in h + 1..t - 1 /\ i + 1 \in Nat
    BY <1>1, <1>2, <2>1
  <2>3. Idle(p, <<>>)
    BY <1>1, <2>1, <2>2, FaithfulIs
  <2>4. Idle(q, <<>>)
    BY <2>3 DEF Idle
  <2> QED BY <1>1, <2>1, <2>2, <2>4, FaithfulIs
<1> QED BY <1>3, <1>4

(* Some of the body. *)
LEMMA BodyStep ==
    ASSUME NEW w, NEW s, NEW D, NEW k, NEW i, NEW o, NEW x,
           Reading(w, s, D, k, i, o, x),
           AtWhole(w[k], i, x) \/ AtBody(w[k], i, x),
           NEW e, NEW whole \in BOOLEAN, Taken(x, o, e, whole, D, k)
    PROVE  After(w, Callback(s, Part(x, o, e)), D, k, i, e, whole)
<1>1. Facts(w, s, k, i, o, x)
  BY FactsBefore
<1>2. PICK m \in Message : m = w[k]
  BY <1>1 DEF Facts
<1>3. /\ x.kind = "body" /\ x.text \in Text
      /\ i \in Nat /\ ~(i < BodyAt(m)) /\ ~(i + 1 < BodyAt(m))
  BY <1>2, BodyTexts
<1>4. /\ History(w, s, D) /\ x = Pieces(w[k])[i + 1]
      /\ Sizes(s, w[k], k, i, o)
      /\ Len(s.requests) = IF i < BodyAt(w[k]) THEN k - 1 ELSE k
      /\ Uncut(D, k) => Faithful(s.parser, w, k, i, o)
  BY DEF Reading, InMessage
<1>5. PICK part \in Text : /\ part = SubSeq(x.text, o + 1, e)
                           /\ Part(x, o, e).kind = "body"
                           /\ Part(x, o, e).text = part
  <2>1. /\ SubSeq(x.text, o + 1, e) \in Text
        /\ Part(x, o, e).kind = x.kind
        /\ Part(x, o, e).text = SubSeq(x.text, o + 1, e)
    BY <1>3, PartOf
  <2> QED BY <1>3, <2>1
<1>6. PICK n \in Nat : n = e - o /\ n = Len(part)
  <2>1. Len(SubSeq(x.text, o + 1, e)) = e - o /\ e - o \in Nat
    BY <1>3, PartOf
  <2> QED BY <1>5, <2>1
<1>7. s.parser \in ParserType /\ ~Failed(s.parser) /\ s.parser.error = "none"
  BY <1>1 DEF Facts, Failed
<1>8. PICK q : q = OnBody(s.parser, part)
  OBVIOUS
<1>9. PICK f : OnBodyOfRequest(s, part) = With(s, q, f)
  BY <1>8 DEF OnBodyOfRequest, With
<1>10. PICK s2 : s2 = With(s, q, f) /\ s2 = Callback(s, Part(x, o, e))
  BY <1>5, <1>7, <1>9, Calls
<1>11. /\ q \in ParserType
       /\ q.headersSize = s.parser.headersSize
       /\ q.maxBody = s.parser.maxBody /\ q.headers = s.parser.headers
       /\ q.name = s.parser.name /\ q.value = s.parser.value
       /\ s.parser.maxBody = 0 =>
             q.bodySize = s.parser.bodySize /\ q.error = "none"
       /\ s.parser.maxBody # 0 =>
             /\ q.bodySize = s.parser.bodySize + n
             /\ q.error = IF Exceeds(s.parser.bodySize + n, s.parser.maxBody)
                          THEN "BodyLimitError" ELSE "none"
  BY <1>6, <1>7, <1>8, OnBodyIs
<1>12. PICK t \in Nat : t = Len(x.text)
  BY <1>1 DEF Facts, Adds
<1>13. /\ o \in 0..t /\ e \in o..t /\ (whole => e = t)
       /\ o \in Nat /\ e \in Nat
  BY <1>1, <1>12 DEF Facts, Taken
<1>14. PICK a \in Nat : a = HeadersTo(m, i)
  BY <1>1, <1>2 DEF Facts, Adds
<1>15. PICK b \in Nat : b = BodyTo(m, i)
  BY <1>1, <1>2 DEF Facts, Adds
<1>16. x.kind \notin Delimited /\ x # End
  BY <1>3 DEF Delimited, End, Piece
<1>17. /\ HeadersTo(m, i + 1) = a /\ BodyTo(m, i + 1) = b + t
       /\ b + t <= BodySizeOf(m)
  <2>1. HeadersTo(m, i + 1) = HeadersTo(m, i) + 0
    BY <1>1, <1>2, <1>16 DEF Facts, Adds
  <2>2. BodyTo(m, i + 1) = BodyTo(m, i) + Len(x.text)
    BY <1>1, <1>2, <1>3 DEF Facts, Adds
  <2>3. BodyTo(m, i + 1) <= BodySizeOf(m)
    BY <1>1, <1>2 DEF Facts, Adds
  <2> QED BY <1>12, <1>14, <1>15, <2>1, <2>2, <2>3
<1>18. PICK z \in Nat : z = BodySizeOf(m)
  BY BodySteps, MessageParts
<1>19. s.parser.headersSize = a
  <2>1. s.parser.headersSize = HeadersTo(m, i) + 0
    BY <1>2, <1>4, <1>16 DEF Sizes
  <2> QED BY <1>14, <2>1
<1>20. PICK limit \in Nat : /\ limit = s.parser.maxBody
                            /\ limit = LimitOf(s.requests[k].url)
  <2>1. s.parser.maxBody \in Nat
    BY <1>7 DEF ParserType
  <2>2. s.parser.maxBody = LimitOf(s.requests[k].url)
    BY <1>2, <1>3, <1>4 DEF Sizes
  <2> QED BY <2>1, <2>2
<1>21. s.parser.bodySize = IF limit = 0 THEN 0 ELSE b + o
  BY <1>2, <1>3, <1>4, <1>15, <1>20 DEF Sizes
<1>22. q.bodySize = IF limit = 0 THEN 0 ELSE b + e
  <2>1. CASE limit = 0
    BY <1>11, <1>20, <1>21, <2>1
  <2>2. CASE limit # 0
    <3>1. s.parser.bodySize = b + o
      BY <1>21, <2>2
    <3>2. q.bodySize = s.parser.bodySize + n
      BY <1>11, <1>20, <2>2
    <3> QED BY <1>6, <1>13, <2>2, <3>1, <3>2
  <2> QED BY <2>1, <2>2
<1>23. q.error = IF limit # 0 /\ Exceeds(b + e, limit)
                 THEN "BodyLimitError" ELSE "none"
  <2>1. CASE limit = 0
    BY <1>11, <1>20, <2>1
  <2>2. CASE limit # 0
    <3>1. s.parser.bodySize + n = b + e
      <4>1. s.parser.bodySize = b + o
        BY <1>21, <2>2
      <4> QED BY <1>6, <1>13, <4>1
    <3> QED BY <1>11, <1>20, <2>2, <3>1
  <2> QED BY <2>1, <2>2
<1>24. ErrorIs(w, s, q, Len(s.forms) + 1, D)
  <2>1. ASSUME Exceeds(b + e, limit) PROVE Exceeds(z, limit)
    <3>1. b + e <= z /\ b + e \in Nat
      BY <1>13, <1>17, <1>18
    <3> QED BY <2>1, <3>1, Exceeding
  <2>2. Len(s.forms) + 1 = k
    BY <1>1 DEF Facts
  <2> QED BY <1>2, <1>18, <1>20, <1>23, <2>1, <2>2 DEF ErrorIs
<1>25. /\ History(w, s2, D)
       /\ s2.parser = q /\ s2.requests = s.requests /\ s2.forms = s.forms
  <2>1. q \in ParserType
    BY <1>11
  <2>2. History(w, s, D) /\ s2 = With(s, q, f)
    BY <1>4, <1>10
  <2> QED BY <1>24, <2>1, <2>2, HistoryKept
<1>26. SUFFICES ASSUME ~Failed(q)
                PROVE  IF whole THEN InMessage(w, s2, D, k, i + 1, 0)
                       ELSE InMessage(w, s2, D, k, i, e)
  BY <1>10, <1>25 DEF After
<1>27. ~Exceeds(q.bodySize, limit)
  <2>1. CASE limit = 0
    BY <2>1 DEF Exceeds
  <2>2. CASE limit # 0
    BY <1>22, <1>23, <1>26, <2>2 DEF Failed
  <2> QED BY <2>1, <2>2
<1>28. ~Exceeds(q.headersSize, HeadersLimit)
  BY <1>4, <1>11 DEF Sizes
<1>29. Len(s2.forms) = k - 1
  BY <1>25 DEF Reading, InMessage
<1>30. Uncut(D, k) => /\ Faithful(q, w, k, i, e)
                      /\ Faithful(q, w, k, i + 1, 0)
  BY <1>2, <1>4, <1>11, BodyFaithful
<1>31. CASE whole
  <2>1. Sizes(s2, m, k, i + 1, 0)
    <3>1. q.headersSize = HeadersTo(m, i + 1) + 0
      BY <1>11, <1>14, <1>17, <1>19
    <3>2. q.bodySize = IF q.maxBody = 0 THEN 0 ELSE BodyTo(m, i + 1) + 0
      <4>1. e = t
        BY <1>13, <1>31
      <4> QED BY <1>11, <1>17, <1>20, <1>22, <4>1
    <3>3. q.maxBody = IF i + 1 < BodyAt(m) THEN BodyLimit
                      ELSE LimitOf(s2.requests[k].url)
      BY <1>3, <1>11, <1>20, <1>25
    <3>4. ~Exceeds(q.bodySize, q.maxBody)
      BY <1>11, <1>20, <1>27
    <3> QED BY <1>25, <1>28, <3>1, <3>2, <3>3, <3>4 DEF Sizes
  <2>2. i + 1 \in 0..Len(Pieces(w[k])) - 1 /\ k \in 1..Len(w)
        /\ 0 \in 0..Len(Pieces(w[k])[i + 1 + 1].text)
    BY <1>1, <1>16, NextPlace
  <2>3. Len(s2.requests) = IF i + 1 < BodyAt(w[k]) THEN k - 1 ELSE k
    BY <1>2, <1>3, <1>4, <1>25
  <2>4. InMessage(w, s2, D, k, i + 1, 0)
    BY <1>2, <1>25, <1>29, <1>30, <2>1, <2>2, <2>3 DEF InMessage
  <2> QED BY <1>31, <2>4
<1>32. CASE ~whole
  <2>1. Sizes(s2, m, k, i, e)
    <3>1. Pieces(m)[i + 1].kind = "body" /\ "body" \notin Delimited
      BY <1>2, <1>3, <1>4, <1>16
    <3>2. q.headersSize = HeadersTo(m, i) + 0
      BY <1>11, <1>14, <1>19
    <3>3. q.bodySize = IF q.maxBody = 0 THEN 0 ELSE BodyTo(m, i) + e
      BY <1>11, <1>15, <1>20, <1>22
    <3>4. q.maxBody = IF i < BodyAt(m) THEN BodyLimit
                      ELSE LimitOf(s2.requests[k].url)
      BY <1>3, <1>11, <1>20, <1>25
    <3>5. ~Exceeds(q.bodySize, q.maxBody)
      BY <1>11, <1>20, <1>27
    <3> QED BY <1>25, <1>28, <3>1, <3>2, <3>3, <3>4, <3>5 DEF Sizes
  <2>2. i \in 0..Len(Pieces(w[k])) - 1 /\ k \in 1..Len(w)
    BY <1>1 DEF Facts
  <2>3. e \in 0..Len(Pieces(w[k])[i + 1].text)
    BY <1>4, <1>12, <1>13
  <2>4. Len(s2.requests) = IF i < BodyAt(w[k]) THEN k - 1 ELSE k
    BY <1>4, <1>25
  <2>5. InMessage(w, s2, D, k, i, e)
    BY <1>2, <1>25, <1>29, <1>30, <2>1, <2>2, <2>3, <2>4 DEF InMessage
  <2> QED BY <1>32, <2>5
<1> QED BY <1>31, <1>32

(* The limit of a body is a number. *)
LEMMA LimitOfType ==
    ASSUME NEW url
    PROVE  LimitOf(url) \in Nat
BY RouteLimitsAssumption, LimitsAssumption DEF LimitOf

(* What the headers of a message and its URL are when they are given. *)
LEMMA HeadersFaithful ==
    ASSUME NEW w \in Seq(Message), NEW k \in 1..Len(w), NEW m, m = w[k],
           NEW p \in ParserType, NEW o,
           Faithful(p, w, k, HeadersAt(m), o), NEW v, v = WithHeader(p)
    PROVE  p.url = m.url /\ Idle(v, Trail(w, k) \o m.headers)
<1>1. m \in Message
  <2> HIDE DEF Message
  <2> QED OBVIOUS
<1>2. PICK n \in Nat : n = Len(m.headers)
  BY <1>1, MessageParts
<1>3. PICK h \in Nat, t \in Nat : h = HeadersAt(m) /\ t = TrailersAt(m)
                                  /\ h < t /\ h = 2 * Len(m.headers) + 1
  BY <1>1, PlacesIn
<1>4. h \in Nat /\ h \in 1..h /\ h = 1 + 2 * n
  BY <1>2, <1>3
<1>5. InHeaders(p, m, Trail(w, k), h, o)
  BY <1>3, <1>4, FaithfulIs
<1>6. PICK j \in 0..n : j = n
  OBVIOUS
<1>7. InHeaders(p, m, Trail(w, k), 1 + 2 * j, o)
  BY <1>4, <1>5, <1>6
<1>8. p.url = m.url /\ Between(p, Trail(w, k), m.headers, j)
  BY <1>2, <1>7, AmongHeaders
<1>9. Between(p, Trail(w, k), m.headers, Len(m.headers))
  BY <1>2, <1>6, <1>8
<1>10. m.headers \in Seq(HeaderLine) /\ Trail(w, k) \in Seq(HeaderLine)
  BY <1>1, MessageParts, TrailType
<1>11. Idle(v, Trail(w, k) \o m.headers)
  BY <1>9, <1>10, Finished
<1> QED BY <1>8, <1>11

(* The parser and requests when the connection has the headers. *)
GivenNow(s, s2, v, r) ==
    /\ v \in ParserType /\ v = WithHeader(s.parser)
    /\ r \in RequestType
    /\ r = [url |-> s.parser.url, headers |-> v.headers]
    /\ StateType(s2)
    /\ s2.requests = Append(s.requests, r) /\ s2.forms = s.forms
    /\ s2.parser.error = "none"
    /\ s2.parser.headersSize = s.parser.headersSize
    /\ s2.parser.bodySize = s.parser.bodySize
    /\ s2.parser.maxBody = LimitOf(s.parser.url)
    /\ s2.parser.headers = <<>> /\ s2.parser.name = v.name
    /\ s2.parser.value = v.value
    /\ s2.form = IF IsMultipart(v.headers) THEN NewForm
                 ELSE IF IsJson(v.headers) THEN NewText ELSE NoForm

(* on_headers_complete() appends the request and takes its limit.          *)
LEMMA OnHeadersCompleteIs ==
    ASSUME NEW s, StateType(s), ~Failed(s.parser),
           NEW s2, s2 = OnHeadersComplete(s)
    PROVE  \E v : \E r : GivenNow(s, s2, v, r)
<1>1. s.parser \in ParserType /\ s.requests \in Seq(RequestType)
      /\ s.forms \in Seq(Range(s.forms))
      /\ s = [parser |-> s.parser, requests |-> s.requests, form |-> s.form,
              forms |-> s.forms]
  BY DEF StateType
<1>2. PICK v \in ParserType :
          /\ v = WithHeader(s.parser) /\ v.error = s.parser.error
          /\ v.headersSize = s.parser.headersSize
          /\ v.bodySize = s.parser.bodySize
  BY <1>1, WithHeaderIs
<1>3. PICK r \in RequestType :
          r = [url |-> s.parser.url, headers |-> v.headers]
  BY <1>1 DEF ParserType, RequestType
<1>4. PICK l \in Nat : l = LimitOf(s.parser.url)
  BY LimitOfType
<1>5. PICK none \in Seq(HeaderLine) : none = <<>>
  <2>1. <<>> \in Seq(HeaderLine)
    OBVIOUS
  <2> QED BY <2>1
<1>6. PICK q : q = [[v EXCEPT !.headers = none] EXCEPT !.maxBody = l]
  OBVIOUS
<1>7. /\ q \in ParserType /\ q.error = v.error
      /\ q.headersSize = v.headersSize /\ q.bodySize = v.bodySize
      /\ q.maxBody = l /\ q.headers = none /\ q.name = v.name
      /\ q.value = v.value
  BY <1>6 DEF ParserType
<1>8. PICK f : f = IF IsMultipart(v.headers) THEN NewForm
                   ELSE IF IsJson(v.headers) THEN NewText ELSE NoForm
  OBVIOUS
<1>9. s2 = [s EXCEPT !.parser = q, !.requests = Append(s.requests, r),
                     !.form = f]
  <2>1. HeadersToGive(s.parser) = v.headers
    BY <1>2 DEF HeadersToGive
  <2>2. [HeadersGiven(s.parser) EXCEPT !.maxBody = LimitOf(s.parser.url)] = q
    BY <1>2, <1>4, <1>5, <1>6 DEF HeadersGiven
  <2> QED BY <1>3, <1>8, <2>1, <2>2 DEF OnHeadersComplete
<1>10. PICK rs \in Seq(RequestType) : rs = Append(s.requests, r)
  <2>1. PICK before \in Seq(RequestType) : before = s.requests
    BY <1>1
  <2> HIDE DEF RequestType
  <2>2. Append(before, r) \in Seq(RequestType)
    OBVIOUS
  <2> QED BY <2>1, <2>2
<1>11. /\ s2 = [parser |-> q, requests |-> rs, form |-> f, forms |-> s.forms]
       /\ s2.parser = q /\ s2.requests = rs /\ s2.forms = s.forms
       /\ s2.form = f
  BY <1>1, <1>9, <1>10
<1>12. StateType(s2)
  BY <1>1, <1>7, <1>10, <1>11 DEF StateType
<1>13. s.parser.error = "none"
  BY DEF Failed
<1>14. GivenNow(s, s2, v, r)
  BY <1>2, <1>3, <1>4, <1>5, <1>7, <1>8, <1>10, <1>11, <1>12, <1>13
     DEF GivenNow
<1> QED BY <1>14

(* A request is given to a handler: its headers were within their limit,   *)
(* and are as sent if no packet cut them.                                  *)
LEMMA HeadersStep ==
    ASSUME NEW w, NEW s, NEW D, NEW k, NEW i, NEW o, NEW x,
           Reading(w, s, D, k, i, o, x), AtHeaders(w[k], i, x), NEW e
    PROVE  After(w, Callback(s, Part(x, o, e)), D, k, i, e, TRUE)
<1>1. Facts(w, s, k, i, o, x)
  BY FactsBefore
<1>2. PICK m \in Message : m = w[k]
  BY <1>1 DEF Facts
<1>3. i = HeadersAt(m) /\ x.kind = "headers" /\ x # End
      /\ x.kind \notin Delimited
  BY <1>2 DEF AtHeaders, Mark, Piece, End, Delimited
<1>4. PICK n \in Nat : n = Len(m.headers)
  BY MessageParts
<1>5. i = 2 * n + 1 /\ BodyAt(m) = 2 * n + 2
  BY <1>3, <1>4, MessageParts
<1>6. i < BodyAt(m) /\ ~(i + 1 < BodyAt(m))
  BY <1>5
<1>7. /\ w \in Seq(Message) /\ k \in 1..Len(w)
      /\ History(w, s, D) /\ x = Pieces(w[k])[i + 1]
      /\ Sizes(s, m, k, i, o) /\ Len(s.requests) = k - 1
      /\ Len(s.forms) = k - 1
      /\ Uncut(D, k) => Faithful(s.parser, w, k, i, o)
  BY <1>2, <1>6, SetupsAssumption DEF Reading, InMessage
<1>8. /\ StateType(s) /\ Limits(w, s, D) /\ Given(w, s, D)
      /\ D \in SUBSET Nat
      /\ s.requests \in Seq(RequestType) /\ s.forms \in Seq(Range(s.forms))
  BY <1>7 DEF History, StateType
<1>9. s.parser \in ParserType /\ ~Failed(s.parser) /\ s.parser.error = "none"
  BY <1>1 DEF Facts, Failed
<1>10. PICK s2 : /\ s2 = OnHeadersComplete(s)
                 /\ s2 = Callback(s, Part(x, o, e))
  <2>1. Part(x, o, e).kind = "headers"
    BY <1>3 DEF Part, Piece
  <2> QED BY <1>9, <2>1, Calls
<1>11. PICK v : \E r : GivenNow(s, s2, v, r)
  BY <1>8, <1>9, <1>10, OnHeadersCompleteIs
<1>12. PICK r : GivenNow(s, s2, v, r)
  BY <1>11
<1>13. /\ v \in ParserType /\ v = WithHeader(s.parser)
       /\ r \in RequestType
       /\ r = [url |-> s.parser.url, headers |-> v.headers]
       /\ StateType(s2)
       /\ s2.requests = Append(s.requests, r) /\ s2.forms = s.forms
       /\ s2.parser.error = "none"
       /\ s2.parser.headersSize = s.parser.headersSize
       /\ s2.parser.bodySize = s.parser.bodySize
       /\ s2.parser.maxBody = LimitOf(s.parser.url)
       /\ s2.parser.headers = <<>> /\ s2.parser.name = v.name
       /\ s2.parser.value = v.value
  BY <1>12 DEF GivenNow
<1>14. /\ Len(s2.requests) = k /\ DOMAIN s2.requests = 1..k
       /\ s2.requests[k] = r /\ k \in Nat
       /\ \A c \in 1..k - 1 : s2.requests[c] = s.requests[c]
       /\ DOMAIN s.requests = 1..k - 1
  <2>1. PICK rs \in Seq(RequestType) : rs = s.requests
    BY <1>8
  <2>2. PICK y \in RequestType : y = r
    BY <1>13
  <2>3. k \in Nat /\ Len(rs) = k - 1 /\ k - 1 + 1 = k
    BY <1>7, <2>1
  <2> HIDE DEF RequestType
  <2>4. /\ Len(Append(rs, y)) = Len(rs) + 1
        /\ Append(rs, y)[Len(rs) + 1] = y
        /\ \A c \in 1..Len(rs) : Append(rs, y)[c] = rs[c]
        /\ DOMAIN Append(rs, y) = 1..Len(rs) + 1 /\ DOMAIN rs = 1..Len(rs)
    OBVIOUS
  <2> QED BY <1>13, <2>1, <2>2, <2>3, <2>4
<1>15. PICK a \in Nat : a = HeadersTo(m, i) /\ a = HeadersTo(m, i + 1)
  <2>1. HeadersTo(m, i + 1) = HeadersTo(m, i) + 0
    BY <1>1, <1>2, <1>3 DEF Facts, Adds
  <2>2. PICK a \in Nat : a = HeadersTo(m, i)
    BY <1>1, <1>2 DEF Facts, Adds
  <2> QED BY <2>1, <2>2
<1>16. s.parser.headersSize = a
  <2>1. s.parser.headersSize = HeadersTo(m, i) + 0
    BY <1>2, <1>3, <1>7 DEF Sizes
  <2>2. s.parser.headersSize = a + 0
    BY <1>15, <2>1
  <2> QED BY <2>2
<1>17. a = HeadersSizeOf(m)
  <2>1. HeadersToIs(m, n, Len(m.body), Len(m.trailers))
    BY <1>4, SizesAre
  <2>2. i \in 1..2 * n + 1 /\ i - 1 = 2 * n
    BY <1>5
  <2>3. HeadersTo(m, i) = Len(m.url) + SizeTo(m.headers, i - 1)
    BY <2>1, <2>2 DEF HeadersToIs
  <2>4. SizeTo(m.headers, 2 * n) = SizeOf(HeaderPieces(m.headers))
    BY <1>4, MessageParts, SizeToSteps
  <2> QED BY <1>15, <2>2, <2>3, <2>4 DEF HeadersSizeOf
<1>18. ~Exceeds(a, HeadersLimit)
  BY <1>7, <1>16 DEF Sizes
<1>19. Limits(w, s2, D)
  <2>1. ASSUME NEW c \in DOMAIN s2.requests
        PROVE  ~Exceeds(HeadersSizeOf(w[c]), HeadersLimit)
    <3>1. CASE c = k
      BY <1>2, <1>17, <1>18, <3>1
    <3>2. CASE c # k
      <4>1. c \in DOMAIN s.requests
        BY <1>14, <3>2
      <4> QED BY <1>8, <4>1 DEF Limits
    <3> QED BY <3>1, <3>2
  <2>2. ASSUME NEW c \in DOMAIN s2.forms
        PROVE  /\ ~Exceeds(HeadersSizeOf(w[c]) + TrailersSizeOf(w[c]),
                           HeadersLimit)
               /\ ~Exceeds(BodySizeOf(w[c]), LimitOf(s2.requests[c].url))
    <3>1. c \in DOMAIN s.forms
      BY <1>13
    <3>2. c \in 1..k - 1
      BY <1>7, <1>8, <3>1
    <3>3. s2.requests[c] = s.requests[c]
      BY <1>14, <3>2
    <3> QED BY <1>8, <3>1, <3>3 DEF Limits
  <2>3. s2.parser.error = "none"
    BY <1>13
  <2> QED BY <2>1, <2>2, <2>3 DEF Limits
<1>20. Uncut(D, k) =>
           s.parser.url = m.url /\ Idle(v, Trail(w, k) \o m.headers)
  BY <1>2, <1>3, <1>7, <1>9, <1>13, HeadersFaithful
<1>21. Given(w, s2, D)
  <2>1. SUFFICES ASSUME NEW c \in DOMAIN s2.requests, Uncut(D, c)
                 PROVE  /\ w[c] \in Message
                        /\ s2.requests[c].url = w[c].url
                        /\ s2.requests[c].headers = Trail(w, c) \o w[c].headers
    BY DEF Given
  <2>2. CASE c = k
    <3>1. r.url = m.url /\ r.headers = Trail(w, k) \o m.headers
      BY <1>13, <1>20, <2>1, <2>2 DEF Idle
    <3> QED BY <1>2, <1>14, <2>2, <3>1
  <2>3. CASE c # k
    <3>1. c \in DOMAIN s.requests /\ s2.requests[c] = s.requests[c]
      BY <1>14, <2>3
    <3> QED BY <1>8, <2>1, <3>1 DEF Given
  <2> QED BY <2>2, <2>3
<1>22. History(w, s2, D)
  BY <1>8, <1>13, <1>19, <1>21 DEF History
<1>23. BodyTo(m, i) = 0 /\ BodyTo(m, i + 1) = 0
  <2>1. BodyToIs(m, n, Len(m.body))
    BY <1>4, SizesAre
  <2>2. i \in Nat /\ i + 1 \in Nat /\ i <= 2 * n + 2 /\ i + 1 <= 2 * n + 2
    BY <1>5
  <2> QED BY <2>1, <2>2 DEF BodyToIs
<1>24. s.parser.bodySize = 0
  <2>1. s.parser.bodySize = IF s.parser.maxBody = 0 THEN 0
                            ELSE BodyTo(m, i) + 0
    BY <1>2, <1>3, <1>7 DEF Sizes
  <2> QED BY <1>23, <2>1
<1>25. r.url = s.parser.url
  BY <1>13
<1>26. Sizes(s2, m, k, i + 1, 0)
  <2>1. s2.parser.headersSize = HeadersTo(m, i + 1) + 0
    BY <1>13, <1>15, <1>16
  <2>2. s2.parser.bodySize = IF s2.parser.maxBody = 0 THEN 0
                             ELSE BodyTo(m, i + 1) + 0
    BY <1>13, <1>23, <1>24
  <2>3. s2.parser.maxBody = LimitOf(s2.requests[k].url)
    BY <1>13, <1>14, <1>25
  <2>4. ~Exceeds(s2.parser.headersSize, HeadersLimit)
    BY <1>13, <1>16, <1>18
  <2>5. ~Exceeds(s2.parser.bodySize, s2.parser.maxBody)
    <3>1. PICK l \in Nat : l = s2.parser.maxBody
      BY <1>13, LimitOfType
    <3>2. s2.parser.bodySize = 0
      BY <1>13, <1>24
    <3> QED BY <3>1, <3>2 DEF Exceeds
  <2> QED BY <1>6, <2>1, <2>2, <2>3, <2>4, <2>5 DEF Sizes
<1>27. Uncut(D, k) => Faithful(s2.parser, w, k, i + 1, 0)
  <2>1. SUFFICES ASSUME Uncut(D, k)
                 PROVE  Faithful(s2.parser, w, k, i + 1, 0)
    OBVIOUS
  <2>2. Idle(s2.parser, <<>>)
    BY <1>13, <1>20, <2>1 DEF Idle
  <2>3. PICK h \in Nat, t \in Nat : h = HeadersAt(m) /\ t = TrailersAt(m)
                                    /\ h < t
    BY PlacesIn
  <2>4. h \in Nat /\ t \in Nat /\ h = 2 * n + 1 /\ i = h
    BY <1>3, <1>5, <2>3
  <2>5. i + 1 \in Nat /\ i + 1 > h
    BY <2>4
  <2>6. i + 1 <= t
    BY <2>3, <2>4
  <2>7. i + 1 # t
    <3>1. PICK b \in Nat : b = Len(m.body)
      BY MessageParts
    <3>2. TrailersAt(m) = 2 * n + 3 * b + 3
      BY <1>4, <3>1, MessageParts
    <3> QED BY <2>3, <2>4, <3>2
  <2>8. i + 1 \in h + 1..t - 1
    BY <2>4, <2>5, <2>6, <2>7
  <2> QED BY <1>2, <2>2, <2>3, <2>5, <2>8, FaithfulIs
<1>28. i + 1 \in 0..Len(Pieces(w[k])) - 1 /\ k \in 1..Len(w)
       /\ 0 \in 0..Len(Pieces(w[k])[i + 1 + 1].text)
  BY <1>1, <1>3, NextPlace
<1>29. Len(s2.forms) = k - 1
  BY <1>7, <1>13
<1>30. Len(s2.requests) = IF i + 1 < BodyAt(w[k]) THEN k - 1 ELSE k
  BY <1>2, <1>6, <1>14
<1>31. InMessage(w, s2, D, k, i + 1, 0)
  BY <1>2, <1>26, <1>27, <1>28, <1>29, <1>30 DEF InMessage
<1> QED BY <1>10, <1>22, <1>31 DEF After

(* At the end of a message all of it has been counted. *)
LEMMA AllCounted ==
    ASSUME NEW m \in Message, m.trailers # <<>> => m.chunked,
           NEW i, NEW x, AtEndOf(m, i, x)
    PROVE  /\ i \in Nat /\ ~(i < BodyAt(m))
           /\ HeadersTo(m, i) = HeadersSizeOf(m) + TrailersSizeOf(m)
           /\ BodyTo(m, i) = BodySizeOf(m)
<1>1. PICK n \in Nat : n = Len(m.headers)
  BY MessageParts
<1>2. PICK b \in Nat : b = Len(m.body)
  BY MessageParts
<1>3. PICK c \in Nat : c = Len(m.trailers)
  BY MessageParts
<1>4. /\ BodyAt(m) = 2 * n + 2 /\ TrailersAt(m) = 2 * n + 3 * b + 3
  <2>1. /\ BodyAt(m) = 2 * Len(m.headers) + 2
        /\ TrailersAt(m) = 2 * Len(m.headers) + 3 * Len(m.body) + 3
    BY MessageParts
  <2> QED BY <1>1, <1>2, <2>1
<1>5. HeadersToIs(m, n, b, c) /\ BodyToIs(m, n, b)
  BY <1>1, <1>2, <1>3, SizesAre
<1>6. CASE m.chunked
  <2>1. i = 2 * n + 3 * b + 3 + (2 * c + 1)
    <3>1. i = TrailersAt(m) + 2 * Len(m.trailers) + 1
      BY <1>6 DEF AtEndOf
    <3>2. i = TrailersAt(m) + 2 * c + 1
      BY <1>3, <3>1
    <3>3. i = 2 * n + 3 * b + 3 + 2 * c + 1
      BY <1>4, <3>2
    <3> QED BY <3>3
  <2>2. PICK y \in Nat : y = 2 * c + 1
    OBVIOUS
  <2>3. y > 2 * c /\ i = 2 * n + 3 * b + 3 + y
    BY <2>1, <2>2
  <2>4. HeadersTo(m, 2 * n + 3 * b + 3 + y) =
            HeadersSizeOf(m) + TrailersSizeOf(m)
    BY <1>5, <1>6, <2>3 DEF HeadersToIs
  <2>5. i \in Nat /\ i > 2 * n + 2 /\ i >= 2 * n + 3 * b + 3
        /\ ~(i < 2 * n + 2)
    BY <2>3
  <2>6. BodyTo(m, i) = BodySizeOf(m)
    BY <1>5, <2>5 DEF BodyToIs
  <2> QED BY <1>4, <2>3, <2>4, <2>5, <2>6
<1>7. CASE ~m.chunked
  <2>1. i = IF FlattenSeq(m.body) = <<>> THEN 2 * n + 2 ELSE 2 * n + 3
    <3>1. i = IF FlattenSeq(m.body) = <<>> THEN BodyAt(m) ELSE BodyAt(m) + 1
      BY <1>7 DEF AtEndOf
    <3> QED BY <1>4, <3>1
  <2>2. i \in Nat /\ i > 2 * n + 1 /\ ~(i < 2 * n + 2)
    BY <2>1
  <2>3. HeadersTo(m, i) = HeadersSizeOf(m)
    BY <1>5, <1>7, <2>2 DEF HeadersToIs
  <2>4. TrailersSizeOf(m) = 0
    <3>1. m.trailers = <<>> /\ m.trailers \in Seq(HeaderLine)
      BY <1>7, MessageParts
    <3>2. PICK zero \in Nat : zero = 0 /\ zero = Len(m.trailers)
      BY <3>1
    <3>3. SizeTo(m.trailers, 0) = 0
          /\ SizeTo(m.trailers, 2 * zero) = SizeOf(HeaderPieces(m.trailers))
      BY <3>1, <3>2, SizeToSteps
    <3>4. 2 * zero = 0
      BY <3>2
    <3> QED BY <3>3, <3>4 DEF TrailersSizeOf
  <2>5. PICK z \in Nat : z = HeadersSizeOf(m)
    BY SizesAre
  <2>6. HeadersTo(m, i) = HeadersSizeOf(m) + TrailersSizeOf(m)
    <3>1. z + 0 = z
      OBVIOUS
    <3> QED BY <2>3, <2>4, <2>5, <3>1
  <2>7. BodyTo(m, i) = BodySizeOf(m)
    <3>1. CASE FlattenSeq(m.body) = <<>>
      <4>1. i \in Nat /\ i <= 2 * n + 2
        BY <2>1, <2>2, <3>1
      <4>2. BodyTo(m, i) = 0
        BY <1>5, <4>1 DEF BodyToIs
      <4>3. BodySizeOf(m) = 0
        BY <3>1 DEF BodySizeOf
      <4> QED BY <4>2, <4>3
    <3>2. CASE FlattenSeq(m.body) # <<>>
      <4>1. i \in Nat /\ i > 2 * n + 2
        BY <2>1, <2>2, <3>2
      <4> QED BY <1>5, <1>7, <4>1 DEF BodyToIs
    <3> QED BY <3>1, <3>2
  <2> QED BY <1>4, <2>2, <2>6, <2>7
<1> QED BY <1>6, <1>7

(* The parser then holds the trailers, or nothing. *)
LEMMA EndFaithful ==
    ASSUME NEW w \in Seq(Message), NEW k \in 1..Len(w), NEW m, m = w[k],
           m.trailers # <<>> => m.chunked,
           NEW i, NEW x, AtEndOf(m, i, x), NEW p, NEW o,
           Faithful(p, w, k, i, o)
    PROVE  Idle(p, m.trailers)
<1>1. m \in Message
  <2> HIDE DEF Message
  <2> QED OBVIOUS
<1>2. PICK h \in Nat, t \in Nat : h = HeadersAt(m) /\ t = TrailersAt(m)
                                  /\ h < t
  BY <1>1, PlacesIn
<1>3. h \in Nat /\ t \in Nat /\ BodyAt(m) = h + 1
  BY <1>2 DEF BodyAt
<1>4. i \in Nat /\ ~(i < BodyAt(m))
  BY <1>1, AllCounted
<1>5. CASE m.chunked
  <2>1. PICK n \in Nat : n = Len(m.trailers)
    BY <1>1, MessageParts
  <2>2. i = t + 2 * n + 1
    BY <1>2, <1>5, <2>1 DEF AtEndOf
  <2>3. i >= t
    BY <1>3, <2>2
  <2>4. InTrailers(p, m, i, o)
    BY <1>2, <1>4, <1>5, <2>3, FaithfulIs
  <2>5. InTrailers(p, m, t + 2 * n + 1, o)
    BY <2>2, <2>4
  <2>6. PICK j \in 0..n : j = 0
    OBVIOUS
  <2> QED BY <1>2, <1>3, <2>1, <2>5, <2>6, AmongTrailers
<1>6. CASE ~m.chunked
  <2>1. i > h
    BY <1>3, <1>4
  <2>2. Idle(p, <<>>)
    BY <1>2, <1>4, <1>6, <2>1, FaithfulIs
  <2>3. m.trailers = <<>>
    BY <1>6
  <2> QED BY <2>2, <2>3
<1> QED BY <1>5, <1>6

(* One more element, of any kind. *)
LEMMA OneMore ==
    ASSUME NEW q, q \in Seq(Range(q)), NEW y
    PROVE  /\ Append(q, y) \in Seq(Range(Append(q, y)))
           /\ Len(Append(q, y)) = Len(q) + 1
           /\ DOMAIN Append(q, y) = 1..Len(q) + 1
           /\ DOMAIN q = 1..Len(q) /\ Len(q) \in Nat
<1> DEFINE S == Range(q) \cup {y}
<1>1. q \in Seq(S)
  <2>1. \A c \in 1..Len(q) : q[c] \in Range(q)
    OBVIOUS
  <2>2. Len(q) \in Nat /\ q = [c \in 1..Len(q) |-> q[c]]
    OBVIOUS
  <2>3. \A c \in 1..Len(q) : q[c] \in S
    BY <2>1
  <2> HIDE DEF S
  <2> QED BY <2>2, <2>3
<1>2. y \in S
  OBVIOUS
<1> HIDE DEF S
<1>3. /\ Append(q, y) \in Seq(S) /\ Len(Append(q, y)) = Len(q) + 1
      /\ DOMAIN Append(q, y) = 1..Len(q) + 1
      /\ DOMAIN q = 1..Len(q) /\ Len(q) \in Nat
  BY <1>1, <1>2
<1>4. PICK z \in Seq(S) : z = Append(q, y)
  BY <1>3
<1>5. z \in Seq(Range(z))
  <2>1. Len(z) \in Nat /\ z = [c \in 1..Len(z) |-> z[c]]
        /\ DOMAIN z = 1..Len(z)
    OBVIOUS
  <2>2. \A c \in 1..Len(z) : z[c] \in Range(z)
    BY <2>1 DEF Range
  <2> QED BY <2>1, <2>2
<1> QED BY <1>3, <1>4, <1>5

(* After the end of a message the next one begins, if there is one. *)
AfterEnd(w, s2, D, k) ==
    /\ History(w, s2, D) /\ ~Failed(s2.parser)
    /\ InMessage(w, s2, D, k + 1, 0, 0) \/ AtEnd(w, s2, D, k + 1, 0, 0)

(* A message is complete: it was within its limits. *)
LEMMA EndStep ==
    ASSUME NEW w, NEW s, NEW D, NEW k, NEW i, NEW o, NEW x,
           Reading(w, s, D, k, i, o, x), AtEndOf(w[k], i, x), NEW e
    PROVE  AfterEnd(w, Callback(s, Part(x, o, e)), D, k)
<1>1. Facts(w, s, k, i, o, x)
  BY FactsBefore
<1>2. PICK m \in Message : m = w[k]
  BY <1>1 DEF Facts
<1>3. w \in Seq(Message) /\ k \in 1..Len(w) /\ (m.trailers # <<>> => m.chunked)
  <2>1. w \in Seq(Message) /\ k \in 1..Len(w)
    BY <1>1, SetupsAssumption DEF Reading, Facts
  <2>2. k \in DOMAIN w
    BY <2>1
  <2> QED BY <1>2, <2>1, <2>2, SetupsAssumption DEF Reading
<1>4. /\ i \in Nat /\ ~(i < BodyAt(m))
      /\ HeadersTo(m, i) = HeadersSizeOf(m) + TrailersSizeOf(m)
      /\ BodyTo(m, i) = BodySizeOf(m)
  BY <1>2, <1>3, AllCounted
<1>5. x.kind = "end" /\ x.kind \notin Delimited /\ x.kind # "body"
  BY DEF AtEndOf, End, Piece, Delimited
<1>6. /\ History(w, s, D) /\ x = Pieces(w[k])[i + 1]
      /\ Sizes(s, m, k, i, o) /\ Len(s.requests) = k /\ Len(s.forms) = k - 1
      /\ Uncut(D, k) => Faithful(s.parser, w, k, i, o)
  BY <1>2, <1>4 DEF Reading, InMessage
<1>7. /\ StateType(s) /\ Limits(w, s, D) /\ Given(w, s, D)
      /\ D \in SUBSET Nat
      /\ s.requests \in Seq(RequestType) /\ s.forms \in Seq(Range(s.forms))
      /\ s = [parser |-> s.parser, requests |-> s.requests, form |-> s.form,
              forms |-> s.forms]
  BY <1>6 DEF History, StateType
<1>8. s.parser \in ParserType /\ ~Failed(s.parser) /\ s.parser.error = "none"
  BY <1>1 DEF Facts, Failed
<1>9. PICK q : q = OnMessageComplete(s.parser)
  OBVIOUS
<1>10. /\ q \in ParserType /\ q.error = "none" /\ q.headersSize = 0
       /\ q.bodySize = 0 /\ q.maxBody = BodyLimit
       /\ q.headers = s.parser.headers /\ q.name = s.parser.name
       /\ q.value = s.parser.value
  BY <1>8, <1>9, LimitsAssumption DEF OnMessageComplete, ParserType
<1>11. PICK y : y = FormOf(s.form)
  OBVIOUS
<1>12. PICK s2 : s2 = Callback(s, Part(x, o, e))
  OBVIOUS
<1>13. s2 = [parser |-> q, requests |-> s.requests, form |-> NoForm,
             forms |-> Append(s.forms, y)]
  <2>1. Part(x, o, e).kind = "end"
    BY <1>5 DEF Part, Piece
  <2>2. s2 = OnMessageCompleteOfRequest(s)
    BY <1>8, <1>12, <2>1, Calls
  <2> QED BY <1>7, <1>9, <1>11, <2>2 DEF OnMessageCompleteOfRequest
<1>14. /\ s2.parser = q /\ s2.requests = s.requests
       /\ s2.forms = Append(s.forms, y)
       /\ s2 = [parser |-> s2.parser, requests |-> s2.requests,
                form |-> s2.form, forms |-> s2.forms]
  BY <1>13
<1>15. /\ s2.forms \in Seq(Range(s2.forms)) /\ Len(s2.forms) = k
       /\ DOMAIN s2.forms = 1..k /\ DOMAIN s.forms = 1..k - 1 /\ k \in Nat
  <2>1. /\ Append(s.forms, y) \in Seq(Range(Append(s.forms, y)))
        /\ Len(Append(s.forms, y)) = Len(s.forms) + 1
        /\ DOMAIN Append(s.forms, y) = 1..Len(s.forms) + 1
        /\ DOMAIN s.forms = 1..Len(s.forms)
    BY <1>7, OneMore
  <2>2. k \in Nat /\ k - 1 + 1 = k
    BY <1>3
  <2> QED BY <1>6, <1>14, <2>1, <2>2
<1>16. StateType(s2)
  BY <1>7, <1>10, <1>14, <1>15 DEF StateType
<1>17. PICK a \in Nat : a = HeadersTo(m, i)
  BY <1>1, <1>2 DEF Facts, Adds
<1>18. PICK b \in Nat : b = BodyTo(m, i)
  BY <1>1, <1>2 DEF Facts, Adds
<1>19. ~Exceeds(HeadersSizeOf(m) + TrailersSizeOf(m), HeadersLimit)
  <2>1. s.parser.headersSize = HeadersTo(m, i) + 0
    BY <1>2, <1>5, <1>6 DEF Sizes
  <2>2. s.parser.headersSize = a
    BY <1>17, <2>1
  <2>3. ~Exceeds(a, HeadersLimit)
    BY <1>6, <2>2 DEF Sizes
  <2> QED BY <1>4, <1>17, <2>3
<1>20. ~Exceeds(BodySizeOf(m), LimitOf(s.requests[k].url))
  <2>1. PICK l \in Nat : l = LimitOf(s.requests[k].url)
    BY LimitOfType
  <2>2. s.parser.maxBody = l
    BY <1>4, <1>6, <2>1 DEF Sizes
  <2>3. s.parser.bodySize = IF l = 0 THEN 0 ELSE BodyTo(m, i) + 0
    BY <1>2, <1>5, <1>6, <2>2 DEF Sizes
  <2>4. ~Exceeds(s.parser.bodySize, l)
    BY <1>6, <2>2 DEF Sizes
  <2>5. CASE l = 0
    BY <2>1, <2>5 DEF Exceeds
  <2>6. CASE l # 0
    <3>1. s.parser.bodySize = b + 0
      BY <1>18, <2>3, <2>6
    <3>2. s.parser.bodySize = b
      BY <3>1
    <3> QED BY <1>4, <1>18, <2>1, <2>4, <3>2
  <2> QED BY <2>5, <2>6
<1>21. Limits(w, s2, D)
  <2>1. ASSUME NEW c \in DOMAIN s2.requests
        PROVE  ~Exceeds(HeadersSizeOf(w[c]), HeadersLimit)
    BY <1>7, <1>14 DEF Limits
  <2>2. ASSUME NEW c \in DOMAIN s2.forms
        PROVE  /\ ~Exceeds(HeadersSizeOf(w[c]) + TrailersSizeOf(w[c]),
                           HeadersLimit)
               /\ ~Exceeds(BodySizeOf(w[c]), LimitOf(s2.requests[c].url))
    <3>1. CASE c = k
      BY <1>2, <1>14, <1>19, <1>20, <3>1
    <3>2. CASE c # k
      <4>1. c \in DOMAIN s.forms
        BY <1>15, <3>2
      <4> QED BY <1>7, <1>14, <4>1 DEF Limits
    <3> QED BY <3>1, <3>2
  <2>3. s2.parser.error = "none"
    BY <1>10, <1>14
  <2> QED BY <2>1, <2>2, <2>3 DEF Limits
<1>22. Given(w, s2, D)
  BY <1>7, <1>14 DEF Given
<1>23. History(w, s2, D) /\ ~Failed(s2.parser)
  BY <1>7, <1>10, <1>14, <1>16, <1>21, <1>22 DEF History, Failed
<1>24. Len(s2.forms) = (k + 1) - 1 /\ Len(s2.requests) = (k + 1) - 1
  <2>1. (k + 1) - 1 = k
    BY <1>15
  <2> QED BY <1>6, <1>14, <1>15, <2>1
<1>25. PICK l \in Nat : l = Len(w)
  BY <1>3
<1>26. CASE k = l
  <2>1. AtEnd(w, s2, D, k + 1, 0, 0)
    BY <1>24, <1>25, <1>26 DEF AtEnd
  <2> QED BY <1>12, <1>23, <2>1 DEF AfterEnd
<1>27. CASE k < l
  <2>1. k + 1 \in 1..Len(w)
    BY <1>15, <1>25, <1>27
  <2>2. PICK next \in Message : next = w[k + 1]
    <3> HIDE DEF Message
    <3> QED BY <1>3, <2>1
  <2>3. 0 < BodyAt(next) /\ 0 <= BodyAt(next)
    <3>1. PICK h \in Nat : h = Len(next.headers)
      BY MessageParts
    <3>2. BodyAt(next) = 2 * h + 2
      BY <3>1, MessageParts
    <3> QED BY <3>2
  <2>4. Len(Pieces(next)) \in Nat /\ 0 \in 0..Len(Pieces(next)) - 1
    <3>1. PICK b2 \in Nat : b2 = Len(BodyPieces(next))
      BY BodyPiecesAre
    <3>2. PICK h \in Nat : h = Len(next.headers)
      BY MessageParts
    <3>3. Len(Pieces(next)) = 2 * h + b2 + 3
      BY <3>1, <3>2, PiecesAre
    <3> QED BY <3>3
  <2>5. Adds(next, 0, Pieces(next)[0 + 1])
    BY <2>4, Added
  <2>6. 0 \in 0..Len(Pieces(next)[0 + 1].text)
    <3>1. Len(Pieces(next)[0 + 1].text) \in Nat
      BY <2>5 DEF Adds
    <3> QED BY <3>1
  <2>7. HeadersTo(next, 0) = 0
    BY DEF HeadersTo
  <2>8. BodyTo(next, 0) = 0
    <3>1. 0 <= BodyAt(next)
      BY <2>3
    <3> QED BY <3>1 DEF BodyTo
  <2>9. Sizes(s2, next, k + 1, 0, 0)
    <3>1. ~Exceeds(0, HeadersLimit) /\ ~Exceeds(0, BodyLimit)
      BY LimitsAssumption DEF Exceeds
    <3>2. s2.parser.headersSize = HeadersTo(next, 0) + 0
      BY <1>10, <1>14, <2>7
    <3>3. s2.parser.bodySize = IF s2.parser.maxBody = 0 THEN 0
                               ELSE BodyTo(next, 0) + 0
      BY <1>10, <1>14, <2>8
    <3> QED BY <1>10, <1>14, <2>3, <3>1, <3>2, <3>3 DEF Sizes
  <2>10. Uncut(D, k + 1) => Faithful(s2.parser, w, k + 1, 0, 0)
    <3>1. SUFFICES ASSUME Uncut(D, k + 1)
                   PROVE  Idle(s2.parser, Trail(w, k + 1))
      BY DEF Faithful
    <3>2. Uncut(D, k)
      <4>1. SUFFICES ASSUME NEW c \in D PROVE c > k
        BY DEF Uncut
      <4>2. c > k + 1
        BY <3>1 DEF Uncut
      <4>3. c \in Nat
        BY <1>7
      <4> QED BY <1>15, <4>2, <4>3
    <3>3. Idle(s.parser, m.trailers)
      BY <1>2, <1>3, <1>6, <3>2, EndFaithful
    <3>4. Trail(w, k + 1) = m.trailers
      <4>1. k + 1 # 1 /\ (k + 1) - 1 = k
        BY <1>3
      <4> QED BY <1>2, <4>1 DEF Trail
    <3> QED BY <1>10, <1>14, <3>3, <3>4 DEF Idle
  <2>11. InMessage(w, s2, D, k + 1, 0, 0)
    BY <1>24, <2>1, <2>2, <2>3, <2>4, <2>6, <2>9, <2>10 DEF InMessage
  <2> QED BY <1>12, <1>23, <2>11 DEF AfterEnd
<1> QED BY <1>3, <1>25, <1>26, <1>27

(* Every callback. *)
LEMMA PieceStep ==
    ASSUME NEW w, NEW s, NEW D, NEW k, NEW i, NEW o, NEW x,
           Reading(w, s, D, k, i, o, x),
           NEW e, NEW whole \in BOOLEAN, Taken(x, o, e, whole, D, k)
    PROVE  IF x = End
           THEN whole /\ AfterEnd(w, Callback(s, Part(x, o, e)), D, k)
           ELSE After(w, Callback(s, Part(x, o, e)), D, k, i, e, whole)
<1>1. Facts(w, s, k, i, o, x)
  BY FactsBefore
<1>2. PICK m \in Message : m = w[k]
  BY <1>1 DEF Facts
<1>3. i \in 0..Len(Pieces(m)) - 1 /\ x = Pieces(m)[i + 1]
  BY <1>1, <1>2 DEF Reading, Facts
<1>4. InHead(m, i, x) \/ InChunks(m, i, x) \/ InTail(m, i, x)
  BY <1>3, Places
<1>5. ASSUME x.kind \notin Delimited \cup {"body"} PROVE whole
  BY <1>5 DEF Taken
<1>6. ASSUME x.kind # "end" PROVE x # End
  BY <1>6 DEF End, Piece
<1>7. CASE AtUrl(m, i, x)
  <2>1. x.kind # "end"
    BY <1>7 DEF AtUrl, Piece
  <2> QED BY <1>2, <1>6, <1>7, <2>1, UrlStep
<1>8. CASE AtField(m, i, x) \/ AtTrailerField(m, i, x)
  <2>1. x.kind # "end"
    BY <1>8, HeaderTexts
  <2> QED BY <1>2, <1>6, <1>8, <2>1, FieldStep
<1>9. CASE AtValue(m, i, x) \/ AtTrailerValue(m, i, x)
  <2>1. x.kind # "end"
    BY <1>9, HeaderTexts
  <2> QED BY <1>2, <1>6, <1>9, <2>1, ValueStep
<1>10. CASE AtHeaders(m, i, x)
  <2>1. x.kind = "headers"
    BY <1>10 DEF AtHeaders, Mark, Piece
  <2>2. whole
    BY <1>5, <2>1 DEF Delimited
  <2>3. After(w, Callback(s, Part(x, o, e)), D, k, i, e, TRUE)
    BY <1>2, <1>10, HeadersStep
  <2> QED BY <1>6, <2>1, <2>2, <2>3
<1>11. CASE AtWhole(m, i, x) \/ AtBody(m, i, x)
  <2>1. x.kind # "end"
    BY <1>11, BodyTexts
  <2> QED BY <1>2, <1>6, <1>11, <2>1, BodyStep
<1>12. CASE AtChunk(m, i, x)
  <2>1. x.kind = "chunk"
    BY <1>12 DEF AtChunk, Mark, Piece
  <2>2. whole
    BY <1>5, <2>1 DEF Delimited
  <2>3. After(w, Callback(s, Part(x, o, e)), D, k, i, e, TRUE)
    BY <1>2, <1>12, ChunkStep
  <2> QED BY <1>6, <2>1, <2>2, <2>3
<1>13. CASE AtChunkEnd(m, i, x) \/ AtTrailersEnd(m, i, x)
  <2>1. x.kind = "chunkEnd"
    BY <1>13 DEF AtChunkEnd, AtTrailersEnd, Mark, Piece
  <2>2. whole
    BY <1>5, <2>1 DEF Delimited
  <2>3. After(w, Callback(s, Part(x, o, e)), D, k, i, e, TRUE)
    BY <1>2, <1>13, ChunkEndStep
  <2> QED BY <1>6, <2>1, <2>2, <2>3
<1>14. CASE AtEndOf(m, i, x)
  <2>1. x.kind = "end" /\ x = End
    BY <1>14 DEF AtEndOf, End, Piece
  <2>2. whole
    BY <1>5, <2>1 DEF Delimited
  <2>3. AfterEnd(w, Callback(s, Part(x, o, e)), D, k)
    BY <1>2, <1>14, EndStep
  <2> QED BY <2>1, <2>2, <2>3
<1> QED
  BY <1>4, <1>7, <1>8, <1>9, <1>10, <1>11, <1>12, <1>13, <1>14
     DEF InHead, InChunks, InTail

(* The text of a body.  The part of a piece continues what there is of it. *)
Holds(B, b, t) ==
    b + Len(t) <= Len(B) /\ \A j \in 1..Len(t) : B[b + j] = t[j]

Continued(B, b, t) ==
    \A o \in 0..Len(t) : \A e \in o..Len(t) :
        SubSeq(B, 1, b + o) \o SubSeq(t, o + 1, e) = SubSeq(B, 1, b + e)

LEMMA JoinParts ==
    ASSUME NEW S, NEW B \in Seq(S), NEW t \in Seq(S), NEW b \in Nat,
           Holds(B, b, t)
    PROVE  Continued(B, b, t)
<1> SUFFICES ASSUME NEW o \in 0..Len(t), NEW e \in o..Len(t)
             PROVE  SubSeq(B, 1, b + o) \o SubSeq(t, o + 1, e)
                        = SubSeq(B, 1, b + e)
  BY DEF Continued
<1>1. PICK n \in Nat : n = Len(t)
  OBVIOUS
<1>2. PICK l \in Nat : l = Len(B)
  OBVIOUS
<1>3. o \in 0..n /\ e \in o..n /\ b + n <= l /\ o \in Nat /\ e \in Nat
  BY <1>1, <1>2 DEF Holds
<1>4. PICK c \in 0..l : c = b + o
  BY <1>3
<1>5. PICK d \in 0..l : d = b + e
  BY <1>3
<1>6. PICK u \in Seq(S) : /\ u = SubSeq(B, 1, c) /\ Len(u) = c
                          /\ \A j \in 1..c : u[j] = B[j]
  <2>1. c \in 0..Len(B)
    BY <1>2
  <2>2. /\ SubSeq(B, 1, c) \in Seq(S) /\ Len(SubSeq(B, 1, c)) = c
        /\ \A j \in 1..c : SubSeq(B, 1, c)[j] = B[j]
    BY <2>1, StartIs
  <2> QED BY <2>2, Zenon
<1>7. PICK z \in Seq(S) : /\ z = SubSeq(B, 1, d) /\ Len(z) = d
                          /\ \A j \in 1..d : z[j] = B[j]
  <2>1. d \in 0..Len(B)
    BY <1>2
  <2>2. /\ SubSeq(B, 1, d) \in Seq(S) /\ Len(SubSeq(B, 1, d)) = d
        /\ \A j \in 1..d : SubSeq(B, 1, d)[j] = B[j]
    BY <2>1, StartIs
  <2> QED BY <2>2, Zenon
<1>8. PICK v \in Seq(S) : /\ v = SubSeq(t, o + 1, e) /\ Len(v) = e - o
                          /\ \A j \in 1..e - o : v[j] = t[o + j]
  <2>1. /\ SubSeq(t, o + 1, e) \in Seq(S)
        /\ Len(SubSeq(t, o + 1, e)) = e - o
        /\ \A j \in 1..e - o : SubSeq(t, o + 1, e)[j] = t[o + j]
    BY PartIs
  <2> QED BY <2>1, Zenon
<1>9. PICK y \in Seq(S) : /\ y = u \o v /\ Len(y) = c + (e - o)
                          /\ \A j \in 1..c : y[j] = u[j]
                          /\ \A j \in 1..e - o : y[c + j] = v[j]
  <2>1. /\ u \o v \in Seq(S) /\ Len(u \o v) = Len(u) + Len(v)
        /\ \A j \in 1..Len(u) : (u \o v)[j] = u[j]
        /\ \A j \in 1..Len(v) : (u \o v)[Len(u) + j] = v[j]
    BY <1>6, <1>8, BothAre
  <2>2. Len(u) = c /\ Len(v) = e - o
    BY <1>6, <1>8
  <2>3. /\ u \o v \in Seq(S) /\ Len(u \o v) = c + (e - o)
        /\ \A j \in 1..c : (u \o v)[j] = u[j]
        /\ \A j \in 1..e - o : (u \o v)[c + j] = v[j]
    BY <2>1, <2>2, Zenon
  <2> QED BY <2>3, Zenon
<1>10. c + (e - o) = d /\ c \in Nat /\ d \in Nat
  BY <1>3, <1>4, <1>5
<1>11. ASSUME NEW j \in 1..d PROVE y[j] = z[j]
  <2>1. CASE j <= c
    <3>1. j \in 1..c
      BY <1>10, <2>1
    <3> QED BY <1>6, <1>7, <1>9, <3>1
  <2>2. CASE ~(j <= c)
    <3>1. PICK a \in 1..e - o : j = c + a
      <4>1. j - c \in 1..e - o /\ j = c + (j - c)
        BY <1>3, <1>10, <2>2
      <4> QED BY <4>1
    <3>2. o + a \in 1..n /\ b + (o + a) = j
      BY <1>3, <1>4, <3>1
    <3>3. B[b + (o + a)] = t[o + a]
      BY <1>1, <3>2 DEF Holds
    <3>4. y[j] = t[o + a]
      BY <1>8, <1>9, <3>1
    <3> QED BY <1>7, <3>2, <3>3, <3>4
  <2> QED BY <2>1, <2>2
<1>12. y = z
  <2>1. Len(y) = d /\ Len(z) = d
    BY <1>7, <1>9, <1>10
  <2> QED BY <1>11, <2>1
<1> QED BY <1>4, <1>5, <1>6, <1>7, <1>8, <1>9, <1>12

(* The pieces of a body follow each other. *)
InBody(m, i, x) == AtWhole(m, i, x) \/ AtBody(m, i, x)

LEMMA BodyText ==
    ASSUME NEW m \in Message, NEW i, NEW x, InBody(m, i, x)
    PROVE  /\ Continued(FlattenSeq(m.body), BodyTo(m, i), x.text)
           /\ Holds(FlattenSeq(m.body), BodyTo(m, i), x.text)
<1>1. PICK H \in Nat : H = Len(m.headers)
  BY MessageParts
<1>2. PICK n \in Nat : n = Len(m.body)
  BY MessageParts
<1>3. BodyAt(m) = 2 * H + 2 /\ BodyToIs(m, H, n)
  BY <1>1, <1>2, MessageParts, SizesAre
<1>4. m.body \in Seq(Seq(Symbols))
  BY MessageParts DEF Text
<1>5. PICK B \in Seq(Symbols) : B = FlattenSeq(m.body)
  BY <1>4, FlattenType
<1>6. x.text \in Seq(Symbols)
  BY BodyTexts DEF Text, InBody
<1>7. PICK l \in Nat : l = Len(x.text)
  BY <1>6
<1>8. PICK b \in Nat : /\ b = BodyTo(m, i) /\ b + Len(x.text) <= Len(B)
                       /\ \A j \in 1..Len(x.text) : B[b + j] = x.text[j]
  <2>1. CASE AtWhole(m, i, x)
    <3>1. i = 2 * H + 2 /\ x.text = B
      BY <1>3, <1>5, <2>1 DEF AtWhole, Piece
    <3>2. BodyTo(m, i) = 0
      BY <3>1, <1>3 DEF BodyToIs
    <3>3. 0 + l <= Len(B) /\ \A j \in 1..l : B[0 + j] = x.text[j]
      BY <1>7, <3>1
    <3> QED BY <1>7, <3>2, <3>3
  <2>2. CASE AtBody(m, i, x)
    <3>1. PICK c \in 1..n : /\ i = 2 * H + 2 + 3 * (c - 1) + 1
                            /\ x.text = m.body[c]
      BY <1>2, <1>3, <2>2 DEF AtBody, Piece
    <3>2. BodyTo(m, i) = Len(Joined(m.body, c - 1))
      BY <2>2, <3>1, <1>3 DEF BodyToIs, AtBody
    <3>3. /\ Len(Joined(m.body, c - 1)) \in Nat
          /\ Len(Joined(m.body, c)) =
                 Len(Joined(m.body, c - 1)) + Len(m.body[c])
          /\ Len(Joined(m.body, c)) <= Len(B)
          /\ \A j \in 1..Len(m.body[c]) :
                B[Len(Joined(m.body, c - 1)) + j] = m.body[c][j]
      BY <1>2, <1>4, <1>5, JoinedAt
    <3>4. PICK b \in Nat : b = BodyTo(m, i)
      BY <3>2, <3>3
    <3>5. b + l <= Len(B)
      BY <1>7, <3>1, <3>2, <3>3, <3>4
    <3> QED BY <1>7, <3>1, <3>2, <3>3, <3>4, <3>5
  <2> QED BY <2>1, <2>2 DEF InBody
<1>9. Holds(B, b, x.text)
  BY <1>8 DEF Holds
<1>10. Continued(B, b, x.text)
  BY <1>5, <1>6, <1>8, <1>9, JoinParts
<1> QED BY <1>5, <1>8, <1>9, <1>10

(* A part of a piece is a part of the body. *)
PieceOf(S, B, b, t, o, e) ==
    /\ B \in Seq(S) /\ t \in Seq(S) /\ b \in Nat /\ Holds(B, b, t)
    /\ o \in 0..Len(t) /\ e \in o..Len(t)

SamePlace(B, b, t, o, e) ==
    \A c, d : c = b + o /\ d = b + e =>
        /\ c \in 0..Len(B) /\ d \in c..Len(B)
        /\ SubSeq(t, o + 1, e) = SubSeq(B, c + 1, d)

LEMMA BodyPart ==
    ASSUME NEW S, NEW B, NEW b, NEW t, NEW o, NEW e, PieceOf(S, B, b, t, o, e)
    PROVE  SamePlace(B, b, t, o, e)
<1> SUFFICES ASSUME NEW c, NEW d, c = b + o, d = b + e
             PROVE  /\ c \in 0..Len(B) /\ d \in c..Len(B)
                    /\ SubSeq(t, o + 1, e) = SubSeq(B, c + 1, d)
  BY DEF SamePlace
<1> B \in Seq(S) /\ t \in Seq(S) /\ b \in Nat /\ Holds(B, b, t)
    /\ o \in 0..Len(t) /\ e \in o..Len(t)
  BY DEF PieceOf
<1>1. PICK n \in Nat, l \in Nat : n = Len(t) /\ l = Len(B)
  OBVIOUS
<1>2. o \in 0..n /\ e \in o..n /\ b + n <= l /\ o \in Nat /\ e \in Nat
  BY <1>1 DEF Holds
<1>3. c \in 0..l /\ d \in c..l /\ d - c = e - o
  BY <1>2
<1>4. PICK u \in Seq(S) : /\ u = SubSeq(B, c + 1, d) /\ Len(u) = d - c
                          /\ \A j \in 1..d - c : u[j] = B[c + j]
  <2>1. c \in 0..Len(B) /\ d \in c..Len(B)
    BY <1>1, <1>3
  <2>2. /\ SubSeq(B, c + 1, d) \in Seq(S)
        /\ Len(SubSeq(B, c + 1, d)) = d - c
        /\ \A j \in 1..d - c : SubSeq(B, c + 1, d)[j] = B[c + j]
    BY <2>1, PartIs
  <2> QED BY <2>2, Zenon
<1>5. PICK v \in Seq(S) : /\ v = SubSeq(t, o + 1, e) /\ Len(v) = e - o
                          /\ \A j \in 1..e - o : v[j] = t[o + j]
  <2>1. /\ SubSeq(t, o + 1, e) \in Seq(S)
        /\ Len(SubSeq(t, o + 1, e)) = e - o
        /\ \A j \in 1..e - o : SubSeq(t, o + 1, e)[j] = t[o + j]
    BY PartIs
  <2> QED BY <2>1, Zenon
<1>6. ASSUME NEW j \in 1..e - o PROVE u[j] = v[j]
  <2>1. o + j \in 1..n /\ b + (o + j) = c + j
    BY <1>2
  <2>2. B[b + (o + j)] = t[o + j]
    BY <1>1, <2>1 DEF Holds
  <2>3. j \in 1..d - c
    BY <1>3
  <2> QED BY <1>4, <1>5, <2>1, <2>2, <2>3
<1>7. u = v
  <2>1. Len(u) = e - o /\ Len(v) = e - o
    BY <1>3, <1>4, <1>5
  <2> QED BY <1>6, <2>1
<1> QED BY <1>1, <1>3, <1>4, <1>5, <1>7

(* A client that says so sends a form. *)
LEMMA FormSent ==
    ASSUME NEW w \in Setups, NEW k \in 1..Len(w), NEW m \in Message, m = w[k],
           IsMultipart(m.headers)
    PROVE  /\ IsFormOf(Letters, m.parts)
           /\ FlattenSeq(m.body) = Encoded(m.parts)
           /\ BodySizeOf(m) = Len(Encoded(m.parts))
<1>1. w \in Seq(Message) /\ k \in DOMAIN w
  BY SetupsAssumption
<1>2. /\ FlattenSeq(m.body) = Encoded(m.parts)
      /\ \A j \in DOMAIN m.parts : Find(m.parts[j].content, StartBoundary) = -1
  BY <1>1, FormsAssumption
<1>3. PICK p : p = m.parts
  OBVIOUS
<1> DEFINE R == [header : DOMAIN Disposition, content : Text]
<1>4. p \in Seq(R)
  BY <1>3 DEF Message
<1>5. DOMAIN p = 1..Len(p) /\ Len(p) \in Nat
  <2> HIDE DEF R
  <2> QED BY <1>4
<1>6. ASSUME NEW j \in 1..Len(p) PROVE p[j] \in PartType(Letters)
  <2>1. p[j] \in R
    <3> HIDE DEF R
    <3> QED BY <1>4
  <2>2. PICK r \in R : r = p[j]
    BY <2>1
  <2>3. r = [header |-> r.header, content |-> r.content]
        /\ r.header \in DOMAIN Disposition /\ r.content \in Text
    BY <2>2
  <2>4. PICK c \in Seq(Symbols) : c = r.content
    BY <2>3 DEF Text
  <2>5. c \in Seq(Letters)
    <3>1. \A x \in Symbols : x \in Letters
      BY DEF Letters
    <3> HIDE DEF Letters
    <3>2. \A x \in 1..Len(c) : c[x] \in Letters
      BY <2>4, <3>1
    <3> QED BY <2>4, <3>2
  <2>6. r \in PartType(Letters)
    <3> HIDE DEF Letters
    <3> QED BY <2>3, <2>4, <2>5 DEF PartType
  <2> QED BY <2>2, <2>6
<1>7. p \in Seq(PartType(Letters))
  <2> HIDE DEF PartType, R
  <2> QED BY <1>4, <1>5, <1>6
<1>8. Clean(p)
  BY <1>2, <1>3, <1>5 DEF Clean
<1>9. Alphabet(Letters)
  BY DEF Alphabet, Letters
<1> QED BY <1>2, <1>3, <1>7, <1>8, <1>9 DEF IsFormOf, BodySizeOf

(* No body has been fed before the headers. *)
LEMMA NotFed ==
    ASSUME NEW w \in Seq(Message), NEW k \in 1..Len(w), NEW s
    PROVE  Fed(w, s, k, 0, 0)
<1>1. PICK m \in Message : m = w[k]
  <2> HIDE DEF Message
  <2> QED OBVIOUS
<1>2. PICK h \in Nat : h = Len(m.headers)
  BY MessageParts
<1>3. 0 < BodyAt(m)
  <2>1. BodyAt(m) = 2 * h + 2
    BY <1>2, MessageParts
  <2> QED BY <2>1
<1> QED BY <1>1, <1>3 DEF Fed

(* What a callback for x makes of the forms. *)
FormAfter(w, s2, k, i, x, e, whole) ==
    /\ Handed(w, s2)
    /\ x # End /\ ~Failed(s2.parser) =>
          IF whole THEN Fed(w, s2, k, i + 1, 0) ELSE Fed(w, s2, k, i, e)

(* Most callbacks leave them alone. *)
LEMMA FormStays ==
    ASSUME NEW w, NEW s, NEW D, NEW k, NEW i, NEW o, NEW x,
           Reading(w, s, D, k, i, o, x), Handed(w, s), Fed(w, s, k, i, o),
           x.kind \notin {"headers", "body", "end"},
           NEW e, NEW whole \in BOOLEAN, NEW s2, s2.form = s.form,
           s2.requests = s.requests, s2.forms = s.forms
    PROVE  FormAfter(w, s2, k, i, x, e, whole)
<1>1. Facts(w, s, k, i, o, x)
  BY FactsBefore
<1>2. PICK m \in Message : m = w[k]
  BY <1>1 DEF Facts
<1>3. x = Pieces(m)[i + 1] /\ i \in Nat /\ i < Len(Pieces(m))
  <2>1. i \in 0..Len(Pieces(m)) - 1 /\ x = Pieces(m)[i + 1]
    BY <1>1, <1>2 DEF Facts, Reading
  <2> QED BY <2>1, Added
<1>4. (i < BodyAt(m)) <=> (i + 1 < BodyAt(m))
  <2>1. x # Mark("headers")
    BY DEF Mark, Piece
  <2> QED BY <1>3, <2>1, BeforeBody
<1>5. PICK b \in Nat : b = BodyTo(m, i) /\ BodyTo(m, i + 1) = b
  <2>1. BodyTo(m, i) \in Nat /\ BodyTo(m, i + 1) = BodyTo(m, i) + 0
    BY <1>1, <1>2 DEF Facts, Adds
  <2>2. PICK b \in Nat : b = BodyTo(m, i)
    BY <2>1
  <2> QED BY <2>1, <2>2
<1>6. /\ BodyUpTo(m, i, o) = b /\ BodyUpTo(m, i, e) = b
      /\ BodyUpTo(m, i + 1, 0) = b
  BY <1>3, <1>5 DEF BodyUpTo
<1>7. Handed(w, s2)
  BY DEF Handed
<1>8. PICK h : h = s.requests[k].headers
  OBVIOUS
<1>9. CASE i < BodyAt(m)
  BY <1>2, <1>4, <1>7, <1>9 DEF FormAfter, Fed
<1>10. CASE ~(i < BodyAt(m))
  <2>1. FormIs(h, m, s2.form, b)
    BY <1>2, <1>6, <1>8, <1>10 DEF Fed
  <2> QED BY <1>2, <1>6, <1>7, <1>8, <2>1 DEF FormAfter, Fed
<1> QED BY <1>9, <1>10

(* A request for JSON begins with the empty text, one for a form with a    *)
(* new parser.                                                             *)
LEMMA FormBegins ==
    ASSUME NEW w, NEW s, NEW D, NEW k, NEW i, NEW o, NEW x,
           Reading(w, s, D, k, i, o, x), Handed(w, s),
           AtHeaders(w[k], i, x), NEW e, NEW s2,
           s2 = Callback(s, Part(x, o, e))
    PROVE  FormAfter(w, s2, k, i, x, e, TRUE)
<1>1. Facts(w, s, k, i, o, x)
  BY FactsBefore
<1>2. PICK m \in Message : m = w[k]
  BY <1>1 DEF Facts
<1>3. i = HeadersAt(m) /\ x.kind = "headers"
  BY <1>2 DEF AtHeaders, Mark, Piece
<1>4. i < BodyAt(m) /\ i <= BodyAt(m) /\ i \in Nat
  <2>1. PICK n \in Nat : n = Len(m.headers)
    BY MessageParts
  <2>2. i = 2 * n + 1 /\ BodyAt(m) = 2 * n + 2
    BY <1>3, <2>1, MessageParts
  <2> QED BY <2>2
<1>5. /\ w \in Seq(Message) /\ k \in 1..Len(w) /\ StateType(s)
      /\ Len(s.requests) = k - 1 /\ Len(s.forms) = k - 1
      /\ s.requests \in Seq(RequestType) /\ s.forms \in Seq(Range(s.forms))
      /\ ~Failed(s.parser) /\ k \in Nat
  BY <1>2, <1>4, SetupsAssumption
     DEF Reading, InMessage, History, StateType
<1>6. s2 = OnHeadersComplete(s)
  <2>1. Part(x, o, e).kind = "headers"
    BY <1>3 DEF Part, Piece
  <2> QED BY <1>5, <2>1, Calls
<1>7. PICK v : \E r : GivenNow(s, s2, v, r)
  BY <1>5, <1>6, OnHeadersCompleteIs
<1>8. PICK r : GivenNow(s, s2, v, r)
  BY <1>7
<1>9. /\ r \in RequestType
      /\ r.headers = v.headers /\ s2.forms = s.forms
      /\ s2.requests = Append(s.requests, r)
      /\ s2.form = IF IsMultipart(r.headers) THEN NewForm
                   ELSE IF IsJson(r.headers) THEN NewText ELSE NoForm
  BY <1>8 DEF GivenNow
<1>10. /\ s2.requests[k] = r
       /\ \A c \in 1..k - 1 : s2.requests[c] = s.requests[c]
  <2>1. PICK rs \in Seq(RequestType) : rs = s.requests
    BY <1>5
  <2>2. Len(rs) = k - 1 /\ k - 1 + 1 = k
    BY <1>5, <2>1
  <2> HIDE DEF RequestType
  <2>3. /\ Append(rs, r)[Len(rs) + 1] = r
        /\ \A c \in 1..Len(rs) : Append(rs, r)[c] = rs[c]
    BY <1>9
  <2> QED BY <1>9, <2>1, <2>2, <2>3
<1>11. DOMAIN s.forms = 1..k - 1
  BY <1>5
<1>12. Handed(w, s2)
  BY <1>9, <1>10, <1>11 DEF Handed
<1>13. BodyUpTo(m, i + 1, 0) = 0
  <2>1. BodyTo(m, i) = 0
    BY <1>4 DEF BodyTo
  <2>2. BodyTo(m, i + 1) = BodyTo(m, i) + 0
    BY <1>1, <1>2, <1>3 DEF Facts, Adds
  <2>3. BodyTo(m, i + 1) = 0
    BY <2>1, <2>2
  <2> QED BY <2>3 DEF BodyUpTo
<1>14. SubSeq(FlattenSeq(m.body), 1, 0) = <<>>
  <2>1. FlattenSeq(m.body) \in Seq(Symbols)
    BY BodyPiecesAre DEF Text
  <2> QED BY <2>1, Beginnings
<1>15. ~IsMultipart(r.headers) => s2.form = FormUpTo(r.headers, m, 0)
  BY <1>9, <1>14 DEF FormUpTo, NewText
<1>16. IsMultipart(r.headers) /\ IsMultipart(m.headers) =>
          Parsed(Letters, m.parts, s2.form, 0)
  <2>1. w \in Setups
    BY DEF Reading
  <2> QED BY <1>2, <1>5, <1>9, <2>1, FormSent, ParsedFirst
<1>17. Fed(w, s2, k, i + 1, 0)
  BY <1>2, <1>10, <1>13, <1>15, <1>16 DEF Fed, FormIs
<1> QED BY <1>12, <1>17 DEF FormAfter

(* They get the body as far as it has arrived. *)
LEMMA FormGrows ==
    ASSUME NEW w, NEW s, NEW D, NEW k, NEW i, NEW o, NEW x,
           Reading(w, s, D, k, i, o, x), Handed(w, s), Fed(w, s, k, i, o),
           AtWhole(w[k], i, x) \/ AtBody(w[k], i, x),
           NEW e, NEW whole \in BOOLEAN, Taken(x, o, e, whole, D, k),
           NEW s2, s2 = Callback(s, Part(x, o, e))
    PROVE  FormAfter(w, s2, k, i, x, e, whole)
<1>1. Facts(w, s, k, i, o, x)
  BY FactsBefore
<1>2. PICK m \in Message : m = w[k]
  BY <1>1 DEF Facts
<1>3. x.kind = "body" /\ x.text \in Text /\ ~(i < BodyAt(m))
  BY <1>2, BodyTexts
<1>4. /\ s = [parser |-> s.parser, requests |-> s.requests, form |-> s.form,
              forms |-> s.forms]
      /\ ~Failed(s.parser) /\ x = Pieces(m)[i + 1]
  BY <1>2 DEF Reading, History, StateType
<1>5. o \in 0..Len(x.text) /\ e \in o..Len(x.text)
      /\ (whole => e = Len(x.text))
  BY <1>1 DEF Facts, Taken
<1>6. PICK part : part = SubSeq(x.text, o + 1, e)
  OBVIOUS
<1>7. PICK q : q = OnBody(s.parser, part)
  OBVIOUS
<1>8. s2 = OnBodyOfRequest(s, part)
  <2>1. Part(x, o, e).kind = "body" /\ Part(x, o, e).text = part
    BY <1>3, <1>6 DEF Part, Piece
  <2> QED BY <1>4, <2>1, Calls
<1>9. PICK f : f = s.form
  OBVIOUS
<1>10. /\ s2.parser = q /\ s2.requests = s.requests /\ s2.forms = s.forms
       /\ s2.form = IF Failed(q) \/ f = NoForm THEN f
                    ELSE IF f.error = "text"
                    THEN [error |-> "text", text |-> f.text \o part]
                    ELSE Feed(f, part)
  <2>1. PICK g : g = IF Failed(q) \/ f = NoForm THEN f
                     ELSE IF f.error = "text"
                     THEN [error |-> "text", text |-> f.text \o part]
                     ELSE Feed(f, part)
    OBVIOUS
  <2>2. PICK r : r = [s EXCEPT !.parser = q, !.form = g]
    OBVIOUS
  <2>3. s2 = r
    <3>1. s2 = [s EXCEPT !.parser = OnBody(s.parser, part),
                  !.form = IF Failed(OnBody(s.parser, part)) \/ s.form = NoForm
                           THEN s.form
                           ELSE IF s.form.error = "text"
                           THEN [error |-> "text", text |-> s.form.text \o part]
                           ELSE Feed(s.form, part)]
      BY <1>4, <1>8 DEF OnBodyOfRequest
    <3> QED BY <1>7, <1>9, <2>1, <2>2, <3>1, Zenon
  <2>4. /\ r.parser = q /\ r.form = g /\ r.requests = s.requests
        /\ r.forms = s.forms
    BY <1>4, <2>2
  <2> QED BY <2>1, <2>3, <2>4
<1>11. Handed(w, s2)
  BY <1>10 DEF Handed
<1>12. PICK h : h = s.requests[k].headers
  OBVIOUS
<1>13. PICK b \in Nat : b = BodyTo(m, i)
  BY <1>1, <1>2 DEF Facts, Adds
<1>14. /\ BodyUpTo(m, i, o) = b + o /\ BodyUpTo(m, i, e) = b + e
       /\ whole => BodyUpTo(m, i + 1, 0) = b + e
  <2>1. BodyUpTo(m, i, o) = b + o /\ BodyUpTo(m, i, e) = b + e
    BY <1>3, <1>4, <1>13 DEF BodyUpTo
  <2>2. SUFFICES ASSUME whole PROVE BodyUpTo(m, i + 1, 0) = b + e
    BY <2>1
  <2>3. BodyTo(m, i + 1) = b + e /\ e \in Nat
    BY <1>1, <1>2, <1>3, <1>5, <1>13, <2>2 DEF Facts, Adds
  <2>4. PICK n \in Nat : n = b + e
    BY <2>3
  <2> QED BY <2>3, <2>4 DEF BodyUpTo
<1>15. CASE Failed(q)
  BY <1>10, <1>11, <1>15 DEF FormAfter
<1>16. ASSUME ~Failed(q), ~IsMultipart(h)
       PROVE  s2.form = FormUpTo(h, m, b + e)
  <2>1. f = FormUpTo(h, m, b + o)
    BY <1>2, <1>3, <1>9, <1>12, <1>14, <1>16 DEF Fed, FormIs
  <2>2. s2.form = FormUpTo(h, m, b + e)
    <3>1. CASE IsJson(h)
      <4>1. PICK t : t = SubSeq(FlattenSeq(m.body), 1, b + o)
        OBVIOUS
      <4>2. f = [error |-> "text", text |-> t]
        BY <2>1, <3>1, <4>1 DEF FormUpTo
      <4>3. f # NoForm /\ f.error = "text"
        <5>1. f.error = "text" /\ NoForm.error = "no form"
          BY <4>2 DEF NoForm
        <5>2. f.error # NoForm.error
          <6>1. "text" # "no form"
            OBVIOUS
          <6> QED BY <5>1, <6>1, Zenon
        <5> QED BY <5>1, <5>2, Zenon
      <4>4. s2.form = [error |-> "text", text |-> t \o part]
        BY <1>10, <1>16, <4>2, <4>3
      <4>5. t \o part = SubSeq(FlattenSeq(m.body), 1, b + e)
        <5>1. InBody(m, i, x)
          BY <1>2 DEF InBody
        <5>2. SubSeq(FlattenSeq(m.body), 1, BodyTo(m, i) + o)
                  \o SubSeq(x.text, o + 1, e)
                  = SubSeq(FlattenSeq(m.body), 1, BodyTo(m, i) + e)
          <6>1. Continued(FlattenSeq(m.body), BodyTo(m, i), x.text)
            BY <1>2, <5>1, BodyText
          <6> QED BY <1>5, <6>1, Zenon DEF Continued
        <5> QED BY <1>6, <1>13, <4>1, <5>2
      <4> QED BY <3>1, <4>4, <4>5 DEF FormUpTo
    <3>2. CASE ~IsJson(h)
      BY <1>10, <2>1, <3>2 DEF FormUpTo
    <3> QED BY <3>1, <3>2
  <2> QED BY <2>2
<1>17. ASSUME ~Failed(q), IsMultipart(h), IsMultipart(m.headers)
       PROVE  Parsed(Letters, m.parts, s2.form, b + e)
  <2>1. PICK c : c = b + o
    OBVIOUS
  <2>2. PICK d : d = b + e
    OBVIOUS
  <2>3. Parsed(Letters, m.parts, f, c)
    BY <1>2, <1>3, <1>9, <1>12, <1>14, <1>17, <2>1 DEF Fed, FormIs
  <2>4. f.error \in {"none", "AttributeError"}
    BY <2>3, ParsedType
  <2>5. f # NoForm /\ f.error # "text"
    <3>1. NoForm.error = "no form"
      BY DEF NoForm
    <3>2. f.error # "no form" /\ f.error # "text"
      BY <2>4
    <3> QED BY <3>1, <3>2, Zenon
  <2>6. s2.form = Feed(f, part)
    BY <1>10, <1>17, <2>5
  <2>7. PICK B \in Seq(Symbols) : B = FlattenSeq(m.body)
    BY BodyPiecesAre DEF Text
  <2>8. /\ c \in 0..Len(B) /\ d \in c..Len(B)
        /\ SubSeq(x.text, o + 1, e) = SubSeq(B, c + 1, d)
    <3>1. InBody(m, i, x)
      BY <1>2 DEF InBody
    <3>2. Holds(B, b, x.text)
      <4>1. Holds(FlattenSeq(m.body), BodyTo(m, i), x.text)
        <5>1. m \in Message
          BY <1>2
        <5> QED BY <3>1, <5>1, BodyText, Zenon
      <4> QED BY <1>13, <2>7, <4>1, Zenon
    <3>3. x.text \in Seq(Symbols)
      BY <1>3 DEF Text
    <3>4. b \in Nat /\ B \in Seq(Symbols) /\ o \in 0..Len(x.text)
          /\ e \in o..Len(x.text)
      BY <1>5, <1>13, <2>7
    <3>5. PieceOf(Symbols, B, b, x.text, o, e)
      BY <3>2, <3>3, <3>4 DEF PieceOf
    <3>6. SamePlace(B, b, x.text, o, e)
      BY <3>5, BodyPart, Zenon
    <3> QED BY <2>1, <2>2, <3>6, Zenon DEF SamePlace
  <2>9. B = Encoded(m.parts)
    <3>1. w \in Setups /\ k \in 1..Len(w)
      BY <1>1 DEF Reading, Facts
    <3> QED BY <1>2, <1>17, <2>7, <3>1, FormSent
  <2>10. Parsed(Letters, m.parts, Feed(f, SubSeq(Encoded(m.parts), c + 1, d)), d)
    BY <2>3, <2>8, <2>9, ParsedFeed
  <2> QED BY <1>6, <2>2, <2>6, <2>8, <2>9, <2>10
<1>18. CASE ~Failed(q)
  <2>1. FormIs(h, m, s2.form, b + e)
    BY <1>16, <1>17, <1>18 DEF FormIs
  <2> QED BY <1>2, <1>10, <1>11, <1>12, <1>14, <2>1 DEF FormAfter, Fed
<1> QED BY <1>15, <1>18

(* At the end of a message a handler gets what its whole body makes.       *)
LEMMA FormEnds ==
    ASSUME NEW w, NEW s, NEW D, NEW k, NEW i, NEW o, NEW x,
           Reading(w, s, D, k, i, o, x), Handed(w, s), Fed(w, s, k, i, o),
           AtEndOf(w[k], i, x), NEW e, NEW whole, NEW s2,
           s2 = Callback(s, Part(x, o, e))
    PROVE  FormAfter(w, s2, k, i, x, e, whole)
<1>1. Facts(w, s, k, i, o, x)
  BY FactsBefore
<1>2. PICK m \in Message : m = w[k]
  BY <1>1 DEF Facts
<1>3. w \in Seq(Message) /\ k \in 1..Len(w) /\ (m.trailers # <<>> => m.chunked)
  <2>1. w \in Seq(Message) /\ k \in 1..Len(w)
    BY <1>1, SetupsAssumption DEF Reading, Facts
  <2>2. k \in DOMAIN w
    BY <2>1
  <2> QED BY <1>2, <2>1, <2>2, SetupsAssumption DEF Reading
<1>4. ~(i < BodyAt(m)) /\ BodyTo(m, i) = BodySizeOf(m)
  BY <1>2, <1>3, AllCounted
<1>5. x = End /\ x.kind = "end" /\ x = Pieces(m)[i + 1]
  <2>1. x = End
    BY <1>2 DEF AtEndOf
  <2>2. End.kind = "end"
    BY DEF End, Piece
  <2>3. x = Pieces(m)[i + 1]
    BY <1>2 DEF Reading
  <2> QED BY <2>1, <2>2, <2>3
<1>6. /\ s = [parser |-> s.parser, requests |-> s.requests, form |-> s.form,
              forms |-> s.forms]
      /\ ~Failed(s.parser) /\ s.forms \in Seq(Range(s.forms))
      /\ Len(s.forms) = k - 1 /\ k \in Nat
  BY <1>3 DEF Reading, InMessage, History, StateType
<1>7. PICK y : y = FormOf(s.form)
  OBVIOUS
<1>8. s2.requests = s.requests /\ s2.forms = Append(s.forms, y)
  <2>1. Part(x, o, e).kind = "end"
    BY <1>5 DEF Part, Piece
  <2>2. s2 = OnMessageCompleteOfRequest(s)
    BY <1>6, <2>1, Calls
  <2> QED BY <1>6, <1>7, <2>2 DEF OnMessageCompleteOfRequest
<1>9. /\ DOMAIN s2.forms = 1..k /\ DOMAIN s.forms = 1..k - 1
      /\ s2.forms[k] = y
      /\ \A c \in 1..k - 1 : s2.forms[c] = s.forms[c]
  <2>1. /\ DOMAIN Append(s.forms, y) = 1..Len(s.forms) + 1
        /\ DOMAIN s.forms = 1..Len(s.forms)
    BY <1>6, OneMore
  <2>2. /\ Append(s.forms, y)[Len(s.forms) + 1] = y
        /\ \A c \in 1..Len(s.forms) : Append(s.forms, y)[c] = s.forms[c]
    BY <1>6
  <2>3. k - 1 + 1 = k
    BY <1>6
  <2> QED BY <1>6, <1>8, <2>1, <2>2, <2>3
<1>10. PICK h : h = s.requests[k].headers
  OBVIOUS
<1>11. FormIs(h, m, s.form, BodySizeOf(m))
  <2>1. PICK b \in Nat : b = BodyTo(m, i)
    BY <1>1, <1>2 DEF Facts, Adds
  <2>2. BodyUpTo(m, i, o) = b
    BY <1>5, <2>1 DEF BodyUpTo
  <2> QED BY <1>2, <1>4, <1>10, <2>1, <2>2 DEF Fed
<1>12. HandedOne(m, h, y)
  <2>1. ~IsMultipart(h) => y = FormOf(FormUpTo(h, m, BodySizeOf(m)))
    BY <1>7, <1>11 DEF FormIs
  <2>2. ASSUME IsMultipart(h), IsMultipart(m.headers)
        PROVE  HandedForm(m, y)
    <3>1. w \in Setups
      BY DEF Reading
    <3>2. Parsed(Letters, m.parts, s.form, Len(Encoded(m.parts)))
      BY <1>2, <1>3, <1>11, <2>2, <3>1, FormSent DEF FormIs
    <3>3. PICK f : f = s.form
      OBVIOUS
    <3>4. f.error \in {"none", "AttributeError"}
      BY <3>2, <3>3, ParsedType
    <3>5. f.error # "text" /\ f # NoForm
      <4>1. NoForm.error = "no form"
        BY DEF NoForm
      <4>2. f.error # "no form" /\ f.error # "text"
        BY <3>4
      <4> QED BY <4>1, <4>2, Zenon
    <3>6. PICK v : v = IF f.error = "none" THEN Consume(f) ELSE <<>>
      OBVIOUS
    <3>7. y = [error |-> f.error, hurt |-> f.hurt, values |-> v]
      BY <1>7, <3>3, <3>5, <3>6, Zenon DEF FormOf
    <3>8. y.error = f.error /\ y.hurt = f.hurt /\ y.values = v
      BY <3>7
    <3>9. ~f.hurt => IF AllFit(m.parts)
                     THEN f.error = "none" /\ Consume(f) = Expected(m.parts)
                     ELSE f.error = "AttributeError"
      BY <3>2, <3>3, ParsedLast
    <3> QED BY <3>6, <3>8, <3>9, Zenon DEF HandedForm
  <2> QED BY <1>2, <2>1, <2>2 DEF HandedOne
<1>13. Handed(w, s2)
  <2> SUFFICES ASSUME NEW c \in DOMAIN s2.forms
               PROVE  HandedOne(w[c], s2.requests[c].headers, s2.forms[c])
    BY DEF Handed
  <2>1. CASE c = k
    BY <1>2, <1>8, <1>9, <1>10, <1>12, <2>1
  <2>2. CASE c # k
    <3>1. c \in 1..k - 1
      BY <1>6, <1>9, <2>2
    <3> QED BY <1>8, <1>9, <3>1 DEF Handed
  <2> QED BY <2>1, <2>2
<1> QED BY <1>5, <1>13 DEF FormAfter

(* Every callback. *)
LEMMA FormStep ==
    ASSUME NEW w, NEW s, NEW D, NEW k, NEW i, NEW o, NEW x,
           Reading(w, s, D, k, i, o, x), Handed(w, s), Fed(w, s, k, i, o),
           NEW e, NEW whole \in BOOLEAN, Taken(x, o, e, whole, D, k),
           NEW s2, s2 = Callback(s, Part(x, o, e))
    PROVE  FormAfter(w, s2, k, i, x, e, whole)
<1>1. Facts(w, s, k, i, o, x)
  BY FactsBefore
<1>2. PICK m \in Message : m = w[k]
  BY <1>1 DEF Facts
<1>3. i \in 0..Len(Pieces(m)) - 1 /\ x = Pieces(m)[i + 1]
  BY <1>1, <1>2 DEF Reading, Facts
<1>4. InHead(m, i, x) \/ InChunks(m, i, x) \/ InTail(m, i, x)
  BY <1>3, Places
<1>5. /\ AtUrl(m, i, x) => x.kind = "url"
      /\ AtHeaders(m, i, x) => x.kind = "headers"
      /\ AtChunk(m, i, x) => x.kind = "chunk"
      /\ AtChunkEnd(m, i, x) \/ AtTrailersEnd(m, i, x) => x.kind = "chunkEnd"
      /\ AtEndOf(m, i, x) => x.kind = "end"
  BY DEF AtUrl, AtHeaders, AtChunk, AtChunkEnd, AtTrailersEnd, AtEndOf, End,
     Mark, Piece
<1>6. /\ AtField(m, i, x) \/ AtTrailerField(m, i, x) => x.kind = "field"
      /\ AtValue(m, i, x) \/ AtTrailerValue(m, i, x) => x.kind = "value"
  BY HeaderTexts
<1>7. CASE AtHeaders(m, i, x)
  <2>1. whole
    BY <1>5, <1>7 DEF Taken, Delimited
  <2> QED BY <1>2, <1>7, <2>1, FormBegins
<1>8. CASE AtWhole(m, i, x) \/ AtBody(m, i, x)
  BY <1>2, <1>8, FormGrows
<1>9. CASE AtEndOf(m, i, x)
  BY <1>2, <1>9, FormEnds
<1>10. CASE x.kind \in {"url", "field", "value", "chunk", "chunkEnd"}
  <2>1. s = [parser |-> s.parser, requests |-> s.requests, form |-> s.form,
             forms |-> s.forms]
        /\ ~Failed(s.parser)
    BY DEF Reading, History, StateType
  <2>2. Part(x, o, e).kind = x.kind
    BY DEF Part, Piece
  <2>3. \E q : s2 = Put(s, q)
    BY <1>10, <2>1, <2>2, Calls
  <2>4. s2.form = s.form /\ s2.requests = s.requests /\ s2.forms = s.forms
    BY <2>1, <2>3 DEF Put
  <2>5. x.kind \notin {"headers", "body", "end"}
    BY <1>10
  <2> QED BY <2>4, <2>5, FormStays
<1> QED BY <1>4, <1>5, <1>6, <1>7, <1>8, <1>9, <1>10
        DEF InHead, InChunks, InTail

(* Where the messages begin among the pieces of a connection. *)
LEMMA Starts ==
    ASSUME NEW w \in Seq(Message)
    PROVE  /\ All(w) \in Seq(PieceType)
           /\ Start(w, 1) = 0 /\ Start(w, Len(w) + 1) = Len(All(w))
           /\ \A k \in 1..Len(w) :
                 /\ Start(w, k) \in Nat /\ Len(Pieces(w[k])) \in Nat
                 /\ Start(w, k + 1) = Start(w, k) + Len(Pieces(w[k]))
                 /\ Start(w, k) + Len(Pieces(w[k])) <= Len(All(w))
                 /\ \A i \in 0..Len(Pieces(w[k])) - 1 :
                       All(w)[Start(w, k) + (i + 1)] = Pieces(w[k])[i + 1]
<1> DEFINE q == [i \in DOMAIN w |-> Pieces(w[i])]
<1>1. q \in Seq(Seq(PieceType)) /\ Len(q) = Len(w)
      /\ \A k \in 1..Len(w) : q[k] = Pieces(w[k])
  <2>1. \A k \in 1..Len(w) : w[k] \in Message
    <3> HIDE DEF Message
    <3> QED OBVIOUS
  <2>2. \A k \in 1..Len(w) : Pieces(w[k]) \in Seq(PieceType)
    BY <2>1, PiecesAre
  <2>3. DOMAIN w = 1..Len(w) /\ Len(w) \in Nat
    OBVIOUS
  <2> HIDE DEF Message, PieceType
  <2> QED BY <2>2, <2>3
<1>2. All(w) = FlattenSeq(q) /\ \A k : Start(w, k) = Len(Joined(q, k - 1))
  BY DEF All, Start
<1> HIDE DEF q
<1>3. /\ Joined(q, 0) = <<>> /\ Joined(q, Len(q)) = FlattenSeq(q)
      /\ Joined(q, Len(q)) \in Seq(PieceType)
  <2>1. Len(q) \in 0..Len(q)
    BY <1>1
  <2> QED BY <1>1, <2>1, JoinedSteps
<1>4. Start(w, 1) = 0
  <2>1. Start(w, 1) = Len(Joined(q, 1 - 1)) /\ 1 - 1 = 0
    BY <1>2
  <2> QED BY <1>3, <2>1
<1>5. Start(w, Len(w) + 1) = Len(All(w))
  <2>1. Start(w, Len(w) + 1) = Len(Joined(q, (Len(w) + 1) - 1))
    BY <1>2
  <2>2. (Len(w) + 1) - 1 = Len(q)
    BY <1>1
  <2> QED BY <1>2, <1>3, <2>1, <2>2
<1>6. ASSUME NEW k \in 1..Len(w)
      PROVE  /\ Start(w, k) \in Nat /\ Len(Pieces(w[k])) \in Nat
             /\ Start(w, k + 1) = Start(w, k) + Len(Pieces(w[k]))
             /\ Start(w, k) + Len(Pieces(w[k])) <= Len(All(w))
             /\ \A i \in 0..Len(Pieces(w[k])) - 1 :
                   All(w)[Start(w, k) + (i + 1)] = Pieces(w[k])[i + 1]
  <2>1. k \in 1..Len(q)
    BY <1>1
  <2>2. /\ Len(Joined(q, k - 1)) \in Nat
        /\ Len(Joined(q, k)) = Len(Joined(q, k - 1)) + Len(q[k])
        /\ Len(Joined(q, k)) <= Len(FlattenSeq(q))
        /\ \A j \in 1..Len(q[k]) :
              FlattenSeq(q)[Len(Joined(q, k - 1)) + j] = q[k][j]
    BY <1>1, <2>1, JoinedAt
  <2>3. q[k] = Pieces(w[k]) /\ q[k] \in Seq(PieceType)
    <3> HIDE DEF PieceType
    <3> QED BY <1>1, <2>1
  <2>4. PICK n \in Nat : n = Len(q[k])
    BY <2>3
  <2>5. Start(w, k) = Len(Joined(q, k - 1))
    BY <1>2
  <2>6. Start(w, k + 1) = Len(Joined(q, k))
    <3>1. (k + 1) - 1 = k
      OBVIOUS
    <3> QED BY <1>2, <3>1
  <2>7. ASSUME NEW i \in 0..n - 1
        PROVE  All(w)[Start(w, k) + (i + 1)] = Pieces(w[k])[i + 1]
    <3>1. i + 1 \in 1..n
      OBVIOUS
    <3>2. PICK j \in 1..n : j = i + 1
      BY <3>1
    <3>3. FlattenSeq(q)[Len(Joined(q, k - 1)) + j] = q[k][j]
      BY <2>2, <2>4
    <3> QED BY <1>2, <2>3, <2>5, <3>2, <3>3
  <2> QED BY <1>2, <2>2, <2>3, <2>4, <2>5, <2>6, <2>7
<1> QED BY <1>2, <1>3, <1>4, <1>5, <1>6

(* Before the last piece, the connection is in a message. *)
LEMMA Where ==
    ASSUME NEW w \in Setups, NEW s, NEW D, Known(w, s, D),
           NEW at \in 0..Len(All(w)) - 1, NEW o, Reached(w, s, D, at, o),
           NEW x, x = All(w)[at + 1]
    PROVE  \E k \in 1..Len(w) : \E i \in 0..Len(Pieces(w[k])) - 1 :
               /\ at = Start(w, k) + i /\ Reading(w, s, D, k, i, o, x)
               /\ Fed(w, s, k, i, o)
<1>1. w \in Seq(Message)
  BY SetupsAssumption
<1>2. PICK k \in 1..Len(w) + 1 : \E i \in 0..Len(All(w)) :
          /\ at = Start(w, k) + i
          /\ \/ InMessage(w, s, D, k, i, o) /\ Fed(w, s, k, i, o)
             \/ AtEnd(w, s, D, k, i, o)
  BY DEF Reached
<1>3. PICK i \in 0..Len(All(w)) :
          /\ at = Start(w, k) + i
          /\ \/ InMessage(w, s, D, k, i, o) /\ Fed(w, s, k, i, o)
             \/ AtEnd(w, s, D, k, i, o)
  BY <1>2
<1>4. PICK n \in Nat : n = Len(All(w))
  <2>1. All(w) \in Seq(PieceType)
    BY <1>1, Starts
  <2> QED BY <2>1
<1>5. ~AtEnd(w, s, D, k, i, o)
  <2>1. SUFFICES ASSUME k = Len(w) + 1, i = 0 PROVE FALSE
    BY DEF AtEnd
  <2>2. at = n + 0
    BY <1>1, <1>3, <1>4, <2>1, Starts
  <2>3. at <= n - 1
    BY <1>4
  <2> QED BY <1>4, <2>2, <2>3
<1>6. InMessage(w, s, D, k, i, o) /\ Fed(w, s, k, i, o)
  BY <1>3, <1>5
<1>7. k \in 1..Len(w) /\ i \in 0..Len(Pieces(w[k])) - 1
  BY <1>6 DEF InMessage
<1>8. All(w)[Start(w, k) + (i + 1)] = Pieces(w[k])[i + 1]
  BY <1>1, <1>7, Starts
<1>9. Start(w, k) + (i + 1) = at + 1
  <2>1. PICK a \in Nat : a = Start(w, k)
    BY <1>1, <1>7, Starts
  <2>2. i \in Nat /\ at = a + i
    BY <1>3, <1>4, <2>1
  <2> QED BY <2>1, <2>2
<1>10. Reading(w, s, D, k, i, o, x)
  BY <1>6, <1>8, <1>9 DEF Reading, Reached, Known
<1> QED BY <1>3, <1>6, <1>7, <1>10

Arrives(w, s2, D, at, o) ==
    Known(w, s2, D) /\ (~Failed(s2.parser) => Reached(w, s2, D, at, o))

(* The rest of a piece arrives. *)
LEMMA WholePiece ==
    ASSUME NEW w \in Setups, NEW s, NEW D, Known(w, s, D),
           NEW at \in 0..Len(All(w)) - 1, NEW o, Reached(w, s, D, at, o),
           NEW x, x = All(w)[at + 1]
    PROVE  Arrives(w, Callback(s, Part(x, o, Len(x.text))), D, at + 1, 0)
<1>1. w \in Seq(Message)
  BY SetupsAssumption
<1>2. PICK k \in 1..Len(w) : \E i \in 0..Len(Pieces(w[k])) - 1 :
          /\ at = Start(w, k) + i /\ Reading(w, s, D, k, i, o, x)
          /\ Fed(w, s, k, i, o)
  BY Where
<1>3. PICK i \in 0..Len(Pieces(w[k])) - 1 :
          /\ at = Start(w, k) + i /\ Reading(w, s, D, k, i, o, x)
          /\ Fed(w, s, k, i, o)
  BY <1>2
<1>4. PICK n \in Nat : n = Len(Pieces(w[k]))
  BY <1>1, Starts
<1>5. PICK a \in Nat : a = Start(w, k)
  BY <1>1, Starts
<1>6. PICK l \in Nat : l = Len(All(w))
  <2>1. All(w) \in Seq(PieceType)
    BY <1>1, Starts
  <2> QED BY <2>1
<1>7. at = a + i /\ i \in 0..n - 1 /\ at \in 0..l - 1
  BY <1>3, <1>4, <1>5, <1>6
<1>8. PICK s2 : s2 = Callback(s, Part(x, o, Len(x.text)))
  OBVIOUS
<1>9. PICK t \in Nat : t = Len(x.text)
  BY <1>3, FactsBefore DEF Facts, Adds
<1>10. Facts(w, s, k, i, o, x)
  BY <1>3, FactsBefore
<1>11. Taken(x, o, Len(x.text), TRUE, D, k)
  <2>1. t \in o..t
    BY <1>9, <1>10 DEF Facts
  <2> QED BY <1>9, <2>1 DEF Taken
<1>12. (IF x = End THEN AfterEnd(w, s2, D, k)
        ELSE After(w, s2, D, k, i, Len(x.text), TRUE))
      /\ FormAfter(w, s2, k, i, x, Len(x.text), TRUE)
  BY <1>3, <1>8, <1>11, PieceStep, FormStep DEF Known
<1>13. CASE x = End
  <2>1. /\ Known(w, s2, D) /\ ~Failed(s2.parser)
        /\ \/ InMessage(w, s2, D, k + 1, 0, 0) /\ Fed(w, s2, k + 1, 0, 0)
           \/ AtEnd(w, s2, D, k + 1, 0, 0)
    <3>1. k + 1 \in 1..Len(w) => Fed(w, s2, k + 1, 0, 0)
      BY <1>1, NotFed
    <3>2. InMessage(w, s2, D, k + 1, 0, 0) => k + 1 \in 1..Len(w)
      BY DEF InMessage
    <3> QED BY <1>12, <1>13, <3>1, <3>2 DEF AfterEnd, FormAfter, Known
  <2>2. i + 1 = n
    <3>1. x = Pieces(w[k])[i + 1] /\ w[k] \in Message
      BY <1>3, <1>10 DEF Reading, Facts
    <3>2. i + 1 \in 0..n - 1 \/ i + 1 = n
      BY <1>7
    <3>3. ASSUME i + 1 \in 0..n - 1 PROVE FALSE
      <4>1. x.kind = "end"
        BY <1>13 DEF End, Piece
      <4>2. PICK m \in Message : m = w[k]
        BY <3>1
      <4>3. InHead(m, i, x) \/ InChunks(m, i, x) \/ InTail(m, i, x)
        BY <1>4, <1>7, <3>1, <4>2, Places
      <4>4. ~(AtField(m, i, x) \/ AtTrailerField(m, i, x))
            /\ ~(AtValue(m, i, x) \/ AtTrailerValue(m, i, x))
            /\ ~(AtWhole(m, i, x) \/ AtBody(m, i, x))
        BY <4>1, HeaderTexts, BodyTexts
      <4>5. /\ ~AtUrl(m, i, x) /\ ~AtHeaders(m, i, x) /\ ~AtChunk(m, i, x)
            /\ ~AtChunkEnd(m, i, x) /\ ~AtTrailersEnd(m, i, x)
        BY <4>1 DEF AtUrl, AtHeaders, AtChunk, AtChunkEnd, AtTrailersEnd,
           Mark, Piece
      <4>6. AtEndOf(m, i, x)
        BY <4>3, <4>4, <4>5 DEF InHead, InChunks, InTail
      <4>7. i + 1 = n
        BY <1>4, <4>2, <4>6 DEF AtEndOf
      <4> QED BY <1>4, <3>3, <4>7
    <3> QED BY <3>2, <3>3
  <2>3. Start(w, k + 1) = a + n
    BY <1>1, <1>4, <1>5, Starts
  <2>4. at + 1 = Start(w, k + 1) + 0
    BY <1>7, <2>2, <2>3
  <2>5. k + 1 \in 1..Len(w) + 1 /\ 0 \in 0..Len(All(w))
    <3>1. Len(w) \in Nat /\ k <= Len(w) /\ k \in Nat /\ 1 <= k
      BY <1>1
    <3>2. 0 \in 0..l
      OBVIOUS
    <3> QED BY <1>6, <3>1, <3>2
  <2>6. Reached(w, s2, D, at + 1, 0)
    BY <2>1, <2>4, <2>5 DEF Reached
  <2> QED BY <1>8, <2>1, <2>6 DEF Arrives
<1>14. CASE x # End
  <2>1. /\ Known(w, s2, D)
        /\ ~Failed(s2.parser) =>
              InMessage(w, s2, D, k, i + 1, 0) /\ Fed(w, s2, k, i + 1, 0)
    BY <1>12, <1>14 DEF After, FormAfter, Known
  <2>2. at + 1 = Start(w, k) + (i + 1) /\ i + 1 \in 0..Len(All(w))
    <3>1. at + 1 = a + (i + 1) /\ i + 1 \in 0..l
      BY <1>7
    <3> QED BY <1>5, <1>6, <3>1
  <2>3. k \in 1..Len(w) + 1
    BY <1>1
  <2>4. ~Failed(s2.parser) => Reached(w, s2, D, at + 1, 0)
    BY <2>1, <2>2, <2>3 DEF Reached
  <2> QED BY <1>8, <2>1, <2>4 DEF Arrives
<1> QED BY <1>13, <1>14

(* A part of a piece arrives. *)
LEMMA PartOfPiece ==
    ASSUME NEW w \in Setups, NEW s, NEW D, Known(w, s, D),
           NEW at \in 0..Len(All(w)) - 1, NEW o, Reached(w, s, D, at, o),
           NEW x, x = All(w)[at + 1], x.kind \in Delimited \cup {"body"},
           NEW e \in o..Len(x.text),
           x.kind \in {"url", "field"} => Len(s.forms) + 1 \in D
    PROVE  Arrives(w, Callback(s, Part(x, o, e)), D, at, e)
<1>1. w \in Seq(Message)
  BY SetupsAssumption
<1>2. PICK k \in 1..Len(w) : \E i \in 0..Len(Pieces(w[k])) - 1 :
          /\ at = Start(w, k) + i /\ Reading(w, s, D, k, i, o, x)
          /\ Fed(w, s, k, i, o)
  BY Where
<1>3. PICK i \in 0..Len(Pieces(w[k])) - 1 :
          /\ at = Start(w, k) + i /\ Reading(w, s, D, k, i, o, x)
          /\ Fed(w, s, k, i, o)
  BY <1>2
<1>4. PICK s2 : s2 = Callback(s, Part(x, o, e))
  OBVIOUS
<1>5. Len(s.forms) + 1 = k
  BY <1>3, FactsBefore DEF Facts
<1>6. Taken(x, o, e, FALSE, D, k)
  BY <1>5 DEF Taken
<1>7. x # End
  BY DEF End, Piece, Delimited
<1>8. /\ After(w, s2, D, k, i, e, FALSE)
      /\ FormAfter(w, s2, k, i, x, e, FALSE)
  BY <1>3, <1>4, <1>6, <1>7, PieceStep, FormStep DEF Known
<1>9. /\ Known(w, s2, D)
      /\ ~Failed(s2.parser) =>
            InMessage(w, s2, D, k, i, e) /\ Fed(w, s2, k, i, e)
  BY <1>7, <1>8 DEF After, FormAfter, Known
<1>10. k \in 1..Len(w) + 1 /\ i \in 0..Len(All(w))
  <2>1. PICK l \in Nat : l = Len(All(w))
    <3>1. All(w) \in Seq(PieceType)
      BY <1>1, Starts
    <3> QED BY <3>1
  <2>2. PICK a \in Nat : a = Start(w, k)
    BY <1>1, Starts
  <2>3. PICK n \in Nat : n = Len(Pieces(w[k]))
    BY <1>1, Starts
  <2>4. i \in 0..n - 1 /\ at = a + i /\ at \in 0..l - 1
    BY <1>3, <2>1, <2>2, <2>3
  <2>5. i \in 0..l
    BY <2>4
  <2> QED BY <1>1, <2>1, <2>5
<1>11. ~Failed(s2.parser) => Reached(w, s2, D, at, e)
  BY <1>3, <1>9, <1>10 DEF Reached
<1> QED BY <1>4, <1>9, <1>11 DEF Arrives

(* The callbacks of a packet are made one by one. *)
Makes(f, s, packet, n) ==
    /\ f[0] = s
    /\ \A i \in 1..n : f[i] = Callback(f[i - 1], packet[i])

(* FoldLeft() over a packet makes them.                                    *)
LEMMA Callbacks ==
    ASSUME NEW packet, NEW n \in Nat, DOMAIN packet = 1..n, NEW s
    PROVE  \E f : /\ Makes(f, s, packet, n)
                  /\ FoldLeft(Callback, s, packet) = f[n]
<1> DEFINE Fine(k, g) ==
               g = [x \in SUBSET (1..k) |->
                       IF x = {} THEN s
                       ELSE Callback(g[x \ {Max(x)}], packet[Max(x)])]
           T == {k \in 0..n : \E g : Fine(k, g)}
<1>1. 0 \in T
  <2> DEFINE g == [x \in SUBSET (1..0) |-> s]
  <2>1. 0 \in 0..n /\ \A x \in SUBSET (1..0) : x = {}
    OBVIOUS
  <2>2. Fine(0, g)
    BY <2>1
  <2> HIDE DEF g, Fine
  <2> QED BY <2>1, <2>2
<1>2. ASSUME NEW k \in 1..n, k - 1 \in T PROVE k \in T
  <2>1. PICK g : Fine(k - 1, g)
    BY <1>2
  <2> DEFINE h == [x \in SUBSET (1..k) |->
                      IF k \in x THEN Callback(g[x \ {k}], packet[k])
                      ELSE g[x]]
  <2>2. ASSUME NEW x \in SUBSET (1..k)
        PROVE  /\ x \ {k} \in SUBSET (1..k - 1)
               /\ k \notin x => x \in SUBSET (1..k - 1)
    OBVIOUS
  <2>3. ASSUME NEW x \in SUBSET (1..k)
        PROVE  h[x] = IF x = {} THEN s
                      ELSE Callback(h[x \ {Max(x)}], packet[Max(x)])
    <3>1. k \in Nat
      OBVIOUS
    <3>2. ASSUME NEW y PROVE x \ {y} \in SUBSET (1..k)
      OBVIOUS
    <3>3. x # {} => Max(x) \in x /\ \A y \in x : y <= Max(x)
      BY <3>1, MaxExists
    <3>4. CASE k \in x
      <4>1. Max(x) = k
        <5>1. Max(x) \in 1..k /\ k <= Max(x)
          BY <3>3, <3>4
        <5> QED BY <5>1
      <4>2. h[x \ {k}] = g[x \ {k}]
        OBVIOUS
      <4>3. h[x] = Callback(g[x \ {k}], packet[k])
        BY <3>4
      <4> QED BY <3>4, <4>1, <4>2, <4>3
    <3>5. CASE k \notin x
      <4>1. x \in SUBSET (1..k - 1) /\ h[x] = g[x]
        BY <2>2, <3>5
      <4>2. h[x \ {Max(x)}] = g[x \ {Max(x)}]
        BY <3>2, <3>5
      <4>3. g[x] = IF x = {} THEN s
                   ELSE Callback(g[x \ {Max(x)}], packet[Max(x)])
        BY <2>1, <4>1
      <4> QED BY <4>1, <4>2, <4>3
    <3> QED BY <3>4, <3>5
  <2>4. Fine(k, h)
    BY <2>3
  <2>5. k \in 0..n
    OBVIOUS
  <2> HIDE DEF h, Fine
  <2> QED BY <2>4, <2>5
<1>3. 0..n \subseteq T
  <2> HIDE DEF T
  <2> QED BY <1>1, <1>2, InductionTo
<1>4. \E g : Fine(n, g)
  <2>1. n \in 0..n
    OBVIOUS
  <2> HIDE DEF Fine
  <2> QED BY <1>3, <2>1
<1>5. Fine(n, CHOOSE g : Fine(n, g))
  <2> HIDE DEF Fine
  <2> QED BY <1>4
<1>6. FoldLeft(Callback, s, packet) = (CHOOSE g : Fine(n, g))[1..n]
  BY DEF FoldLeft, MapThenFoldSet
<1>7. PICK g : Fine(n, g) /\ FoldLeft(Callback, s, packet) = g[1..n]
  <2> HIDE DEF Fine
  <2> QED BY <1>5, <1>6
<1> DEFINE f == [i \in 0..n |-> g[1..i]]
<1>8. f[0] = s
  <2>1. 1..0 = {} /\ 0 \in 0..n /\ {} \in SUBSET (1..n)
    OBVIOUS
  <2>2. g[{}] = s
    BY <1>7, <2>1
  <2> QED BY <2>1, <2>2
<1>9. ASSUME NEW i \in 1..n PROVE f[i] = Callback(f[i - 1], packet[i])
  <2>1. /\ 1..i \in SUBSET (1..n) /\ 1..i # {}
        /\ Max(1..i) = i /\ (1..i) \ {i} = 1..i - 1
    BY FoldSteps
  <2>2. i \in 0..n /\ i - 1 \in 0..n
    OBVIOUS
  <2>3. g[1..i] = Callback(g[1..i - 1], packet[i])
    BY <1>7, <2>1
  <2> QED BY <2>2, <2>3
<1>10. f[n] = g[1..n]
  OBVIOUS
<1> HIDE DEF f, Fine
<1>11. Makes(f, s, packet, n)
  BY <1>8, <1>9 DEF Makes
<1> QED BY <1>7, <1>10, <1>11

(* The rest of a text. *)
LEMMA Remaining ==
    ASSUME NEW S, NEW t \in Seq(S), NEW o \in 0..Len(t)
    PROVE  /\ From(t, o) \in Seq(S) /\ Len(From(t, o)) = Len(t) - o
           /\ \A i \in 1..Len(t) - o : From(t, o)[i] = t[o + i]
           /\ From(t, 0) = t
           /\ \A k \in 0..Len(t) - o :
                 /\ SubSeq(From(t, o), 1, k) = SubSeq(t, o + 1, o + k)
                 /\ From(From(t, o), k) = From(t, o + k)
<1>1. PICK n \in Nat : n = Len(t)
  OBVIOUS
<1>2. ASSUME NEW c \in 0..n
      PROVE  /\ From(t, c) \in Seq(S) /\ Len(From(t, c)) = n - c
             /\ \A i \in 1..n - c : From(t, c)[i] = t[c + i]
  BY <1>1 DEF From
<1>3. o \in 0..n /\ n - o \in Nat
  BY <1>1
<1>4. PICK u \in Seq(S) : /\ u = From(t, o) /\ Len(u) = n - o
                          /\ \A i \in 1..n - o : u[i] = t[o + i]
  BY <1>2, <1>3
<1>5. From(t, 0) = t
  BY DEF From
<1>6. ASSUME NEW k \in 0..n - o
      PROVE  /\ SubSeq(u, 1, k) = SubSeq(t, o + 1, o + k)
             /\ From(u, k) = From(t, o + k)
  <2>1. o + k \in 0..n /\ k \in Nat /\ n - (o + k) = (n - o) - k
        /\ n - (o + k) \in Nat
    BY <1>3
  <2>2. /\ SubSeq(u, 1, k) \in Seq(S) /\ Len(SubSeq(u, 1, k)) = k
        /\ \A i \in 1..k : SubSeq(u, 1, k)[i] = u[i]
    BY <1>4, <2>1
  <2>3. /\ SubSeq(t, o + 1, o + k) \in Seq(S)
        /\ Len(SubSeq(t, o + 1, o + k)) = k
        /\ \A i \in 1..k : SubSeq(t, o + 1, o + k)[i] = t[o + i]
    <3>1. PICK e \in o..n : e = o + k
      BY <1>3, <2>1
    <3> DEFINE b == SubSeq(t, o + 1, e)
    <3>2. b \in Seq(S) /\ Len(b) = e - o /\ \A i \in 1..e - o : b[i] = t[o + i]
      <4>1. o \in Nat /\ e \in Nat /\ o <= e /\ e <= n
        BY <1>3
      <4>2. b \in Seq(S) /\ Len(b) = e - o
        BY <1>1, <4>1
      <4>3. \A i \in 1..e - o : b[i] = t[o + i]
        BY <1>1, <4>1
      <4> QED BY <4>2, <4>3
    <3>3. e - o = k
      <4>1. PICK a \in Nat : a = o
        BY <1>3
      <4>2. PICK c \in Nat : c = k
        BY <2>1
      <4>3. e = a + c
        BY <3>1, <4>1, <4>2
      <4>4. e - a = c
        BY <4>3
      <4> QED BY <4>1, <4>2, <4>4
    <3> HIDE DEF b
    <3>4. b \in Seq(S) /\ Len(b) = k /\ \A i \in 1..k : b[i] = t[o + i]
      BY <3>2, <3>3
    <3> QED BY <3>1, <3>4 DEF b
  <2>4. SubSeq(u, 1, k) = SubSeq(t, o + 1, o + k)
    <3> DEFINE a == SubSeq(u, 1, k)
               b == SubSeq(t, o + 1, o + k)
    <3>1. a \in Seq(S) /\ b \in Seq(S) /\ Len(a) = k /\ Len(b) = k
      BY <2>2, <2>3
    <3>2. \A i \in 1..k : a[i] = b[i]
      <4>1. \A i \in 1..k : i \in 1..n - o
        BY <2>1
      <4> QED BY <1>4, <2>2, <2>3, <4>1
    <3> HIDE DEF a, b
    <3>3. a = b
      BY <2>1, <3>1, <3>2
    <3> QED BY <3>3 DEF a, b
  <2>5. /\ From(u, k) \in Seq(S) /\ Len(From(u, k)) = (n - o) - k
        /\ \A i \in 1..(n - o) - k : From(u, k)[i] = u[k + i]
    BY <1>3, <1>4 DEF From
  <2>6. /\ From(t, o + k) \in Seq(S) /\ Len(From(t, o + k)) = n - (o + k)
        /\ \A i \in 1..n - (o + k) : From(t, o + k)[i] = t[(o + k) + i]
    BY <1>2, <2>1
  <2>7. From(u, k) = From(t, o + k)
    <3> DEFINE a == From(u, k)
               b == From(t, o + k)
    <3>1. PICK l \in Nat : l = n - (o + k)
      BY <2>1
    <3>2. a \in Seq(S) /\ b \in Seq(S) /\ Len(a) = l /\ Len(b) = l
      BY <2>1, <2>5, <2>6, <3>1
    <3>3. ASSUME NEW i \in 1..l PROVE a[i] = b[i]
      <4>1. k + i \in 1..n - o /\ o + (k + i) = (o + k) + i
            /\ i \in 1..(n - o) - k
        BY <1>3, <2>1, <3>1
      <4>2. a[i] = u[k + i] /\ u[k + i] = t[o + (k + i)]
        BY <1>4, <2>5, <4>1
      <4>3. b[i] = t[(o + k) + i]
        BY <2>6, <3>1
      <4> QED BY <4>1, <4>2, <4>3
    <3> HIDE DEF a, b
    <3>4. a = b
      BY <3>2, <3>3
    <3> QED BY <3>4 DEF a, b
  <2> QED BY <2>4, <2>7
<1> QED BY <1>1, <1>2, <1>3, <1>4, <1>5, <1>6

(* What is known of a connection stays known when more messages are cut. *)
LEMMA MoreCuts ==
    ASSUME NEW w, NEW s, NEW C, NEW D \in SUBSET Nat, C \subseteq D,
           Known(w, s, C)
    PROVE  /\ Known(w, s, D)
           /\ \A at, o : Reached(w, s, C, at, o) => Reached(w, s, D, at, o)
<1>1. StateType(s) /\ Limits(w, s, C) /\ Given(w, s, C)
  BY DEF Known, History
<1>2. Limits(w, s, D)
  BY <1>1 DEF Limits
<1>3. \A k : Uncut(D, k) => Uncut(C, k)
  BY DEF Uncut
<1>4. Given(w, s, D)
  BY <1>1, <1>3 DEF Given
<1>5. \A k, i, o : InMessage(w, s, C, k, i, o) => InMessage(w, s, D, k, i, o)
  BY <1>3 DEF InMessage
<1>6. \A k, i, o : AtEnd(w, s, C, k, i, o) <=> AtEnd(w, s, D, k, i, o)
  BY DEF AtEnd
<1>7. ASSUME NEW at, NEW o, Reached(w, s, C, at, o)
      PROVE  Reached(w, s, D, at, o)
  BY <1>5, <1>6, <1>7 DEF Reached
<1> QED BY <1>1, <1>2, <1>4, <1>7 DEF Known, History

(* Only the pieces with a delimiter and those of bodies can be divided.    *)
LEMMA Dividable ==
    ASSUME NEW w \in Seq(Message), NEW at \in 0..Len(All(w)) - 1, NEW x,
           NEW k \in 1..Len(w), NEW i \in 0..Len(Pieces(w[k])) - 1,
           x = Pieces(w[k])[i + 1]
    PROVE  /\ x \in PieceType
           /\ x.kind \notin Delimited \cup {"body"} => Len(x.text) <= 1
<1>1. PICK m \in Message : m = w[k]
  <2> HIDE DEF Message
  <2> QED OBVIOUS
<1>2. InHead(m, i, x) \/ InChunks(m, i, x) \/ InTail(m, i, x)
  BY <1>1, Places
<1>3. x \in PieceType
  BY <1>1, Added
<1>4. SUFFICES ASSUME x.kind \notin Delimited \cup {"body"}
               PROVE  Len(x.text) <= 1
  BY <1>3
<1>5. ~(AtField(m, i, x) \/ AtTrailerField(m, i, x))
      /\ ~(AtValue(m, i, x) \/ AtTrailerValue(m, i, x))
      /\ ~(AtWhole(m, i, x) \/ AtBody(m, i, x)) /\ ~AtUrl(m, i, x)
  <2>1. AtUrl(m, i, x) => x.kind = "url"
    BY DEF AtUrl, Piece
  <2> QED BY <1>4, <2>1, HeaderTexts, BodyTexts DEF Delimited
<1>6. \/ AtHeaders(m, i, x) \/ AtChunk(m, i, x) \/ AtChunkEnd(m, i, x)
      \/ AtTrailersEnd(m, i, x) \/ AtEndOf(m, i, x)
  BY <1>2, <1>5 DEF InHead, InChunks, InTail
<1>7. x.text = <<"LF">> \/ x.text = <<>>
  BY <1>6 DEF AtHeaders, AtChunk, AtChunkEnd, AtTrailersEnd, AtEndOf, Mark,
     End, Piece
<1>8. CASE x.text = <<"LF">>
  BY <1>8
<1>9. CASE x.text = <<>>
  BY <1>9
<1> QED BY <1>7, <1>8, <1>9

(* Of the first piece of what is left, o symbols had arrived before.       *)
ArrivedOf(o, i) == IF i = 0 THEN o ELSE 0

(* The ith piece of what is left is the rest of one of the connection.     *)
RestOf(w, at, o, i) ==
    Part(All(w)[at + i], ArrivedOf(o, i - 1), Len(All(w)[at + i].text))

(* A piece is its kind and its text.                                       *)
LEMMA PieceIs ==
    ASSUME NEW x \in PieceType
    PROVE  /\ x.kind \in Kinds /\ x.text \in Seq(Symbols \cup {"LF"})
           /\ x = Part(x, 0, Len(x.text))
           /\ \A t : [x EXCEPT !.text = t] = Piece(x.kind, t)
           /\ \A o : [x EXCEPT !.text = From(@, o)] = Part(x, o, Len(x.text))
<1>1. /\ x.kind \in Kinds /\ x.text \in Seq(Symbols \cup {"LF"})
      /\ x = [kind |-> x.kind, text |-> x.text]
      /\ \A t : [x EXCEPT !.text = t] = [kind |-> x.kind, text |-> t]
  BY DEF PieceType
<1>2. SubSeq(x.text, 1, Len(x.text)) = x.text
  BY <1>1
<1>3. Part(x, 0, Len(x.text)) = [kind |-> x.kind, text |-> x.text]
  <2>1. 0 + 1 = 1
    OBVIOUS
  <2> QED BY <1>2, <2>1 DEF Part, Piece
<1>4. ASSUME NEW o
      PROVE  [x EXCEPT !.text = From(@, o)] = Part(x, o, Len(x.text))
  BY <1>1 DEF Part, Piece, From
<1> QED BY <1>1, <1>3, <1>4 DEF Piece

(* What is left, piece by piece. *)
LEMMA LeftIs ==
    ASSUME NEW w \in Seq(Message), NEW r, NEW at \in 0..Len(All(w)), NEW o,
           Left(w, r, at, o)
    PROVE  /\ r \in Seq(PieceType) /\ Len(r) = Len(All(w)) - at
           /\ \A i \in 1..Len(r) : All(w)[at + i] \in PieceType
                                   /\ r[i] = RestOf(w, at, o, i)
<1>1. All(w) \in Seq(PieceType)
  BY Starts
<1>2. PICK n \in Nat : n = Len(All(w))
  BY <1>1
<1>3. r \in Seq(PieceType) /\ Len(r) = n - at /\ at \in 0..n
  BY <1>2 DEF Left
<1>4. ASSUME NEW i \in 1..Len(r)
      PROVE  All(w)[at + i] \in PieceType /\ r[i] = RestOf(w, at, o, i)
  <2>1. at + i \in 1..n
    BY <1>3
  <2>2. PICK x \in PieceType : x = All(w)[at + i]
    <3> HIDE DEF PieceType
    <3> QED BY <1>1, <1>2, <2>1
  <2>3. CASE i = 1
    <3>1. r[i] = [x EXCEPT !.text = From(@, o)]
      BY <2>2, <2>3 DEF Left
    <3>2. r[i] = Part(x, o, Len(x.text))
      BY <3>1, PieceIs
    <3>3. i - 1 = 0
      BY <2>3
    <3> QED BY <2>2, <3>2, <3>3 DEF RestOf, ArrivedOf
  <2>4. CASE i # 1
    <3>1. r[i] = x
      BY <2>2, <2>4 DEF Left
    <3>2. r[i] = Part(x, 0, Len(x.text))
      BY <3>1, PieceIs
    <3>3. i - 1 # 0
      BY <2>4
    <3> QED BY <2>2, <3>2, <3>3 DEF RestOf, ArrivedOf
  <2> QED BY <2>3, <2>4
<1> QED BY <1>2, <1>3, <1>4

(* Whole pieces arrive. *)
LEMMA WholePieces ==
    ASSUME NEW w \in Setups, NEW s, NEW D, Known(w, s, D),
           NEW at \in 0..Len(All(w)), NEW o, Reached(w, s, D, at, o),
           NEW n \in 0..Len(All(w)) - at, NEW f, NEW packet,
           Makes(f, s, packet, n),
           \A i \in 1..n : packet[i] = RestOf(w, at, o, i)
    PROVE  Arrives(w, f[n], D, at + n, ArrivedOf(o, n))
<1>1. PICK l \in Nat : l = Len(All(w))
  <2>1. All(w) \in Seq(PieceType)
    BY SetupsAssumption, Starts
  <2> QED BY <2>1
<1>2. at \in 0..l /\ n \in 0..l - at
  BY <1>1
<1> DEFINE T == {i \in 0..n : Arrives(w, f[i], D, at + i, ArrivedOf(o, i))}
<1>3. 0 \in T
  <2>1. f[0] = s /\ at + 0 = at /\ 0 \in 0..n
    BY <1>2 DEF Makes
  <2> QED BY <2>1 DEF Arrives, ArrivedOf
<1>4. ASSUME NEW i \in 1..n, i - 1 \in T PROVE i \in T
  <2>1. PICK j \in 0..n - 1 : j = i - 1
    BY <1>2
  <2>2. PICK t : t = f[j]
    OBVIOUS
  <2>3. Arrives(w, t, D, at + j, ArrivedOf(o, j))
    BY <1>4, <2>1, <2>2
  <2>4. /\ Known(w, t, D)
        /\ ~Failed(t.parser) => Reached(w, t, D, at + j, ArrivedOf(o, j))
    BY <2>3 DEF Arrives
  <2>5. f[i] = Callback(t, RestOf(w, at, o, i))
    BY <2>1, <2>2 DEF Makes
  <2>6. i \in 0..n
    BY <1>2
  <2>7. CASE Failed(t.parser)
    <3>1. f[i] = t
      BY <2>5, <2>7 DEF Callback
    <3> QED BY <2>4, <2>6, <2>7, <3>1 DEF Arrives
  <2>8. CASE ~Failed(t.parser)
    <3>1. PICK b \in 0..l - 1 : b = at + j
      BY <1>2, <2>1
    <3>2. b + 1 = at + i /\ b \in 0..Len(All(w)) - 1
      BY <1>1, <1>2, <2>1, <3>1
    <3>3. PICK x : x = All(w)[b + 1]
      OBVIOUS
    <3>4. Reached(w, t, D, b, ArrivedOf(o, j))
      BY <2>4, <2>8, <3>1
    <3>5. Arrives(w, Callback(t, Part(x, ArrivedOf(o, j), Len(x.text))),
                  D, b + 1, 0)
      BY <2>4, <3>2, <3>3, <3>4, WholePiece
    <3>6. RestOf(w, at, o, i) = Part(x, ArrivedOf(o, j), Len(x.text))
      BY <2>1, <3>2, <3>3 DEF RestOf
    <3>7. ArrivedOf(o, i) = 0
      BY <1>2 DEF ArrivedOf
    <3> QED BY <2>5, <2>6, <3>2, <3>5, <3>6, <3>7
  <2> QED BY <2>7, <2>8
<1>5. 0..n \subseteq T
  <2>1. n \in Nat
    BY <1>2
  <2> HIDE DEF T
  <2> QED BY <1>3, <1>4, <2>1, InductionTo
<1>6. n \in 0..n
  BY <1>2
<1> QED BY <1>5, <1>6

(* What is left after whole pieces. *)
LEMMA LeftAfterWhole ==
    ASSUME NEW w \in Seq(Message), NEW r, NEW at \in 0..Len(All(w)), NEW o,
           Left(w, r, at, o), NEW n \in 0..Len(r)
    PROVE  /\ at + n \in 0..Len(All(w))
           /\ Left(w, From(r, n), at + n, ArrivedOf(o, n))
<1>1. PICK l \in Nat : l = Len(All(w))
  <2>1. All(w) \in Seq(PieceType)
    BY Starts
  <2> QED BY <2>1
<1>2. r \in Seq(PieceType) /\ Len(r) = l - at /\ at \in 0..l
  BY <1>1 DEF Left
<1>3. n \in 0..l - at /\ at + n \in 0..l /\ (l - at) - n = l - (at + n)
  BY <1>2
<1>4. CASE n = 0
  <2>1. From(r, n) = r /\ at + n = at
    <3>1. From(r, 0) = r
      <4>1. 0 \in 0..Len(r)
        BY <1>2
      <4> HIDE DEF PieceType
      <4> QED BY <1>2, <4>1, Remaining
    <3> QED BY <1>2, <1>4, <3>1
  <2> QED BY <1>1, <1>3, <1>4, <2>1 DEF ArrivedOf
<1>5. CASE n # 0
  <2> DEFINE q == From(r, n)
  <2>1. /\ q \in Seq(PieceType) /\ Len(q) = Len(r) - n
        /\ \A i \in 1..Len(r) - n : q[i] = r[n + i]
    <3> HIDE DEF PieceType
    <3> QED BY <1>2, Remaining
  <2>2. Len(q) = l - (at + n)
    BY <1>2, <1>3, <2>1
  <2>3. ASSUME NEW i \in 1..l - (at + n)
        PROVE  /\ q[i] = All(w)[(at + n) + i]
               /\ All(w)[(at + n) + i] \in PieceType
    <3>1. PICK j \in 1..Len(r) : j = n + i
      BY <1>2, <1>3
    <3>2. j # 1 /\ at + j = (at + n) + i
      BY <1>2, <1>3, <1>5, <3>1
    <3>3. q[i] = r[j]
      BY <1>2, <1>3, <2>1, <3>1
    <3>4. r[j] = All(w)[at + j]
      BY <3>2 DEF Left
    <3>5. All(w)[at + j] \in PieceType
      BY LeftIs
    <3> QED BY <3>2, <3>3, <3>4, <3>5
  <2>4. ASSUME NEW i \in 1..Len(q)
        PROVE  q[i] = IF i = 1
                      THEN [All(w)[(at + n) + 1] EXCEPT !.text = From(@, 0)]
                      ELSE All(w)[(at + n) + i]
    <3>1. i \in 1..l - (at + n)
      BY <2>2
    <3>2. PICK x \in PieceType : x = All(w)[(at + n) + i]
      BY <2>3, <3>1
    <3>3. [x EXCEPT !.text = From(@, 0)] = x
      BY PieceIs
    <3> QED BY <2>3, <3>1, <3>2, <3>3
  <2>5. ArrivedOf(o, n) = 0
    BY <1>5 DEF ArrivedOf
  <2> HIDE DEF q
  <2>6. Left(w, q, at + n, 0)
    BY <1>1, <2>1, <2>2, <2>4 DEF Left
  <2> QED BY <1>1, <1>3, <2>5, <2>6 DEF q
<1> QED BY <1>4, <1>5

(* What is left after a part of a piece. *)
Reaches(x, o, k, e) ==
    o \in 0..Len(x.text) /\ e \in o..Len(x.text) /\ k \in Nat /\ e = o + k

PartOfFirst(r, k) == [r[1] EXCEPT !.text = SubSeq(@, 1, k)]
WithoutPart(r, k) == <<[r[1] EXCEPT !.text = From(@, k)]>> \o From(r, 1)

Divides(w, r, at, x, o, k, e) ==
    /\ PartOfFirst(r, k) = Part(x, o, e)
    /\ Len(r[1].text) = Len(x.text) - o
    /\ Left(w, WithoutPart(r, k), at, e)

(* The rest of the piece is the first of what is left.                     *)
LEMMA LeftAfterPart ==
    ASSUME NEW w \in Seq(Message), NEW r, NEW at \in 0..Len(All(w)) - 1,
           NEW o, Left(w, r, at, o), NEW x, x = All(w)[at + 1],
           NEW k, NEW e, Reaches(x, o, k, e)
    PROVE  Divides(w, r, at, x, o, k, e)
<1>1. o \in 0..Len(x.text) /\ e \in o..Len(x.text) /\ k \in Nat /\ e = o + k
  BY DEF Reaches
<1>2. PICK l \in Nat : l = Len(All(w))
  <2>1. All(w) \in Seq(PieceType)
    BY Starts
  <2> QED BY <2>1
<1>3. r \in Seq(PieceType) /\ Len(r) = l - at /\ at \in 0..l - 1
  BY <1>2 DEF Left
<1>4. 1 \in 1..Len(r) /\ at \in 0..Len(All(w))
  BY <1>2, <1>3
<1>5. x \in PieceType
  BY <1>4, LeftIs
<1>6. /\ x.text \in Seq(Symbols \cup {"LF"}) /\ x.kind \in Kinds
      /\ k \in 0..Len(x.text) - o
  <2>1. x.text \in Seq(Symbols \cup {"LF"}) /\ x.kind \in Kinds
    BY <1>5, PieceIs
  <2>2. PICK d \in Nat : d = Len(x.text)
    BY <2>1
  <2>3. k \in 0..d - o
    BY <1>1, <2>2
  <2> QED BY <2>1, <2>2, <2>3
<1>7. PICK t : t = From(x.text, o)
  OBVIOUS
<1>8. /\ t \in Seq(Symbols \cup {"LF"}) /\ Len(t) = Len(x.text) - o
      /\ SubSeq(t, 1, k) = SubSeq(x.text, o + 1, o + k)
      /\ From(t, k) = From(x.text, o + k)
  <2> DEFINE S == Symbols \cup {"LF"}
  <2>1. x.text \in Seq(S)
    BY <1>6
  <2> HIDE DEF S
  <2>2. PICK u \in Seq(S) : u = x.text
    BY <2>1
  <2>3. PICK a \in 0..Len(u) : a = o
    BY <1>1, <2>2
  <2>4. k \in 0..Len(u) - a
    BY <1>6, <2>2, <2>3
  <2>5. /\ From(u, a) \in Seq(S) /\ Len(From(u, a)) = Len(u) - a
        /\ SubSeq(From(u, a), 1, k) = SubSeq(u, a + 1, a + k)
        /\ From(From(u, a), k) = From(u, a + k)
    BY <2>4, Remaining
  <2> QED BY <1>7, <2>2, <2>3, <2>5 DEF S
<1>9. r[1] = Piece(x.kind, t)
  <2>1. r[1] = [x EXCEPT !.text = From(@, o)]
    BY <1>4 DEF Left
  <2> QED BY <1>5, <1>7, <2>1 DEF PieceType, Piece
<1>10. [r[1] EXCEPT !.text = SubSeq(@, 1, k)] = Part(x, o, o + k)
  <2>1. r[1] = [kind |-> x.kind, text |-> t]
    BY <1>9 DEF Piece
  <2>2. r[1].text = t
    BY <2>1
  <2>3. \A u : [r[1] EXCEPT !.text = u] = [kind |-> x.kind, text |-> u]
    BY <2>1
  <2>4. [r[1] EXCEPT !.text = SubSeq(@, 1, k)] =
            [kind |-> x.kind, text |-> SubSeq(r[1].text, 1, k)]
    BY <2>3
  <2> QED BY <1>8, <2>2, <2>4 DEF Piece, Part
<1>11. Len(r[1].text) = Len(x.text) - o
  BY <1>8, <1>9 DEF Piece
<1>12. PICK y : y = [r[1] EXCEPT !.text = From(@, k)]
  OBVIOUS
<1>13. y = Piece(x.kind, From(x.text, o + k))
  BY <1>8, <1>9, <1>12 DEF Piece
<1>14. y = [x EXCEPT !.text = From(@, o + k)]
  BY <1>5, <1>13 DEF PieceType, Piece
<1>15. y \in PieceType
  <2>1. From(t, k) \in Seq(Symbols \cup {"LF"})
    <3>1. k \in 0..Len(t)
      BY <1>6, <1>8
    <3> QED BY <1>8, <3>1, Remaining
  <2> QED BY <1>6, <1>8, <1>13, <2>1 DEF PieceType, Piece
<1> DEFINE q == From(r, 1)
           p == <<y>> \o q
<1>16. /\ q \in Seq(PieceType) /\ Len(q) = Len(r) - 1
       /\ \A i \in 1..Len(r) - 1 : q[i] = r[1 + i]
  <2>1. 1 \in 0..Len(r)
    BY <1>4
  <2> HIDE DEF PieceType
  <2> QED BY <1>3, <2>1, Remaining
<1>17. /\ p \in Seq(PieceType) /\ Len(p) = Len(r) /\ p[1] = y
       /\ \A i \in 2..Len(r) : p[i] = r[i]
  <2> HIDE DEF PieceType, q
  <2>1. <<y>> \in Seq(PieceType) /\ Len(<<y>>) = 1 /\ <<y>>[1] = y
    BY <1>15
  <2>2. /\ p \in Seq(PieceType) /\ Len(p) = 1 + Len(q)
        /\ \A i \in 1..1 : p[i] = <<y>>[i]
        /\ \A i \in 1..Len(q) : p[1 + i] = q[i]
    BY <1>16, <2>1, Concatenated
  <2>3. PICK m \in Nat : m = Len(r)
    BY <1>3
  <2>4. m >= 1
    BY <1>4, <2>3
  <2>5. ASSUME NEW i \in 2..m PROVE p[i] = r[i]
    <3>1. PICK j \in 1..m - 1 : i = 1 + j
      <4>1. i - 1 \in 1..m - 1 /\ i = 1 + (i - 1)
        OBVIOUS
      <4> QED BY <4>1
    <3>2. p[1 + j] = q[j] /\ q[j] = r[1 + j]
      BY <1>16, <2>2, <2>3, <3>1
    <3> QED BY <3>1, <3>2
  <2>6. Len(p) = m
    BY <1>16, <2>2, <2>3, <2>4
  <2>7. p[1] = y
    BY <2>1, <2>2
  <2> HIDE DEF p
  <2> QED BY <2>2, <2>3, <2>5, <2>6, <2>7
<1> HIDE DEF p
<1>18. ASSUME NEW i \in 1..Len(p)
       PROVE  p[i] = IF i = 1
                     THEN [All(w)[at + 1] EXCEPT !.text = From(@, o + k)]
                     ELSE All(w)[at + i]
  <2>1. CASE i = 1
    BY <1>14, <1>17, <2>1
  <2>2. CASE i # 1
    <3>1. i \in 2..Len(r) /\ i \in 1..Len(r)
      BY <1>3, <1>17, <2>2
    <3>2. r[i] = All(w)[at + i]
      BY <2>2, <3>1 DEF Left
    <3> QED BY <1>17, <2>2, <3>1, <3>2
  <2> QED BY <2>1, <2>2
<1>19. Left(w, p, at, o + k)
  <2>1. at < Len(All(w)) /\ Len(p) = Len(All(w)) - at
    BY <1>2, <1>3, <1>17
  <2> QED BY <1>17, <1>18, <2>1 DEF Left
<1> QED
  BY <1>1, <1>10, <1>11, <1>12, <1>19 DEF p, q, PartOfFirst, WithoutPart,
     Divides

(* A packet ends within a piece; if that is a URL or the name of a header, *)
(* the message counts as cut.                                              *)
CutBy(C, x, s) ==
    IF x.kind \in {"url", "field"} THEN C \cup {Len(s.forms) + 1} ELSE C

(* A part of a piece arrives, the last of a packet.                        *)
LEMMA PartArrives ==
    ASSUME NEW w \in Setups, NEW s, NEW C, Known(w, s, C),
           NEW at \in 0..Len(All(w)) - 1, NEW o, Reached(w, s, C, at, o),
           NEW x, x = All(w)[at + 1], NEW y, Len(y.text) = Len(x.text) - o,
           y.kind = x.kind, NEW k \in Incomplete(y), k > 0
    PROVE  LET s2 == Callback(s, Part(x, o, o + k))
           IN  /\ Arrives(w, s2, CutBy(C, x, s2), at, o + k)
               /\ o \in 0..Len(x.text) /\ k \in 0..Len(x.text) - o
               /\ x.text \in Seq(Symbols \cup {"LF"})
<1>1. w \in Seq(Message)
  BY SetupsAssumption
<1>2. PICK m \in 1..Len(w) : \E i \in 0..Len(Pieces(w[m])) - 1 :
          /\ at = Start(w, m) + i /\ Reading(w, s, C, m, i, o, x)
          /\ Fed(w, s, m, i, o)
  BY Where
<1>3. PICK i \in 0..Len(Pieces(w[m])) - 1 :
          at = Start(w, m) + i /\ Reading(w, s, C, m, i, o, x)
  BY <1>2
<1>4. Facts(w, s, m, i, o, x)
  BY <1>3, FactsBefore
<1>5. x \in PieceType /\ o \in 0..Len(x.text)
  BY <1>4 DEF Facts
<1>6. x.text \in Seq(Symbols \cup {"LF"})
  BY <1>5, PieceIs
<1>7. PICK n \in Nat : n = Len(x.text)
  BY <1>6
<1>8. PICK l \in Nat : l = Len(y.text) /\ l = n - o
  <2>1. o \in 0..n
    BY <1>5, <1>7
  <2>2. n - o \in Nat /\ Len(y.text) = n - o
    BY <1>7, <2>1
  <2> QED BY <2>2
<1>9. /\ k \in {0} \cup (IF y.kind \in Delimited THEN 1..l ELSE 1..l - 1)
      /\ o \in 0..n
  BY <1>5, <1>7, <1>8 DEF Incomplete
<1>10. k \in 0..n - o /\ o + k \in o..n
  BY <1>8, <1>9
<1>11. x.kind \in Delimited \cup {"body"}
  <2>1. SUFFICES ASSUME x.kind \notin Delimited \cup {"body"} PROVE FALSE
    OBVIOUS
  <2>2. Len(x.text) <= 1
    <3>1. x = Pieces(w[m])[i + 1]
      BY <1>3 DEF Reading
    <3> QED BY <1>1, <2>1, <3>1, Dividable
  <2>3. k \in 1..l - 1
    BY <1>9, <2>1
  <2> QED BY <1>7, <1>8, <1>9, <2>2, <2>3
<1>12. PICK s2 : s2 = Callback(s, Part(x, o, o + k))
  OBVIOUS
<1>13. ~Failed(s.parser) /\ StateType(s) /\ C \in SUBSET Nat
  BY DEF Reached, Known, History
<1>14. x.kind \in {"url", "field"} => s2.forms = s.forms
  <2>1. Part(x, o, o + k).kind = x.kind
    BY DEF Part, Piece
  <2>2. \A q : Put(s, q).forms = s.forms
    BY <1>13 DEF StateType, Put
  <2>3. CASE x.kind = "url"
    BY <1>12, <1>13, <2>1, <2>2, <2>3, Calls
  <2>4. CASE x.kind = "field"
    BY <1>12, <1>13, <2>1, <2>2, <2>4, Calls
  <2> QED BY <2>3, <2>4
<1>15. PICK D : D = CutBy(C, x, s2)
  OBVIOUS
<1>16. /\ D \in SUBSET Nat /\ C \subseteq D
       /\ x.kind \in {"url", "field"} => Len(s.forms) + 1 \in D
  <2>1. x.kind \in {"url", "field"} => D = C \cup {Len(s.forms) + 1}
    BY <1>14, <1>15 DEF CutBy
  <2>2. x.kind \notin {"url", "field"} => D = C
    BY <1>15 DEF CutBy
  <2>3. Len(s.forms) + 1 \in Nat
    BY <1>13 DEF StateType
  <2> QED BY <1>13, <2>1, <2>2, <2>3
<1>17. Known(w, s, D) /\ Reached(w, s, D, at, o)
  BY <1>16, MoreCuts
<1>18. o + k \in o..Len(x.text)
  BY <1>7, <1>10
<1>19. Arrives(w, s2, D, at, o + k)
  BY <1>11, <1>12, <1>16, <1>17, <1>18, PartOfPiece
<1> QED BY <1>5, <1>6, <1>7, <1>10, <1>12, <1>15, <1>19

(* A packet, and what is left after it. *)
PacketOf(r, n, k) ==
    IF k > 0
    THEN Append(SubSeq(r, 1, n), [r[n + 1] EXCEPT !.text = SubSeq(@, 1, k)])
    ELSE SubSeq(r, 1, n)

LeftOf(r, n, k) ==
    IF k > 0
    THEN <<[r[n + 1] EXCEPT !.text = From(@, k)]>> \o From(r, n + 1)
    ELSE From(r, n)

CutIn(C, r, n, k, s) == IF k > 0 THEN CutBy(C, r[n + 1], s) ELSE C

(* The pieces of a packet. *)
LEMMA PacketIs ==
    ASSUME NEW r \in Seq(PieceType), NEW n \in 0..Len(r), NEW k \in Nat,
           k > 0 => n < Len(r) /\ k <= Len(r[n + 1].text)
    PROVE  LET p == PacketOf(r, n, k)
               l == IF k > 0 THEN n + 1 ELSE n
           IN  /\ DOMAIN p = 1..l
               /\ \A i \in 1..n : p[i] = r[i]
               /\ k > 0 =>
                     p[n + 1] = [r[n + 1] EXCEPT !.text = SubSeq(@, 1, k)]
<1>1. PICK a \in Seq(PieceType) :
          /\ a = SubSeq(r, 1, n) /\ Len(a) = n
          /\ \A i \in 1..n : a[i] = r[i]
  <2> HIDE DEF PieceType
  <2>1. SubSeq(r, 1, n) \in Seq(PieceType) /\ Len(SubSeq(r, 1, n)) = n
    BY Beginnings
  <2>2. \A i \in 1..n : SubSeq(r, 1, n)[i] = r[i]
    OBVIOUS
  <2> QED BY <2>1, <2>2
<1>2. n \in Nat
  OBVIOUS
<1>3. CASE k > 0
  <2>1. PICK y : y = [r[n + 1] EXCEPT !.text = SubSeq(@, 1, k)]
    OBVIOUS
  <2>2. y \in PieceType
    <3>1. r[n + 1] \in PieceType
      <4>1. n + 1 \in 1..Len(r)
        BY <1>2, <1>3
      <4> HIDE DEF PieceType
      <4> QED BY <4>1
    <3>2. PICK x \in PieceType : x = r[n + 1]
      BY <3>1
    <3>3. x.text \in Seq(Symbols \cup {"LF"}) /\ x.kind \in Kinds
      BY PieceIs
    <3>4. y = Piece(x.kind, SubSeq(x.text, 1, k))
      BY <2>1, <3>2, PieceIs
    <3>5. SubSeq(x.text, 1, k) \in Seq(Symbols \cup {"LF"})
      <4>1. k \in 0..Len(x.text)
        BY <1>3, <3>2, <3>3
      <4> QED BY <3>3, <4>1, Beginnings
    <3> QED BY <3>3, <3>4, <3>5 DEF PieceType, Piece
  <2>3. /\ Append(a, y) \in Seq(PieceType) /\ Len(Append(a, y)) = n + 1
        /\ Append(a, y)[n + 1] = y
        /\ \A i \in 1..n : Append(a, y)[i] = a[i]
    <3> HIDE DEF PieceType
    <3> QED BY <1>1, <2>2
  <2>4. PacketOf(r, n, k) = Append(a, y)
    BY <1>1, <1>3, <2>1 DEF PacketOf
  <2>5. DOMAIN Append(a, y) = 1..n + 1
    BY <2>3
  <2> QED BY <1>1, <1>3, <2>1, <2>3, <2>4, <2>5
<1>4. CASE ~(k > 0)
  <2>1. PacketOf(r, n, k) = a
    BY <1>1, <1>4 DEF PacketOf
  <2>2. DOMAIN a = 1..n
    BY <1>1
  <2> QED BY <1>1, <1>4, <2>1, <2>2
<1> QED BY <1>3, <1>4

(* A packet arrives: its pieces are the next ones of the connection. *)
LEMMA PacketStep ==
    ASSUME NEW w \in Setups, NEW s, NEW C, Known(w, s, C), NEW r,
           Held(w, r, s, C), NEW n \in 0..Len(r),
           NEW k \in (IF n = Len(r) THEN {0} ELSE Incomplete(r[n + 1]))
    PROVE  LET s2 == FoldLeft(Callback, s, PacketOf(r, n, k))
               D == CutIn(C, r, n, k, s2)
           IN  /\ Known(w, s2, D)
               /\ ~Failed(s2.parser) => Held(w, LeftOf(r, n, k), s2, D)
<1>1. w \in Seq(Message)
  BY SetupsAssumption
<1>2. PICK at \in 0..Len(All(w)) :
          \E o \in 0..(IF at < Len(All(w))
                       THEN Len(All(w)[at + 1].text) ELSE 0) :
              Left(w, r, at, o) /\ Reached(w, s, C, at, o)
  BY DEF Held
<1>3. PICK o \in 0..(IF at < Len(All(w))
                     THEN Len(All(w)[at + 1].text) ELSE 0) :
          Left(w, r, at, o) /\ Reached(w, s, C, at, o)
  BY <1>2
<1>4. PICK l \in Nat : l = Len(All(w))
  <2>1. All(w) \in Seq(PieceType)
    BY <1>1, Starts
  <2> QED BY <2>1
<1>5. /\ r \in Seq(PieceType) /\ Len(r) = l - at /\ at \in 0..l
      /\ \A i \in 1..Len(r) : All(w)[at + i] \in PieceType
                              /\ r[i] = RestOf(w, at, o, i)
  <2>1. Left(w, r, at, o)
    BY <1>3
  <2> QED BY <1>1, <1>4, <2>1, LeftIs
<1>6. n \in 0..l - at /\ at + n \in 0..l
  BY <1>5
<1>7. k \in Nat /\ (k > 0 => n < Len(r) /\ k <= Len(r[n + 1].text))
  <2>1. CASE n = Len(r)
    BY <2>1
  <2>2. CASE n # Len(r)
    <3>1. n + 1 \in 1..Len(r) /\ n < Len(r)
      BY <1>5, <2>2
    <3>2. PICK y \in PieceType : y = r[n + 1]
      <4> HIDE DEF PieceType
      <4> QED BY <1>5, <3>1
    <3>3. PICK m \in Nat : m = Len(y.text)
      <4>1. y.text \in Seq(Symbols \cup {"LF"})
        BY PieceIs
      <4> QED BY <4>1
    <3>4. k \in {0} \cup (IF y.kind \in Delimited THEN 1..m ELSE 1..m - 1)
      BY <2>2, <3>2, <3>3 DEF Incomplete
    <3>5. k \in 0..m
      BY <3>4
    <3> QED BY <3>1, <3>2, <3>3, <3>5
  <2> QED BY <2>1, <2>2
<1> DEFINE p == PacketOf(r, n, k)
           c == IF k > 0 THEN n + 1 ELSE n
<1>8. /\ DOMAIN p = 1..c /\ \A i \in 1..n : p[i] = r[i]
      /\ k > 0 => p[n + 1] = [r[n + 1] EXCEPT !.text = SubSeq(@, 1, k)]
  <2> HIDE DEF PieceType
  <2> QED BY <1>5, <1>7, PacketIs, ZenonT(40)
<1>9. c \in Nat /\ n <= c
  BY <1>6
<1> HIDE DEF p, c
<1>10. PICK f : Makes(f, s, p, c) /\ FoldLeft(Callback, s, p) = f[c]
  BY <1>8, <1>9, Callbacks
<1>11. Makes(f, s, p, n)
  <2>1. \A i \in 1..n : i \in 1..c
    BY <1>6, <1>9
  <2> QED BY <1>10, <2>1 DEF Makes
<1>12. PICK t : t = f[n]
  OBVIOUS
<1>13. Arrives(w, t, C, at + n, ArrivedOf(o, n))
  <2>1. \A i \in 1..n : p[i] = RestOf(w, at, o, i)
    <3>1. \A i \in 1..n : i \in 1..Len(r)
      BY <1>5, <1>6
    <3> QED BY <1>5, <1>8, <3>1
  <2>2. n \in 0..Len(All(w)) - at
    BY <1>4, <1>6
  <2> QED BY <1>3, <1>11, <1>12, <2>1, <2>2, WholePieces
<1>14. PICK s2 : s2 = FoldLeft(Callback, s, p)
  OBVIOUS
<1>15. PICK D : D = CutIn(C, r, n, k, s2)
  OBVIOUS
<1>16. /\ Left(w, From(r, n), at + n, ArrivedOf(o, n))
       /\ ~Failed(t.parser) => Reached(w, t, C, at + n, ArrivedOf(o, n))
       /\ Known(w, t, C)
  <2>1. Left(w, r, at, o)
    BY <1>3
  <2>2. Left(w, From(r, n), at + n, ArrivedOf(o, n))
    BY <1>1, <2>1, LeftAfterWhole
  <2> QED BY <1>13, <2>2 DEF Arrives
<1>17. PICK b \in 0..l : b = at + n
  BY <1>6
<1>18. PICK a : a = ArrivedOf(o, n)
  OBVIOUS
<1>19. CASE ~(k > 0)
  <2>1. s2 = t /\ D = C /\ LeftOf(r, n, k) = From(r, n)
    BY <1>10, <1>12, <1>14, <1>15, <1>19 DEF c, CutIn, LeftOf
  <2>2. a \in 0..(IF b < Len(All(w)) THEN Len(All(w)[b + 1].text) ELSE 0)
    <3>1. CASE n = 0
      <4>1. a = o /\ b = at
        BY <1>4, <1>17, <1>18, <3>1 DEF ArrivedOf
      <4> QED BY <4>1
    <3>2. CASE n # 0
      <4>1. a = 0
        BY <1>18, <3>2 DEF ArrivedOf
      <4>2. b < l => Len(All(w)[b + 1].text) \in Nat
        <5>1. SUFFICES ASSUME b < l PROVE Len(All(w)[b + 1].text) \in Nat
          OBVIOUS
        <5>2. n + 1 \in 1..Len(r) /\ b + 1 = at + (n + 1)
          BY <1>5, <1>6, <1>17, <5>1
        <5>3. PICK x \in PieceType : x = All(w)[b + 1]
          BY <1>5, <5>2
        <5>4. x.text \in Seq(Symbols \cup {"LF"})
          BY PieceIs
        <5> QED BY <5>3, <5>4
      <4> QED BY <1>4, <4>1, <4>2
    <3> QED BY <3>1, <3>2
  <2>3. ~Failed(s2.parser) => Held(w, LeftOf(r, n, k), s2, D)
    <3>1. b \in 0..Len(All(w))
      BY <1>4
    <3> QED BY <1>16, <1>17, <1>18, <2>1, <2>2, <3>1 DEF Held
  <2> QED BY <1>14, <1>15, <1>16, <2>1, <2>3 DEF p
<1>20. CASE k > 0
  <2>1. PICK q : q = From(r, n)
    OBVIOUS
  <2>2. PICK x : x = All(w)[b + 1]
    OBVIOUS
  <2>3. b \in 0..Len(All(w)) - 1 /\ n + 1 \in 1..Len(r)
        /\ b + 1 = at + (n + 1)
    BY <1>4, <1>5, <1>6, <1>7, <1>17, <1>20
  <2>4. x \in PieceType /\ r[n + 1] = RestOf(w, at, o, n + 1)
    BY <1>5, <2>2, <2>3
  <2>5. r[n + 1] = Part(x, a, Len(x.text))
    <3>1. (n + 1) - 1 = n
      BY <1>6
    <3> QED BY <1>18, <2>2, <2>3, <2>4, <3>1 DEF RestOf
  <2>6. q[1] = r[n + 1] /\ From(q, 1) = From(r, n + 1)
    <3> HIDE DEF PieceType
    <3>1. /\ \A i \in 1..Len(r) - n : From(r, n)[i] = r[n + i]
          /\ \A j \in 0..Len(r) - n : From(From(r, n), j) = From(r, n + j)
      BY <1>5, Remaining, ZenonT(40)
    <3>2. 1 \in 1..Len(r) - n /\ 1 \in 0..Len(r) - n
      BY <1>5, <1>6, <2>3
    <3> QED BY <2>1, <3>1, <3>2
  <2>7. Left(w, q, b, a)
    BY <1>16, <1>17, <1>18, <2>1
  <2>8. s2 = Callback(t, p[n + 1])
    <3>1. c = n + 1 /\ n + 1 \in 1..c /\ (n + 1) - 1 = n
      BY <1>6, <1>20 DEF c
    <3> QED BY <1>10, <1>12, <1>14, <3>1 DEF Makes
  <2>9. r[n + 1].kind = x.kind
    BY <2>5 DEF Part, Piece
  <2>10. D = CutBy(C, x, s2)
    BY <1>15, <1>20, <2>9 DEF CutIn, CutBy
  <2>11. LeftOf(r, n, k) = WithoutPart(q, k)
    BY <1>20, <2>6 DEF LeftOf, WithoutPart
  <2>12. CASE Failed(t.parser)
    <3>1. s2 = t
      BY <2>8, <2>12 DEF Callback
    <3>2. C \subseteq D /\ D \in SUBSET Nat
      <4>1. C \in SUBSET Nat /\ StateType(t)
        BY <1>16 DEF Known, History
      <4>2. Len(s2.forms) + 1 \in Nat
        BY <3>1, <4>1 DEF StateType
      <4> QED BY <2>10, <4>1, <4>2 DEF CutBy
    <3>3. Known(w, s2, D)
      BY <1>16, <3>1, <3>2, MoreCuts
    <3> QED BY <1>14, <1>15, <2>12, <3>1, <3>3 DEF p
  <2>13. CASE ~Failed(t.parser)
    <3>1. Reached(w, t, C, b, a)
      BY <1>16, <1>17, <1>18, <2>13
    <3>2. k \in Incomplete(r[n + 1])
      <4>1. n # Len(r)
        BY <1>5, <1>6, <1>7, <1>20
      <4> QED BY <4>1
    <3>3. Len(q[1].text) = Len(x.text) - a
      <4>1. a \in 0..Len(x.text)
        <5>1. PICK m \in 1..Len(w) : \E i \in 0..Len(Pieces(w[m])) - 1 :
                  /\ b = Start(w, m) + i /\ Reading(w, t, C, m, i, a, x)
                  /\ Fed(w, t, m, i, a)
          BY <1>16, <2>2, <2>3, <3>1, Where
        <5> QED BY <5>1, FactsBefore DEF Facts
      <4>2. PICK d \in Nat : d = Len(x.text)
        <5>1. x.text \in Seq(Symbols \cup {"LF"})
          BY <2>4, PieceIs
        <5> QED BY <5>1
      <4>3. Reaches(x, a, 0, a)
        BY <4>1, <4>2 DEF Reaches
      <4>4. b \in 0..Len(All(w)) - 1
        BY <2>3
      <4>5. Divides(w, q, b, x, a, 0, a)
        BY <1>1, <2>2, <2>7, <4>3, <4>4, LeftAfterPart, Zenon
      <4> QED BY <4>5 DEF Divides
    <3>4. PICK y : y = r[n + 1]
      OBVIOUS
    <3>5. /\ Arrives(w, Callback(t, Part(x, a, a + k)),
                     CutBy(C, x, Callback(t, Part(x, a, a + k))), b, a + k)
          /\ a \in 0..Len(x.text) /\ k \in 0..Len(x.text) - a
          /\ x.text \in Seq(Symbols \cup {"LF"})
      BY <1>16, <1>20, <2>2, <2>3, <2>6, <2>9, <3>1, <3>2, <3>3, <3>4,
         PartArrives
    <3>6. PartOfFirst(q, k) = Part(x, a, a + k)
          /\ Left(w, LeftOf(r, n, k), b, a + k)
      <4>1. PartOfFirst(q, k) = Part(x, a, a + k)
            /\ Left(w, WithoutPart(q, k), b, a + k)
        <5>1. a \in 0..Len(x.text) /\ k \in 0..Len(x.text) - a
          BY <3>5
        <5>2. b \in 0..Len(All(w)) - 1
          BY <2>3
        <5>3. PICK e \in a..Len(x.text) : e = a + k
          <6>1. PICK d \in Nat : d = Len(x.text)
            BY <3>5
          <6>2. a + k \in a..d
            BY <5>1, <6>1
          <6> QED BY <6>1, <6>2
        <5>4. PartOfFirst(q, k) = Part(x, a, e)
              /\ Left(w, WithoutPart(q, k), b, e)
          <6>1. Reaches(x, a, k, e)
            BY <1>7, <5>1, <5>3 DEF Reaches
          <6>2. Divides(w, q, b, x, a, k, e)
            BY <1>1, <2>2, <2>7, <5>2, <6>1, LeftAfterPart, Zenon
          <6> QED BY <6>2 DEF Divides
        <5> QED BY <5>3, <5>4
      <4> QED BY <2>11, <4>1
    <3>7. p[n + 1] = Part(x, a, a + k)
      BY <1>8, <1>20, <2>6, <3>6 DEF PartOfFirst
    <3>8. Arrives(w, s2, D, b, a + k)
      BY <2>8, <2>10, <3>5, <3>7
    <3>9. a + k \in 0..(IF b < Len(All(w)) THEN Len(All(w)[b + 1].text) ELSE 0)
      <4>1. PICK d \in Nat : d = Len(x.text)
        BY <3>5
      <4>2. a + k \in 0..d /\ b < l
        BY <1>4, <2>3, <3>5, <4>1
      <4> QED BY <1>4, <2>2, <4>1, <4>2
    <3>10. b \in 0..Len(All(w))
      BY <1>4
    <3>11. ~Failed(s2.parser) => Held(w, LeftOf(r, n, k), s2, D)
      BY <3>6, <3>8, <3>9, <3>10 DEF Held, Arrives
    <3> QED BY <1>14, <1>15, <3>8, <3>11 DEF p, Arrives
  <2> QED BY <2>12, <2>13
<1> QED BY <1>7, <1>19, <1>20
-----------------------------------------------------------------------------
(* A connection begins before its first piece. *)
LEMMA Initially ==
    ASSUME Init
    PROVE  IInv
<1>1. setup \in Setups /\ setup \in Seq(Message)
  BY SetupsAssumption DEF Init
<1>2. /\ parser = NewParser /\ requests = <<>> /\ forms = <<>> /\ cut = {}
      /\ rest = All(setup)
  BY DEF Init, All
<1>3. /\ Now.parser = parser /\ Now.requests = requests /\ Now.forms = forms
      /\ Now = [parser |-> Now.parser, requests |-> Now.requests,
                form |-> Now.form, forms |-> Now.forms]
  BY DEF Now
<1>4. /\ parser \in ParserType /\ parser.error = "none"
      /\ parser.headersSize = 0 /\ parser.bodySize = 0
      /\ parser.maxBody = BodyLimit /\ Idle(parser, <<>>)
  <2>1. <<>> \in Text /\ <<>> \in Seq(HeaderLine)
    <3>1. <<>> \in Seq(Symbols)
      OBVIOUS
    <3>2. <<>> \in Seq(HeaderLine)
      <4> HIDE DEF HeaderLine
      <4> QED OBVIOUS
    <3> QED BY <3>1, <3>2 DEF Text
  <2>2. BodyLimit \in Nat
    BY LimitsAssumption
  <2> HIDE DEF HeaderLine, Text
  <2>3. parser \in ParserType
    BY <1>2, <2>1, <2>2 DEF NewParser, ParserType, Errors
  <2> QED BY <1>2, <2>3 DEF NewParser, Idle
<1>5. DOMAIN <<>> = {} /\ Len(<<>>) = 0
  OBVIOUS
<1>6. StateType(Now)
  <2>1. <<>> \in Seq(RequestType)
    <3> HIDE DEF RequestType
    <3> QED OBVIOUS
  <2>2. forms \in Seq(Range(forms))
    BY <1>2
  <2> QED BY <1>2, <1>3, <1>4, <2>1, <2>2 DEF StateType
<1>7. Limits(setup, Now, cut) /\ Given(setup, Now, cut)
  <2>1. DOMAIN Now.requests = {} /\ DOMAIN Now.forms = {}
    BY <1>2, <1>3, <1>5
  <2>2. Now.parser.error = "none"
    BY <1>3, <1>4
  <2> QED BY <2>1, <2>2 DEF Limits, Given
<1>8. Known(setup, Now, cut) /\ ~Failed(Now.parser)
  <2>1. Handed(setup, Now)
    <3>1. DOMAIN Now.forms = {}
      BY <1>2, <1>3, <1>5
    <3> QED BY <3>1 DEF Handed
  <2> QED BY <1>2, <1>3, <1>4, <1>6, <1>7, <2>1 DEF Known, History, Failed
<1>9. PICK l \in Nat : l = Len(All(setup))
  <2>1. All(setup) \in Seq(PieceType)
    BY <1>1, Starts
  <2> QED BY <2>1
<1>10. Left(setup, rest, 0, 0)
  <2>1. All(setup) \in Seq(PieceType)
    BY <1>1, Starts
  <2>2. Len(rest) = Len(All(setup)) - 0
    BY <1>2, <1>9
  <2>3. ASSUME NEW i \in 1..Len(rest)
        PROVE  rest[i] = IF i = 1
                         THEN [All(setup)[0 + 1] EXCEPT !.text = From(@, 0)]
                         ELSE All(setup)[0 + i]
    <3>1. i \in 1..l
      BY <1>2, <1>9
    <3>2. PICK x \in PieceType : x = All(setup)[i]
      <4> HIDE DEF PieceType
      <4> QED BY <1>9, <2>1, <3>1
    <3>3. [x EXCEPT !.text = From(@, 0)] = x
      BY PieceIs
    <3> QED BY <1>2, <3>1, <3>2, <3>3
  <2> QED BY <1>2, <2>1, <2>2, <2>3 DEF Left
<1>11. \/ InMessage(setup, Now, cut, 1, 0, 0) /\ Fed(setup, Now, 1, 0, 0)
       \/ AtEnd(setup, Now, cut, 1, 0, 0)
  <2>1. Len(Now.forms) = 1 - 1 /\ Len(Now.requests) = 1 - 1
    BY <1>2, <1>3, <1>5
  <2>2. PICK n \in Nat : n = Len(setup)
    BY <1>1
  <2>3. CASE n = 0
    <3>1. 1 = Len(setup) + 1
      BY <2>2, <2>3
    <3> QED BY <2>1, <3>1 DEF AtEnd
  <2>4. CASE n # 0
    <3>1. 1 \in 1..Len(setup)
      BY <2>2, <2>4
    <3>2. PICK next \in Message : next = setup[1]
      <4> HIDE DEF Message
      <4> QED BY <1>1, <3>1
    <3>3. 0 < BodyAt(next) /\ 0 <= BodyAt(next)
      <4>1. PICK h \in Nat : h = Len(next.headers)
        BY MessageParts
      <4>2. BodyAt(next) = 2 * h + 2
        BY <4>1, MessageParts
      <4> QED BY <4>2
    <3>4. 0 \in 0..Len(Pieces(next)) - 1
      <4>1. PICK b \in Nat : b = Len(BodyPieces(next))
        BY BodyPiecesAre
      <4>2. PICK h \in Nat : h = Len(next.headers)
        BY MessageParts
      <4>3. Len(Pieces(next)) = 2 * h + b + 3
        BY <4>1, <4>2, PiecesAre
      <4> QED BY <4>3
    <3>5. 0 \in 0..Len(Pieces(next)[0 + 1].text)
      <4>1. Adds(next, 0, Pieces(next)[0 + 1])
        BY <3>4, Added
      <4>2. Len(Pieces(next)[0 + 1].text) \in Nat
        BY <4>1 DEF Adds
      <4> QED BY <4>2
    <3>6. HeadersTo(next, 0) = 0
      BY DEF HeadersTo
    <3>7. BodyTo(next, 0) = 0
      BY <3>3 DEF BodyTo
    <3>8. Sizes(Now, next, 1, 0, 0)
      <4>1. ~Exceeds(0, HeadersLimit) /\ ~Exceeds(0, BodyLimit)
        BY LimitsAssumption DEF Exceeds
      <4>2. Now.parser.headersSize = HeadersTo(next, 0) + 0
        BY <1>3, <1>4, <3>6
      <4>3. Now.parser.bodySize = IF Now.parser.maxBody = 0 THEN 0
                                  ELSE BodyTo(next, 0) + 0
        BY <1>3, <1>4, <3>7
      <4> QED BY <1>3, <1>4, <3>3, <4>1, <4>2, <4>3 DEF Sizes
    <3>9. Faithful(Now.parser, setup, 1, 0, 0)
      <4>1. Trail(setup, 1) = <<>>
        BY DEF Trail
      <4> QED BY <1>3, <1>4, <4>1 DEF Faithful
    <3>10. InMessage(setup, Now, cut, 1, 0, 0)
      BY <2>1, <3>1, <3>2, <3>3, <3>4, <3>5, <3>8, <3>9 DEF InMessage
    <3>11. Fed(setup, Now, 1, 0, 0)
      BY <1>1, <3>1, NotFed
    <3> QED BY <3>10, <3>11
  <2> QED BY <2>3, <2>4
<1>12. Reached(setup, Now, cut, 0, 0)
  <2>1. 0 = Start(setup, 1) + 0
    BY <1>1, Starts
  <2>2. 1 \in 1..Len(setup) + 1 /\ 0 \in 0..Len(All(setup))
    <3>1. Len(setup) \in Nat
      BY <1>1
    <3> QED BY <1>9, <3>1
  <2> QED BY <1>8, <1>11, <2>1, <2>2 DEF Reached
<1>13. Held(setup, rest, Now, cut)
  <2>1. 0 \in 0..Len(All(setup))
    BY <1>9
  <2>2. 0 \in 0..(IF 0 < Len(All(setup))
                  THEN Len(All(setup)[0 + 1].text) ELSE 0)
    <3>1. CASE l = 0
      BY <1>9, <3>1
    <3>2. CASE l # 0
      <4>1. 1 \in 1..l
        BY <3>2
      <4>2. PICK x \in PieceType : x = All(setup)[1]
        <5>1. All(setup) \in Seq(PieceType)
          BY <1>1, Starts
        <5> HIDE DEF PieceType
        <5> QED BY <1>9, <4>1, <5>1
      <4>3. x.text \in Seq(Symbols \cup {"LF"})
        BY PieceIs
      <4>4. PICK d \in Nat : d = Len(x.text)
        BY <4>3
      <4>5. All(setup)[0 + 1] = x
        BY <4>2
      <4> QED BY <1>9, <3>2, <4>4, <4>5
    <3> QED BY <3>1, <3>2
  <2> QED BY <1>10, <1>12, <2>1, <2>2 DEF Held
<1> QED BY <1>1, <1>8, <1>13 DEF IInv

(* A packet is what DataReceived() takes it for. *)
LEMMA Receives ==
    ASSUME NEW n, NEW k, DataReceived(n, k), NEW s2,
           s2 = FoldLeft(Callback, Now, PacketOf(rest, n, k))
    PROVE  /\ ~Failed(parser) /\ setup' = setup
           /\ parser' = s2.parser /\ requests' = s2.requests
           /\ form' = s2.form /\ forms' = s2.forms
           /\ rest' = LeftOf(rest, n, k)
           /\ cut' = CutIn(cut, rest, n, k, s2)
  BY DEF DataReceived, Now, PacketOf, LeftOf, CutIn, CutBy

(* Every packet keeps the invariant.                                       *)
LEMMA IInvStep ==
    ASSUME IInv, [Next]_vars
    PROVE  IInv'
<1>1. CASE UNCHANGED vars
  BY <1>1 DEF IInv, Now, vars
<1>2. CASE Next
  <2>1. PICK n \in 0..Len(rest) :
            \E k \in (IF n = Len(rest) THEN {0} ELSE Incomplete(rest[n + 1])) :
                DataReceived(n, k)
    BY <1>2 DEF Next
  <2>2. PICK k \in (IF n = Len(rest) THEN {0} ELSE Incomplete(rest[n + 1])) :
            DataReceived(n, k)
    BY <2>1
  <2>3. PICK s2 : s2 = FoldLeft(Callback, Now, PacketOf(rest, n, k))
    OBVIOUS
  <2>4. PICK D : D = CutIn(cut, rest, n, k, s2)
    OBVIOUS
  <2>5. PICK r2 : r2 = LeftOf(rest, n, k)
    OBVIOUS
  <2>6. /\ ~Failed(parser) /\ setup' = setup
        /\ parser' = s2.parser /\ requests' = s2.requests
        /\ form' = s2.form /\ forms' = s2.forms
        /\ rest' = r2 /\ cut' = D
    BY <2>2, <2>3, <2>4, <2>5, Receives
  <2>7. /\ setup \in Setups /\ Known(setup, Now, cut)
        /\ Held(setup, rest, Now, cut)
    BY <2>6 DEF IInv
  <2>8. /\ Known(setup, s2, D)
        /\ ~Failed(s2.parser) => Held(setup, r2, s2, D)
    BY <2>2, <2>3, <2>4, <2>5, <2>7, PacketStep
  <2>9. Now' = s2
    <3>1. s2 = [parser |-> s2.parser, requests |-> s2.requests,
                form |-> s2.form, forms |-> s2.forms]
      BY <2>8 DEF Known, History, StateType
    <3> QED BY <2>6, <3>1 DEF Now
  <2> QED BY <2>6, <2>7, <2>8, <2>9 DEF IInv
<1> QED BY <1>1, <1>2 DEF vars

(* Whatever the packets, the connection is where its client's messages are *)
(* after the symbols that arrived, as far as nothing was cut.              *)
THEOREM Invariance == Spec => []IInv
<1>1. Init => IInv
  BY Initially
<1>2. IInv /\ [Next]_vars => IInv'
  BY IInvStep
<1> QED BY <1>1, <1>2, PTL DEF Spec

(* A message is refused for its own size only, and always, whatever came   *)
(* before it and however it is divided into packets (HttpParser's limits). *)
THEOREM LimitsHold == Spec => []LimitsAreOwn
<1>1. IInv => LimitsAreOwn
  <2> SUFFICES ASSUME IInv PROVE LimitsAreOwn
    OBVIOUS
  <2>1. Limits(setup, Now, cut)
    BY DEF IInv, Known, History
  <2>2. Now.parser = parser /\ Now.requests = requests /\ Now.forms = forms
    BY DEF Now
  <2>3. \A n : /\ HeadersSizeOf(setup[n]) = HeaderSize(n)
               /\ TrailersSizeOf(setup[n]) = TrailerSize(n)
               /\ BodySizeOf(setup[n]) = BodySize(n)
    BY DEF HeadersSizeOf, TrailersSizeOf, BodySizeOf, HeaderSize, TrailerSize,
       BodySize
  <2> QED BY <2>1, <2>2, <2>3 DEF Limits, LimitsAreOwn
<1> QED BY <1>1, Invariance, PTL

(* However the network divides the messages of a connection, a handler     *)
(* gets the URL and headers its client sent, unless a URL or a name was    *)
(* cut from its delimiter, or the message before had trailers (cb_on_url(),*)
(* _on_header_field(), _on_chunk_complete()).                              *)
THEOREM RequestsHold == Spec => []RequestsAreAsSent
<1>1. IInv => RequestsAreAsSent
  <2> SUFFICES ASSUME IInv, NEW n \in 1..Len(requests), 
                      ~ (\E m \in cut : m <= n),
                      ~ (n > 1 /\ setup[n - 1].trailers # <<>>)
               PROVE  AsSent(n)
    BY DEF RequestsAreAsSent
  <2>1. setup \in Setups /\ Known(setup, Now, cut)
    BY DEF IInv
  <2>2. Now.requests = requests
    BY DEF Now
  <2>3. StateType(Now) /\ Given(setup, Now, cut) /\ cut \in SUBSET Nat
    BY <2>1 DEF Known, History
  <2>4. requests \in Seq(RequestType)
    BY <2>2, <2>3 DEF StateType
  <2>5. n \in DOMAIN requests /\ n \in Nat
    <3> HIDE DEF RequestType
    <3> QED BY <2>4
  <2>6. Uncut(cut, n)
    BY <2>3, <2>5 DEF Uncut
  <2>7. requests[n].url = setup[n].url
        /\ requests[n].headers = Trail(setup, n) \o setup[n].headers
    BY <2>2, <2>3, <2>5, <2>6 DEF Given
  <2>8. Trail(setup, n) = <<>>
    BY <2>5 DEF Trail
  <2>9. setup[n].headers \in Seq(HeaderLine)
    <3>1. PICK m \in Message : m = setup[n]
      BY <2>2, <2>3, <2>5, <2>6 DEF Given
    <3> QED BY <3>1, MessageParts
  <2> QED BY <2>7, <2>8, <2>9 DEF AsSent, HeadersOf
<1> QED BY <1>1, Invariance, PTL
-----------------------------------------------------------------------------
(* Schemas.  The metaclass prepares the fields of all classes one by one.  *)
Attributes == FlattenSeq(Classes)
NewObjects == [f \in DOMAIN Fields |-> Created(Fields[f])]
PrepareOne(objects, a) == [objects EXCEPT ![a.field] = Prepare(@, a.name)]

PreparesTo(f, n) ==
    /\ f[0] = NewObjects
    /\ \A i \in 1..n : f[i] = PrepareOne(f[i - 1], Attributes[i])

(* Objects goes through the attributes in their order. *)
LEMMA Preparing ==
    ASSUME NEW n \in Nat, DOMAIN Attributes = 1..n
    PROVE  \E f : PreparesTo(f, n) /\ Objects = f[n]
<1> DEFINE Fine(k, g) ==
               g = [x \in SUBSET (1..k) |->
                       IF x = {} THEN NewObjects
                       ELSE PrepareOne(g[x \ {Max(x)}], Attributes[Max(x)])]
           T == {k \in 0..n : \E g : Fine(k, g)}
<1>1. 0 \in T
  <2> DEFINE g == [x \in SUBSET (1..0) |-> NewObjects]
  <2>1. 0 \in 0..n /\ \A x \in SUBSET (1..0) : x = {}
    OBVIOUS
  <2>2. Fine(0, g)
    BY <2>1
  <2> HIDE DEF g, Fine
  <2> QED BY <2>1, <2>2
<1>2. ASSUME NEW k \in 1..n, k - 1 \in T PROVE k \in T
  <2>1. PICK g : Fine(k - 1, g)
    BY <1>2
  <2> DEFINE h == [x \in SUBSET (1..k) |->
                      IF k \in x THEN PrepareOne(g[x \ {k}], Attributes[k])
                      ELSE g[x]]
  <2>2. ASSUME NEW x \in SUBSET (1..k)
        PROVE  /\ x \ {k} \in SUBSET (1..k - 1)
               /\ k \notin x => x \in SUBSET (1..k - 1)
    OBVIOUS
  <2>3. ASSUME NEW x \in SUBSET (1..k)
        PROVE  h[x] = IF x = {} THEN NewObjects
                      ELSE PrepareOne(h[x \ {Max(x)}], Attributes[Max(x)])
    <3>1. k \in Nat
      OBVIOUS
    <3>2. ASSUME NEW y PROVE x \ {y} \in SUBSET (1..k)
      OBVIOUS
    <3>3. x # {} => Max(x) \in x /\ \A y \in x : y <= Max(x)
      BY <3>1, MaxExists
    <3>4. CASE k \in x
      <4>1. Max(x) = k
        <5>1. Max(x) \in 1..k /\ k <= Max(x)
          BY <3>3, <3>4
        <5> QED BY <5>1
      <4>2. h[x \ {k}] = g[x \ {k}]
        OBVIOUS
      <4>3. h[x] = PrepareOne(g[x \ {k}], Attributes[k])
        BY <3>4
      <4> QED BY <3>4, <4>1, <4>2, <4>3
    <3>5. CASE k \notin x
      <4>1. x \in SUBSET (1..k - 1) /\ h[x] = g[x]
        BY <2>2, <3>5
      <4>2. h[x \ {Max(x)}] = g[x \ {Max(x)}]
        BY <3>2, <3>5
      <4>3. g[x] = IF x = {} THEN NewObjects
                   ELSE PrepareOne(g[x \ {Max(x)}], Attributes[Max(x)])
        BY <2>1, <4>1
      <4> QED BY <4>1, <4>2, <4>3
    <3> QED BY <3>4, <3>5
  <2>4. Fine(k, h)
    BY <2>3
  <2>5. k \in 0..n
    OBVIOUS
  <2> HIDE DEF h, Fine
  <2> QED BY <2>4, <2>5
<1>3. 0..n \subseteq T
  <2> HIDE DEF T
  <2> QED BY <1>1, <1>2, InductionTo
<1>4. \E g : Fine(n, g)
  <2>1. n \in 0..n
    OBVIOUS
  <2> HIDE DEF Fine
  <2> QED BY <1>3, <2>1
<1>5. Fine(n, CHOOSE g : Fine(n, g))
  <2> HIDE DEF Fine
  <2> QED BY <1>4
<1>6. Objects = (CHOOSE g : Fine(n, g))[1..n]
  BY DEF Objects, FoldLeft, MapThenFoldSet, PrepareOne, NewObjects, Attributes
<1>7. PICK g : Fine(n, g) /\ Objects = g[1..n]
  <2> HIDE DEF Fine
  <2> QED BY <1>5, <1>6
<1> DEFINE f == [i \in 0..n |-> g[1..i]]
<1>8. f[0] = NewObjects
  <2>1. 1..0 = {} /\ 0 \in 0..n /\ {} \in SUBSET (1..n)
    OBVIOUS
  <2>2. g[{}] = NewObjects
    BY <1>7, <2>1
  <2> QED BY <2>1, <2>2
<1>9. ASSUME NEW i \in 1..n
      PROVE  f[i] = PrepareOne(f[i - 1], Attributes[i])
  <2>1. /\ 1..i \in SUBSET (1..n) /\ 1..i # {}
        /\ Max(1..i) = i /\ (1..i) \ {i} = 1..i - 1
    BY FoldSteps
  <2>2. i \in 0..n /\ i - 1 \in 0..n
    OBVIOUS
  <2>3. g[1..i] = PrepareOne(g[1..i - 1], Attributes[i])
    BY <1>7, <2>1
  <2> QED BY <2>2, <2>3
<1>10. f[n] = g[1..n]
  OBVIOUS
<1> HIDE DEF f, Fine
<1>11. PreparesTo(f, n)
  BY <1>8, <1>9 DEF PreparesTo
<1> QED BY <1>7, <1>10, <1>11

(* What a prepared field keeps of its declaration, and what it gets.       *)
Declared(o, f) ==
    /\ o.kind = f.kind /\ o.strict = f.strict /\ o.required = f.required
    /\ o.default = f.default /\ o.validators = f.validators

AwaitedIn(f) ==
    \E n \in DOMAIN f.validators : Validators[f.validators[n]].async

Ready(o, f, name) ==
    /\ Declared(o, f)
    /\ o.loadFrom = Named(f.loadFrom, name) /\ o.loadInto = name
    /\ o.wrapped
    /\ AwaitedIn(f) => o.async

LEMMA PreparedIs ==
    ASSUME NEW x \in DOMAIN Fields, NEW f, f = Fields[x], NEW name,
           NEW o, o = Prepare(Created(f), name)
    PROVE  Ready(o, f, name)
<1>1. PICK new : new = Created(f)
  OBVIOUS
<1>2. new = [kind |-> f.kind, strict |-> f.strict, required |-> f.required,
             default |-> f.default, loadFrom |-> f.loadFrom,
             loadInto |-> NoName, validators |-> f.validators,
             async |-> FALSE, wrapped |-> FALSE]
  BY <1>1 DEF Created
<1>3. /\ new.kind = f.kind /\ new.strict = f.strict
      /\ new.required = f.required /\ new.default = f.default
      /\ new.validators = f.validators /\ new.loadFrom = f.loadFrom
      /\ new.loadInto = NoName
  BY <1>2
<1>4. ~new.wrapped
  BY <1>2
<1>5. IsAsync(new) <=> AwaitedIn(f)
  BY <1>3, <1>4 DEF IsAsync, AwaitedIn
<1>6. Declared(o, f)
  BY <1>1, <1>2, <1>3 DEF Prepare, Declared
<1>7. o.loadFrom = Named(f.loadFrom, name) /\ o.loadInto = name
  BY <1>1, <1>2, <1>3 DEF Prepare, Named
<1>8. AwaitedIn(f) => o.async
  <2>1. o.async = ((IF new.kind = "Field" THEN new.async ELSE FALSE)
                      \/ IsAsync(new))
    BY <1>1, <1>2 DEF Prepare
  <2> QED BY <1>5, <2>1, Zenon
<1>9. o.wrapped
  BY <1>1, <1>2 DEF Prepare
<1> QED BY <1>6, <1>7, <1>8, <1>9 DEF Ready

(* A field that may be shared is not hurt when it is prepared once more.   *)
LEMMA PreparedAgain ==
    ASSUME NEW f, MayShare(f), NEW name, NEW o, Ready(o, f, name),
           NEW again, again = Prepare(o, name)
    PROVE  Ready(again, f, name)
<1>1. /\ Declared(o, f) /\ o.loadFrom = Named(f.loadFrom, name)
      /\ o.loadInto = name /\ o.wrapped
      /\ AwaitedIn(f) => o.async
  BY DEF Ready
<1>2. again = [o EXCEPT !.loadFrom = Named(o.loadFrom, name),
                        !.loadInto = Named(o.loadInto, name),
                        !.async = (IF o.kind = "Field" THEN o.async
                                   ELSE FALSE) \/ IsAsync(o),
                        !.wrapped = TRUE]
  BY DEF Prepare
<1>3. /\ Named(Named(f.loadFrom, name), name) = Named(f.loadFrom, name)
      /\ Named(name, name) = name
  BY DEF Named
<1>4. Declared(again, f)
  <2>1. /\ o.kind = f.kind /\ o.strict = f.strict
        /\ o.required = f.required /\ o.default = f.default
        /\ o.validators = f.validators
    BY <1>1 DEF Declared
  <2>2. /\ again.kind = o.kind /\ again.strict = o.strict
        /\ again.required = o.required /\ again.default = o.default
        /\ again.validators = o.validators
    BY <1>2
  <2> QED BY <2>1, <2>2 DEF Declared
<1>5. again.loadFrom = Named(f.loadFrom, name) /\ again.loadInto = name
  BY <1>1, <1>2, <1>3 DEF Ready, Declared
<1>6. AwaitedIn(f) => again.async
  <2>1. CASE f.kind = "Field"
    <3>1. o.kind = "Field"
      BY <1>1, <2>1 DEF Declared
    <3>2. again.async = ((IF o.kind = "Field" THEN o.async ELSE FALSE)
                             \/ IsAsync(o))
      BY <1>2
    <3>3. o.async => again.async
      <4>1. again.async = (o.async \/ IsAsync(o))
        BY <3>1, <3>2
      <4> QED BY <4>1, Zenon
    <3> QED BY <1>1, <3>3, Zenon
  <2>2. CASE f.kind # "Field"
    <3>1. ~AwaitedIn(f)
      BY <2>2 DEF MayShare, AwaitedIn
    <3> QED BY <3>1
  <2> QED BY <2>1, <2>2
<1>7. again.wrapped
  BY <1>2
<1> QED BY <1>4, <1>5, <1>6, <1>7 DEF Ready

(* A Field object of one attribute is prepared once, one that may be       *)
(* shared any number of times.                                             *)
LEMMA PreparedObject ==
    ASSUME NEW p \in DOMAIN Attributes,
           \A i \in DOMAIN Attributes :
               Attributes[i].field = Attributes[p].field =>
                   Attributes[i].name = Attributes[p].name,
           \/ MayShare(Fields[Attributes[p].field])
           \/ \A i \in DOMAIN Attributes :
                 Attributes[i].field = Attributes[p].field => i = p
    PROVE  Ready(Objects[Attributes[p].field], Fields[Attributes[p].field],
                 Attributes[p].name)
<1>1. Attributes \in Seq(AttributeType)
  BY SchemasAssumption, FlattenType DEF Attributes
<1>2. PICK n \in Nat : n = Len(Attributes) /\ DOMAIN Attributes = 1..n
  BY <1>1
<1>3. PICK f : PreparesTo(f, n) /\ Objects = f[n]
  BY <1>2, Preparing
<1>4. PICK x : x = Attributes[p].field
  OBVIOUS
<1>5. x \in DOMAIN Fields
  <2>1. Attributes[p] \in AttributeType
    BY <1>1
  <2> QED BY <1>4, <2>1 DEF AttributeType
<1>6. PICK name : name = Attributes[p].name
  OBVIOUS
<1>7. PICK field : field = Fields[x]
  OBVIOUS
<1> DEFINE IsNew(o) == o = Created(field)
           T == {i \in 0..n : /\ DOMAIN f[i] = DOMAIN Fields
                              /\ \/ i < p /\ IsNew(f[i][x])
                                 \/ i < p /\ MayShare(field)
                                      /\ Ready(f[i][x], field, name)
                                 \/ p <= i /\ Ready(f[i][x], field, name)}
<1>8. 0 \in T
  <2>1. f[0] = NewObjects /\ 0 < p /\ 0 \in 0..n
    BY <1>2, <1>3 DEF PreparesTo
  <2> QED BY <1>5, <1>7, <2>1 DEF NewObjects
<1>9. ASSUME NEW i \in 1..n, i - 1 \in T PROVE i \in T
  <2>1. /\ DOMAIN f[i - 1] = DOMAIN Fields
        /\ \/ i - 1 < p /\ IsNew(f[i - 1][x])
           \/ i - 1 < p /\ MayShare(field)
                /\ Ready(f[i - 1][x], field, name)
           \/ p <= i - 1 /\ Ready(f[i - 1][x], field, name)
    BY <1>9
  <2>2. f[i] = PrepareOne(f[i - 1], Attributes[i])
    BY <1>3 DEF PreparesTo
  <2>3. DOMAIN f[i] = DOMAIN Fields
    BY <2>1, <2>2 DEF PrepareOne
  <2>4. i \in 0..n /\ i \in Nat /\ p \in Nat
    BY <1>2
  <2>5. CASE Attributes[i].field = x
    <3>1. f[i][x] = Prepare(f[i - 1][x], name)
      <4>1. Attributes[i].name = name
        BY <1>2, <1>4, <1>6, <2>5
      <4> QED BY <1>5, <2>1, <2>2, <2>5, <4>1 DEF PrepareOne
    <3>2. CASE IsNew(f[i - 1][x]) /\ i - 1 < p
      <4>1. Ready(f[i][x], field, name)
        BY <1>5, <1>7, <3>1, <3>2, PreparedIs
      <4>2. MayShare(field) \/ i = p
        BY <1>2, <1>4, <1>7, <2>5
      <4> HIDE DEF IsNew
      <4> QED BY <2>3, <2>4, <3>2, <4>1, <4>2
    <3>3. CASE Ready(f[i - 1][x], field, name) /\ MayShare(field)
      <4>1. Ready(f[i][x], field, name)
        BY <3>1, <3>3, PreparedAgain
      <4> HIDE DEF IsNew
      <4> QED BY <2>3, <2>4, <3>3, <4>1
    <3>4. CASE p <= i - 1 /\ ~MayShare(field)
      <4>1. i = p
        BY <1>2, <1>4, <1>7, <2>5, <3>4
      <4> QED BY <2>4, <3>4, <4>1
    <3> HIDE DEF IsNew
    <3> QED BY <2>1, <3>2, <3>3, <3>4
  <2>6. CASE Attributes[i].field # x
    <3>1. f[i][x] = f[i - 1][x]
      BY <1>5, <2>1, <2>2, <2>6 DEF PrepareOne
    <3>2. i # p
      BY <1>4, <2>6
    <3> HIDE DEF IsNew
    <3> QED BY <2>1, <2>3, <2>4, <3>1, <3>2
  <2> QED BY <2>5, <2>6
<1>10. n \in T
  <2>1. 0..n \subseteq T /\ n \in 0..n
    <3> HIDE DEF T
    <3> QED BY <1>8, <1>9, InductionTo
  <2> QED BY <2>1
<1>11. Ready(f[n][x], field, name)
  BY <1>2, <1>10
<1> QED BY <1>3, <1>4, <1>6, <1>7, <1>11

(* The objects of a class that is Usual are as its attributes want them.   *)
LEMMA OwnObjects ==
    ASSUME NEW c \in DOMAIN Classes, Usual(Classes[c]),
           NEW i \in DOMAIN Classes[c], NEW a, a = Classes[c][i]
    PROVE  /\ a \in AttributeType
           /\ Ready(Objects[a.field], Fields[a.field], a.name)
<1>1. /\ Classes \in Seq(Seq(AttributeType)) /\ c \in 1..Len(Classes)
      /\ Attributes \in Seq(AttributeType)
  BY SchemasAssumption, FlattenType DEF Attributes
<1>2. PICK n \in Nat : n = Len(Classes[c]) /\ i \in 1..n
  <2>1. Classes[c] \in Seq(AttributeType)
    BY <1>1
  <2> QED BY <2>1
<1>3. a \in AttributeType
  <2>1. Classes[c] \in Seq(AttributeType)
    BY <1>1
  <2> HIDE DEF AttributeType
  <2> QED BY <2>1
<1>4. PICK b \in Nat, e \in Nat :
          /\ e = Len(Attributes) /\ b + i <= e /\ Attributes[b + i] = a
  <2> HIDE DEF AttributeType
  <2>1. /\ Len(Joined(Classes, c - 1)) \in Nat
        /\ Len(Joined(Classes, c)) =
               Len(Joined(Classes, c - 1)) + Len(Classes[c])
        /\ Len(Joined(Classes, c)) <= Len(Attributes)
        /\ \A j \in 1..Len(Classes[c]) :
              Attributes[Len(Joined(Classes, c - 1)) + j] = Classes[c][j]
    BY <1>1, JoinedAt DEF Attributes
  <2>2. PICK b \in Nat : b = Len(Joined(Classes, c - 1))
    BY <2>1
  <2>3. PICK e \in Nat : e = Len(Attributes)
    BY <1>1
  <2>4. Len(Joined(Classes, c)) = b + n
    BY <1>2, <2>1, <2>2
  <2>5. b + n <= e
    BY <2>1, <2>3, <2>4
  <2>6. b + i <= e
    BY <1>2, <2>5
  <2>7. Attributes[b + i] = a
    BY <1>2, <2>1, <2>2
  <2> QED BY <2>3, <2>6, <2>7
<1>5. PICK p \in DOMAIN Attributes : p = b + i
  BY <1>1, <1>2, <1>4
<1>6. PICK P : P = {k \in DOMAIN Attributes : Attributes[k].field = a.field}
  OBVIOUS
<1>7. /\ \A k \in P : Attributes[k].name = a.name
      /\ MayShare(Fields[a.field]) \/ Cardinality(P) = 1
  BY <1>6 DEF Usual, Attributes
<1>8. p \in P
  BY <1>4, <1>5, <1>6
<1>9. ASSUME Cardinality(P) = 1, NEW j \in P PROVE j = p
  <2>1. IsFiniteSet(P)
    <3>1. DOMAIN Attributes = 1..e
      BY <1>1, <1>4
    <3>2. IsFiniteSet(1..e)
      BY FS_Interval
    <3> QED BY <1>6, <3>1, <3>2, FS_Subset
  <2>2. PICK k : P = {k}
    BY <1>9, <2>1, FS_Singleton
  <2> QED BY <1>8, <1>9, <2>2
<1>10. Attributes[p] = a
  BY <1>4, <1>5
<1>11. Ready(Objects[Attributes[p].field], Fields[Attributes[p].field],
             Attributes[p].name)
  <2>1. \A k \in DOMAIN Attributes :
            Attributes[k].field = Attributes[p].field => k \in P
    BY <1>6, <1>10
  <2> QED BY <1>7, <1>9, <1>10, <2>1, PreparedObject
<1> QED BY <1>3, <1>10, <1>11

(* What a conversion yields, and when it fails. *)
Wrong(f, value) ==
    \/ /\ f.kind \in {"Integer", "Number"} /\ ~f.strict
       /\ value.type \notin {"text", "int", "float"}
    \/ f.kind = "Integer" /\ IsInfinite(value)

Outcomes == {"none", "ValidationError", "TypeError", "OverflowError"}
Clear(raised) == raised \in {"none", "ValidationError"}

ConvertsTo(f, value, r) ==
    /\ r.raised \in Outcomes
    /\ r.raised = "none" =>
          /\ Fits(f, value) /\ ~Wrong(f, value)
          /\ r.value = Value(TypeFor(f, value), Meaning(f, value))
    /\ r.raised = "ValidationError" => ~Fits(f, value)
    /\ ~Clear(r.raised) => Wrong(f, value)

LEMMA ConvertedIs ==
    ASSUME NEW f, f.kind \in {"String", "Integer", "Number", "Field"},
           NEW o, Declared(o, f), NEW value, IsValue(value)
    PROVE  ConvertsTo(f, value, Converted(o, value))
<1>1. o.kind = f.kind /\ o.strict = f.strict
  BY DEF Declared
<1>2. PICK r : r = Converted(o, value)
  OBVIOUS
<1>3. value = Value(value.type, value.content)
  BY DEF IsValue
<1>4. CASE f.kind = "String"
  <2>1. r = AsString(f.strict, value)
    BY <1>1, <1>2, <1>4 DEF Converted
  <2>2. TypeFor(f, value) = "text" /\ Meaning(f, value) = TextOf(value)
    BY <1>4 DEF TypeFor, Meaning
  <2>3. Fits(f, value) <=> (f.strict => value.type \in {"text", "int", "float"})
    BY <1>4 DEF Fits
  <2>4. ~Wrong(f, value)
    BY <1>4 DEF Wrong
  <2> QED BY <1>2, <2>1, <2>2, <2>3, <2>4
       DEF AsString, Good, Bad, Invalid, ConvertsTo, Outcomes, Clear
<1>5. CASE f.kind = "Integer"
  <2>1. r = AsInteger(f.strict, value)
    BY <1>1, <1>2, <1>5 DEF Converted
  <2>2. /\ TypeFor(f, value) = "int"
        /\ Meaning(f, value) = Truncated[value.content]
    BY <1>5 DEF TypeFor, Meaning
  <2>3. Fits(f, value) <=>
            \/ value.type = "int"
            \/ value.type \in {"text", "float"} /\ HasInteger(value)
    BY <1>5 DEF Fits
  <2>4. Wrong(f, value) <=>
            \/ ~f.strict /\ value.type \notin {"text", "int", "float"}
            \/ IsInfinite(value)
    BY <1>5 DEF Wrong
  <2>5. IsInfinite(value) => value.type = "float"
    BY DEF IsInfinite
  <2>6. CASE value.type = "int"
    <3>1. value.content = Truncated[value.content]
      BY <2>6 DEF IsValue, Integral
    <3>2. r = Good(value)
      BY <2>1, <2>6 DEF AsInteger
    <3>3. value = Value(TypeFor(f, value), Meaning(f, value))
      BY <1>3, <2>2, <2>6, <3>1
    <3>4. Fits(f, value) /\ ~Wrong(f, value)
      BY <2>3, <2>4, <2>5, <2>6
    <3>5. r.raised = "none" /\ r.value = value
      BY <3>2 DEF Good
    <3> QED BY <1>2, <3>3, <3>4, <3>5 DEF ConvertsTo, Outcomes, Clear
  <2>7. CASE value.type # "int"
    <3>1. r = IF f.strict /\ value.type \notin {"text", "float"} THEN Invalid
              ELSE IF value.type \notin {"text", "float"}
              THEN Bad("TypeError")
              ELSE IF IsInfinite(value) THEN Bad("OverflowError")
              ELSE IF ~HasInteger(value) THEN Invalid
              ELSE Good(Value("int", Truncated[value.content]))
      BY <2>1, <2>7 DEF AsInteger
    <3> QED BY <1>2, <2>2, <2>3, <2>4, <2>5, <2>7, <3>1
         DEF Good, Bad, Invalid, ConvertsTo, Outcomes, Clear
  <2> QED BY <2>6, <2>7
<1>6. CASE f.kind = "Number"
  <2>1. r = AsNumber(f.strict, value)
    BY <1>1, <1>2, <1>6 DEF Converted
  <2>2. /\ TypeFor(f, value) = IF value.type = "int" THEN "int" ELSE "float"
        /\ Meaning(f, value) = value.content
    BY <1>6 DEF TypeFor, Meaning
  <2>3. Fits(f, value) <=>
            \/ value.type = "int"
            \/ ~f.strict /\ value.type \in {"text", "float"}
                 /\ value.content \in Floating
    BY <1>6 DEF Fits
  <2>4. Wrong(f, value) <=>
            ~f.strict /\ value.type \notin {"text", "int", "float"}
    BY <1>6 DEF Wrong
  <2> QED BY <1>2, <1>3, <2>1, <2>2, <2>3, <2>4
       DEF AsNumber, Good, Bad, Invalid, ConvertsTo, Outcomes, Clear
<1>7. CASE f.kind = "Field"
  <2>1. r = Good(value)
    BY <1>1, <1>2, <1>7 DEF Converted
  <2>2. /\ TypeFor(f, value) = value.type /\ Fits(f, value)
        /\ Meaning(f, value) = value.content /\ ~Wrong(f, value)
    BY <1>7 DEF TypeFor, Meaning, Fits, Wrong
  <2> QED BY <1>2, <1>3, <2>1, <2>2 DEF Good, ConvertsTo, Outcomes, Clear
<1> QED BY <1>2, <1>4, <1>5, <1>6, <1>7

(* Validators take the value, and the context if they like. *)
Parameters(f) ==
    \A n \in DOMAIN f.validators :
        Validators[f.validators[n]].parameters \in {1, 2}

Fails(f, value) ==
    \E n \in DOMAIN f.validators :
        TypeFor(f, value) \in Validators[f.validators[n]].fails

(* What the pipeline of a field is to make of a value. *)
Takes(f, value, r) ==
    /\ r.raised \in Outcomes
    /\ r.raised = "none" =>
          /\ Fits(f, value) /\ ~Rejected(f, value)
          /\ ~Wrong(f, value) /\ ~Fails(f, value)
          /\ r.value = Value(TypeFor(f, value), Meaning(f, value))
    /\ r.raised = "ValidationError" => ~Fits(f, value) \/ Rejected(f, value)
    /\ ~Clear(r.raised) =>
          Wrong(f, value) \/ (Fits(f, value) /\ Fails(f, value))

(* The verdict of a validator that is awaited if it is to be. *)
LEMMA VerdictIs ==
    ASSUME NEW v, v.parameters \in {1, 2}, NEW awaited, v.async => awaited,
           NEW value
    PROVE  Verdict(v, awaited, value) =
               IF value.type \in v.fails THEN "TypeError"
               ELSE IF value.content \in v.rejects THEN "ValidationError"
               ELSE "none"
<1>1. ~(v.async /\ ~awaited)
  BY Zenon
<1>2. ~(v.parameters \notin {1, 2})
  OBVIOUS
<1> QED BY <1>1, <1>2, Zenon DEF Verdict

(* The first validator that refuses. *)
LEMMA FirstExists ==
    ASSUME NEW k \in Nat, NEW T, T \subseteq 1..k, T # {}
    PROVE  (CHOOSE i \in T : \A j \in T : i <= j) \in T
<1>1. PICK x \in T : \A y \in T : ~ (<<y, x>> \in Less)
  <2>1. T \subseteq Nat
    OBVIOUS
  <2> QED BY <2>1, WFMin, LessIsWellFounded
<1>2. \A y \in T : x <= y
  <2> SUFFICES ASSUME NEW y \in T PROVE x <= y
    OBVIOUS
  <2>1. y \in Nat /\ x \in Nat
    OBVIOUS
  <2>2. ~ (y < x)
    BY <1>1, <2>1 DEF Less
  <2> QED BY <2>1, <2>2
<1> QED BY <1>2, Zenon

LEMMA PipelineIs ==
    ASSUME NEW x \in DOMAIN Fields, NEW f, f = Fields[x], Parameters(f),
           NEW o, Declared(o, f), AwaitedIn(f) => o.async,
           NEW value, IsValue(value)
    PROVE  Takes(f, value, Pipeline(o, value))
<1>1. /\ f.kind \in {"String", "Integer", "Number", "Field"}
      /\ f.validators \in Seq(DOMAIN Validators)
      /\ o.validators = f.validators
  BY SchemasAssumption DEF Declared
<1>2. PICK r : r = Converted(o, value)
  OBVIOUS
<1>3. ConvertsTo(f, value, r)
  BY <1>1, <1>2, ConvertedIs
<1> DEFINE verdict(i) ==
               Verdict(Validators[f.validators[i]], o.async, r.value)
           refused == {i \in DOMAIN f.validators : verdict(i) # "none"}
<1>4. Pipeline(o, value) =
          IF r.raised # "none" \/ refused = {} THEN r
          ELSE Bad(verdict(CHOOSE i \in refused :
                               \A j \in refused : i <= j))
  BY <1>1, <1>2 DEF Pipeline
<1>5. ASSUME NEW i \in DOMAIN f.validators
      PROVE  verdict(i) =
                 IF r.value.type \in Validators[f.validators[i]].fails
                 THEN "TypeError"
                 ELSE IF r.value.content \in
                             Validators[f.validators[i]].rejects
                 THEN "ValidationError" ELSE "none"
  <2>1. Validators[f.validators[i]].parameters \in {1, 2}
    BY DEF Parameters
  <2>2. Validators[f.validators[i]].async => o.async
    BY DEF AwaitedIn
  <2> QED BY <2>1, <2>2, VerdictIs
<1>6. PICK got : got = Pipeline(o, value)
  OBVIOUS
<1> DEFINE Fine == r.value = Value(TypeFor(f, value), Meaning(f, value))
<1>10. Fine => /\ r.value.type = TypeFor(f, value)
               /\ r.value.content = Meaning(f, value)
  BY DEF Value
<1>7. CASE r.raised # "none"
  <2>1. got = r
    BY <1>4, <1>6, <1>7
  <2> QED BY <1>3, <1>6, <1>7, <2>1 DEF ConvertsTo, Takes
<1>8. CASE r.raised = "none" /\ refused = {}
  <2>1. got = r
    BY <1>4, <1>6, <1>8
  <2>2. ~Rejected(f, value)
    <3> SUFFICES ASSUME NEW i \in DOMAIN f.validators,
                        Meaning(f, value) \in
                            Validators[f.validators[i]].rejects
                 PROVE  FALSE
      BY DEF Rejected
    <3>1. r.value.content = Meaning(f, value)
      BY <1>3, <1>8, <1>10 DEF ConvertsTo
    <3>2. verdict(i) # "none"
      BY <1>5, <3>1
    <3> QED BY <1>8, <3>2
  <2>3. ~Fails(f, value)
    <3> SUFFICES ASSUME NEW i \in DOMAIN f.validators,
                        TypeFor(f, value) \in
                            Validators[f.validators[i]].fails
                 PROVE  FALSE
      BY DEF Fails
    <3>1. r.value.type = TypeFor(f, value)
      BY <1>3, <1>8, <1>10 DEF ConvertsTo
    <3>2. verdict(i) # "none"
      BY <1>5, <3>1
    <3> QED BY <1>8, <3>2
  <2> QED BY <1>3, <1>6, <1>8, <2>1, <2>2, <2>3 DEF ConvertsTo, Takes, Clear
<1>9. CASE r.raised = "none" /\ refused # {}
  <2>1. refused \subseteq 1..Len(f.validators) /\ Len(f.validators) \in Nat
    BY <1>1
  <2>2. PICK i \in refused : got = Bad(verdict(i))
    <3>1. (CHOOSE i \in refused : \A j \in refused : i <= j) \in refused
      <4> HIDE DEF refused
      <4> QED BY <1>9, <2>1, FirstExists
    <3> HIDE DEF refused
    <3> QED BY <1>4, <1>6, <1>9, <3>1
  <2>3. i \in DOMAIN f.validators /\ verdict(i) # "none"
    OBVIOUS
  <2>4. got.raised = verdict(i)
    BY <2>2 DEF Bad
  <2>5. /\ Fits(f, value) /\ r.value.type = TypeFor(f, value)
        /\ r.value.content = Meaning(f, value)
    BY <1>3, <1>9, <1>10 DEF ConvertsTo
  <2>6. CASE r.value.type \in Validators[f.validators[i]].fails
    <3>1. got.raised = "TypeError"
      BY <1>5, <2>3, <2>4, <2>6
    <3>2. Fails(f, value)
      BY <2>3, <2>5, <2>6 DEF Fails
    <3> QED BY <1>6, <2>5, <3>1, <3>2 DEF Takes, Outcomes, Clear
  <2>7. CASE r.value.type \notin Validators[f.validators[i]].fails
    <3>1. got.raised = "ValidationError"
          /\ r.value.content \in Validators[f.validators[i]].rejects
      BY <1>5, <2>3, <2>4, <2>7
    <3>2. Rejected(f, value)
      BY <2>3, <2>5, <3>1 DEF Rejected
    <3> QED BY <1>6, <3>1, <3>2 DEF Takes, Outcomes, Clear
  <2> QED BY <2>6, <2>7
<1> QED BY <1>7, <1>8, <1>9

(* What a field yields for the values of a request. *)
Checks(a, values, r) ==
    /\ r.raised \in Outcomes
    /\ r.raised = "none" =>
          /\ ~Refused(a, values) /\ ~Confusing(a, values)
          /\ Kept(a, values, r.value)
    /\ r.raised = "ValidationError" => Refused(a, values)
    /\ ~Clear(r.raised) => Confusing(a, values)

LEMMA FieldChecks ==
    ASSUME NEW a \in AttributeType, Parameters(Fields[a.field]),
           NEW o, Ready(o, Fields[a.field], a.name),
           NEW values, \A n \in DOMAIN values : IsValue(values[n]),
           ~NullForDefault(a, values)
    PROVE  Checks(a, values, FieldValue(o, values))
<1>1. a.field \in DOMAIN Fields
  BY DEF AttributeType
<1>2. PICK f : f = Fields[a.field]
  OBVIOUS
<1>3. /\ Declared(o, f)
      /\ AwaitedIn(f) => o.async
      /\ o.loadFrom = SourceOf(a)
  BY <1>1, <1>2 DEF SourceOf, Ready
<1>4. PICK r : r = FieldValue(o, values)
  OBVIOUS
<1>5. o.required = f.required /\ o.default = f.default
  BY <1>3 DEF Declared
<1>6. CASE Missing(a, values)
  <2>1. r = IF f.required THEN Invalid ELSE Good(f.default)
    BY <1>3, <1>4, <1>5, <1>6 DEF FieldValue, Missing
  <2>2. Refused(a, values) <=> f.required
    BY <1>2, <1>6 DEF Refused
  <2>3. CASE f.required
    <3>1. r.raised = "ValidationError"
      BY <2>1, <2>3 DEF Invalid, Bad
    <3> QED BY <1>4, <2>2, <2>3, <3>1 DEF Checks, Outcomes, Clear
  <2>4. CASE ~f.required
    <3>1. r.raised = "none" /\ r.value = f.default
      BY <2>1, <2>4 DEF Good
    <3>2. Kept(a, values, r.value)
      BY <1>2, <1>6, <3>1 DEF Kept
    <3>3. ~Confusing(a, values)
      BY <1>6 DEF Confusing
    <3> QED BY <1>4, <2>2, <2>4, <3>1, <3>2, <3>3 DEF Checks, Outcomes, Clear
  <2> QED BY <2>3, <2>4
<1>7. CASE ~Missing(a, values)
  <2>1. PICK value : value = values[SourceOf(a)]
    OBVIOUS
  <2>2. IsValue(value)
    BY <1>7, <2>1 DEF Missing
  <2>3. r = Pipeline(o, value)
    BY <1>3, <1>4, <1>7, <2>1 DEF FieldValue, Missing
  <2>4. Takes(f, value, r)
    BY <1>1, <1>2, <1>3, <2>2, <2>3, PipelineIs
  <2>5. Refused(a, values) <=> ~Fits(f, value) \/ Rejected(f, value)
    BY <1>2, <1>7, <2>1 DEF Refused
  <2>6. Kept(a, values, r.value) <=>
            r.value = Value(TypeFor(f, value), Meaning(f, value))
    BY <1>2, <1>7, <2>1 DEF Kept
  <2>7. Wrong(f, value) \/ (Fits(f, value) /\ Fails(f, value))
            <=> Confusing(a, values)
    BY <1>2, <1>7, <2>1 DEF Confusing, Wrong, Fails
  <2> QED BY <1>4, <2>4, <2>5, <2>6, <2>7 DEF Takes, Checks
<1> QED BY <1>6, <1>7

(* The fields of a class, in the order of its attributes. *)
IsFieldOf(o, a) ==
    /\ a \in AttributeType /\ Parameters(Fields[a.field])
    /\ Ready(o, Fields[a.field], a.name)
    /\ o.loadFrom = SourceOf(a) /\ o.loadInto = a.name

LEMMA FieldsAre ==
    ASSUME NEW c \in DOMAIN Classes, Usual(Classes[c]),
           NEW class, class = Classes[c], NEW i \in DOMAIN class
    PROVE  IsFieldOf(FieldsOf(class)[i], class[i])
<1>1. PICK a : a = class[i]
  OBVIOUS
<1>2. /\ a \in AttributeType
      /\ Ready(Objects[a.field], Fields[a.field], a.name)
  BY <1>1, OwnObjects
<1>4. PICK o : o = Objects[a.field]
  OBVIOUS
<1>5. o.loadFrom = SourceOf(a) /\ o.loadInto = a.name
  BY <1>2, <1>4 DEF SourceOf, Ready
<1>6. Parameters(Fields[a.field])
  BY <1>1 DEF Usual, Parameters
<1>7. FieldsOf(class)[i] = o
  BY <1>1, <1>2, <1>4 DEF FieldsOf
<1> QED BY <1>1, <1>2, <1>4, <1>5, <1>6, <1>7 DEF IsFieldOf

(* No two of them have one name. *)
LastNamed(fields, name) ==
    LET I == {j \in 1..Len(fields) : fields[j].loadInto = name}
    IN  IF I # {} THEN Max(I) ELSE 0

LEMMA NamedOnce ==
    ASSUME NEW c \in DOMAIN Classes, Usual(Classes[c]),
           NEW class, class = Classes[c], NEW i \in DOMAIN class,
           NEW fields, fields = FieldsOf(class)
    PROVE  LastNamed(fields, class[i].name) = i
<1>1. class \in Seq(AttributeType)
  BY SchemasAssumption
<1>2. PICK n \in Nat : n = Len(class) /\ DOMAIN class = 1..n
  BY <1>1
<1>3. Len(fields) = n
  BY <1>2 DEF FieldsOf
<1>4. \A j \in 1..n : fields[j].loadInto = class[j].name
  BY <1>2, FieldsAre DEF IsFieldOf
<1>5. \A j \in 1..n : class[j].name = class[i].name => j = i
  BY <1>2, SchemasAssumption
<1> DEFINE I == {j \in 1..Len(fields) : fields[j].loadInto = class[i].name}
<1>6. I = {i}
  BY <1>2, <1>3, <1>4, <1>5
<1>7. LastNamed(fields, class[i].name) = Max(I)
  <2>1. I # {}
    BY <1>6
  <2> QED BY <2>1 DEF LastNamed
<1>8. i \in Nat
  BY <1>2
<1>9. Max({i}) = i
  BY <1>8 DEF Max
<1> HIDE DEF I
<1> QED BY <1>6, <1>7, <1>9

(* For every class, whatever validators of one or two parameters its       *)
(* fields have: load() keeps what the class promises, for the values of    *)
(* any request, infinite numbers among them.  Except: a Field object is    *)
(* shared by attributes of several names or, if it converts and has        *)
(* asynchronous validators, by several attributes; a null comes for a      *)
(* field with a default (Schema.load(), SchemaCreator.prepare_field()).    *)
THEOREM LoadKeepsPromise ==
    ASSUME NEW c \in DOMAIN Classes, Usual(Classes[c]),
           NEW values, \A n \in DOMAIN values : IsValue(values[n]),
           ~HasNullForDefault(Classes[c], values)
    PROVE  KeepsPromise(Classes[c], values, Load(Classes[c], values))
<1>1. PICK class : class = Classes[c]
  OBVIOUS
<1> DEFINE fields == FieldsOf(class)
           result == [i \in DOMAIN fields |-> FieldValue(fields[i], values)]
           errors == {fields[i].loadFrom : i \in
                         {j \in DOMAIN fields :
                             result[j].raised = "ValidationError"}}
           names == {fields[i].loadInto : i \in DOMAIN fields}
           refused == {i \in DOMAIN class : Refused(class[i], values)}
           W == {i \in 1..Len(result) :
                    result[i].raised \notin {"none", "ValidationError"}}
           wrong == SelectInSeq(result, LAMBDA r : r.raised \notin
                                            {"none", "ValidationError"})
           Wrongly == wrong # 0
<1>2. PICK got : got = Load(class, values)
  OBVIOUS
<1>3. /\ Wrongly => got.raised = result[wrong].raised
      /\ ~Wrongly /\ errors # {} =>
            got.raised = "InvalidSchema" /\ got.errors = errors
      /\ ~Wrongly /\ errors = {} =>
            /\ got.raised = "none"
            /\ got.instance =
                  [m \in names |->
                      result[SelectLastInSeq(fields,
                                 LAMBDA f : f.loadInto = m)].value]
  <2>1. got = IF Wrongly
              THEN [raised |-> result[wrong].raised, errors |-> {},
                    instance |-> <<>>]
              ELSE IF errors # {}
              THEN [raised |-> "InvalidSchema", errors |-> errors,
                    instance |-> <<>>]
              ELSE [raised |-> "none", errors |-> {},
                    instance |->
                        [m \in names |->
                            result[SelectLastInSeq(fields,
                                       LAMBDA f : f.loadInto = m)].value]]
    BY <1>2, Zenon DEF Load
  <2> HIDE DEF Wrongly, wrong, errors, names, result, fields
  <2> QED BY <2>1, Zenon
<1>4. fields = FieldsOf(class) /\ DOMAIN fields = DOMAIN class
  BY DEF FieldsOf
<1> HIDE DEF fields
<1>5. ASSUME NEW i \in DOMAIN class
      PROVE  /\ IsFieldOf(fields[i], class[i])
             /\ Checks(class[i], values, result[i])
  <2>1. IsFieldOf(fields[i], class[i])
    BY <1>1, <1>4, FieldsAre
  <2>2. Checks(class[i], values, FieldValue(fields[i], values))
    BY <1>1, <2>1, FieldChecks DEF IsFieldOf, HasNullForDefault
  <2> QED BY <1>4, <2>1, <2>2
<1>9. PICK k \in Nat : k = Len(result) /\ DOMAIN class = 1..k
  <2>1. Classes[c] \in Seq(AttributeType)
    BY SchemasAssumption
  <2>2. PICK k \in Nat : k = Len(class) /\ DOMAIN class = 1..k
    BY <1>1, <2>1
  <2>3. Len(result) = k
    BY <1>4, <2>2
  <2> QED BY <2>2, <2>3
<1>10. /\ Wrongly => wrong \in W
       /\ W # {} => Wrongly
  <2>1. wrong = IF W # {} THEN CHOOSE i \in W : \A j \in W : i <= j ELSE 0
    BY DEF SelectInSeq, Min
  <2>2. W \subseteq 1..k
    BY <1>9
  <2>3. ASSUME W # {} PROVE (CHOOSE i \in W : \A j \in W : i <= j) \in W
    <3> HIDE DEF W
    <3> QED BY <2>2, <2>3, FirstExists
  <2>4. 0 \notin W
    BY <2>2
  <2> HIDE DEF W, wrong
  <2> QED BY <2>1, <2>3, <2>4
<1>6. CASE Wrongly
  <2>1. PICK i \in DOMAIN class : i = wrong
    BY <1>6, <1>9, <1>10
  <2>2. got.raised = result[i].raised /\ ~Clear(result[i].raised)
    BY <1>3, <1>6, <1>10, <2>1 DEF Clear
  <2>3. Confusing(class[i], values)
    BY <1>5, <2>2 DEF Checks
  <2>4. got.raised # "none" /\ got.raised # "InvalidSchema"
    BY <1>5, <2>2 DEF Checks, Outcomes, Clear
  <2> QED BY <1>1, <1>2, <2>3, <2>4 DEF KeepsPromise
<1>7. CASE ~Wrongly /\ errors # {}
  <2>1. got.raised = "InvalidSchema" /\ got.errors = errors
    BY <1>3, <1>7
  <2>2. ASSUME NEW i \in DOMAIN class
        PROVE  /\ result[i].raised = "ValidationError" <=> i \in refused
               /\ fields[i].loadFrom = SourceOf(class[i])
    <3>1. result[i].raised \in {"none", "ValidationError"}
      BY <1>7, <1>9, <1>10
    <3> QED BY <1>5, <3>1 DEF Checks, IsFieldOf
  <2>3. errors = {SourceOf(class[i]) : i \in refused}
    BY <1>4, <2>2
  <2>4. refused # {}
    BY <1>7, <2>3
  <2> QED BY <1>1, <1>2, <2>1, <2>3, <2>4 DEF KeepsPromise
<1>8. CASE ~Wrongly /\ errors = {}
  <2>1. /\ got.raised = "none"
        /\ \A m \in names :
              got.instance[m] = result[LastNamed(fields, m)].value
    <3>1. ASSUME NEW m
          PROVE  SelectLastInSeq(fields, LAMBDA f : f.loadInto = m)
                     = LastNamed(fields, m)
      BY DEF SelectLastInSeq, LastNamed
    <3> HIDE DEF Wrongly, wrong, errors, names, result
    <3> QED BY <1>3, <1>8, <3>1
  <2>2. ASSUME NEW i \in DOMAIN class PROVE result[i].raised = "none"
    <3>1. result[i].raised # "ValidationError"
      BY <1>4, <1>8
    <3>2. result[i].raised \in {"none", "ValidationError"}
      BY <1>8, <1>9, <1>10
    <3> QED BY <3>1, <3>2
  <2>3. refused = {} /\ {i \in DOMAIN class : Confusing(class[i], values)} = {}
    BY <1>5, <2>2 DEF Checks
  <2>4. ASSUME NEW i \in DOMAIN class
        PROVE  Kept(class[i], values, got.instance[class[i].name])
    <3>1. LastNamed(fields, class[i].name) = i
      BY <1>1, <1>4, NamedOnce
    <3>2. class[i].name \in names
      BY <1>4, <1>5 DEF IsFieldOf
    <3>3. got.instance[class[i].name] = result[i].value
      <4> HIDE DEF names, result
      <4> QED BY <2>1, <3>1, <3>2
    <3> QED BY <1>5, <2>2, <3>3 DEF Checks
  <2> QED BY <1>1, <1>2, <2>1, <2>3, <2>4 DEF KeepsPromise
<1> QED BY <1>6, <1>7, <1>8
-----------------------------------------------------------------------------
(* What is loaded.  The text of a body as its request made it.             *)
LEMMA WholeText ==
    ASSUME NEW m \in Message, NEW h, IsJson(h)
    PROVE  FormOf(FormUpTo(h, m, BodySizeOf(m))) = JsonOf(FlattenSeq(m.body))
<1>1. PICK B \in Seq(Symbols) : B = FlattenSeq(m.body)
  BY BodyPiecesAre DEF Text
<1>2. SubSeq(B, 1, Len(B)) = B
  BY Beginnings
<1>3. FormUpTo(h, m, BodySizeOf(m)) = [error |-> "text", text |-> B]
  BY <1>1, <1>2 DEF FormUpTo, BodySizeOf
<1> QED BY <1>1, <1>3 DEF FormOf

(* A JSON body that can be parsed. *)
LEMMA ParsedText ==
    ASSUME NEW text, JsonOf(text).error = "none"
    PROVE  text \in DOMAIN Json /\ JsonOf(text).values = Json[text]
<1>1. CASE text \in DOMAIN Json
  BY <1>1 DEF JsonOf
<1>2. CASE text \notin DOMAIN Json
  <2>1. JsonOf(text).error = "InvalidJSON"
    BY <1>2 DEF JsonOf
  <2>2. "InvalidJSON" # "none"
    OBVIOUS
  <2> QED BY <2>1, <2>2
<1> QED BY <1>1, <1>2

(* Neither a form nor JSON. *)
LEMMA NoValues ==
    ASSUME NEW m, NEW h, ~IsJson(h), NEW n
    PROVE  FormOf(FormUpTo(h, m, n)).error # "none"
<1>1. PICK f : f = NoForm
  OBVIOUS
<1>2. FormUpTo(h, m, n) = f /\ f.error = "no form"
  BY <1>1 DEF FormUpTo, NoForm
<1>3. f.error # "text"
  BY <1>2
<1>4. FormOf(f) = [error |-> "no form", hurt |-> FALSE, values |-> <<>>]
  BY <1>1, <1>3, Zenon DEF FormOf
<1>5. PICK e : e = "no form"
  OBVIOUS
<1>6. FormOf(f) = [error |-> e, hurt |-> FALSE, values |-> <<>>]
  BY <1>4, <1>5, Zenon
<1>7. FormOf(f).error = e
  BY <1>6
<1>8. e # "none"
  BY <1>5
<1> QED BY <1>2, <1>7, <1>8, Zenon

(* Texts and objects. *)
LEMMA FormValues ==
    ASSUME NEW got, NEW name \in DOMAIN AsValues(got)
    PROVE  IsValue(AsValues(got)[name])
<1>1. PICK v : v = AsValues(got)[name]
  OBVIOUS
<1>2. name \in DOMAIN got
  BY DEF AsValues
<1>3. v = Value(IF got[name].file THEN "object" ELSE "text",
                got[name].content)
  BY <1>1, <1>2 DEF AsValues
<1>4. v.type \in {"object", "text"} /\ v = Value(v.type, v.content)
  BY <1>3 DEF Value
<1> QED BY <1>1, <1>4 DEF IsValue

(* However the body of a form was divided into packets and chunks, its     *)
(* handler gets the fields and files the client encoded, or form() fails   *)
(* for a part that does not fit into memory; unless data was flushed when  *)
(* the last symbol of a boundary was missing (MultipartParser.feed(),      *)
(* SmartFile.write(), DiskFile.__init__(), Request.form()).                *)
THEOREM FormsHold == Spec => []FormIsTheBody
<1>1. IInv => FormIsTheBody
  <2> SUFFICES ASSUME IInv, NEW n \in DOMAIN forms, AsSent(n),
                      IsMultipart(HeadersOf(n)), ~forms[n].hurt
               PROVE  IF AllFit(setup[n].parts)
                      THEN /\ forms[n].error = "none"
                           /\ forms[n].values = Expected(setup[n].parts)
                      ELSE forms[n].error = "AttributeError"
    BY DEF FormIsTheBody
  <2>1. Now.forms = forms /\ Now.requests = requests
    BY DEF Now
  <2>2. Handed(setup, Now)
    BY DEF IInv, Known
  <2>3. HandedOne(setup[n], requests[n].headers, forms[n])
    BY <2>1, <2>2 DEF Handed
  <2>4. requests[n].headers = setup[n].headers
    BY DEF AsSent, HeadersOf
  <2>5. HandedForm(setup[n], forms[n])
    BY <2>3, <2>4 DEF HandedOne, HeadersOf
  <2> QED BY <2>5 DEF HandedForm
<1> QED BY <1>1, Invariance, PTL

(* What a handler loads is what its client sent. *)
LEMMA LoadedIsSent ==
    ASSUME IInv, NEW n \in DOMAIN forms, AsSent(n),
           forms[n].error = "none", ~forms[n].hurt
    PROVE  /\ Loaded(n) = SentBy(n)
           /\ \A name \in DOMAIN Loaded(n) : IsValue(Loaded(n)[name])
<1>1. PICK h : h = HeadersOf(n)
  OBVIOUS
<1>2. HandedOne(setup[n], h, forms[n])
  <2>1. Now.forms = forms /\ Now.requests = requests
    BY DEF Now
  <2>2. Handed(setup, Now)
    BY DEF IInv, Known
  <2>3. requests[n].headers = h
    BY <1>1 DEF AsSent
  <2> QED BY <2>1, <2>2, <2>3 DEF Handed
<1>3. PICK m \in Message : m = setup[n]
  BY <1>2 DEF HandedOne
<1>4. CASE IsMultipart(h)
  <2>1. forms[n].values = Expected(setup[n].parts)
    <3>1. HandedForm(setup[n], forms[n])
      BY <1>1, <1>2, <1>4 DEF HandedOne, HeadersOf
    <3>2. forms[n].error # "AttributeError"
      OBVIOUS
    <3> QED BY <3>1, <3>2 DEF HandedForm
  <2>2. /\ Loaded(n) = AsValues(forms[n].values)
        /\ SentBy(n) = AsValues(Expected(setup[n].parts))
    BY <1>1, <1>4 DEF Loaded, SentBy
  <2> QED BY <2>1, <2>2, FormValues
<1>5. CASE ~IsMultipart(h) /\ IsJson(h)
  <2>1. PICK text : text = FlattenSeq(m.body)
    OBVIOUS
  <2>2. forms[n] = JsonOf(text)
    BY <1>2, <1>3, <1>5, <2>1, WholeText DEF HandedOne
  <2>3. text \in DOMAIN Json /\ forms[n].values = Json[text]
    BY <2>2, ParsedText
  <2>4. Loaded(n) = forms[n].values /\ SentBy(n) = Json[text]
    BY <1>1, <1>3, <1>5, <2>1 DEF Loaded, SentBy
  <2>5. \A name \in DOMAIN Json[text] : IsValue(Json[text][name])
    BY <2>3, JsonAssumption
  <2> QED BY <2>3, <2>4, <2>5
<1>6. CASE ~IsMultipart(h) /\ ~IsJson(h)
  <2>1. forms[n] = FormOf(FormUpTo(h, m, BodySizeOf(m)))
    BY <1>2, <1>3, <1>6 DEF HandedOne
  <2>2. forms[n].error # "none"
    BY <1>6, <2>1, NoValues
  <2> QED BY <2>2
<1> QED BY <1>4, <1>5, <1>6

(* What a client sends passes every check of the class it is loaded into,  *)
(* or is refused, or ends load() with TypeError or OverflowError where it  *)
(* can be no number; and a handler gets what was sent, however it was      *)
(* divided into packets.  Except: a Field object is shared, as             *)
(* LoadKeepsPromise says; a null comes for a field with a default; the     *)
(* form was hurt, as FormsHold says (Schema.load_json(),                   *)
(* Schema.load_form(), SchemaCreator.prepare_field()).                     *)
THEOREM LoadsHold == Spec => []LoadsAreChecked
<1>1. IInv => LoadsAreChecked
  <2> SUFFICES ASSUME IInv,
                      NEW n \in DOMAIN forms, NEW c \in DOMAIN Classes,
                      AsSent(n), forms[n].error = "none", ~forms[n].hurt,
                      Usual(Classes[c]),
                      ~HasNullForDefault(Classes[c], SentBy(n))
               PROVE  KeepsPromise(Classes[c], SentBy(n),
                                   Load(Classes[c], Loaded(n)))
    BY DEF LoadsAreChecked
  <2>1. PICK values : values = Loaded(n)
    OBVIOUS
  <2>2. values = SentBy(n) /\ \A name \in DOMAIN values : IsValue(values[name])
    BY <2>1, LoadedIsSent
  <2>3. KeepsPromise(Classes[c], values, Load(Classes[c], values))
    BY <2>2, LoadKeepsPromise
  <2> QED BY <2>1, <2>2, <2>3
<1> QED BY <1>1, Invariance, PTL
=============================================================================
