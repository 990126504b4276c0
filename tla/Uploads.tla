------------------------------ MODULE Uploads ------------------------------
(***************************************************************************)
(* The bytes of one connection on their way into the program: the client   *)
(* writes messages, the network divides them into packets as it likes, the *)
(* parser (HttpParser) turns packets into callbacks of the connection, and *)
(* handlers that ask for request.form() feed the bodies to a               *)
(* MultipartParser (Multipart), or ask for request.json(), and load the    *)
(* values into the classes of Schemas.  The chunks pass through the stream *)
(* unchanged and in order, which is what BodyStream shows; here each is    *)
(* handed over at once.                                                    *)
(***************************************************************************)
EXTENDS HttpParser, Multipart, Schemas

CONSTANTS
    Symbols,     \* what texts are made of
    Setups,      \* the messages of a client, the division of its bodies
    RouteLimits, \* max_body_size of the routes, by URL
    Json         \* the texts that are the JSON of an object, and its values

Text == Seq(Symbols)

(* No name of a header is empty. *)
HeaderLine == [name : Text \ {<<>>}, value : Text]

Message ==
    [url : Text, headers : Seq(HeaderLine), body : Seq(Text),
     parts : Seq([header : DOMAIN Disposition, content : Text]),
     chunked : BOOLEAN, trailers : Seq(HeaderLine)]

(* Only a body in chunks has trailers. *)
ASSUME SetupsAssumption ==
    \A s \in Setups :
        /\ s \in Seq(Message)
        /\ \A i \in DOMAIN s : s[i].trailers # <<>> => s[i].chunked

ASSUME RouteLimitsAssumption ==
    \A url \in DOMAIN RouteLimits : RouteLimits[url] \in Nat

(* What json.loads() makes of numbers, the infinite ones included. *)
ASSUME JsonAssumption ==
    \A text \in DOMAIN Json : \A name \in DOMAIN Json[text] :
        IsValue(Json[text][name])

VARIABLES
    setup,     \* one of Setups: a sequence of messages
    rest,      \* what has not arrived: the pieces of the messages
    parser,    \* the HttpParser
    requests,  \* the URL and headers of each request that a handler got
    form,      \* the MultipartParser of the last of them, the text of
               \* its body for json(), or NoForm
    forms,     \* what the handler of each got, once its message was complete
    cut        \* history: messages with a URL or header name in two packets

vars == <<setup, rest, parser, requests, form, forms, cut>>

NoForm == [error |-> "no form"]
NewText == [error |-> "text", text |-> <<>>]
-----------------------------------------------------------------------------
(* The client.  A piece is [kind, text]; "headers", "chunk" and "chunkEnd" *)
(* stand for the line breaks that trigger these callbacks.  A message of   *)
(* known length is complete with the last byte before "end".  A piece with *)
(* a delimiter, the space or colon or line break that ends a URL, a name   *)
(* or a value, may arrive without it: the C parser then calls back with    *)
(* what it has, and once more, maybe with nothing, when the rest is there. *)

Piece(kind, text) == [kind |-> kind, text |-> text]
Mark(kind) == Piece(kind, <<"LF">>)
End == Piece("end", <<>>)

HeaderPieces(headers) ==
    FlattenSeq([i \in DOMAIN headers |->
        <<Piece("field", headers[i].name), Piece("value", headers[i].value)>>])

BodyPieces(m) ==
    IF m.chunked
    THEN FlattenSeq([i \in DOMAIN m.body |->
             <<Mark("chunk"), Piece("body", m.body[i]), Mark("chunkEnd")>>])
         \o <<Mark("chunk")>> \o HeaderPieces(m.trailers)
         \o <<Mark("chunkEnd")>>
    ELSE IF FlattenSeq(m.body) = <<>> THEN <<>>
    ELSE <<Piece("body", FlattenSeq(m.body))>>

Pieces(m) ==
    <<Piece("url", m.url)>> \o HeaderPieces(m.headers) \o <<Mark("headers")>>
        \o BodyPieces(m) \o <<End>>

Delimited == {"url", "field", "value"}

Init ==
    /\ setup \in Setups
    /\ rest = FlattenSeq([i \in DOMAIN setup |-> Pieces(setup[i])])
    /\ parser = NewParser
    /\ requests = <<>> /\ form = NoForm /\ forms = <<>>
    /\ cut = {}
-----------------------------------------------------------------------------
(* The connection's part in the callbacks.  s has the parser, requests,    *)
(* form and forms.                                                         *)

LimitOf(url) ==
    IF url \in DOMAIN RouteLimits THEN RouteLimits[url] ELSE BodyLimit

(* request.form() makes a parser for a body that says to be multipart; the *)
(* handler takes request.json() for one that says so.                      *)
ContentType == [name |-> <<"c", "t">>, value |-> <<"m", "p">>]
JsonType == [name |-> <<"c", "t">>, value |-> <<"j", "s">>]
IsMultipart(headers) == \E i \in DOMAIN headers : headers[i] = ContentType
IsJson(headers) == \E i \in DOMAIN headers : headers[i] = JsonType

(* Forms are encoded with a boundary that no content has (client/session.*)
(* makes one of random letters).                                           *)
ASSUME FormsAssumption ==
    \A s \in Setups : \A i \in DOMAIN s :
        IsMultipart(s[i].headers) =>
            /\ FlattenSeq(s[i].body) = Encoded(s[i].parts)
            /\ \A j \in DOMAIN s[i].parts :
                  Find(s[i].parts[j].content, StartBoundary) = -1

OnHeadersComplete(s) ==
    LET headers == HeadersToGive(s.parser)
        url == s.parser.url
    IN  [s EXCEPT !.parser = [HeadersGiven(@) EXCEPT !.maxBody = LimitOf(url)],
                  !.requests = Append(@, [url |-> url, headers |-> headers]),
                  !.form = IF IsMultipart(headers) THEN NewForm
                           ELSE IF IsJson(headers) THEN NewText
                           ELSE NoForm]

OnBodyOfRequest(s, text) ==
    LET p == OnBody(s.parser, text)
    IN  [s EXCEPT !.parser = p,
                  !.form = IF Failed(p) \/ @ = NoForm THEN @
                           ELSE IF @.error = "text"
                           THEN [error |-> "text", text |-> @.text \o text]
                           ELSE Feed(@, text)]

(* Request.json() *)
JsonOf(text) ==
    IF text \in DOMAIN Json
    THEN [error |-> "none", hurt |-> FALSE, values |-> Json[text]]
    ELSE [error |-> "InvalidJSON", hurt |-> FALSE, values |-> <<>>]

FormOf(f) ==
    IF f.error = "text" THEN JsonOf(f.text)
    ELSE IF f = NoForm
    THEN [error |-> "no form", hurt |-> FALSE, values |-> <<>>]
    ELSE [error |-> f.error, hurt |-> f.hurt,
          values |-> IF f.error = "none" THEN Consume(f) ELSE <<>>]

OnMessageCompleteOfRequest(s) ==
    [s EXCEPT !.parser = OnMessageComplete(@), !.form = NoForm,
              !.forms = Append(@, FormOf(s.form))]

Callback(s, piece) ==
    IF Failed(s.parser) THEN s ELSE
    CASE piece.kind = "url" -> [s EXCEPT !.parser = OnUrl(@, piece.text)]
      [] piece.kind = "field" ->
            [s EXCEPT !.parser = OnHeaderField(@, piece.text)]
      [] piece.kind = "value" ->
            [s EXCEPT !.parser = OnHeaderValue(@, piece.text)]
      [] piece.kind = "headers" -> OnHeadersComplete(s)
      [] piece.kind = "chunk" -> [s EXCEPT !.parser = OnChunkHeader(@)]
      [] piece.kind = "body" -> OnBodyOfRequest(s, piece.text)
      [] piece.kind = "chunkEnd" -> [s EXCEPT !.parser = OnChunkComplete(@)]
      [] piece.kind = "end" -> OnMessageCompleteOfRequest(s)

(* A packet: n whole pieces of what is left, and k symbols of the next.    *)
DataReceived(n, k) ==
    /\ ~Failed(parser)
    /\ k > 0 \/ n > 0
    /\ k = 0 /\ n < Len(rest) => rest[n + 1] # End
    /\ LET whole == SubSeq(rest, 1, n)
           split == k > 0
           next == rest[n + 1]
           packet == IF split THEN Append(whole, [next EXCEPT !.text =
                                                    SubSeq(@, 1, k)])
                     ELSE whole
           s == FoldLeft(Callback,
                         [parser |-> parser, requests |-> requests,
                          form |-> form, forms |-> forms], packet)
       IN  /\ parser' = s.parser /\ requests' = s.requests
           /\ form' = s.form /\ forms' = s.forms
           /\ rest' = IF split
                      THEN <<[next EXCEPT !.text = From(@, k)]>>
                               \o From(rest, n + 1)
                      ELSE From(rest, n)
           /\ cut' = IF split /\ next.kind \in {"url", "field"}
                     THEN cut \cup {Len(s.forms) + 1} ELSE cut
    /\ UNCHANGED setup

(* How many symbols of a piece may arrive without its end. *)
Incomplete(piece) ==
    LET n == Len(piece.text)
    IN  {0} \cup (IF piece.kind \in Delimited THEN 1..n ELSE 1..n - 1)

Next ==
    \E n \in 0..Len(rest) :
        \E k \in (IF n = Len(rest) THEN {0} ELSE Incomplete(rest[n + 1])) :
            DataReceived(n, k)

Spec == Init /\ [][Next]_vars
-----------------------------------------------------------------------------
HeadersOf(n) == setup[n].headers
AsSent(n) ==
    /\ requests[n].url = setup[n].url
    /\ requests[n].headers = HeadersOf(n)

(* However the network divides the messages of a connection, a handler     *)
(* gets the URL and the headers its client sent, unless a packet ended     *)
(* between the URL or the name of a header and its delimiter, or the       *)
(* message before it had trailers, which are taken for headers of the next *)
(* (cb_on_url(), _on_header_field(), _on_chunk_complete()).                *)
RequestsAreAsSent ==
    \A n \in 1..Len(requests) :
        \/ \E m \in cut : m <= n
        \/ n > 1 /\ setup[n - 1].trailers # <<>>
        \/ AsSent(n)

SizeOf(pieces) ==
    FoldLeft(LAMBDA sum, x : sum + Len(x.text), 0, pieces)
HeaderSize(n) ==
    Len(setup[n].url) + SizeOf(HeaderPieces(setup[n].headers))
BodySize(n) == Len(FlattenSeq(setup[n].body))
TrailerSize(n) == SizeOf(HeaderPieces(setup[n].trailers))

(* A message is refused for its own size only, and always: what came       *)
(* before it on the connection does not count, nor do the packets          *)
(* (HttpParser's limits, Connection.on_headers_complete()).                *)
LimitsAreOwn ==
    LET n == Len(forms) + 1
        error == parser.error
    IN  /\ error = "HeadersLimitError" =>
              Exceeds(HeaderSize(n) + TrailerSize(n), HeadersLimit)
        /\ error = "BodyLimitError" =>
              Exceeds(BodySize(n), LimitOf(requests[n].url))
        /\ error = "HttpParserError" => cut # {}
        /\ \A m \in DOMAIN requests : ~Exceeds(HeaderSize(m), HeadersLimit)
        /\ \A m \in DOMAIN forms :
              /\ ~Exceeds(HeaderSize(m) + TrailerSize(m), HeadersLimit)
              /\ ~Exceeds(BodySize(m), LimitOf(requests[m].url))

(* A form whose parts fit into memory is parsed to its fields and files,   *)
(* however its body was divided into packets and chunks; one with a larger *)
(* part is never handed over, not even cut: form() fails, where            *)
(* docs/components/request.md promises the disk.  Except: data was flushed *)
(* when the last symbol of a boundary was missing                          *)
(* (MultipartParser.feed(), SmartFile.write(), DiskFile.__init__()).       *)
FormIsTheBody ==
    \A n \in DOMAIN forms :
        AsSent(n) /\ IsMultipart(HeadersOf(n)) /\ ~forms[n].hurt =>
            IF AllFit(setup[n].parts)
            THEN /\ forms[n].error = "none"
                 /\ forms[n].values = Expected(setup[n].parts)
            ELSE forms[n].error = "AttributeError"

(* A file is an object, a field a text. *)
AsValues(got) ==
    [name \in DOMAIN got |->
        Value(IF got[name].file THEN "object" ELSE "text",
              got[name].content)]

(* What a handler loads, and what its client sent. *)
Loaded(n) ==
    IF IsMultipart(HeadersOf(n)) THEN AsValues(forms[n].values)
    ELSE forms[n].values
SentBy(n) ==
    IF IsMultipart(HeadersOf(n)) THEN AsValues(Expected(setup[n].parts))
    ELSE Json[FlattenSeq(setup[n].body)]

(* What a handler gets of what a client sends passed every check of the    *)
(* class it is loaded into, asynchronous ones too, has the types of the    *)
(* fields and is what the client sent; else load() refuses it, with the    *)
(* names of the fields that fail, or ends with TypeError or OverflowError  *)
(* where a number is asked for and there can be none.  Except: an object   *)
(* is shared by attributes of several names, or with asynchronous          *)
(* validators; a null comes for a field with a default (Schema.load(),     *)
(* SchemaCreator).                                                         *)
LoadsAreChecked ==
    \A n \in DOMAIN forms : \A c \in DOMAIN Classes :
        /\ AsSent(n) /\ forms[n].error = "none" /\ ~forms[n].hurt
        /\ Usual(Classes[c]) /\ ~HasNullForDefault(Classes[c], SentBy(n))
        => KeepsPromise(Classes[c], SentBy(n), Load(Classes[c], Loaded(n)))
=============================================================================
