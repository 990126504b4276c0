----------------------------- MODULE UploadsMC -----------------------------
(* Instances of Uploads: what clients send. *)
EXTENDS Uploads, TLC

MCDisposition ==
    [text_a |-> [name |-> "a", file |-> FALSE],
     file_a |-> [name |-> "a", file |-> TRUE],
     file_b |-> [name |-> "b", file |-> TRUE]]

Part(header, content) == [header |-> header, content |-> content]

Header(name, value) == [name |-> name, value |-> value]
Host == Header(<<"h", "o">>, <<"s", "t">>)

Plain(url, headers, body) ==
    [url |-> url, headers |-> headers, body |-> <<body>>, parts |-> <<>>,
     chunked |-> FALSE, trailers |-> <<>>]

(* The chunks the client library writes: a header, content, a line break. *)
Form(parts, chunked) ==
    [Plain(<<"/">>, <<ContentType>>, <<>>) EXCEPT
        !.body = IF chunked
                 THEN FlattenSeq([i \in DOMAIN parts |->
                        <<Before(EncodedPart(parts[i]), 9), parts[i].content,
                          CRLF>>]) \o <<StartBoundary \o <<Dashes>>>>
                 ELSE <<Encoded(parts)>>,
        !.parts = parts, !.chunked = chunked]

Contents == {<<>>, <<"x">>, <<"x", "CR", "LF">>, <<"x", "--", "y", "--">>,
             <<"x", "y", "x", "y", "x">>}

Forms == {<<Form(<<Part("text_a", x), Part("file_b", y)>>, FALSE)>> :
              x \in Contents, y \in Contents}
         \cup {<<Form(<<Part("text_a", x), Part("file_a", <<"y">>)>>,
                      FALSE)>> : x \in Contents}
         \cup {<<Form(<<Part("text_a", <<"x">>), Part("file_b", x)>>, TRUE)>> :
              x \in Contents \ {<<>>}}

Messages ==
    {Plain(<<"/", "a">>, <<Host>>, <<>>),
     Plain(<<"/", "b">>, <<Host, Header(<<"c">>, <<"v", "w">>)>>,
           <<"x", "x">>),
     Plain(<<"/", "b">>, <<Host, Host, Host>>, <<>>),
     Plain(<<"/", "a">>, <<>>, <<"x", "x", "x">>),
     [Plain(<<"/", "a">>, <<Host>>, <<"x">>) EXCEPT
         !.chunked = TRUE, !.body = <<<<"x">>, <<"x", "y">>>>],
     [Plain(<<"/", "b">>, <<Host>>, <<"x">>) EXCEPT
         !.chunked = TRUE, !.trailers = <<Header(<<"t">>, <<"u">>)>>]}

(* The JSON of objects: "x" is a digit, "inf" a number like 1e400. *)
Numbers(type, x) == [a |-> Value(type, x), b |-> Value(type, x)]
MCJson ==
    (<<"{", "x", "}">> :> Numbers("int", <<"x">>))
    @@ (<<"{", "1", "}">> :> Numbers("int", <<"1">>))
    @@ (<<"{", ".", "}">> :> Numbers("float", <<"x", ".">>))
    @@ (<<"{", "inf", "}">> :> Numbers("float", Infinity))
    @@ (<<"{", "}">> :> [a |-> Null, b |-> Value("map", <<>>)])
    @@ (<<"{", "x">> :> [b |-> Value("text", <<"x">>)])

JsonSetups ==
    {<<Plain(<<"/", "b">>, <<JsonType>>, text),
       Plain(<<"/", "b">>, <<JsonType>>, again)>> :
         text \in DOMAIN MCJson, again \in DOMAIN MCJson \cup {<<"{">>}}

MCSymbols ==
    {"LF", "CR", "--", "bound", "/", "{", "}", ".", "1", "inf"}
    \cup DOMAIN MCDisposition
    \cup {"a", "b", "c", "h", "j", "m", "o", "p", "s", "t", "u", "v", "w",
          "x", "y"}

MCSetups == Forms \cup JsonSetups \cup (Messages \X Messages)

MCTruncated ==
    (<<"x">> :> <<"x">>) @@ (<<"1">> :> <<"1">>) @@ (<<"x", ".">> :> <<"x">>)

MCValidators ==
    [length |-> Length(1, 3, Contents),
     taken |-> Function(TRUE, 1, {<<"x", "CR", "LF">>}),
     odd |-> Function(FALSE, 2, {<<"1">>}),
     whole |-> Function(TRUE, 2, {<<"x", ".">>}),
     unused |-> Function(TRUE, 3, {<<"x">>})]

String == Field("String", <<>>)
Integer == Field("Integer", <<>>)

MCFields ==
    [title |-> [String EXCEPT !.validators = <<"length", "taken">>],
     number |-> [Integer EXCEPT !.loadFrom = "b", !.validators = <<"odd">>],
     size |-> WithDefault([Field("Number", <<"whole">>) EXCEPT
                              !.loadFrom = "a"], Value("int", <<"x">>)),
     strict |-> [Field("Number", <<"odd">>) EXCEPT !.strict = TRUE],
     raw |-> Field("Field", <<"length">>),
     common |-> [String EXCEPT !.strict = TRUE, !.required = FALSE,
                               !.validators = <<"odd">>],
     shared |-> [String EXCEPT !.validators = <<"taken", "unused">>]]

Attribute(name, field) == [name |-> name, field |-> field]

MCClasses ==
    <<<<Attribute("a", "title"), Attribute("n", "number")>>,
      <<Attribute("size", "size")>>,
      <<Attribute("b", "strict"), Attribute("a", "common")>>,
      <<Attribute("a", "raw")>>, <<Attribute("a", "common")>>,
      <<Attribute("a", "shared")>>, <<Attribute("b", "shared")>>>>

(* Two routes, one of them without limit. *)
MCRouteLimits == (<<"/", "a">> :> 2) @@ (<<"/">> :> 0)
=============================================================================
