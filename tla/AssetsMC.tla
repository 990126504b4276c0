------------------------------ MODULE AssetsMC ------------------------------
(* Instances of Assets: sites with static files only or templates only. *)
EXTENDS Assets

MCPaths == <<"new", "old">>

MCRanges == {[start |-> 1, end |-> 4]}

Bytes(version, size) == [version |-> version, size |-> size]

(* Two roots, the second one with a file that the first may get; what does *)
(* not fit into the cache of 4 is streamed.                                *)
StaticSite ==
    LET old == <<"old", "a">>  new == <<"new", "a">>
    IN  [debug |-> FALSE, templates |-> <<>>, paths |-> {"a"},
         files |-> (new :> NoContent) @@ (old :> Bytes(1, 2)),
         edits |-> (new :> {Bytes(4, 2)}) @@
                   (old :> {Bytes(1, 2), Bytes(2, 2), Bytes(3, 4),
                            NoContent})]

T(extends, nodes) == [extends |-> extends, nodes |-> nodes]
File(name) == <<"templates", name>>

(* A base with one block or two, two templates that extend it, a grandchild *)
(* and one that includes another.                                          *)
Base(v) == T("none", <<TextNode(v), BlockNode("x", v), TextNode("end")>>)
Child(v) == T("base", <<TextNode("lost"), BlockNode("x", v)>>)
Empty == T("base", <<>>)
Grandchild == T("child", <<BlockNode("x", "grandchild")>>)
Page(v) == T("none", <<TextNode(v), IncludeNode("part")>>)
Text(v) == T("none", <<TextNode(v)>>)

Site(debug, order, files, edits) ==
    [debug |-> debug, templates |-> [i \in DOMAIN order |-> File(order[i])],
     paths |-> {},
     files |-> [f \in {File(n) : n \in DOMAIN files} |-> files[f[2]]],
     edits |-> [f \in {File(n) : n \in DOMAIN files} |->
                   IF f[2] \in DOMAIN edits THEN edits[f[2]] ELSE {}]]

Family ==
    [base |-> Base("1"), child |-> Child("2"), other |-> Child("3")]
FamilyEdits ==
    [base |-> {Base("4"), NoContent}, child |-> {Child("5"), NoContent},
     other |-> {Child("6"), Text("7")}]
Elders ==
    [base |-> Base("1"), child |-> Child("2"), third |-> Grandchild]
Pages ==
    [page |-> Page("1"), part |-> Text("2"), new |-> NoContent]

(* A file and its copies, with a page that includes one of them. *)
Copies ==
    [page |-> Page("1"), part |-> Text("2"), twin |-> Text("2")]
CopyEdits ==
    [part |-> {Text("3")}, twin |-> {Text("4")}, page |-> {Text("3")}]

(* Tags and expressions that are none, one of them where it is lost. *)
Pair == [base |-> Base("1"), child |-> Child("2")]
PairEdits ==
    [base |-> {Base("AttributeError"), Base("SyntaxError")},
     child |-> {Child("InvalidTag"), Child("SyntaxError"),
                T("base", <<TextNode("SyntaxError"), BlockNode("x", "3")>>)}]

MCSites ==
    {StaticSite}
        \cup {Site(debug, order, Family, FamilyEdits) :
                debug \in BOOLEAN,
                order \in {<<"base", "child", "other">>,
                           <<"child", "base", "other">>}}
        \cup {Site(TRUE, <<"base", "child", "third">>, Elders,
                   [base |-> {Base("4")}, child |-> {Child("5"), Empty}]),
              Site(TRUE, <<"page", "part", "twin">>, Copies, CopyEdits),
              Site(FALSE, <<"base", "child">>, Pair, PairEdits),
              Site(TRUE, <<"base", "child">>, Pair, PairEdits),
              Site(TRUE, <<"new", "part", "page">>, Pages,
                   [page |-> {Page("3")}, part |-> {Text("4"), NoContent},
                    new |-> {Page("5")}])}
=============================================================================
