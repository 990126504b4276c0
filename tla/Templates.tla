----------------------------- MODULE Templates -----------------------------
(***************************************************************************)
(* The template engine: TemplateEngine of vibora/templates/engine.py with  *)
(* its InMemoryCache, the trees of ast.py, and the thread of TemplateLoader *)
(* that replaces templates when their files change, while handlers of the  *)
(* event loop render them.                                                 *)
(*                                                                         *)
(* A content is [extends, nodes]; a node is a text, a block, an include    *)
(* or, in place of one, another template's tree.  A text that is the name  *)
(* of an error stands for a tag or an expression that raises it.  The tree *)
(* of a template is an object that others share and change: trees is the   *)
(* heap.  Python's code for a tree is the text it yields.  Of a template's *)
(* names there is one, that of its file.                                   *)
(***************************************************************************)
EXTENDS Disk

CONSTANT MaxRenders  \* bound: renders

VARIABLES
    engine,  \* what TemplateEngine and its cache know, see NewEngine
    loader,  \* what TemplateLoader knows, see NewLoader, and as history
             \* its copies: files that had the content of another when last
             \* one of the two was added
    render,  \* a render() under way
    renders  \* history: the results of renders

templateVars == <<engine, loader, render, renders>>

Node(kind, name, text, tree) ==
    [kind |-> kind, name |-> name, text |-> text, tree |-> tree]
TextNode(text) == Node("text", "", text, 0)
BlockNode(name, text) == Node("block", name, text, 0)
IncludeNode(target) == Node("include", target, "", 0)
TreeNode(tree) == Node("tree", "", "", tree)

(* templates: [name, hash, tree, deps, prepared] in the order of the dict. *)
(* loaded: [hash, deps, output] of InMemoryCache, likewise.                *)
NewEngine ==
    [templates |-> <<>>, compiled |-> <<>>, loaded |-> <<>>, trees |-> <<>>,
     error |-> "none"]

NewLoader ==
    [at |-> "start", todo |-> <<>>, cache |-> <<>>, changed |-> <<>>,
     related |-> <<>>, paths |-> <<>>, hashes |-> <<>>, copies |-> {}]

NoRender == [name |-> "none"]

TemplatesInit ==
    /\ engine = NewEngine /\ loader = NewLoader
    /\ render = NoRender /\ renders = <<>>

Put(f, key, value) ==
    [k \in DOMAIN f \cup {key} |-> IF k = key THEN value ELSE f[k]]
Without(f, key) == [k \in DOMAIN f \ {key} |-> f[k]]
NameOf(file) == file[2]
-----------------------------------------------------------------------------
(* ast.py *)

RECURSIVE ReplaceBlock(_, _, _)
ReplaceBlock(trees, tree, block) ==
    LET IsIt(n) == n.kind = "block" /\ n.name = block.name
        inner == SelectSeq(trees[tree], LAMBDA n : n.kind = "tree")
        replaced == [trees EXCEPT ![tree] =
                       [i \in DOMAIN @ |-> IF IsIt(@[i]) THEN block ELSE @[i]]]
    IN  FoldLeft(LAMBDA ts, n : ReplaceBlock(ts, n.tree, block),
                 replaced, inner)

(* merge(): the blocks of b go into the tree of a itself. *)
Merge(trees, a, b) ==
    FoldLeft(LAMBDA ts, block : ReplaceBlock(ts, a, block), trees,
             SelectSeq(trees[b], LAMBDA n : n.kind = "block"))

RECURSIVE Output(_, _)
Output(trees, tree) ==
    FlattenSeq([i \in DOMAIN trees[tree] |->
        LET n == trees[tree][i]
        IN  IF n.kind = "tree" THEN Output(trees, n.tree) ELSE <<n.text>>])
-----------------------------------------------------------------------------
(* engine.py *)

IndexOf(e, name) ==
    SelectInSeq(e.templates, LAMBDA t : t.name = name)
Hashes(e) == {e.templates[i].hash : i \in DOMAIN e.templates}
Fail(e, error) == [e EXCEPT !.error = error]

(* cache.remove() *)
CacheRemove(e, hash) ==
    [e EXCEPT !.loaded = SelectSeq(@, LAMBDA m : m.hash # hash)]

RemoveTemplate(e, hash) ==
    [CacheRemove(e, hash) EXCEPT
        !.templates = SelectSeq(@, LAMBDA t : t.hash # hash),
        !.compiled = IF hash \in Hashes(e) THEN Without(@, hash) ELSE @]

(* A tag that no node knows, an include or an extends without its name. *)
ParseErrors == {"InvalidTag", "AttributeError"}
TextsOf(content) == [i \in DOMAIN content.nodes |-> content.nodes[i].text]

(* parse() and add_template() *)
AddTemplate(e, name, content) ==
    LET wrong == SelectSeq(TextsOf(content), LAMBDA x : x \in ParseErrors)
    IN
    IF wrong # <<>> THEN Fail(e, Head(wrong))
    ELSE IF IndexOf(e, name) # 0 THEN Fail(e, "ConflictingNames")
    ELSE [e EXCEPT
            !.trees = Append(@, content.nodes),
            !.templates = Append(@,
                [name |-> name, hash |-> content, deps |-> {},
                 tree |-> Len(e.trees) + 1, prepared |-> FALSE])]

(* A node for an include, when its template is prepared in engine e. *)
Included(e, name, i, include) ==
    LET t == e.templates[IndexOf(e, include)]
        self == e.templates[IndexOf(e, name)]
    IN  IF e.error # "none" THEN e
        ELSE [e EXCEPT !.trees[self.tree][i] = TreeNode(t.tree),
                       !.templates[IndexOf(e, name)].deps = @ \cup {t.hash}]

(* The tree of the parent takes the place of the template's own. *)
Extended(e, name, parent) ==
    LET p == e.templates[IndexOf(e, parent)]
        self == e.templates[IndexOf(e, name)]
    IN  IF e.error # "none" THEN e
        ELSE [e EXCEPT !.trees = Merge(@, p.tree, self.tree),
                       !.templates[IndexOf(e, name)] =
                          [@ EXCEPT !.tree = p.tree, !.deps = @ \cup {p.hash}]]

Prepared(e, i) ==
    IF e.error # "none" THEN e ELSE [e EXCEPT !.templates[i].prepared = TRUE]

RECURSIVE PrepareTemplate(_, _)
ResolveInclude(e, name, i) ==
    LET n == e.trees[e.templates[IndexOf(e, name)].tree][i]
    IN  IF e.error # "none" \/ n.kind # "include" THEN e
        ELSE IF IndexOf(e, n.name) = 0 THEN Fail(e, "TemplateNotFound")
        ELSE Included(PrepareTemplate(e, n.name), name, i, n.name)

ResolveExtends(e, name) ==
    LET parent == e.templates[IndexOf(e, name)].hash.extends
    IN  IF e.error # "none" \/ parent = "none" THEN e
        ELSE IF IndexOf(e, parent) = 0 THEN Fail(e, "TemplateNotFound")
        ELSE Extended(PrepareTemplate(e, parent), name, parent)

PrepareTemplate(e, name) ==
    LET i == IndexOf(e, name)
        included(f, n) == ResolveInclude(f, name, n)
    IN  IF i = 0 \/ e.templates[i].prepared THEN e
        ELSE Prepared(ResolveExtends(
                 FoldLeftDomain(included, e, e.trees[e.templates[i].tree]),
                 name), i)

(* sync_cache() and the first part of clean(): a compiled template whose   *)
(* dependency is gone is removed from the dict that is being iterated.     *)
DropStale(e) ==
    LET hashes == Hashes(e)
        stale == SelectInSeq(e.loaded, LAMBDA m : ~(m.deps \subseteq hashes))
    IN  IF e.error # "none" \/ stale = 0 THEN e
        ELSE Fail(CacheRemove(e, e.loaded[stale].hash), "RuntimeError")

(* What the tree of a template that was prepared is compiled to: no code,  *)
(* if one of its expressions is none.                                      *)
Compiled(e, i) ==
    LET t == e.templates[i]
        meta == [hash |-> t.hash, deps |-> t.deps,
                 output |-> Output(e.trees, t.tree)]
    IN  IF e.error # "none" THEN e
        ELSE IF "SyntaxError" \in Range(meta.output)
        THEN Fail(e, "SyntaxError")
        ELSE [e EXCEPT !.loaded = Append(@, meta),
                       !.compiled = Put(@, t.hash, meta.output)]

CompileTemplate(e, i) ==
    LET t == e.templates[i]
        cached == SelectInSeq(e.loaded, LAMBDA m : m.hash = t.hash)
    IN  IF e.error # "none" THEN e
        ELSE IF cached # 0
        THEN [e EXCEPT !.compiled = Put(@, t.hash, e.loaded[cached].output)]
        ELSE Compiled(PrepareTemplate(e, t.name), i)

(* The rest of clean(): what no template has is removed. *)
DropUnknown(e) ==
    IF e.error # "none" THEN e
    ELSE [e EXCEPT !.loaded = SelectSeq(@, LAMBDA m : m.hash \in Hashes(e))]

CompileTemplates(e) ==
    DropUnknown(DropStale(FoldLeftDomain(CompileTemplate, e, e.templates)))
-----------------------------------------------------------------------------
(* The loader's thread.  Its steps are files it looks at, templates it     *)
(* replaces, and the compilation of all.                                   *)

(* add_to_engine(), of a file that may be gone *)
AddToEngine(file, e) ==
    IF ~IsFile(file) THEN Fail(e, "FileNotFoundError")
    ELSE AddTemplate(e, NameOf(file), Content(file))

Added(l, file) ==
    LET twins == {f \in DOMAIN l.paths \ {file} : l.paths[f] = Content(file)}
        both == IF twins = {} THEN {} ELSE twins \cup {file}
    IN  IF ~IsFile(file) THEN l
        ELSE [l EXCEPT !.paths = Put(@, file, Content(file)),
                       !.hashes = Put(@, Content(file), file),
                       !.copies = (@ \ {file}) \cup both]

Walk == site.templates

(* A step of the loader; a render under way is not alone any more. *)
Becomes(e, l) ==
    /\ engine' = e
    /\ loader' = IF e.error = "none" THEN l ELSE [l EXCEPT !.at = "dead"]
    /\ render' = IF render = NoRender THEN render
                 ELSE [render EXCEPT !.alone = FALSE]
    /\ UNCHANGED renders

(* load_templates(): in debug mode the thread is started, otherwise all is *)
(* loaded once.                                                            *)
Start ==
    /\ loader.at = "start"
    /\ IF site.debug THEN Becomes(engine, [loader EXCEPT !.at = "sleep"])
       ELSE LET files == SelectSeq(Walk, IsFile)
                add(e, file) == AddToEngine(file, e)
            IN  Becomes(CompileTemplates(FoldLeft(add, engine, files)),
                        [FoldLeft(Added, loader, files) EXCEPT !.at = "off"])

(* Fault: a file is newer than it was, or it is the same. *)
IsModifiedIfNewer(f) ==
    f \in DOMAIN loader.cache => loader.cache[f] < Mtime(f)

IsModified(f) == f \in DOMAIN loader.cache => loader.cache[f] # Mtime(f)

WakeUp ==
    /\ loader.at = "sleep"
    /\ \E f \in Range(Walk) :
          IsFile(f) /\ loader.cache # Put(loader.cache, f, Mtime(f))
    /\ Becomes(engine, [loader EXCEPT !.at = "check", !.todo = Walk])

(* check_for_modified_templates() *)
CheckForModified ==
    /\ loader.at = "check" /\ loader.todo # <<>>
    /\ LET f == Head(loader.todo)
           l == [loader EXCEPT !.todo = Tail(@)]
       IN  Becomes(engine,
               IF ~IsFile(f) THEN l
               ELSE [l EXCEPT !.cache = Put(@, f, Mtime(f)),
                              !.changed = IF IsModified(f) THEN Append(@, f)
                                          ELSE @])

EndOfCheck ==
    /\ loader.at = "check" /\ loader.todo = <<>>
    /\ Becomes(engine, [loader EXCEPT
           !.at = IF loader.changed = <<>> THEN "sleep" ELSE "relate"])


(* The compiled templates that depend on the one of this file. *)
Dependants(file) ==
    LET hash == loader.paths[file]
        metas == SelectSeq(engine.loaded, LAMBDA m : hash \in m.deps)
        hashes == [i \in DOMAIN metas |-> metas[i].hash]
    IN  SelectSeq(hashes, LAMBDA h : h \in DOMAIN loader.hashes)

(* reload_templates(), for each changed file in turn: first what depends   *)
(* on it, ...                                                              *)
Relate ==
    /\ loader.at = "relate" /\ loader.changed # <<>>
    /\ LET file == Head(loader.changed)
       IN  Becomes(engine, [loader EXCEPT !.at = "replace",
               !.related = IF file \in DOMAIN loader.paths
                           THEN Dependants(file) ELSE <<>>])

ReloadDependant ==
    /\ loader.at = "replace" /\ loader.related # <<>>
    /\ LET hash == Head(loader.related)
           file == loader.hashes[hash]
       IN  Becomes(AddToEngine(file, RemoveTemplate(engine, hash)),
                   [Added(loader, file) EXCEPT !.related = Tail(@)])

(* ... then the template itself. *)
Reload ==
    /\ loader.at = "replace" /\ loader.related = <<>>
    /\ LET file == Head(loader.changed)
           e == IF file \in DOMAIN loader.paths
                THEN RemoveTemplate(engine, loader.paths[file]) ELSE engine
       IN  Becomes(AddToEngine(file, e),
                   [Added(loader, file) EXCEPT
                       !.changed = Tail(@), !.at = "relate"])

Compile ==
    /\ loader.at = "relate" /\ loader.changed = <<>>
    /\ Becomes(CompileTemplates(DropStale(engine)),
               [loader EXCEPT !.at = "sleep"])

LoaderNext ==
    \/ Start \/ WakeUp \/ CheckForModified \/ EndOfCheck \/ Relate
    \/ ReloadDependant \/ Reload \/ Compile
-----------------------------------------------------------------------------
(* What a template should render: the texts of its nodes, or those of its  *)
(* parent with its own blocks in place of the parent's.                    *)

FileOf(name) ==
    LET found == SelectSeq(Walk, LAMBDA f : NameOf(f) = name /\ IsFile(f))
    IN  IF found = <<>> THEN <<"none", name>> ELSE Head(found)

IncludesOf(c) ==
    {c.nodes[i].name :
        i \in {j \in DOMAIN c.nodes : c.nodes[j].kind = "include"}}
BlocksOf(c) ==
    {c.nodes[i].name :
        i \in {j \in DOMAIN c.nodes : c.nodes[j].kind = "block"}}

RECURSIVE Tree(_)
Tree(file) ==
    LET c == Content(file)
        own == FlattenSeq([i \in DOMAIN c.nodes |->
            IF c.nodes[i].kind = "include" THEN Tree(FileOf(c.nodes[i].name))
            ELSE <<c.nodes[i]>>])
        Over(n) == IF n.kind = "block" /\ n.name \in BlocksOf(c)
                   THEN SelectLastInSeq(own, LAMBDA m : m.kind = "block" /\
                                                        m.name = n.name)
                   ELSE 0
        parent == Tree(FileOf(c.extends))
    IN  IF c.extends = "none" THEN own
        ELSE [i \in DOMAIN parent |-> IF Over(parent[i]) = 0 THEN parent[i]
                                      ELSE own[Over(parent[i])]]

Meaning(file) == LET tree == Tree(file)
                 IN  [i \in DOMAIN tree |-> tree[i].text]

(* Of these templates the trees are their own: none that was loaded ever   *)
(* extended or included them, what they include is plain text, and what    *)
(* they extend is that with blocks, all of which they override; and none   *)
(* of these files is a copy.  The trees of the others are changed by their *)
(* relatives, or not recompiled after them; of two files with one content  *)
(* the engine forgets both when it reloads one.                            *)
Relatives(file) ==
    {c \in DOMAIN loader.hashes :
        c.extends = NameOf(file) \/ NameOf(file) \in IncludesOf(c)}

NamesIn(c) == (IncludesOf(c) \cup {c.extends}) \ {"none"}

Clear(file) ==
    LET c == Content(file)
        parent == Content(FileOf(c.extends))
        There(name) == FileOf(name) \in Range(Walk)
        IsText(name) ==
            /\ There(name) /\ Content(FileOf(name)).extends = "none"
            /\ IncludesOf(Content(FileOf(name))) = {}
            /\ \A r \in Relatives(FileOf(name)) : r.extends # name
        all == {file} \cup {FileOf(name) : name \in NamesIn(c)}
    IN  /\ Relatives(file) = {}
        /\ all \cap loader.copies = {}
        /\ \A name \in IncludesOf(c) : IsText(name)
        /\ c.extends # "none" =>
              /\ There(c.extends)
              /\ parent.extends = "none" /\ IncludesOf(parent) = {}
              /\ BlocksOf(parent) \subseteq BlocksOf(c)

(* The loader sleeps and has seen all the files there are. *)
Settled ==
    \/ loader.at = "off" /\ times = {1}
    \/ /\ loader.at = "sleep"
       /\ \A f \in Range(Walk) :
             IsFile(f) => f \in DOMAIN loader.cache /\
                          loader.cache[f] = Mtime(f)
-----------------------------------------------------------------------------
(* render() of a handler, in the event loop: it looks up the template by   *)
(* name and then, by hash, what it was compiled to.  `due` is what it      *)
(* should yield, {} when the loader is in the way.                         *)

Due(name, alone) ==
    LET file == FileOf(name)
    IN  IF alone /\ Settled /\ file \in Range(Walk) /\ Clear(file)
        THEN {Meaning(file)} ELSE {}

Result(name, error, output, alone) ==
    /\ renders' = Append(renders, [error |-> error, output |-> output,
                                   due |-> Due(name, alone)])
    /\ render' = NoRender
    /\ UNCHANGED <<engine, loader>>

Lookup(name) ==
    /\ render = NoRender /\ Len(renders) < MaxRenders
    /\ LET i == IndexOf(engine, name)
       IN  \/ i = 0 /\ Result(name, "TemplateNotFound", <<>>, TRUE)
           \/ /\ i # 0
              /\ render' = [name |-> name, alone |-> TRUE,
                            hash |-> engine.templates[i].hash]
              /\ UNCHANGED <<engine, loader, renders>>

Render ==
    /\ render # NoRender
    /\ LET known == render.hash \in DOMAIN engine.compiled
       IN  Result(render.name,
                  IF known THEN "none" ELSE "not compiled",
                  IF known THEN engine.compiled[render.hash] ELSE <<>>,
                  render.alone)

TemplatesNext ==
    \/ LoaderNext
    \/ \E f \in Range(Walk) : Lookup(NameOf(f))
    \/ Render
-----------------------------------------------------------------------------
(* Once the loader has caught up with the files and until it works again,  *)
(* a template renders what its file and those it includes and extends say, *)
(* whatever was edited in which order; and a render does not fail.         *)
(* Except: the tree is not the template's own, or a file was the copy of   *)
(* another (TemplateLoader and TemplateEngine).                            *)
RendersAreCurrent ==
    \A i \in DOMAIN renders :
        renders[i].due # {} => /\ renders[i].error = "none"
                               /\ renders[i].output \in renders[i].due

(* What ends the loader's thread, when it ends: the file that it is to     *)
(* read is gone or malformed; ...                                          *)
ToRead ==
    IF loader.at = "start" THEN Range(Walk)
    ELSE Range(loader.changed)
             \cup {loader.hashes[h] : h \in Range(loader.related)}
IsMissing == \E f \in ToRead : ~IsFile(f)
IsMalformed(error) ==
    \E f \in ToRead : IsFile(f) /\ error \in Range(TextsOf(Content(f)))

(* ... a template has an expression that is none; ... *)
Contents == {engine'.templates[i].hash : i \in DOMAIN engine'.templates}
HasError(error) == \E c \in Contents : error \in Range(TextsOf(c))

(* ... or it wants one that no file has, or that was lost with its copy;   *)
(* ...                                                                     *)
WantsUnknown ==
    \E c \in Contents : \E name \in NamesIn(c) :
        \A f \in DOMAIN loader'.paths :
            NameOf(f) = name => f \in loader.copies

(* ... or there are grandchildren: when a template and its parent are      *)
(* edited together, sync_cache() drops the grandchild from the dict it     *)
(* iterates over.                                                          *)
HasGrandchild ==
    \E c \in {m.hash : m \in Range(engine.loaded)} :
        \E parent \in DOMAIN loader.hashes :
            /\ c.extends = NameOf(loader.hashes[parent])
            /\ parent.extends # "none"

=============================================================================
