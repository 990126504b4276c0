----------------------------- MODULE Blueprints -----------------------------
(***************************************************************************)
(* The tree of blueprints that an application is made of, and what is      *)
(* registered with them: vibora/blueprints.py, application.py and the      *)
(* parts of server.py that complete it.  `bps` gives for each blueprint    *)
(* its routes, hooks, exception handlers (an ordered dictionary) and       *)
(* children; the application is the blueprint App.                         *)
(***************************************************************************)
EXTENDS Router, Components

CONSTANT Blueprints

ASSUME BlueprintsAssumption ==
    /\ App \in Blueprints /\ Nothing \notin Blueprints
    /\ {"Exception", "NotFound", "MethodNotAllowed", "MissingComponent",
        "ValueError"} \subseteq DOMAIN Supers

NewBlueprint ==
    [parent |-> Nothing, routes |-> <<>>, hooks |-> <<>>, handlers |-> <<>>,
     children |-> <<>>, moved |-> FALSE]

NoPrefix == <<<<>>>>

(* route(): the blueprint's hosts and limits are part of the route. *)
WithRoute(bps, b, route) == [bps EXCEPT ![b].routes = Append(@, route)]

SameKind(h, g) == h.event = g.event /\ h.async = g.async

(* add_hook(): after application.add_blueprint() the dictionaries have the *)
(* keys of the listeners that were left, others are a KeyError.            *)
MayHook(bp, h) ==
    bp.moved => \E i \in DOMAIN bp.hooks : SameKind(bp.hooks[i], h)

WithHook(bps, b, h) == [bps EXCEPT ![b].hooks = Append(@, h)]

(* `exception_handlers[v] = ...` of handle(); a key stays where it is. *)
SetHandler(handlers, h) ==
    LET same == {i \in DOMAIN handlers : handlers[i].class = h.class}
    IN  IF same = {} THEN Append(handlers, h)
        ELSE [i \in DOMAIN handlers |->
                 IF i \in same THEN h ELSE handlers[i]]

WithHandler(bps, b, h) == [bps EXCEPT ![b].handlers = SetHandler(@, h)]

(* Blueprint.add_blueprint(), and what application.add_blueprint() shares  *)
(* with it.                                                                *)
Nested(bps, b, child, prefixes) ==
    [bps EXCEPT ![child].parent = b,
                ![b].children =
                    Append(@, [child |-> child, prefixes |-> prefixes])]

(* The elements of s at some indices, and those that pass a test, in the   *)
(* order of s: SelectSeq(), as a fold that proofs can expand.              *)
Chosen(s, indices) ==
    FoldLeftDomain(LAMBDA t, i : IF i \in indices THEN Append(t, s[i]) ELSE t,
                   <<>>, s)

Only(s, Test(_)) == Chosen(s, {i \in DOMAIN s : Test(s[i])})
-----------------------------------------------------------------------------
(* application.add_blueprint() *)

(* The calls of router.add_route() that registering b makes: for each      *)
(* prefix all nested blueprints, then b's own routes.  Depth bounds the    *)
(* nesting.                                                                *)
Depth == 2

Under(prefix, calls) ==
    [i \in DOMAIN calls |->
        [calls[i] EXCEPT !.prefixes = [j \in DOMAIN @ |-> prefix \o @[j]]]]

Registrations(bps, root, prefixes) ==
    LET Own(b, ps) ==
            [i \in DOMAIN bps[b].routes |->
                [route |-> bps[b].routes[i], prefixes |-> ps]]
        Inner(b, p, below) ==
            FlattenSeq([i \in DOMAIN bps[b].children |->
                LET c == bps[b].children[i]
                IN  FlattenSeq([j \in DOMAIN c.prefixes |->
                        Under(p \o c.prefixes[j], below[c.child])])])
        all[n \in 0..Depth - 1] ==
            [b \in Blueprints |->
                (IF n = 0 THEN <<>> ELSE Inner(b, <<>>, all[n - 1]))
                    \o Own(b, NoPrefix)]
    IN  FlattenSeq([j \in DOMAIN prefixes |->
            Inner(root, prefixes[j], all[Depth - 1])]) \o Own(root, prefixes)

Registered(tables, strategy, bps, b, prefixes) ==
    FoldLeft(LAMBDA t, c : AddRoute(t, strategy, c.route, c.prefixes),
             tables, Registrations(bps, b, prefixes))

(* Fault: only hooks for coroutines are looked through. *)
MovedAsyncOnly(bps, b) ==
    LET global == Only(bps[b].hooks, LAMBDA h : ~h.local /\ h.async)
        local == Only(bps[b].hooks, LAMBDA h : h.local)
    IN  [bps EXCEPT ![App].hooks = @ \o global, ![b].hooks = local,
                    ![b].moved = TRUE]

(* Listeners that are not local become the application's. *)
Moved(bps, b) ==
    LET global == Only(bps[b].hooks, LAMBDA h : ~h.local)
        local == Only(bps[b].hooks, LAMBDA h : h.local)
    IN  [bps EXCEPT ![App].hooks = @ \o global, ![b].hooks = local,
                    ![b].moved = TRUE]

WithBlueprint(bps, child, prefixes) ==
    Moved(Nested(bps, App, child, prefixes), child)
-----------------------------------------------------------------------------
(* server.py *)

(* Fault: the order of registration is kept. *)
KeepErrorHandlers(handlers) == handlers

(* sort_error_handlers(): the keys are taken from the right; one that has  *)
(* a superclass among those that are left is put back at the left.         *)
SortErrorHandlers(handlers) ==
    LET Step(s, i) ==
            IF s.keys = <<>> THEN s
            ELSE LET key == Last(s.keys)
                     rest == Front(s.keys)
                     found == \E j \in DOMAIN rest :
                                rest[j].class \in Supers[key.class]
                 IN  IF found THEN [s EXCEPT !.keys = <<key>> \o rest]
                     ELSE [keys |-> rest, cache |-> Append(s.cache, key)]
        n == Len(handlers)
        turns == [i \in 1..n * n |-> i]
    IN  Reverse(FoldLeft(Step, [keys |-> handlers, cache |-> <<>>],
                         turns).cache)

DefaultHandler(class, wants) ==
    [in |-> App, class |-> class, wants |-> wants, declines |-> FALSE]

(* _add_default_routes(), _add_default_error_handlers(): the handler for   *)
(* MissingComponent replaces the application's.                            *)
WithDefaults(handlers) ==
    LET Missing(hs, h) ==
            IF \E i \in DOMAIN hs : hs[i].class = h.class THEN hs
            ELSE Append(hs, h)
        forced == SetHandler(handlers, DefaultHandler("MissingComponent",
                                                      "MissingComponent"))
        defaults == <<DefaultHandler("Exception", "Exception"),
                      DefaultHandler("NotFound", Nothing),
                      DefaultHandler("MethodNotAllowed", "Request")>>
    IN  SortErrorHandlers(FoldLeft(Missing, forced, defaults))

(* _configure_static_files() *)
StaticRoute ==
    Route("static", <<"static", "*">>, {"GET", "HEAD"}, App)
-----------------------------------------------------------------------------
(* Dispatch *)

(* exists_hook(): of the application and the blueprints added to it. *)
ExistsHook(bps, event) ==
    LET looked == {App} \cup
                  {bps[App].children[i].child : i \in DOMAIN bps[App].children}
    IN  \E b \in looked : \E i \in DOMAIN bps[b].hooks :
            bps[b].hooks[i].event = event

(* The hooks of one target of call_hooks(), functions before coroutines. *)
Target(bps, b, event) ==
    Only(bps[b].hooks, LAMBDA h : h.event = event /\ ~h.async)
        \o Only(bps[b].hooks, LAMBDA h : h.event = event /\ h.async)

(* call_hooks(): the route's blueprint, then the application. *)
Listeners(bps, parent, event) ==
    (IF parent = App THEN <<>> ELSE Target(bps, parent, event))
        \o Target(bps, App, event)

(* The handlers of one blueprint in the order process_exception() tries    *)
(* them: that of the exception's own class, then those of superclasses.    *)
Tried(handlers, class) ==
    Only(handlers, LAMBDA h : h.class = class)
        \o Only(handlers, LAMBDA h : h.class # class
                                     /\ h.class \in Supers[class])

(* process_exception(): the blueprint, its parent, and so on. *)
ProcessException(bps, b, class) ==
    LET up[n \in 0..Depth] ==
            [c \in Blueprints |->
                Tried(bps[c].handlers, class)
                    \o IF n = 0 \/ bps[c].parent = Nothing THEN <<>>
                       ELSE up[n - 1][bps[c].parent]]
    IN  up[Depth][b]

(* handle_exception() asks the application again when nobody answered. *)
HandlersTried(bps, parent, class) ==
    (IF parent = Nothing THEN <<>> ELSE ProcessException(bps, parent, class))
        \o ProcessException(bps, App, class)
=============================================================================
