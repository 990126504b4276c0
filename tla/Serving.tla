------------------------------ MODULE Serving ------------------------------
(***************************************************************************)
(* An application that is put together and then serves one connection:     *)
(* registration in any order, routing through the cache, and the tasks of  *)
(* handle_request and handle_exception (vibora/protocol/cprotocol.pyx)     *)
(* with hooks, cache engines, components and exception handlers.  Module   *)
(* Connection has the same tasks with bodies, timers and flow control.     *)
(*                                                                         *)
(* Tasks interleave where a coroutine may suspend: in asynchronous hooks   *)
(* and engines and in the endpoint.  `cpu` is the task that runs on.       *)
(***************************************************************************)
EXTENDS Blueprints

CONSTANTS
    MaxRequests,  \* bound: requests of the connection
    Setups        \* what is registered, what the client may ask for and how
                  \* often

ASSUME RequestsAssumption ==
    MaxRequests \in Nat /\ \A s \in Setups : s.requests \in 0..MaxRequests

(* Routes and exception handlers say which blueprint they belong to; an    *)
(* application is in no blueprint, and blueprints are nested Depth deep.   *)
ASSUME SetupsAssumption ==
    \A s \in Setups :
        /\ s.strategy \in Strategies
        /\ \A c \in s.calls :
              /\ c.in \in Blueprints
              /\ c.op = "route" => c.route \in RoutesOf({c.in})
              /\ c.op = "handler" =>
                    c.handler.in = c.in /\ c.handler.class \in DOMAIN Supers
              /\ c.op = "blueprint" =>
                    /\ c.child \in Blueprints \ {App}
                    /\ c.prefixes \in Seq(Seq(STRING))
                    /\ c.in # App =>
                          \A d \in s.calls :
                              d.op = "blueprint" /\ d.child = c.in
                                  => d.in = App

Requests == 1..MaxRequests
None == 0

VARIABLES
    setup,    \* one of Setups
    calls,    \* registration calls that are still to be made
    late,     \* history: hooks given to a blueprint after its registration
    serving,  \* initialize() has run
    bps,      \* the blueprints
    tables,   \* Router.routes, dynamic_routes, hosts
    cache,    \* Router.cache
    asked,    \* the requests so far, with the routes they got
    at,       \* where the task of each request is in handle_request
    todo,     \* the hooks that it has yet to call
    by,       \* whose response it has
    cpu,      \* the request whose task is running, or None
    index,    \* Connection.components.ephemeral_index
    stored,   \* route.cache: for each handler the request it has answered
    errors,   \* tasks of handle_exception
    trace,    \* history: what ran for a request and whose components it got
    answers,  \* history: who answered each request
    spoilt    \* history: a hook for AFTER_RESPONSE_SENT has failed

application == <<setup, calls, late, serving, bps, tables>>
task == <<at, todo, by>>
vars == <<application, cache, asked, task, cpu, index, stored, errors, trace,
          answers, spoilt>>

Places == {"none", "skip", "before", "fetch", "call", "endpoint", "after",
           "sent", "done", "lost"}

Handlers == {c.route.handler : c \in {d \in setup.calls : d.op = "route"}}

Init ==
    /\ setup \in Setups
    /\ calls = setup.calls /\ late = {} /\ serving = FALSE
    /\ bps = [b \in Blueprints |-> NewBlueprint]
    /\ tables = NoRoutes /\ cache = EmptyCache
    /\ asked = <<>> /\ cpu = None
    /\ at = [r \in Requests |-> "none"]
    /\ todo = [r \in Requests |-> <<>>]
    /\ by = [r \in Requests |-> Nothing]
    /\ index = NoComponents
    /\ stored = [h \in Handlers |-> None]
    /\ errors = {}
    /\ trace = [r \in Requests |-> {}]
    /\ answers = [r \in Requests |-> {}]
    /\ spoilt = FALSE
-----------------------------------------------------------------------------
(* Registration.  A call that raises ends the start-up. *)

Calls(op) ==
    {c \in calls : c.op = op /\ ~serving}

Made(c) ==
    /\ calls' = calls \ {c}
    /\ UNCHANGED <<setup, serving, cache, asked, task, cpu, index, stored,
                   errors, trace, answers, spoilt>>

RegisterRoute(c) ==
    /\ c \in Calls("route")
    /\ bps' = WithRoute(bps, c.in, c.route)
    /\ Made(c)
    /\ UNCHANGED <<late, tables>>

RegisterHook(c) ==
    /\ c \in Calls("hook")
    /\ MayHook(bps[c.in], c.hook)
    /\ bps' = WithHook(bps, c.in, c.hook)
    /\ late' = IF bps[c.in].moved THEN late \cup {c.hook} ELSE late
    /\ Made(c)
    /\ UNCHANGED tables

RegisterHandler(c) ==
    /\ c \in Calls("handler")
    /\ bps' = WithHandler(bps, c.in, c.handler)
    /\ Made(c)
    /\ UNCHANGED <<late, tables>>

NestBlueprint(c) ==
    /\ c \in Calls("blueprint")
    /\ c.in # App /\ bps[c.child].parent = Nothing
    /\ bps' = Nested(bps, c.in, c.child, c.prefixes)
    /\ Made(c)
    /\ UNCHANGED <<late, tables>>

(* The blueprint's routes are registered as they are now. *)
AddBlueprint(c) ==
    /\ c \in Calls("blueprint")
    /\ c.in = App /\ bps[c.child].parent = Nothing
    /\ bps' = WithBlueprint(bps, c.child, c.prefixes)
    /\ tables' = Registered(tables, setup.strategy, bps, c.child, c.prefixes)
    /\ Made(c)
    /\ UNCHANGED late

(* initialize(): all blueprints of the application once more, then its own *)
(* routes.                                                                 *)
Initialize ==
    /\ ~serving /\ calls = {}
    /\ serving' = TRUE
    /\ bps' = [bps EXCEPT ![App].handlers = WithDefaults(@)]
    /\ tables' = AddRoute(Registered(tables, setup.strategy, bps, App,
                                     NoPrefix),
                          "strict", StaticRoute, NoPrefix)
    /\ UNCHANGED <<setup, calls, late, cache, asked, task, cpu, index, stored,
                   errors, trace, answers, spoilt>>
-----------------------------------------------------------------------------
(* The parser's callback. *)

(* Connection.__init__(): any_hooks *)
AnyHooks == \E e \in {"before", "after", "sent"} : ExistsHook(bps, e)

(* The hooks of one event that a task has to call. *)
Todo(event, route) ==
    IF ExistsHook(bps, event) THEN Listeners(bps, route.parent, event)
    ELSE <<>>

Engine(route) == route.engine # Nothing
FastLane(route, async) ==
    Engine(route) /\ route.engine.skip /\ route.engine.async = async

(* How handle_request() begins. *)
FirstStep(route) ==
    IF ~AnyHooks /\ ~Engine(route) THEN "call"
    ELSE IF FastLane(route, TRUE) THEN "skip" ELSE "before"

Answered(r) == answers[r] # {}

(* Fault: nothing is reset. *)
SendOnly(r, who) ==
    /\ answers' = [answers EXCEPT ![r] = @ \cup {who}]
    /\ UNCHANGED index

(* send(), whose after_response() resets the components. *)
Send(r, who) ==
    /\ answers' = [answers EXCEPT ![r] = @ \cup {who}]
    /\ index' = NoComponents

By(kind, who, error) == [kind |-> kind, who |-> who, error |-> error]
HookName(h) == <<h.in, h.id>>
RouteName(route) == <<route.parent, route.handler>>
HandlerName(h) == <<h.in, h.class>>

ClientMayAsk ==
    /\ serving /\ cpu = None /\ Len(asked) < setup.requests
    /\ setup.pipelining \/ \A r \in 1..Len(asked) : Answered(r)

(* get_route() may raise: the callback ends there and nobody is told. *)
OnHeadersComplete(q) ==
    /\ ClientMayAsk
    /\ LET r == Len(asked) + 1
           got == GetRoute(tables, cache, q)
           cached == FastLane(got.route, FALSE)
                        /\ stored[got.route.handler] # None
       IN  /\ cache' = got.cache
           /\ asked' = Append(asked, [query |-> q, route |-> got.route])
           /\ \/ /\ got.route = Unrouted
                 /\ at' = [at EXCEPT ![r] = "lost"]
                 /\ UNCHANGED <<todo, index, answers>>
              \/ /\ got.route # Unrouted /\ cached
                 /\ at' = [at EXCEPT ![r] = "done"]
                 /\ UNCHANGED todo
                 /\ Send(r, By("cache", RouteName(got.route), Nothing))
              \/ /\ got.route # Unrouted /\ ~cached
                 /\ at' = [at EXCEPT ![r] = FirstStep(got.route)]
                 /\ todo' = [todo EXCEPT ![r] = Todo("before", got.route)]
                 /\ index' = Added(Added(index, "Request", r), "Route", r)
                 /\ UNCHANGED answers
    /\ UNCHANGED <<application, by, cpu, stored, errors, trace, spoilt>>
-----------------------------------------------------------------------------
(* handle_request() *)

Runs(r) == cpu \in {None, r}
At(r, places) == Runs(r) /\ at[r] \in places

(* What `wants` asks for: a type or Nothing. *)
CanGet(wants) == wants = Nothing \/ Has(index, wants)
Got(wants) == IF wants = Nothing THEN {} ELSE {Owner(index, wants)}

Note(r, what, wants) ==
    trace' = [trace EXCEPT ![r] =
                 @ \cup {[at |-> at[r], what |-> what,
                          saw |-> Got(wants)]}]

Goto(r, place) == at' = [at EXCEPT ![r] = place]
SetTodo(r, hooks) == todo' = [todo EXCEPT ![r] = hooks]

(* `except Exception`: the error is a component of its handler. *)
Raise(r, class) ==
    /\ Goto(r, "done")
    /\ SetTodo(r, <<>>)
    /\ index' = Added(index, class, r)
    /\ errors' = errors \cup {[request |-> r, class |-> class, at |-> at[r]]}
    /\ cpu' = None
    /\ UNCHANGED by

(* One hook of the event that is being called. *)
Calling(r) == At(r, {"before", "after", "sent"}) /\ todo[r] # <<>>

HookFails(r) ==
    /\ Calling(r)
    /\ LET h == Head(todo[r])
       IN  \/ /\ ~CanGet(h.wants)
              /\ Raise(r, Failure(index, h.wants))
              /\ UNCHANGED trace
           \/ /\ CanGet(h.wants) /\ "raise" \in h.does
              /\ Raise(r, "A")
              /\ Note(r, HookName(h), h.wants)
    /\ spoilt' = (spoilt \/ at[r] = "sent")
    /\ UNCHANGED <<application, cache, asked, stored, answers>>

HookPasses(r) ==
    /\ Calling(r)
    /\ LET h == Head(todo[r])
       IN  /\ CanGet(h.wants) /\ "pass" \in h.does
           /\ Note(r, HookName(h), h.wants)
           /\ SetTodo(r, Tail(todo[r]))
           /\ cpu' = IF h.async THEN None ELSE r
    /\ UNCHANGED <<application, cache, asked, at, by, index, stored, errors,
                   answers, spoilt>>

(* A hook that returns something ends the call of hooks: the response of   *)
(* the request, or its new response.                                       *)
HookReturns(r) ==
    /\ Calling(r)
    /\ LET h == Head(todo[r])
           who == By("hook", HookName(h), Nothing)
       IN  /\ CanGet(h.wants) /\ "return" \in h.does
           /\ Note(r, HookName(h), h.wants)
           /\ \/ /\ at[r] = "before"
                 /\ Goto(r, "done")
                 /\ Send(r, who)
                 /\ UNCHANGED by
              \/ /\ at[r] # "before"
                 /\ by' = [by EXCEPT ![r] = who]
                 /\ UNCHANGED <<at, index, answers>>
           /\ cpu' = IF h.async \/ at[r] = "before" THEN None ELSE r
    /\ SetTodo(r, <<>>)
    /\ UNCHANGED <<application, cache, asked, stored, errors, spoilt>>

Stored(r) == stored[asked[r].route.handler] # None

(* An asynchronous engine that skips hooks is asked before the hooks. *)
AskEngineFirst(r) ==
    /\ At(r, {"skip"})
    /\ \/ /\ Stored(r)
          /\ Send(r, By("cache", RouteName(asked[r].route), Nothing))
          /\ Goto(r, "done")
          /\ cpu' = None
       \/ /\ ~Stored(r)
          /\ Goto(r, "before")
          /\ cpu' = r
          /\ UNCHANGED <<index, answers>>
    /\ UNCHANGED <<application, cache, asked, todo, by, stored, errors, trace,
                   spoilt>>

BeforeDone(r) ==
    /\ At(r, {"before"}) /\ todo[r] = <<>>
    /\ Goto(r, IF Engine(asked[r].route) THEN "fetch" ELSE "call")
    /\ cpu' = IF Engine(asked[r].route) /\ asked[r].route.engine.async
              THEN None ELSE r
    /\ UNCHANGED <<application, cache, asked, todo, by, index, stored, errors,
                   trace, answers, spoilt>>

(* The response is there: it becomes a component for the hooks. *)
Responded(r, who) ==
    /\ Goto(r, "after")
    /\ SetTodo(r, Todo("after", asked[r].route))
    /\ by' = [by EXCEPT ![r] = who]
    /\ index' = IF ExistsHook(bps, "after") THEN Added(index, "Response", r)
                ELSE index

AskEngine(r) ==
    /\ At(r, {"fetch"})
    /\ \/ /\ Stored(r)
          /\ Responded(r, By("cache", RouteName(asked[r].route), Nothing))
       \/ /\ ~Stored(r)
          /\ Goto(r, "call")
          /\ UNCHANGED <<todo, by, index>>
    /\ cpu' = r
    /\ UNCHANGED <<application, cache, asked, stored, errors, trace, answers,
                   spoilt>>

(* route.call_handler(), up to the endpoint's first suspension. *)
CallHandler(r) ==
    /\ At(r, {"call"})
    /\ LET route == asked[r].route
           wants == IF route.wants THEN "Request" ELSE Nothing
       IN  \/ /\ CanGet(wants)
              /\ Note(r, RouteName(route), wants)
              /\ Goto(r, "endpoint")
              /\ cpu' = None
              /\ UNCHANGED <<todo, by, index, errors>>
           \/ /\ ~CanGet(wants)
              /\ Raise(r, Failure(index, wants))
              /\ UNCHANGED trace
    /\ UNCHANGED <<application, cache, asked, stored, answers, spoilt>>

EndpointReturns(r) ==
    /\ At(r, {"endpoint"}) /\ asked[r].route.raises = Nothing
    /\ Responded(r, By("endpoint", RouteName(asked[r].route), Nothing))
    /\ stored' = IF Engine(asked[r].route)
                 THEN [stored EXCEPT ![asked[r].route.handler] = r]
                 ELSE stored
    /\ cpu' = r
    /\ UNCHANGED <<application, cache, asked, errors, trace, answers, spoilt>>

EndpointRaises(r) ==
    /\ At(r, {"endpoint"}) /\ asked[r].route.raises # Nothing
    /\ Raise(r, asked[r].route.raises)
    /\ UNCHANGED <<application, cache, asked, stored, trace, answers, spoilt>>

Respond(r) ==
    /\ At(r, {"after"}) /\ todo[r] = <<>>
    /\ Send(r, by[r])
    /\ Goto(r, "sent")
    /\ SetTodo(r, Todo("sent", asked[r].route))
    /\ cpu' = r
    /\ UNCHANGED <<application, cache, asked, by, stored, errors, trace,
                   spoilt>>

HandleRequestEnds(r) ==
    /\ At(r, {"sent"}) /\ todo[r] = <<>>
    /\ Goto(r, "done")
    /\ cpu' = None
    /\ UNCHANGED <<application, cache, asked, todo, by, index, stored, errors,
                   trace, answers, spoilt>>
-----------------------------------------------------------------------------
(* handle_exception(): the first handler that neither declines nor fails   *)
(* for want of a component.                                                *)

Tries(e) == HandlersTried(bps, asked[e.request].route.parent, e.class)
Decides(e) ==
    SelectInSeq(Tries(e), LAMBDA h : ~h.declines \/ ~CanGet(h.wants))
Handles(e) == Decides(e) # 0 /\ CanGet(Tries(e)[Decides(e)].wants)

HandleException(e) ==
    /\ cpu = None /\ e \in errors /\ Handles(e)
    /\ errors' = errors \ {e}
    /\ LET h == Tries(e)[Decides(e)]
       IN  /\ trace' = [trace EXCEPT ![e.request] =
                  @ \cup {[at |-> e.at, what |-> HandlerName(h),
                            saw |-> Got(h.wants)]}]
           /\ Send(e.request, By("handler", HandlerName(h), e))
    /\ UNCHANGED <<application, cache, asked, task, cpu, stored, spoilt>>

(* Nobody handles what this task raises. *)
HandleExceptionFails(e) ==
    /\ cpu = None /\ e \in errors /\ ~Handles(e)
    /\ errors' = errors \ {e}
    /\ UNCHANGED <<application, cache, asked, task, cpu, index, stored, trace,
                   answers, spoilt>>
-----------------------------------------------------------------------------
Register ==
    \/ \E c \in calls : \/ RegisterRoute(c) \/ RegisterHook(c)
                        \/ RegisterHandler(c)
                        \/ NestBlueprint(c) \/ AddBlueprint(c)
    \/ Initialize

HandleRequest(r) ==
    \/ HookFails(r) \/ HookPasses(r) \/ HookReturns(r)
    \/ AskEngineFirst(r) \/ BeforeDone(r) \/ AskEngine(r)
    \/ CallHandler(r) \/ EndpointReturns(r) \/ EndpointRaises(r)
    \/ Respond(r) \/ HandleRequestEnds(r)

Next ==
    \/ Register
    \/ \E q \in setup.queries : OnHeadersComplete(q)
    \/ \E r \in Requests : HandleRequest(r)
    \/ \E e \in errors : HandleException(e) \/ HandleExceptionFails(e)

Spec == Init /\ [][Next]_vars
-----------------------------------------------------------------------------
(* A request gets the route that the tables hold for it, though it comes   *)
(* from a cache filled by other methods, URLs and hosts, as long as the    *)
(* cache has not been full (Router.get_route()).                           *)
RouteIsTheTables ==
    cache.size <= MaxSize + 1 =>
        \A r \in 1..Len(asked) :
            asked[r].route = Lookup(tables, asked[r].query)

RouteCalls == {c \in setup.calls : c.op = "route"}

(* The prefixes under which the routes of a blueprint should be found. *)
PrefixesOf(b) ==
    LET links == {c \in setup.calls : c.op = "blueprint"}
        of[n \in 0..Depth] ==
            [x \in Blueprints |->
                IF x = App THEN {<<>>} ELSE IF n = 0 THEN {}
                ELSE UNION {{p \o c.prefixes[i] : p \in of[n - 1][c.in],
                                                  i \in DOMAIN c.prefixes} :
                            c \in {l \in links : l.child = x}}]
    IN  of[Depth][b]

Filled(pattern) ==
    [i \in DOMAIN pattern |-> IF pattern[i] = "*" THEN "x" ELSE pattern[i]]
Spelt(url) ==
    IF Last(url) # "/" THEN Append(url, "/")
    ELSE IF Len(url) = 1 THEN url ELSE Front(url)

(* What the routes were registered for: each pattern under each prefix     *)
(* and, if that is the strategy, the pattern with the other slash.  The    *)
(* redirects of a route with several prefixes lead to one of them.         *)
Claims ==
    LET Own(c, p) ==
            [handler |-> c.route.handler, parent |-> c.in,
             path |-> p \o c.route.pattern, methods |-> c.route.methods,
             hosts |-> ToSet(c.route.hosts), targets |-> {Nothing}]
        Redirect(c, p) ==
            [Own(c, p) EXCEPT !.handler = "redirect", !.methods = {"GET"},
                !.path = Spelt(@),
                !.targets = {q \o c.route.pattern : q \in PrefixesOf(c.in)}]
        Clone(c, p) == [Own(c, p) EXCEPT !.path = Spelt(@)]
    IN  UNION {UNION {
            IF setup.strategy = "strict" \/ c.route.dynamic
                  \/ "GET" \notin c.route.methods
            THEN {Own(c, p)}
            ELSE IF setup.strategy = "clone" THEN {Own(c, p), Clone(c, p)}
            ELSE {Own(c, p), Redirect(c, p)} :
                p \in PrefixesOf(c.in)} : c \in RouteCalls}

Claimed(claims, url, m, host) ==
    {y \in claims : /\ m \in y.methods /\ Matches(y.path, url)
                    /\ host \in (IF y.hosts = {} THEN {NoHost} ELSE y.hosts)}

(* Whatever the order in which routes and blueprints were registered, each *)
(* URL for which there is a route is answered by a route that was          *)
(* registered for it, so by that one if it is the only one.  There are     *)
(* others if patterns overlap or differ in the slash alone, and a redirect *)
(* of "/", which leads to "/", has its own pattern.  A host is one whose   *)
(* first pattern is the route's (add_route(), add_blueprint(),             *)
(* initialize()).                                                          *)
EveryRouteIsServed ==
    serving =>
        LET claims == Claims
        IN  \A x \in claims : \A m \in x.methods :
                \A host \in (IF x.hosts = {} THEN {NoHost} ELSE x.hosts) :
            LET url == Filled(x.path)
                first == tables.hosts[HostOf(tables, host)].host = host
                found == IF host = NoHost THEN FindRoute(tables, url, m)
                         ELSE FindRouteByHost(tables, url, m, host)
            IN  host = NoHost \/ first =>
                    \E y \in Claimed(claims, url, m, host) :
                        /\ found.handler = y.handler /\ found.parent = y.parent
                        /\ found.target \in y.targets

Direct(b) == bps[b].parent = App

(* The hooks that must let a request pass before a route of `b` answers:   *)
(* the application's, those of its direct children that are not local, and *)
(* b's own.  exists_hook() does not look for those of nested blueprints,   *)
(* and a listener given to a blueprint late stays local.                   *)
Guards(b) ==
    {c.hook : c \in {d \in setup.calls :
        /\ d.op = "hook" /\ d.hook.event = "before"
        /\ \/ d.in = App
           \/ ~d.hook.local /\ Direct(d.in) /\ d.hook \notin late
           \/ d.in = b /\ Direct(b)}}

(* No endpoint runs before all hooks for BEFORE_ENDPOINT that guard it     *)
(* have run, wherever and in whatever order hooks, routes and blueprints   *)
(* were registered (add_blueprint(), exists_hook(), call_hooks()).         *)
EndpointIsGuarded ==
    \A r \in 1..Len(asked) :
        LET route == asked[r].route
            ran == {o.what : o \in {n \in trace[r] : n.at = "before"}}
        IN  (\E o \in trace[r] : o.at = "call")
                => \A h \in Guards(route.parent) : HookName(h) \in ran

(* Hooks, endpoint and exception handlers of a request get the components  *)
(* of that request, never those an earlier request of the connection left  *)
(* behind.  Pipelined requests share the components, and hooks for         *)
(* AFTER_RESPONSE_SENT, which run when the components are gone, spoil them *)
(* for the next request when they fail (ComponentsEngine.reset()).         *)
OwnComponents ==
    ~setup.pipelining /\ ~spoilt =>
        \A r \in Requests : \A o \in trace[r] :
            o.at # "sent" => o.saw \subseteq {r}

Willing(b, class) ==
    {h \in {bps[b].handlers[i] : i \in DOMAIN bps[b].handlers} :
        ~h.declines /\ h.class \in Supers[class]}

Below(b, in) ==
    IF b = in THEN {} ELSE IF bps[b].parent = in THEN {b}
    ELSE {b, bps[b].parent}

(* An exception is answered by a handler of the nearest blueprint that has *)
(* a willing one, for exactly its class if there is one there, and at the  *)
(* application by none for a superclass of a class another handles         *)
(* (process_exception(), sort_error_handlers()).                           *)
MostSpecificAnswers ==
    \A r \in Requests : \A answer \in answers[r] :
        answer.kind = "handler" =>
            LET in == answer.who[1]
                class == answer.who[2]
                thrown == answer.error.class
            IN  /\ \A b \in Below(asked[r].route.parent, in) :
                        Willing(b, thrown) = {}
                /\ \A h \in Willing(in, thrown) :
                        /\ h.class = thrown => class = thrown
                        /\ in = App /\ class \in Supers[h.class]
                              => class = h.class
=============================================================================
