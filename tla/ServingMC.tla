----------------------------- MODULE ServingMC -----------------------------
(* An instance of Serving for TLC: small applications and their clients.   *)
EXTENDS Serving

CONSTANTS Child, Leaf

MCSupers ==
    [c \in {"Exception", "A", "B", "NotFound", "MethodNotAllowed",
            "MissingComponent", "ValueError", "Request", "Route",
            "Response"} |->
        CASE c = "B" -> {"B", "A", "Exception"}
          [] c \in {"Request", "Route", "Response"} -> {c}
          [] OTHER -> {c, "Exception"}]

Get == {"GET"}
Simple(b, name) == Route(name, <<name>>, Get, b)

Routed(route) == [op |-> "route", in |-> route.parent, route |-> route]
Hooked(b, event, async, local, wants, does) ==
    [op |-> "hook", in |-> b,
     hook |-> [in |-> b, id |-> event, event |-> event, async |-> async,
               local |-> local, wants |-> wants, does |-> does]]
Handled(b, class, wants, declines) ==
    [op |-> "handler", in |-> b,
     handler |-> [in |-> b, class |-> class, wants |-> wants,
                  declines |-> declines]]
Joined(b, child, prefixes) ==
    [op |-> "blueprint", in |-> b, child |-> child, prefixes |-> prefixes]

Ask(url, method, host) == [url |-> url, method |-> method, host |-> host]

Setup(made, queries) ==
    [calls |-> made, queries |-> queries, strategy |-> "clone",
     requests |-> 2, pipelining |-> FALSE]

(* Static and dynamic routes, methods and prefixes; every strategy.        *)
Routing ==
    LET made == {Routed(Simple(App, "home")),
                 Routed(Route("item", <<"p", "*">>, {"GET", "POST"}, Child)),
                  Routed(Route("save", <<"q", "/">>, {"GET", "POST"}, Leaf)),
                  Joined(App, Child, <<<<"v1">>, <<"v2">>>>),
                  Joined(Child, Leaf, <<<<"in">>>>)}
        queries == {Ask(<<"v1", "p", "x">>, m, "h") : m \in {"GET", "PUT"}}
                   \cup {Ask(<<"home">>, m, "h") : m \in {"GET", "POST"}}
                   \cup {Ask(<<"v1", "p", "y">>, "GET", "h")}
    IN  {[Setup(made, queries) EXCEPT !.strategy = s, !.requests = 3] :
           s \in Strategies}
        \cup {[Setup((made \ {Joined(App, Child, <<<<"v1">>, <<"v2">>>>)})
                        \cup {Joined(App, Child, <<<<"v1">>>>)}, queries)
                 EXCEPT !.strategy = "redirect"]}

(* "/", and patterns that differ in the slash or that another one matches. *)
Overlapping ==
    LET made == {Routed(Route("root", <<"/">>, Get, App)),
                 Routed(Route("bare", <<"a">>, Get, App)),
                 Routed(Route("slash", <<"a", "/">>, {"GET", "POST"}, Child)),
                 Routed(Route("any", <<"*">>, Get, App)),
                 Joined(App, Child, NoPrefix)}
        queries == {Ask(url, "GET", "h") :
                       url \in {<<"/">>, <<"a">>, <<"a", "/">>, <<"b">>}}
    IN  {[Setup(made, queries) EXCEPT !.strategy = s] : s \in Strategies}

(* The same URL on two hosts and on none, and on all others. *)
Hosting ==
    LET On(name, hosts) == [Route(name, <<"a">>, Get, App)
                               EXCEPT !.hosts = hosts]
    IN  {[Setup({Routed(On("one", <<"h1">>)), Routed(On("two", <<"h2">>)),
                 Routed(On("all", <<>>))} \cup more,
                {Ask(<<"a">>, "GET", h) : h \in {"h1", "h2", "h3", NoHost}})
            EXCEPT !.requests = 3] :
              more \in {{}, {Routed(On("any", <<AnyHost>>))}}}

(* Hooks in three blueprints, engines that skip them or not. *)
Hooking ==
    LET static == [async |-> FALSE, skip |-> TRUE]
        Page(b, e) == [Simple(b, "page") EXCEPT !.engine = e, !.wants = TRUE]
        any == {"pass", "return", "raise"}
        joined == {Joined(App, Child, NoPrefix)}
        asks == {Ask(<<"page">>, "GET", "h")}
    IN  {Setup(joined \cup
               {Routed(Page(Child, e)),
                Hooked(Child, "before", FALSE, local, "Request", any),
                Hooked(App, "after", TRUE, TRUE, "Response",
                       {"pass", "return"})}
               \cup more, asks) :
             e \in {Nothing, static, [static EXCEPT !.async = TRUE],
                    [static EXCEPT !.skip = FALSE]},
             local \in BOOLEAN,
             more \in {{}, {Hooked(App, "before", TRUE, TRUE, Nothing, any)}}}
        \cup
        {[Setup(joined \cup
                {Routed(Page(Child, Nothing)), Routed(Simple(App, "home")),
                 Hooked(App, "sent", TRUE, TRUE, wants, any),
                 Hooked(Child, "before", TRUE, FALSE, "Request", any)},
                asks \cup {Ask(<<"home">>, "GET", "h")})
            EXCEPT !.pipelining = p] :
             wants \in {Nothing, "Request"}, p \in BOOLEAN}

(* Handlers at three levels, some of which decline. *)
Failing ==
    LET Bad(class) == [Simple(Leaf, class) EXCEPT !.raises = class]
        common == {Routed(Bad("A")), Routed(Bad("B")),
                   Joined(App, Child, NoPrefix),
                   Joined(Child, Leaf, NoPrefix)}
        asks == {Ask(<<c>>, "GET", "h") : c \in {"A", "B", "none"}}
    IN  {Setup(common \cup more, asks) :
           more \in {{Handled(App, "A", "A", FALSE),
                      Handled(App, "B", "B", d),
                      Handled(App, "Exception", "Exception", FALSE)} :
                          d \in BOOLEAN}
                    \cup {{Handled(Leaf, "A", "Request", d),
                           Handled(Child, "B", "B", FALSE),
                           Handled(App, "A", "A", FALSE)} : d \in BOOLEAN}
                    \cup {{Handled(App, "Exception", Nothing, TRUE)}}}

MCSetups == Routing \cup Overlapping \cup Hosting \cup Hooking \cup Failing
=============================================================================
