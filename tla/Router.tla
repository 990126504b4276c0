------------------------------- MODULE Router -------------------------------
(***************************************************************************)
(* class Router of vibora/router/router.py: the route tables, and the      *)
(* lookup of a request in them and in the cache before them.  A URL or a   *)
(* pattern is a sequence of segments; "*" is a parameter or a regular      *)
(* expression for one segment, and a final "/" is a trailing slash.        *)
(***************************************************************************)
EXTENDS RouteCache, SequencesExt

CONSTANTS App, AnyHost, NoHost, Nothing

Strategies == {"strict", "redirect", "clone"}

(* __init__() of Router and of Route *)
NoRoutes == [static |-> <<>>, dynamic |-> <<>>, hosts |-> <<>>]

Route(handler, pattern, methods, parent) ==
    [handler |-> handler, pattern |-> pattern, methods |-> methods,
     dynamic |-> \E i \in DOMAIN pattern : pattern[i] = "*",
     hosts |-> <<>>, parent |-> parent, engine |-> Nothing,
     wants |-> FALSE, raises |-> Nothing, target |-> Nothing]

RoutesOf(blueprints) ==
    [handler : STRING, pattern : Seq(STRING), methods : SUBSET STRING,
     dynamic : BOOLEAN, hosts : Seq({AnyHost} \cup STRING),
     parent : blueprints,
     engine : {Nothing} \cup [async : BOOLEAN, skip : BOOLEAN],
     wants : BOOLEAN, raises : {Nothing} \cup STRING,
     target : {Nothing} \cup Seq(STRING)]

(* The default handlers of check_integrity(), and get_route() raising.     *)
NotFound ==
    [Route("404", <<>>, {"GET"}, App) EXCEPT !.raises = "NotFound"]
NotAllowed ==
    [Route("405", <<>>, {"GET"}, App) EXCEPT !.raises = "MethodNotAllowed",
                                             !.wants = TRUE]
Unrouted == Route("none", <<>>, {}, App)
Defaults == {NotFound, NotAllowed, Unrouted}
-----------------------------------------------------------------------------
(* Registration *)

AddToHost(hosts, host, route) ==
    LET same == {i \in DOMAIN hosts : hosts[i].host = host}
    IN  IF same = {}
        THEN Append(hosts, [host |-> host, routes |-> <<route>>])
        ELSE [i \in DOMAIN hosts |->
                 IF i \in same
                 THEN [hosts[i] EXCEPT !.routes = Append(@, route)]
                 ELSE hosts[i]]

(* _add_route_to_cache(): of two static routes the later one stays. *)
AddToTables(t, route) ==
    IF route.hosts # <<>>
    THEN [t EXCEPT !.hosts =
             FoldLeft(LAMBDA hosts, h : AddToHost(hosts, h, route),
                      @, route.hosts)]
    ELSE IF route.dynamic
    THEN [t EXCEPT !.dynamic = Append(@, route)]
    ELSE [t EXCEPT !.static =
             With(@, route.methods \X {route.pattern}, route)]

(* Fault: only what ends with a slash gets a second pattern. *)
OneWaySlash(p) == IF Last(p) # "/" \/ Len(p) = 1 THEN p ELSE Front(p)

(* Without its slash "/" would be empty, and stays what it is. *)
OtherSlash(p) ==
    IF Last(p) # "/" THEN Append(p, "/")
    ELSE IF Len(p) = 1 THEN p ELSE Front(p)

(* Closures of Python look `clone` up when they are called: every redirect *)
(* of a route leads to the pattern of its last prefix.                     *)
Slashed(strategy, route, last) ==
    CASE strategy = "clone" ->
            [route EXCEPT !.pattern = OtherSlash(@)]
      [] strategy = "redirect" ->
            [route EXCEPT !.pattern = OtherSlash(@), !.handler = "redirect",
                          !.methods = {"GET"}, !.wants = FALSE,
                          !.raises = Nothing, !.target = last]

(* add_route(): prefixes is the sequence of the dictionary's values. *)
AddRoute(tables, strategy, route, prefixes) ==
    LET Prefixed(p) == [route EXCEPT !.pattern = p \o @]
        last == Prefixed(Last(prefixes)).pattern
        slashes == strategy # "strict" /\ ~route.dynamic
                    /\ "GET" \in route.methods
        Add(t, p) ==
            LET added == AddToTables(t, Prefixed(p))
            IN  IF slashes
                THEN AddToTables(added, Slashed(strategy, Prefixed(p), last))
                ELSE added
    IN  FoldLeft(Add, tables, prefixes)
-----------------------------------------------------------------------------
(* Lookup *)

Matches(pattern, url) ==
    /\ Len(pattern) = Len(url)
    /\ \A i \in DOMAIN url : pattern[i] \in {"*", url[i]}

(* check_not_allowed_method() *)
AllowedOtherwise(t, url, method) ==
    \/ \E k \in DOMAIN t.static : k[1] # method /\ k[2] = url
    \/ \E i \in DOMAIN t.dynamic :
          /\ t.dynamic[i].methods \ {method} # {}
          /\ Matches(t.dynamic[i].pattern, url)

(* _find_route(), without the cache *)
FindRoute(t, url, method) ==
    LET Serves(r) == method \in r.methods /\ Matches(r.pattern, url)
        first == SelectInSeq(t.dynamic, Serves)
    IN  IF <<method, url>> \in DOMAIN t.static THEN t.static[<<method, url>>]
        ELSE IF first # 0 THEN t.dynamic[first]
        ELSE IF AllowedOtherwise(t, url, method) THEN NotAllowed
        ELSE NotFound

HostOf(t, host) ==
    SelectInSeq(t.hosts, LAMBDA h : h.host \in {host, AnyHost})

(* _find_route_by_host(): when a pattern fits the host and has no route    *)
(* for the request, self.hosts[host] is a KeyError, since the keys are     *)
(* compiled patterns; fullmatch(None) is a TypeError.                      *)
FindRouteByHost(t, url, method, host) ==
    LET i == HostOf(t, host)
        Serves(r) == method \in r.methods /\ Matches(r.pattern, url)
        first == SelectInSeq(t.hosts[i].routes, Serves)
    IN  IF host = NoHost THEN Unrouted
        ELSE IF i = 0 THEN FindRoute(t, url, method)
        ELSE IF first # 0 THEN t.hosts[i].routes[first]
        ELSE Unrouted

Lookup(t, q) ==
    IF t.hosts = <<>> THEN FindRoute(t, q.url, q.method)
    ELSE FindRouteByHost(t, q.url, q.method, q.host)

HasHost(t, q) == t.hosts # <<>> /\ (q.host = NoHost \/ HostOf(t, q.host) # 0)

(* Fault: the key leaves out the method. *)
KeyOfUrl(t, q) == <<q.url>>

(* The key of a request whose host has routes of its own contains it. *)
KeyOf(t, q) ==
    IF HasHost(t, q) THEN <<q.url, q.method, q.host>> ELSE <<q.url, q.method>>

(* get_route(): the route and the cache after it. *)
GetRoute(t, cache, q) ==
    LET key == KeyOf(t, q)
        found == Lookup(t, q)
    IN  IF key \in DOMAIN cache.values
        THEN [route |-> cache.values[key], cache |-> cache]
        ELSE [route |-> found,
              cache |-> IF found \in Defaults THEN cache
                        ELSE Store(cache, key, found)]
=============================================================================
