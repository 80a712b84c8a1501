------------------------------- MODULE Router -------------------------------
(***************************************************************************)
(* The router of route.go, mux_route.go and regexp.go.  The application    *)
(* registers routes by a sequence of calls, then ServeHTTP asks Match for  *)
(* the route, the controller and the variables of each request.  The       *)
(* actions are the calls; Match is an operator (MuxMatch), compared in     *)
(* every state with what it should answer.                                 *)
(*                                                                         *)
(* A path is a sequence of segments, the empty one last if it ends in a    *)
(* slash; a template has variables in place of some.  A host is one label, *)
(* a query one key with a value or none; their templates are sequences of  *)
(* one.  strictSlash, useEncodedPath, methodMatcher and handlers, which    *)
(* nothing in the repository sets, and method mappings are left out.       *)
(***************************************************************************)
EXTENDS Integers, SequencesExt

CONSTANTS
  Vars,          \* variables {x} of templates
  Extends,       \* pairs of segments of which the first begins the second
  PathTpls,      \* templates given to Path and PathPrefix
  HostTpls,      \* templates given to Host
  QueryTpls,     \* values given to Queries
  BadTpls,       \* templates with unbalanced braces or without the slash
  Urls,          \* requests [path, host, query]
  MaxRoutes,     \* bound: routes of all routers together
  MaxMatchers,   \* bound: matchers of a route
  MaxCalls,      \* bound: calls that add a matcher or set a controller
  SubrouterLast, \* no matcher is added to a route that has a subrouter
  Nil            \* model value: no matcher, controller, route or query

ASSUME RouterAssumption ==
  /\ MaxRoutes \in Nat /\ MaxMatchers \in Nat /\ MaxCalls \in Nat
  /\ SubrouterLast \in BOOLEAN
  /\ BadTpls \subseteq PathTpls \cup HostTpls \cup QueryTpls
  /\ \A t \in PathTpls : t \in Seq(ToSet(t))
  /\ \A t \in HostTpls \cup QueryTpls : t \in Seq(ToSet(t)) /\ Len(t) = 1
  /\ Nil \notin Nat

VARIABLES
  mux,    \* the routers: the first is the application's, others are subrouters
  routes, \* the routes: [err, controller, matchers, path, host, query]
  calls   \* calls made on routes so far

routerVars == <<mux, routes, calls>>

-----------------------------------------------------------------------------
(* Matching a template. *)
SegmentMatches(s, v, open) ==
  IF s \in Vars THEN v # "" ELSE s = v \/ (open /\ <<s, v>> \in Extends)

PathMatches(t, p, prefix) ==
  /\ IF prefix THEN Len(t) <= Len(p) ELSE Len(t) = Len(p)
  /\ \A i \in 1..Len(t) : SegmentMatches(t[i], p[i], prefix /\ i = Len(t))

(* A query template with no value takes any, if the key is there. *)
QueryMatches(s, v) == v # Nil /\ (s = "" \/ s \in Vars \/ s = v)

Holds(m, url) ==
  CASE m.kind = "path"   -> PathMatches(m.tpl, url.path, FALSE)
    [] m.kind = "prefix" -> PathMatches(m.tpl, url.path, TRUE)
    [] m.kind = "host"   -> SegmentMatches(m.tpl[1], url.host, FALSE)
    [] m.kind = "query"  -> QueryMatches(m.tpl[1], url.query)

(* The variables of a template, and what a request gives them. *)
VarsOf(t) == ToSet(t) \cap Vars
Extract(t, p) ==
  [x \in VarsOf(t) |-> p[Max({i \in 1..Len(t) : t[i] = x})]]

NoVars == [x \in {} |-> ""]
PathVars(r, url) ==
  LET t == r.path.tpl IN
  IF r.path # Nil /\ PathMatches(t, url.path, r.path.kind = "prefix")
  THEN Extract(t, url.path) ELSE NoVars
HostVars(r, url)  == IF r.host = Nil THEN NoVars ELSE Extract(r.host.tpl, <<url.host>>)
QueryVars(r, url) == IF r.query = Nil THEN NoVars ELSE Extract(r.query.tpl, <<url.query>>)

(* A map written over another one. *)
Over(f, g) == [x \in DOMAIN f \cup DOMAIN g |-> IF x \in DOMAIN f THEN f[x] ELSE g[x]]

(* Faulty: what the inner route set is forgotten. *)
SetMatchFresh(r, url, old) ==
  Over(QueryVars(r, url), Over(PathVars(r, url), HostVars(r, url)))

(* setMatch: host, then path, then query variables. *)
SetMatch(r, url, old) ==
  Over(QueryVars(r, url), Over(PathVars(r, url), Over(HostVars(r, url), old)))

-----------------------------------------------------------------------------
(* Route.Match and Multiplexer.Match: they fill the match they are given,  *)
(* and leave in it what was filled when a later matcher fails.  No test    *)
(* looks at the match, so it is enough to know which routes fill it, in    *)
(* order, and whether the answer is yes: [ok, filled].                     *)
(*                                                                         *)
(* A loop over matchers ends at the first that fails, a loop over routes   *)
(* at the first that does not.  t holds the routers and the routes.        *)
Loop(answers, end) ==
  LET at   == {n \in DOMAIN answers : answers[n].ok = end}
      last == IF at = {} THEN Len(answers) ELSE Min(at)
  IN [ok     |-> IF at = {} THEN ~end ELSE end,
      filled |-> FlattenSeq([n \in 1..last |-> answers[n].filled])]

MatchFirst(rs, answer) == Loop([n \in DOMAIN rs |-> answer[rs[n]]], TRUE)

Test(t, k, url, answer) ==
  IF k.kind = "mux" THEN MatchFirst(t.mux[k.id].routes, answer)
  ELSE [ok |-> Holds(k, url), filled |-> <<>>]

MatchAll(t, ms, url, answer) == Loop([n \in DOMAIN ms |-> Test(t, ms[n], url, answer)], FALSE)

MatchRoute(t, i, url, answer) ==
  IF t.routes[i].err THEN [ok |-> FALSE, filled |-> <<>>]
  ELSE LET all == MatchAll(t, t.routes[i].matchers, url, answer)
       IN [ok     |-> all.ok,
           filled |-> IF all.ok THEN Append(all.filled, i) ELSE all.filled]

Answers(t, url) ==
  LET answer[i \in DOMAIN t.routes] == MatchRoute(t, i, url, answer) IN answer

NoMatch == [route |-> Nil, controller |-> Nil, vars |-> NoVars]

(* Faulty: the outer route replaces the inner one. *)
FillAlways(t, i, url, m) ==
  [route |-> i, controller |-> t.routes[i].controller, vars |-> SetMatch(t.routes[i], url, m.vars)]

Fill(t, i, url, m) ==
  [route      |-> IF m.route = Nil THEN i ELSE m.route,
   controller |-> IF m.controller = Nil THEN t.routes[i].controller ELSE m.controller,
   vars       |-> SetMatch(t.routes[i], url, m.vars)]

Filled(t, is, url) ==
  LET m[n \in 0..Len(is)] == IF n = 0 THEN NoMatch ELSE Fill(t, is[n], url, m[n - 1])
  IN m[Len(is)]

MuxMatch(t, url) ==
  LET a == MatchFirst(t.mux[1].routes, Answers(t, url))
  IN [ok |-> a.ok, m |-> Filled(t, a.filled, url)]

(* What is registered now. *)
Table == [mux |-> mux, routes |-> routes]

-----------------------------------------------------------------------------
(* NewRoute copies the configuration of its router: the matchers and the   *)
(* templates of the route the subrouter was made for.                      *)
AddRoute(conf) ==
  Append(routes, [err |-> FALSE, controller |-> Nil, matchers |-> conf.matchers,
                  path |-> conf.path, host |-> conf.host, query |-> conf.query])

(* Faulty: a new route goes before the others. *)
NewRouteFront(m) ==
  /\ Len(routes) < MaxRoutes
  /\ routes' = AddRoute(mux[m].conf)
  /\ mux' = [mux EXCEPT ![m].routes = <<Len(routes) + 1>> \o @]
  /\ UNCHANGED calls

NewRoute(m) ==
  /\ Len(routes) < MaxRoutes
  /\ routes' = AddRoute(mux[m].conf)
  /\ mux' = [mux EXCEPT ![m].routes = Append(@, Len(routes) + 1)]
  /\ UNCHANGED calls

HasSubrouter(r) == \E k \in ToSet(r.matchers) : k.kind = "mux"

Call(i) ==
  /\ calls < MaxCalls
  /\ calls' = calls + 1

Open(i) ==
  /\ Call(i)
  /\ Len(routes[i].matchers) < MaxMatchers
  /\ SubrouterLast => ~HasSubrouter(routes[i])

(* addRegexpMatcher: a path goes behind the path the route has; a template *)
(* that is malformed, or names a variable of a template of another kind,   *)
(* makes the route erroneous.  A query is not compared with the path.      *)
IsPath(kind) == kind \in {"path", "prefix"}
TrimSlash(t) == IF t # <<>> /\ Last(t) = "" THEN Front(t) ELSE t
FullPath(r, t) == IF r.path = Nil THEN t ELSE TrimSlash(r.path.tpl) \o t

Names(m) == IF m = Nil THEN {} ELSE VarsOf(m.tpl)
Others(r, kind) ==
  Names(r.query) \cup (IF kind = "host" THEN Names(r.path) ELSE Names(r.host))

Keep(r, m) ==
  CASE m.kind = "host"  -> [r EXCEPT !.host = m]
    [] m.kind = "query" -> [r EXCEPT !.query = m]
    [] IsPath(m.kind)   -> [r EXCEPT !.path = m]

WithMatcher(r, kind, t) ==
  LET m == [kind |-> kind, tpl |-> IF IsPath(kind) THEN FullPath(r, t) ELSE t]
  IN IF t \in BadTpls \/ Names(m) \cap Others(r, kind) # {} THEN [r EXCEPT !.err = TRUE]
     ELSE [Keep(r, m) EXCEPT !.matchers = Append(@, m)]

AddMatcher(i, kind, t) ==
  /\ Open(i) /\ ~routes[i].err
  /\ routes' = [routes EXCEPT ![i] = WithMatcher(@, kind, t)]
  /\ UNCHANGED mux

Path(i)       == \E t \in PathTpls : AddMatcher(i, "path", t)
PathPrefix(i) == \E t \in PathTpls : AddMatcher(i, "prefix", t)
Host(i)       == \E t \in HostTpls : AddMatcher(i, "host", t)
Queries(i)    == routes[i].query = Nil /\ \E t \in QueryTpls : AddMatcher(i, "query", t)

(* Control: controllers differ from route to route. *)
Control(i) ==
  /\ Call(i) /\ ~routes[i].err
  /\ routes' = [routes EXCEPT ![i].controller = i]
  /\ UNCHANGED mux

(* Faulty: a subrouter starts without the matchers of its route. *)
ConfNoMatchers(r) == [matchers |-> <<>>, path |-> r.path, host |-> r.host, query |-> r.query]
Conf(r) == [matchers |-> r.matchers, path |-> r.path, host |-> r.host, query |-> r.query]

(* Subrouter: a router with a copy of the route's configuration becomes a   *)
(* matcher of the route.                                                   *)
Subrouter(i) ==
  /\ Open(i)
  /\ mux' = Append(mux, [routes |-> <<>>, conf |-> Conf(routes[i])])
  /\ routes' = [routes EXCEPT ![i].matchers = Append(@, [kind |-> "mux", id |-> Len(mux) + 1])]

NoConf == [matchers |-> <<>>, path |-> Nil, host |-> Nil, query |-> Nil]

RouterInit ==
  /\ mux = <<[routes |-> <<>>, conf |-> NoConf]>>
  /\ routes = <<>>
  /\ calls = 0

RouterNext ==
  \/ \E m \in DOMAIN mux : NewRoute(m)
  \/ \E i \in DOMAIN routes :
       Path(i) \/ PathPrefix(i) \/ Host(i) \/ Queries(i) \/ Control(i) \/ Subrouter(i)

RouterSpec == RouterInit /\ [][RouterNext]_routerVars

-----------------------------------------------------------------------------
(* What the router should answer.  A route accepts a request if all its    *)
(* matchers hold, a subrouter if one of its routes accepts it; of several  *)
(* routes of a router the first that accepts is meant, and in a subrouter  *)
(* again.  Chain is the way from the innermost route to this one, if it    *)
(* accepts.                                                                *)
Accepts(k, url, chain) ==
  IF k.kind = "mux" THEN \E j \in ToSet(mux[k.id].routes) : chain[j] # <<>>
  ELSE Holds(k, url)

FirstAccepting(m, chain) ==
  LET rs == mux[m].routes IN rs[Min({n \in DOMAIN rs : chain[rs[n]] # <<>>})]

Chain(i, url, chain) ==
  LET ms   == ToSet(routes[i].matchers)
      subs == {k.id : k \in {l \in ms : l.kind = "mux"}}
  IN IF routes[i].err \/ \E k \in ms : ~Accepts(k, url, chain) THEN <<>>
     ELSE IF subs = {} THEN <<i>>
     ELSE Append(chain[FirstAccepting(Min(subs), chain)], i)

Chains(url) ==
  LET chain[i \in DOMAIN routes] == Chain(i, url, chain) IN chain

Answered(url) == \E i \in ToSet(mux[1].routes) : Chains(url)[i] # <<>>
Meant(url)    == Chains(url)[FirstAccepting(1, Chains(url))]

(* The controller nearest to the innermost route. *)
ControllerOf(chain) ==
  LET have == {n \in DOMAIN chain : routes[chain[n]].controller # Nil}
  IN IF have = {} THEN Nil ELSE routes[chain[Min(have)]].controller

-----------------------------------------------------------------------------
Matchers ==
  [kind : {"path", "prefix"}, tpl : Seq(UNION {ToSet(t) : t \in PathTpls})]
  \cup [kind : {"host"}, tpl : HostTpls] \cup [kind : {"query"}, tpl : QueryTpls]

(* Routes belong to one router each, subrouters to one route and to routes *)
(* made after them, and a route keeps the templates of its last matchers.  *)
RouterTypeOK ==
  /\ calls \in 0..MaxCalls
  /\ \A m \in DOMAIN mux : mux[m].routes \in Seq(DOMAIN routes)
  /\ \A m, n \in DOMAIN mux : m # n => ToSet(mux[m].routes) \cap ToSet(mux[n].routes) = {}
  /\ \A i \in DOMAIN routes :
       /\ routes[i].err \in BOOLEAN
       /\ routes[i].controller \in {i, Nil}
       /\ \A k \in ToSet(routes[i].matchers) :
            IF k.kind = "mux" THEN \A j \in ToSet(mux[k.id].routes) : j > i
            ELSE k \in Matchers
       /\ {routes[i].path, routes[i].host, routes[i].query}
            \subseteq ToSet(routes[i].matchers) \cup {Nil}

(* A request goes to the first route that accepts it, in a subrouter to    *)
(* the first one there, and to the controller nearest to it; a request no  *)
(* route accepts has no answer.  Match fills what is empty and leaves what *)
(* is filled, on the way back from the inner route.                        *)
RoutedRight ==
  \A url \in Urls :
    LET a == MuxMatch(Table, url) IN
    /\ a.ok = Answered(url)
    /\ a.ok => a.m.route = Meant(url)[1] /\ a.m.controller = ControllerOf(Meant(url))

(* A handler gets exactly the variables of the routes its request went     *)
(* through, each with what the request has at a place of that variable in  *)
(* one of their templates, and none of a route that was tried before.      *)
Gives(r, url, x, v) ==
  \/ r.path # Nil /\ \E n \in DOMAIN r.path.tpl : r.path.tpl[n] = x /\ url.path[n] = v
  \/ r.host # Nil /\ r.host.tpl[1] = x /\ url.host = v
  \/ r.query # Nil /\ r.query.tpl[1] = x /\ url.query = v

VarsOwn ==
  \A url \in Urls :
    LET a == MuxMatch(Table, url) IN
    IF a.ok
    THEN LET rs == {routes[i] : i \in ToSet(Meant(url))} IN
         /\ DOMAIN a.m.vars = UNION {Names(r.path) \cup Names(r.host) \cup Names(r.query) : r \in rs}
         /\ \A x \in DOMAIN a.m.vars : \E r \in rs : Gives(r, url, x, a.m.vars[x])
    ELSE a.m = NoMatch

(* A route registered with the application's router takes no request from  *)
(* the routes registered before it.                                        *)
EarlierFirst ==
  [][mux'[1].routes # mux[1].routes =>
       \A url \in Urls : MuxMatch(Table, url).ok =>
         MuxMatch(Table', url) = MuxMatch(Table, url)]_routerVars
=============================================================================
