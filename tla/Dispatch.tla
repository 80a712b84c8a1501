------------------------------ MODULE Dispatch ------------------------------
(***************************************************************************)
(* Multiplexer.ServeHTTP of mux.go with the objects it shares between      *)
(* requests: the contexts of the pool (context/context.go, response.go,    *)
(* output.go) and the controllers, one instance for each route             *)
(* (ctrl/controller.go), which every request of the route initialises.     *)
(*                                                                         *)
(* A request is served by one goroutine, step by step; the user's code in  *)
(* BeforeAction, the action and AfterAction is one operation each, through *)
(* whatever context the controller holds at that moment.  Status codes are *)
(* abstracted to whether one is set.                                       *)
(***************************************************************************)
EXTENDS Integers, FiniteSets

CONSTANTS
  Requests,     \* requests, each is served once
  Ctxs,         \* context objects, in the pool or in use
  Controllers,  \* controllers registered with a route
  None          \* no controller, no context, no session

ASSUME DispatchAssumption == None \notin Controllers \cup Ctxs \cup Requests

VARIABLES
  pc,      \* where the goroutine of each request is
  route,   \* the controller the request matches, or None
  ctxOf,   \* the context a request got from the pool, or None
  pool,    \* the contexts not in use
  ctx,     \* the fields of each context
  ctrl,    \* the fields of each controller
  resp,    \* what went out on the connection of each request
  acted,   \* history: the action of the request has run
  seen,    \* history: the session its handler was given
  overtaken  \* history: requests whose controller went to another one

vars == <<pc, route, ctxOf, pool, ctx, ctrl, resp, acted, seen, overtaken>>

\* A context: the request its ResponseWriter wraps, Response.Started,
\* Response.Status, Output.Status and Input.Cookie.
Context == [rw: Requests \cup {None}, started: BOOLEAN, status: BOOLEAN,
            out: BOOLEAN, cookie: Requests \cup {None}]
NewContext == [rw |-> None, started |-> FALSE, status |-> FALSE,
               out |-> FALSE, cookie |-> None]

\* A controller: Ctx (with Writer and Request, taken from it) and Cookie.
Controller == [ctx: Ctxs \cup {None}, cookie: Requests \cup {None}]

\* A response: header sent, bodies written, and whose handlers wrote.
Response == [head: BOOLEAN, bodies: Nat, by: SUBSET Requests]

PCs == {"new", "static", "parse", "match", "session", "init", "before", "xsrf",
        "action", "render", "after", "log", "put", "done"}

TypeOK ==
  /\ pc \in [Requests -> PCs]
  /\ route \in [Requests -> Controllers \cup {None}]
  /\ ctxOf \in [Requests -> Ctxs \cup {None}]
  /\ pool \subseteq Ctxs
  /\ ctx \in [Ctxs -> Context]
  /\ ctrl \in [Controllers -> Controller]
  /\ resp \in [Requests -> Response]
  /\ acted \in [Requests -> BOOLEAN]
  /\ seen \in [Requests -> Requests \cup {None}]
  /\ overtaken \subseteq Requests

Init ==
  /\ pc = [r \in Requests |-> "new"]
  /\ route = [r \in Requests |-> None] /\ ctxOf = [r \in Requests |-> None]
  /\ pool = Ctxs
  /\ ctx = [c \in Ctxs |-> NewContext]
  /\ ctrl = [k \in Controllers |-> [ctx |-> None, cookie |-> None]]
  /\ resp = [r \in Requests |-> [head |-> FALSE, bodies |-> 0, by |-> {}]]
  /\ acted = [r \in Requests |-> FALSE]
  /\ seen = [r \in Requests |-> None]
  /\ overtaken = {}

InFlight(r)  == pc[r] \notin {"new", "done"}
InHandler(r) == pc[r] \in {"before", "xsrf", "action", "render", "after"}
Goto(r, label) == pc' = [pc EXCEPT ![r] = label]

-----------------------------------------------------------------------------
(* The Response of context c, written to by the handler of request r.      *)
Wrote(c, r, n) ==
  resp' = [resp EXCEPT ![ctx[c].rw] =
             [head |-> TRUE, bodies |-> @.bodies + n, by |-> @.by \cup {r}]]

WriteHeader(c, r) ==
  IF ctx[c].status THEN UNCHANGED <<ctx, resp>>
  ELSE /\ ctx' = [ctx EXCEPT ![c].status = TRUE, ![c].started = TRUE]
       /\ Wrote(c, r, 0)

(* Faulty: Started is set by WriteHeader only. *)
WriteNotStarted(c, r) == UNCHANGED ctx /\ Wrote(c, r, 1)

Write(c, r) ==
  /\ ctx' = [ctx EXCEPT ![c].started = TRUE]
  /\ Wrote(c, r, 1)

(* exception and http.Error: the header, then the body of the error page. *)
Exception(c, r) ==
  /\ ctx' = [ctx EXCEPT ![c].status = TRUE, ![c].started = TRUE]
  /\ Wrote(c, r, 1)

(* GonOutput.Body: a status that was set goes out with the body. *)
Body(c, r) ==
  /\ ctx' = [ctx EXCEPT ![c].status = @ \/ ctx[c].out,
                        ![c].started = TRUE, ![c].out = FALSE]
  /\ Wrote(c, r, 1)

SetStatus(c) == ctx' = [ctx EXCEPT ![c].out = TRUE] /\ UNCHANGED resp

(* Controller.StartSession: the controller keeps the session it has.       *)
Session(k, c) == IF ctrl[k].cookie = None THEN ctx[c].cookie ELSE ctrl[k].cookie
StartSession(k, c, r) ==
  /\ ctrl' = [ctrl EXCEPT ![k].cookie = Session(k, c)]
  /\ seen' = [seen EXCEPT ![r] = Session(k, c)]

-----------------------------------------------------------------------------
(* Faulty: a context is given the request's ResponseWriter only when it    *)
(* has none.                                                               *)
ArriveNoReset(r, c, k) ==
  /\ pc[r] = "new" /\ c \in pool
  /\ route' = [route EXCEPT ![r] = k]
  /\ pool' = pool \ {c} /\ ctxOf' = [ctxOf EXCEPT ![r] = c]
  /\ ctx' = [ctx EXCEPT ![c] = [NewContext EXCEPT !.rw = IF ctx[c].rw = None THEN r ELSE ctx[c].rw]]
  /\ Goto(r, "static")
  /\ UNCHANGED <<ctrl, resp, acted, seen, overtaken>>

(* GetContext and Context.Reset. *)
Arrive(r, c, k) ==
  /\ pc[r] = "new" /\ c \in pool
  /\ route' = [route EXCEPT ![r] = k]
  /\ pool' = pool \ {c} /\ ctxOf' = [ctxOf EXCEPT ![r] = c]
  /\ ctx' = [ctx EXCEPT ![c] = [NewContext EXCEPT !.rw = r]]
  /\ Goto(r, "static")
  /\ UNCHANGED <<ctrl, resp, acted, seen, overtaken>>

Static(r) ==   \* serveStaticRoutes answers the request or leaves it
  /\ pc[r] = "static"
  /\ \/ Exception(ctxOf[r], r) /\ Goto(r, "log")
     \/ Goto(r, "parse") /\ UNCHANGED <<ctx, resp>>
  /\ UNCHANGED <<route, ctxOf, pool, ctrl, acted, seen, overtaken>>

ParseForm(r) ==
  /\ pc[r] = "parse"
  /\ \/ Exception(ctxOf[r], r) /\ Goto(r, "log")
     \/ Goto(r, "match") /\ UNCHANGED <<ctx, resp>>
  /\ UNCHANGED <<route, ctxOf, pool, ctrl, acted, seen, overtaken>>

Match(r) ==
  /\ pc[r] = "match"
  /\ IF route[r] = None
     THEN Exception(ctxOf[r], r) /\ Goto(r, "log")
     ELSE Goto(r, "session") /\ UNCHANGED <<ctx, resp>>
  /\ UNCHANGED <<route, ctxOf, pool, ctrl, acted, seen, overtaken>>

SessionStart(r) ==
  /\ pc[r] = "session"
  /\ \/ Exception(ctxOf[r], r) /\ Goto(r, "log")
     \/ /\ ctx' = [ctx EXCEPT ![ctxOf[r]].cookie = r]
        /\ Goto(r, "init") /\ UNCHANGED resp
  /\ UNCHANGED <<route, ctxOf, pool, ctrl, acted, seen, overtaken>>

(* Controller.Init: Ctx, Writer and Request are those of this request; the *)
(* session of an earlier one stays.  A handler of the route that is still  *)
(* at work loses its controller to this request.                           *)
InitController(r) ==
  /\ pc[r] = "init"
  /\ ctrl' = [ctrl EXCEPT ![route[r]].ctx = ctxOf[r]]
  /\ overtaken' = overtaken \cup {q \in Requests \ {r} : InHandler(q) /\ route[q] = route[r]}
  /\ Goto(r, "before")
  /\ UNCHANGED <<route, ctxOf, pool, ctx, resp, acted, seen>>

(* One operation of the user's code, through the controller's context: one *)
(* that writes no body, or any.                                            *)
NoBody(r) ==
  LET k == route[r]
      c == ctrl[k].ctx
  IN \/ WriteHeader(c, r) /\ UNCHANGED <<ctrl, seen>>
     \/ SetStatus(c) /\ UNCHANGED <<ctrl, seen>>
     \/ StartSession(k, c, r) /\ UNCHANGED <<ctx, resp>>
     \/ UNCHANGED <<ctx, resp, ctrl, seen>>

UserCode(r) ==
  LET c == ctrl[route[r]].ctx
  IN \/ Write(c, r) /\ UNCHANGED <<ctrl, seen>>
     \/ Body(c, r) /\ UNCHANGED <<ctrl, seen>>
     \/ Exception(c, r) /\ UNCHANGED <<ctrl, seen>>   \* a method not overridden
     \/ NoBody(r)

(* Faulty: PutContext is not deferred. *)
PanicNoPut(r) ==
  /\ InHandler(r)
  /\ ctxOf' = [ctxOf EXCEPT ![r] = None]
  /\ Goto(r, "done")
  /\ UNCHANGED <<route, pool, ctx, ctrl, resp, acted, seen, overtaken>>

(* A panic in user code, or StopRun: only the deferred PutContext runs,    *)
(* net/http closes the connection.                                         *)
Panic(r) ==
  /\ InHandler(r)
  /\ Goto(r, "put")
  /\ UNCHANGED <<route, ctxOf, pool, ctx, ctrl, resp, acted, seen, overtaken>>

(* Abort, also of a failed CheckXSRFCookie, panics too.  An error that has *)
(* a page (ErrorMaps) only sets the status, for a recovery that does not   *)
(* run; any other is written first.                                        *)
Abort(r) ==
  /\ pc[r] \in {"before", "xsrf", "action"}
  /\ \/ SetStatus(ctrl[route[r]].ctx)
     \/ pc[r] # "xsrf" /\ Exception(ctrl[route[r]].ctx, r)
  /\ Goto(r, "put")
  /\ UNCHANGED <<route, ctxOf, pool, ctrl, acted, seen, overtaken>>

BeforeAction(r) ==   \* and ReadFlashData
  /\ pc[r] = "before"
  /\ UserCode(r)
  /\ Goto(r, "xsrf")
  /\ UNCHANGED <<route, ctxOf, pool, acted, overtaken>>

(* CheckXSRFCookie passes or aborts; then the action is skipped when the   *)
(* response was written.                                                   *)
CheckXSRF(r) ==
  /\ pc[r] = "xsrf"
  /\ Goto(r, IF ctx[ctxOf[r]].started THEN "after" ELSE "action")
  /\ UNCHANGED <<route, ctxOf, pool, ctx, ctrl, resp, acted, seen, overtaken>>

Action(r) ==
  /\ pc[r] = "action"
  /\ UserCode(r)
  /\ acted' = [acted EXCEPT ![r] = TRUE]
  /\ Goto(r, "render")
  /\ UNCHANGED <<route, ctxOf, pool, overtaken>>

(* Faulty: what the action wrote is not looked at. *)
RenderAlways(r) ==
  /\ pc[r] = "render"
  /\ Write(ctrl[route[r]].ctx, r)
  /\ Goto(r, "after")
  /\ UNCHANGED <<route, ctxOf, pool, ctrl, acted, seen, overtaken>>

(* Render, unless the response was written or a status set; it may fail.   *)
Render(r) ==
  /\ pc[r] = "render"
  /\ \/ /\ ~ctx[ctxOf[r]].started /\ ~ctx[ctxOf[r]].out
        /\ Write(ctrl[route[r]].ctx, r)
     \/ UNCHANGED <<ctx, resp>>
  /\ Goto(r, "after")
  /\ UNCHANGED <<route, ctxOf, pool, ctrl, acted, seen, overtaken>>

(* AfterAction runs in any case; it is taken not to answer once more.      *)
AfterAction(r) ==
  /\ pc[r] = "after"
  /\ NoBody(r)
  /\ Goto(r, "log")
  /\ UNCHANGED <<route, ctxOf, pool, acted, overtaken>>

(* Logging, then the status that was set and not sent. *)
Logging(r) ==
  /\ pc[r] = "log"
  /\ IF ctx[ctxOf[r]].out THEN WriteHeader(ctxOf[r], r) ELSE UNCHANGED <<ctx, resp>>
  /\ Goto(r, "put")
  /\ UNCHANGED <<route, ctxOf, pool, ctrl, acted, seen, overtaken>>

PutContext(r) ==
  /\ pc[r] = "put"
  /\ pool' = pool \cup {ctxOf[r]}
  /\ ctxOf' = [ctxOf EXCEPT ![r] = None]
  /\ Goto(r, "done")
  /\ UNCHANGED <<route, ctx, ctrl, resp, acted, seen, overtaken>>

ServeHTTP(r) ==
  \/ \E c \in Ctxs, k \in Controllers \cup {None} : Arrive(r, c, k)
  \/ Static(r) \/ ParseForm(r) \/ Match(r) \/ SessionStart(r) \/ InitController(r)
  \/ BeforeAction(r) \/ CheckXSRF(r) \/ Action(r) \/ Render(r)
  \/ AfterAction(r) \/ Logging(r)
  \/ PutContext(r) \/ Panic(r) \/ Abort(r)

Next == \E r \in Requests : ServeHTTP(r)

Spec == Init /\ [][Next]_vars

-----------------------------------------------------------------------------
(* A context serves one request at a time, the one its ResponseWriter      *)
(* wraps, and is in the pool exactly when no request holds it, panic or    *)
(* not.                                                                    *)
ContextExclusive ==
  /\ \A q, r \in Requests : InFlight(q) /\ InFlight(r) /\ ctxOf[q] = ctxOf[r] => q = r
  /\ \A r \in Requests : InFlight(r) => ctx[ctxOf[r]].rw = r
  /\ pool = Ctxs \ {ctxOf[r] : r \in Requests}

(* Until another request of its route is initialised, the controller of a  *)
(* handler works on the handler's context: nothing else changes it.        *)
ControllerIsMine ==
  \A r \in Requests : InHandler(r) /\ r \notin overtaken => ctrl[route[r]].ctx = ctxOf[r]

(* Only the handler of a request writes to its response, also after the    *)
(* contexts and controllers have been used again and again, and except for *)
(* handlers that lost their controller to another request of their route;  *)
(* these may write to anyone's.                                            *)
ResponseIsolated == \A r \in Requests : resp[r].by \subseteq {r} \cup overtaken

(* A request is answered at most once, unless another handler answers it,  *)
(* too: a static file, an error page, BeforeAction, the action and Render  *)
(* exclude each other.                                                     *)
AnsweredOnce == \A r \in Requests : resp[r].by \subseteq {r} => resp[r].bodies <= 1

(* No action runs once something was sent, unless it was another handler   *)
(* that sent it.                                                           *)
NoActionAfterOwnResponse ==
  [][\A r \in Requests :
       acted'[r] # acted[r] /\ resp[r].by \subseteq {r} => ~resp[r].head]_vars

(* "started set to true if response was written to then don't execute      *)
(* other handler": no action runs once something was sent.                 *)
NoActionAfterResponse ==
  [][\A r \in Requests : acted'[r] # acted[r] => ~resp[r].head]_vars

(* "initializes all ctrl fields": the session a handler works on is the    *)
(* one SessionStart made for its request.                                  *)
SessionIsOwn == \A r \in Requests : seen[r] \in {r, None}
=============================================================================
