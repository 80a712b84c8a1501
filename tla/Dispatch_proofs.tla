-------------------------- MODULE Dispatch_proofs --------------------------
(***************************************************************************)
(* Proofs about Dispatch, for every number of requests, contexts and       *)
(* controllers, and about the Router it asks for a route.  The contexts of *)
(* the pool are kept apart; requests of one route share the controller,    *)
(* and so are not: what a handler does through its controller is its own   *)
(* affair as long as no other request of the route is initialised.  The    *)
(* router matches right for any templates and requests, and any number of  *)
(* routes, when no matcher is added to a route that has a subrouter        *)
(* (SubrouterLast).                                                        *)
(***************************************************************************)
EXTENDS Dispatch, Router, SequenceTheorems, WellFoundedInduction, TLAPS

USE DispatchAssumption DEF DispatchAssumption

(* The operations on the Response, the Output and the Input of context c.  *)
Remember(c, r) == ctx' = [ctx EXCEPT ![c].cookie = r] /\ UNCHANGED resp
Operation(c, r) ==
  \/ Write(c, r) \/ WriteHeader(c, r) \/ SetStatus(c) \/ Body(c, r)
  \/ Exception(c, r) \/ Remember(c, r) \/ UNCHANGED <<ctx, resp>>

(* An operation keeps the types and takes no ResponseWriter from a context. *)
LEMMA OperationTypes ==
  ASSUME ctx \in [Ctxs -> Context], resp \in [Requests -> Response],
         NEW c \in Ctxs, NEW r \in Requests, Operation(c, r)
  PROVE  /\ ctx' \in [Ctxs -> Context] /\ resp' \in [Requests -> Response]
         /\ \A d \in Ctxs : ctx'[d].rw = ctx[d].rw
<1> DEFINE cx == ctx[c]
<1>0. cx \in Context /\ cx.status \in BOOLEAN /\ cx.out \in BOOLEAN
  BY DEF Context
<1>1. ASSUME NEW n \in {0, 1}, Wrote(c, r, n) PROVE resp' \in [Requests -> Response]
  <2> DEFINE q   == ctx[c].rw
             new == [head |-> TRUE, bodies |-> resp[q].bodies + n, by |-> resp[q].by \cup {r}]
  <2>1. resp' = [resp EXCEPT ![q] = new]
    BY <1>1 DEF Wrote
  <2>2. CASE q \in Requests
    <3>1. resp[q].bodies \in Nat /\ resp[q].by \subseteq Requests
      BY <2>2 DEF Response
    <3>2. new \in Response
      BY <3>1 DEF Response
    <3> QED BY <2>1, <3>2
  <2>3. CASE q \notin Requests
    BY <2>1, <2>3
  <2> QED BY <2>2, <2>3
<1>2. CASE Write(c, r)
  BY <1>1, <1>2 DEF Write, Context
<1>3. CASE WriteHeader(c, r) /\ ~ctx[c].status
  <2>1. Wrote(c, r, 0) /\ ctx' = [ctx EXCEPT ![c].status = TRUE, ![c].started = TRUE]
    BY <1>3 DEF WriteHeader
  <2> QED BY <1>1, <2>1 DEF Context
<1>4. CASE SetStatus(c)
  BY <1>4 DEF SetStatus, Context
<1>5. CASE Body(c, r)
  <2> DEFINE new == [cx EXCEPT !.status = cx.status \/ cx.out, !.started = TRUE, !.out = FALSE]
  <2>1. (cx.status \/ cx.out) \in BOOLEAN
    OBVIOUS
  <2>2. new \in Context /\ new.rw = cx.rw
    BY <1>0, <2>1 DEF Context
  <2>3. ctx' = [ctx EXCEPT ![c] = new]
    BY <1>5 DEF Body
  <2> QED BY <1>1, <1>5, <2>2, <2>3 DEF Body
<1>6. CASE Exception(c, r)
  BY <1>1, <1>6 DEF Exception, Context
<1>7. CASE UNCHANGED <<ctx, resp>>
  BY <1>7
<1>8. CASE Remember(c, r)
  BY <1>8 DEF Remember, Context
<1> QED BY <1>2, <1>3, <1>4, <1>5, <1>6, <1>7, <1>8 DEF Operation, WriteHeader

(* An operation touches only its context and the response of the request   *)
(* wrapped in it; if it sends anything, Started and the response tell.     *)
LEMMA OperationIs ==
  ASSUME ctx \in [Ctxs -> Context], resp \in [Requests -> Response],
         NEW c \in Ctxs, NEW r \in Requests, Operation(c, r),
         NEW w \in Requests \cup {None}, ctx[c].rw = w
  PROVE  /\ \A d \in Ctxs \ {c} : ctx'[d] = ctx[d]
         /\ \A q \in Requests \ {w} : resp'[q] = resp[q]
         /\ w \in Requests => resp'[w].bodies <= resp[w].bodies + 1
         /\ w \in Requests => \/ ctx'[c].started = ctx[c].started /\ resp'[w] = resp[w]
                              \/ /\ ctx'[c].started = TRUE /\ resp'[w].head = TRUE
                                 /\ resp'[w].by = resp[w].by \cup {r}
<1>1. ASSUME NEW n \in {0, 1}, Wrote(c, r, n)
      PROVE  /\ \A q \in Requests \ {w} : resp'[q] = resp[q]
             /\ w \in Requests => /\ resp'[w].by = resp[w].by \cup {r}
                                  /\ resp'[w].bodies <= resp[w].bodies + 1
                                  /\ resp'[w].head = TRUE
  BY <1>1 DEF Wrote, Response
<1>2. CASE Write(c, r)
  BY <1>1, <1>2 DEF Write, Context
<1>3. CASE WriteHeader(c, r) /\ ~ctx[c].status
  <2>1. Wrote(c, r, 0) /\ ctx' = [ctx EXCEPT ![c].status = TRUE, ![c].started = TRUE]
    BY <1>3 DEF WriteHeader
  <2> QED BY <1>1, <2>1 DEF Context
<1>4. CASE SetStatus(c)
  BY <1>4 DEF SetStatus, Context, Response
<1>5. CASE Body(c, r)
  <2>1. ctx'[c].started = TRUE /\ \A d \in Ctxs \ {c} : ctx'[d] = ctx[d]
    BY <1>5 DEF Body, Context
  <2> QED BY <1>1, <1>5, <2>1 DEF Body
<1>6. CASE Exception(c, r)
  BY <1>1, <1>6 DEF Exception, Context
<1>7. CASE UNCHANGED <<ctx, resp>>
  BY <1>7 DEF Response
<1>8. CASE Remember(c, r)
  BY <1>8 DEF Remember, Context, Response
<1> QED BY <1>2, <1>3, <1>4, <1>5, <1>6, <1>7, <1>8 DEF Operation, WriteHeader

-----------------------------------------------------------------------------
(* A request has a context exactly while it is in flight, and from the     *)
(* match on a controller; once initialised, the controller has a context.  *)
HasContext == \A r \in Requests : InFlight(r) <=> ctxOf[r] \in Ctxs
Matched(r) == pc[r] \in {"session", "init"} \/ InHandler(r)
HasController ==
  /\ \A r \in Requests : Matched(r) => route[r] \in Controllers
  /\ \A r \in Requests : InHandler(r) => ctrl[route[r]].ctx \in Ctxs

PoolInv == TypeOK /\ HasContext /\ ContextExclusive /\ HasController

LEMMA InitPool == Init => PoolInv
<1> SUFFICES ASSUME Init PROVE PoolInv
  OBVIOUS
<1>1. /\ pc \in [Requests -> PCs] /\ route \in [Requests -> Controllers \cup {None}]
      /\ ctxOf \in [Requests -> Ctxs \cup {None}] /\ pool \subseteq Ctxs
      /\ seen \in [Requests -> Requests \cup {None}] /\ overtaken \subseteq Requests
  BY DEF Init, PCs
<1>2. ctx \in [Ctxs -> Context] /\ ctrl \in [Controllers -> Controller]
  BY DEF Init, Context, NewContext, Controller
<1>3. resp \in [Requests -> Response] /\ acted \in [Requests -> BOOLEAN]
  BY DEF Init, Response
<1>4. HasContext /\ HasController
  BY DEF Init, HasContext, HasController, Matched, InHandler, InFlight
<1>5. pool = Ctxs \ {ctxOf[r] : r \in Requests}
  BY DEF Init
<1>6. ContextExclusive
  BY <1>5 DEF Init, ContextExclusive, InFlight
<1> QED BY <1>1, <1>2, <1>3, <1>4, <1>6 DEF PoolInv, TypeOK

(* A step between arrival and PutContext: the request goes on with the     *)
(* context it has, and no ResponseWriter changes hands.                    *)
Inner(r) ==
  /\ UNCHANGED <<route, ctxOf, pool>>
  /\ InFlight(r)
  /\ \E l \in PCs \ {"new", "done"} : Goto(r, l)
  /\ ctx' \in [Ctxs -> Context] /\ \A d \in Ctxs : ctx'[d].rw = ctx[d].rw
  /\ resp' \in [Requests -> Response]
  /\ ctrl' \in [Controllers -> Controller]
  /\ acted' \in [Requests -> BOOLEAN]
  /\ seen' \in [Requests -> Requests \cup {None}]
  /\ overtaken' \subseteq Requests

LEMMA InnerKeepsPool ==
  ASSUME TypeOK, HasContext, ContextExclusive, NEW r \in Requests, Inner(r)
  PROVE  TypeOK' /\ HasContext' /\ ContextExclusive'
<1>1. /\ pc' \in [Requests -> PCs]
      /\ \A q \in Requests : InFlight(q)' <=> InFlight(q)
  BY DEF Inner, TypeOK, Goto, InFlight
<1>2. TypeOK'
  BY <1>1 DEF Inner, TypeOK
<1>3. HasContext'
  BY <1>1 DEF Inner, HasContext
<1>4. ContextExclusive'
  BY <1>1 DEF Inner, HasContext, ContextExclusive
<1> QED BY <1>2, <1>3, <1>4

(* The context the user's code works on is one of the pool's. *)
LEMMA UserCodeStep ==
  ASSUME PoolInv, NEW r \in Requests, InHandler(r), UserCode(r) \/ NoBody(r)
  PROVE  /\ Operation(ctrl[route[r]].ctx, r)
         /\ ctrl' \in [Controllers -> Controller]
         /\ seen' \in [Requests -> Requests \cup {None}]
         /\ \A k \in Controllers : ctrl'[k].ctx = ctrl[k].ctx
<1> DEFINE k == route[r]
           c == ctrl[k].ctx
<1>1. k \in Controllers /\ c \in Ctxs
  BY DEF PoolInv, HasController, Matched
<1>2. CASE UNCHANGED <<ctrl, seen>>
  BY <1>2 DEF UserCode, NoBody, Operation, PoolInv, TypeOK
<1>3. CASE StartSession(k, c, r) /\ UNCHANGED <<ctx, resp>>
  <2>1. Session(k, c) \in Requests \cup {None}
    BY <1>1 DEF Session, PoolInv, TypeOK, Context, Controller
  <2> QED BY <1>1, <1>3, <2>1 DEF StartSession, Operation, PoolInv, TypeOK, Controller
<1> QED BY <1>2, <1>3 DEF UserCode, NoBody

(* The error pages and the header that are sent outside the user's code go *)
(* to the request's own context.                                           *)
Served(r) == Static(r) \/ ParseForm(r) \/ Match(r) \/ SessionStart(r) \/ Logging(r)

LEMMA ServedStep ==
  ASSUME PoolInv, NEW r \in Requests, Served(r)
  PROVE  /\ InFlight(r) /\ Operation(ctxOf[r], r)
         /\ ctx' \in [Ctxs -> Context] /\ resp' \in [Requests -> Response]
         /\ \A d \in Ctxs : ctx'[d].rw = ctx[d].rw
<1>1. InFlight(r) /\ ctxOf[r] \in Ctxs
  BY DEF Served, Static, ParseForm, Match, SessionStart, Logging, InFlight, PoolInv,
     HasContext
<1>2. Operation(ctxOf[r], r)
  BY DEF Served, Static, ParseForm, Match, SessionStart, Logging, Operation, Remember
<1> QED BY <1>1, <1>2, OperationTypes DEF PoolInv, TypeOK

LEMMA StepPool == ASSUME PoolInv, [Next]_vars PROVE PoolInv'
<1> USE DEF PoolInv
<1>1. ASSUME NEW r \in Requests, NEW c \in Ctxs, NEW k \in Controllers \cup {None},
             Arrive(r, c, k)
      PROVE  PoolInv'
  <2>1. /\ pc[r] = "new" /\ ctxOf[r] = None /\ c \in pool
        /\ pc' = [pc EXCEPT ![r] = "static"] /\ route' = [route EXCEPT ![r] = k]
        /\ ctxOf' = [ctxOf EXCEPT ![r] = c] /\ pool' = pool \ {c}
        /\ UNCHANGED <<ctrl, resp, acted, seen, overtaken>>
    BY <1>1 DEF Arrive, Goto, HasContext, InFlight, TypeOK
  <2>2. ctx' \in [Ctxs -> Context] /\ ctx'[c].rw = r /\ \A d \in Ctxs \ {c} : ctx'[d] = ctx[d]
    BY <1>1 DEF Arrive, NewContext, Context, TypeOK
  <2>3. TypeOK'
    BY <2>1, <2>2 DEF TypeOK, PCs
  <2>4. /\ InFlight(r)' /\ ~InFlight(r)
        /\ \A q \in Requests \ {r} : InFlight(q)' <=> InFlight(q)
    BY <2>1 DEF TypeOK, InFlight
  <2>5. HasContext'
    BY <2>1, <2>4 DEF TypeOK, HasContext
  <2>6. \A q \in Requests \ {r} : ctxOf'[q] = ctxOf[q] /\ ctxOf[q] # c
    BY <2>1 DEF TypeOK, ContextExclusive
  <2>7. ContextExclusive'
    <3>1. pool' = Ctxs \ {ctxOf'[q] : q \in Requests}
      BY <2>1, <2>6 DEF TypeOK, ContextExclusive
    <3>2. \A q \in Requests : InFlight(q)' => ctx'[ctxOf'[q]].rw = q
      BY <2>1, <2>2, <2>4, <2>6 DEF TypeOK, ContextExclusive, HasContext
    <3>3. \A p, q \in Requests : InFlight(p)' /\ InFlight(q)' /\ ctxOf'[p] = ctxOf'[q] => p = q
      BY <2>1, <2>4, <2>6 DEF TypeOK, ContextExclusive
    <3> QED BY <3>1, <3>2, <3>3 DEF ContextExclusive
  <2>8. HasController'
    BY <2>1 DEF TypeOK, HasController, Matched, InHandler
  <2> QED BY <2>3, <2>5, <2>7, <2>8
<1>2. ASSUME NEW r \in Requests, Served(r) PROVE PoolInv'
  <2>1. Inner(r)
    BY <1>2, ServedStep DEF Served, Static, ParseForm, Match, SessionStart, Logging,
       Inner, Goto, TypeOK, PCs
  <2>2. HasController'
    BY <1>2 DEF Served, Static, ParseForm, Match, SessionStart, Logging, Goto, TypeOK,
       HasController, Matched, InHandler
  <2> QED BY <2>1, <2>2, InnerKeepsPool
<1>3. ASSUME NEW r \in Requests, InitController(r) PROVE PoolInv'
  <2>1. ctxOf[r] \in Ctxs /\ route[r] \in Controllers
    BY <1>3 DEF InitController, HasContext, HasController, Matched, InFlight
  <2>2. ctrl' \in [Controllers -> Controller]
    BY <1>3, <2>1 DEF InitController, TypeOK, Controller
  <2>3. Inner(r)
    BY <1>3, <2>2 DEF InitController, Inner, InFlight, Goto, TypeOK, PCs
  <2>4. /\ ctrl'[route[r]].ctx \in Ctxs
        /\ \A k \in Controllers : ctrl'[k].ctx = ctrl[k].ctx \/ ctrl'[k].ctx \in Ctxs
    BY <1>3, <2>1 DEF InitController, TypeOK, Controller
  <2>5. HasController'
    BY <1>3, <2>1, <2>4 DEF InitController, Goto, TypeOK, HasController, Matched, InHandler
  <2> QED BY <2>3, <2>5, InnerKeepsPool
<1>4. ASSUME NEW r \in Requests, BeforeAction(r) \/ Action(r) \/ AfterAction(r)
      PROVE  PoolInv'
  <2>1. InHandler(r) /\ (UserCode(r) \/ NoBody(r))
    BY <1>4 DEF BeforeAction, Action, AfterAction, InHandler
  <2>2. ctrl[route[r]].ctx \in Ctxs
    BY <2>1 DEF HasController
  <2>3. /\ ctx' \in [Ctxs -> Context] /\ resp' \in [Requests -> Response]
        /\ \A d \in Ctxs : ctx'[d].rw = ctx[d].rw
    BY <2>1, <2>2, UserCodeStep, OperationTypes DEF TypeOK
  <2>4. acted' \in [Requests -> BOOLEAN] /\ overtaken' \subseteq Requests
    BY <1>4 DEF BeforeAction, Action, AfterAction, TypeOK
  <2>5. /\ UNCHANGED <<route, ctxOf, pool>> /\ InFlight(r)
        /\ \E l \in {"xsrf", "render", "log"} : Goto(r, l)
    BY <1>4 DEF BeforeAction, Action, AfterAction, InFlight
  <2>6. Inner(r)
    BY <2>1, <2>3, <2>4, <2>5, UserCodeStep DEF Inner, PCs
  <2>7. HasController'
    BY <2>1, <2>5, UserCodeStep DEF Goto, TypeOK, HasController, Matched, InHandler
  <2> QED BY <2>6, <2>7, InnerKeepsPool
<1>5. ASSUME NEW r \in Requests, CheckXSRF(r) \/ Render(r) \/ Panic(r) \/ Abort(r)
      PROVE  PoolInv'
  <2>1. InHandler(r)
    BY <1>5 DEF CheckXSRF, Render, Panic, Abort, InHandler
  <2>2. ctrl[route[r]].ctx \in Ctxs
    BY <2>1 DEF HasController
  <2>3. Operation(ctrl[route[r]].ctx, r)
    BY <1>5 DEF CheckXSRF, Render, Panic, Abort, Operation
  <2>4. /\ ctx' \in [Ctxs -> Context] /\ resp' \in [Requests -> Response]
        /\ \A d \in Ctxs : ctx'[d].rw = ctx[d].rw
    BY <2>2, <2>3, OperationTypes DEF TypeOK
  <2>5. /\ UNCHANGED <<route, ctxOf, pool, ctrl, acted, seen, overtaken>> /\ InFlight(r)
        /\ \E l \in {"action", "after", "put"} : Goto(r, l)
    BY <1>5 DEF CheckXSRF, Render, Panic, Abort, InFlight, InHandler
  <2>6. Inner(r)
    BY <2>4, <2>5 DEF Inner, TypeOK, PCs
  <2>7. HasController'
    BY <2>1, <2>5 DEF Goto, TypeOK, HasController, Matched, InHandler
  <2> QED BY <2>6, <2>7, InnerKeepsPool
<1>6. ASSUME NEW r \in Requests, PutContext(r) PROVE PoolInv'
  <2>1. /\ pc[r] = "put" /\ ctxOf[r] \in Ctxs
        /\ pc' = [pc EXCEPT ![r] = "done"]
        /\ ctxOf' = [ctxOf EXCEPT ![r] = None] /\ pool' = pool \cup {ctxOf[r]}
        /\ UNCHANGED <<route, ctx, ctrl, resp, acted, seen, overtaken>>
    BY <1>6 DEF PutContext, Goto, HasContext, InFlight
  <2>2. TypeOK'
    BY <2>1 DEF TypeOK, PCs
  <2>3. /\ ~InFlight(r)' /\ InFlight(r)
        /\ \A q \in Requests \ {r} : InFlight(q)' <=> InFlight(q)
    BY <2>1 DEF TypeOK, InFlight
  <2>4. HasContext'
    BY <2>1, <2>3 DEF TypeOK, HasContext
  <2>5. \A q \in Requests \ {r} : ctxOf'[q] = ctxOf[q] /\ ctxOf[q] # ctxOf[r]
    BY <2>1, <2>3 DEF TypeOK, ContextExclusive, HasContext
  <2>6. ContextExclusive'
    <3>1. pool' = Ctxs \ {ctxOf'[q] : q \in Requests}
      BY <2>1, <2>5 DEF TypeOK, ContextExclusive
    <3>2. \A q \in Requests : InFlight(q)' => ctx'[ctxOf'[q]].rw = q
      BY <2>1, <2>3, <2>5 DEF TypeOK, ContextExclusive
    <3>3. \A p, q \in Requests : InFlight(p)' /\ InFlight(q)' /\ ctxOf'[p] = ctxOf'[q] => p = q
      BY <2>1, <2>3, <2>5 DEF TypeOK, ContextExclusive
    <3> QED BY <3>1, <3>2, <3>3 DEF ContextExclusive
  <2>7. HasController'
    BY <2>1 DEF TypeOK, HasController, Matched, InHandler
  <2> QED BY <2>2, <2>4, <2>6, <2>7
<1>7. CASE UNCHANGED vars
  BY <1>7 DEF vars, TypeOK, HasContext, ContextExclusive, HasController, Matched,
     InHandler, InFlight
<1> QED BY <1>1, <1>2, <1>3, <1>4, <1>5, <1>6, <1>7 DEF Next, ServeHTTP, Served

-----------------------------------------------------------------------------
(* A context wraps a request that is done, or the one that holds it.  And  *)
(* as long as no other handler wrote to a response, Started tells whether  *)
(* anything was sent, and nothing was before the points at which the code  *)
(* relies on it.                                                           *)
Wrapped == \A r \in Requests, c \in Ctxs : ctx[c].rw = r => pc[r] = "done" \/ ctxOf[r] = c

Unsent == {"new", "static", "parse", "match", "session", "init", "before", "action"}
Alone(r) == resp[r].by \subseteq {r}
Answer ==
  \A r \in Requests : Alone(r) =>
    /\ InFlight(r) => ctx[ctxOf[r]].started = resp[r].head
    /\ pc[r] \in Unsent => resp[r].head = FALSE
    /\ resp[r].head = FALSE => resp[r].bodies = 0
    /\ resp[r].bodies <= 1

HandlerInv == Wrapped /\ ControllerIsMine /\ ResponseIsolated /\ Answer

LEMMA InitHandler == Init => HandlerInv
BY DEF Init, NewContext, HandlerInv, Wrapped, ControllerIsMine, ResponseIsolated, Answer, Alone,
   InFlight, InHandler

(* One operation of request r on its way to l, through its own context or, *)
(* when it was overtaken, through any: a body is written only where its    *)
(* own handler sent nothing.                                               *)
Through(r, c, l) ==
  /\ InFlight(r) /\ l \notin {"new", "done"} /\ Goto(r, l)
  /\ UNCHANGED <<route, ctxOf, overtaken>>
  /\ \A k \in Controllers : ctrl'[k].ctx = ctrl[k].ctx
  /\ Operation(c, r)
  /\ c = ctxOf[r] \/ r \in overtaken
  /\ Alone(r) /\ c = ctxOf[r] => resp[r].head = FALSE \/ resp'[r].bodies = resp[r].bodies
  /\ l \in Unsent => UNCHANGED resp /\ (Alone(r) => resp[r].head = FALSE)
  /\ l \in {"before", "xsrf", "action", "render", "after"} => InHandler(r)

LEMMA ThroughKeepsHandler ==
  ASSUME PoolInv, HandlerInv, NEW r \in Requests, NEW c \in Ctxs, NEW l \in PCs, Through(r, c, l)
  PROVE  HandlerInv'
<1> DEFINE w == ctx[c].rw
<1>1. /\ w \in Requests \cup {None} /\ resp[r] \in Response
      /\ \A q \in Requests : resp[q].bodies \in Nat
  BY DEF PoolInv, TypeOK, Context, Response
<1>2. /\ \A d \in Ctxs : ctx'[d].rw = ctx[d].rw
      /\ \A q \in Requests : resp'[q].bodies \in Nat
  BY OperationTypes DEF PoolInv, TypeOK, Through, Response
<1>3. /\ \A d \in Ctxs \ {c} : ctx'[d] = ctx[d]
      /\ \A q \in Requests \ {w} : resp'[q] = resp[q]
      /\ w \in Requests => resp'[w].bodies <= resp[w].bodies + 1
      /\ w \in Requests => \/ ctx'[c].started = ctx[c].started /\ resp'[w] = resp[w]
                           \/ /\ ctx'[c].started = TRUE /\ resp'[w].head = TRUE
                              /\ resp'[w].by = resp[w].by \cup {r}
  BY <1>1, OperationIs DEF PoolInv, TypeOK, Through
<1> HIDE DEF w
<1>4. /\ pc'[r] = l /\ \A q \in Requests \ {r} : pc'[q] = pc[q]
      /\ \A q \in Requests : /\ InFlight(q)' => InFlight(q)
                             /\ (pc'[q] = "done" <=> pc[q] = "done")
  BY DEF PoolInv, TypeOK, Through, Goto, InFlight
<1>5. \A q \in Requests : InFlight(q) => ctxOf[q] \in Ctxs /\ ctx[ctxOf[q]].rw = q
  BY DEF PoolInv, HasContext, ContextExclusive
<1>6. Wrapped'
  BY <1>2, <1>4 DEF HandlerInv, Wrapped, Through
<1>7. ControllerIsMine'
  BY <1>4 DEF PoolInv, HandlerInv, ControllerIsMine, HasController, Matched, InHandler, Through
<1>8. ResponseIsolated'
  <2>1. w \in Requests => r \in {w} \cup overtaken
    BY <1>5 DEF w, Through
  <2> QED BY <1>3, <2>1 DEF HandlerInv, ResponseIsolated, Through
<1>9. ASSUME NEW q \in Requests, Alone(q)'
      PROVE  /\ InFlight(q)' => ctx'[ctxOf'[q]].started = resp'[q].head
             /\ pc'[q] \in Unsent => resp'[q].head = FALSE
             /\ resp'[q].head = FALSE => resp'[q].bodies = 0
             /\ resp'[q].bodies <= 1
  <2>1. CASE q # w
    <3>1. InFlight(q)' => ctxOf[q] \in Ctxs /\ ctxOf[q] # c
      BY <1>4, <1>5, <2>1 DEF w
    <3>2. resp'[q] = resp[q] /\ Alone(q)
      BY <1>3, <1>9, <2>1 DEF Alone
    <3>3. pc'[q] \in Unsent => resp'[q].head = FALSE
      BY <1>4, <3>2 DEF HandlerInv, Answer, Through
    <3> QED BY <1>3, <1>4, <3>1, <3>2, <3>3 DEF HandlerInv, Answer, Through
  <2>2. CASE q = w /\ q # r
    <3>1. /\ resp'[q] = resp[q] /\ ctx'[c].started = ctx[c].started /\ Alone(q)
      BY <1>3, <1>9, <2>2 DEF Alone
    <3>2. InFlight(q) => ctxOf[q] = c
      BY <2>2 DEF w, HandlerInv, Wrapped, InFlight
    <3> QED BY <1>4, <2>2, <3>1, <3>2 DEF HandlerInv, Answer, Through
  <2>3. CASE q = w /\ q = r
    <3>1. c = ctxOf[r] /\ Alone(r)
      BY <1>3, <1>9, <2>3 DEF w, HandlerInv, Wrapped, InFlight, Through, Alone
    <3>2. ctx[c].started = resp[r].head
      BY <3>1 DEF HandlerInv, Answer, Through
    <3>3. ctx'[c].started = resp'[r].head
      BY <1>3, <2>3, <3>2
    <3>4. pc'[r] \in Unsent => resp'[r].head = FALSE
      BY <1>4, <3>1 DEF Through
    <3>5. resp'[r].bodies <= 1
      BY <1>1, <1>2, <1>3, <2>3, <3>1 DEF HandlerInv, Answer, Through
    <3>6. resp'[r].head = FALSE => resp'[r].bodies = 0
      BY <1>3, <2>3, <3>1 DEF HandlerInv, Answer
    <3> QED BY <2>3, <3>1, <3>3, <3>4, <3>5, <3>6 DEF Through
  <2> QED BY <2>1, <2>2, <2>3
<1>10. Answer'
  BY <1>9 DEF Answer
<1> QED BY <1>6, <1>7, <1>8, <1>10 DEF HandlerInv

LEMMA StepHandler ==
  ASSUME PoolInv, HandlerInv, [Next]_vars
  PROVE  HandlerInv'
<1>0. ASSUME NEW r \in Requests, NEW c \in Ctxs, NEW l \in PCs, Through(r, c, l) PROVE HandlerInv'
  BY <1>0, ThroughKeepsHandler
<1>1. ASSUME NEW r \in Requests, NEW c \in Ctxs, NEW k \in Controllers \cup {None},
             Arrive(r, c, k)
      PROVE  HandlerInv'
  <2>1. /\ pc[r] = "new" /\ c \in pool
        /\ pc' = [pc EXCEPT ![r] = "static"] /\ route' = [route EXCEPT ![r] = k]
        /\ ctxOf' = [ctxOf EXCEPT ![r] = c]
        /\ UNCHANGED <<ctrl, resp, acted, seen, overtaken>>
    BY <1>1 DEF Arrive, Goto
  <2>2. /\ ctx'[c].started = FALSE /\ ctx'[c].rw = r
        /\ \A d \in Ctxs \ {c} : ctx'[d] = ctx[d]
    BY <1>1 DEF Arrive, NewContext, PoolInv, TypeOK
  <2>3. \A q \in Requests \ {r} : /\ pc'[q] = pc[q] /\ route'[q] = route[q]
                                  /\ ctxOf'[q] = ctxOf[q] /\ ctxOf[q] # c
                                  /\ InFlight(q)' <=> InFlight(q)
    BY <2>1 DEF PoolInv, TypeOK, ContextExclusive, InFlight
  <2>4. pc'[r] = "static" /\ ctxOf'[r] = c /\ ~InFlight(r)
    BY <2>1 DEF PoolInv, TypeOK, InFlight
  <2>5. Wrapped'
    <3>1. \A d \in Ctxs : ctx[d].rw # r
      BY <2>1, <2>4 DEF HandlerInv, Wrapped, PoolInv, HasContext
    <3> QED BY <2>2, <2>3, <2>4, <3>1 DEF HandlerInv, Wrapped
  <2>6. ControllerIsMine'
    BY <2>1, <2>3, <2>4 DEF HandlerInv, ControllerIsMine, InHandler
  <2>7. ResponseIsolated'
    BY <2>1 DEF HandlerInv, ResponseIsolated
  <2>8. ASSUME NEW q \in Requests, Alone(q)
        PROVE  InFlight(q)' => ctx'[ctxOf'[q]].started = resp'[q].head
    <3>1. CASE q = r
      BY <2>1, <2>2, <2>4, <2>8, <3>1 DEF HandlerInv, Answer, Unsent
    <3>2. CASE q # r
      <4>1. InFlight(q) => ctxOf[q] \in Ctxs \ {c}
        BY <2>3, <3>2 DEF PoolInv, HasContext
      <4> QED BY <2>1, <2>2, <2>3, <2>8, <3>2, <4>1 DEF HandlerInv, Answer
    <3> QED BY <3>1, <3>2
  <2>9. Answer'
    BY <2>1, <2>3, <2>4, <2>8 DEF HandlerInv, Answer, Alone, Unsent
  <2> QED BY <2>5, <2>6, <2>7, <2>9 DEF HandlerInv
<1>2. ASSUME NEW r \in Requests, Static(r) \/ ParseForm(r) \/ Match(r) \/ SessionStart(r)
      PROVE  HandlerInv'
  <2>1. /\ pc[r] \in {"static", "parse", "match", "session"}
        /\ UNCHANGED <<route, ctxOf, ctrl, overtaken>>
        /\ \/ Operation(ctxOf[r], r) /\ Goto(r, "log")
           \/ /\ Operation(ctxOf[r], r) /\ UNCHANGED resp
              /\ Goto(r, "parse") \/ Goto(r, "match") \/ Goto(r, "session") \/ Goto(r, "init")
    BY <1>2 DEF Static, ParseForm, Match, SessionStart, Operation, Remember
  <2>2. InFlight(r) /\ ctxOf[r] \in Ctxs /\ (Alone(r) => resp[r].head = FALSE)
    BY <2>1 DEF InFlight, HandlerInv, Answer, Unsent, PoolInv, HasContext
  <2>3. \E l \in {"log", "parse", "match", "session", "init"} : Through(r, ctxOf[r], l)
    BY <2>1, <2>2 DEF Through, Unsent
  <2> QED BY <2>2, <2>3, <1>0 DEF PCs
<1>3. ASSUME NEW r \in Requests, InitController(r) PROVE HandlerInv'
  <2>1. /\ pc[r] = "init" /\ route[r] \in Controllers
        /\ pc' = [pc EXCEPT ![r] = "before"]
        /\ ctrl' = [ctrl EXCEPT ![route[r]].ctx = ctxOf[r]]
        /\ UNCHANGED <<route, ctxOf, ctx, resp>>
        /\ overtaken' = overtaken \cup {q \in Requests \ {r} : InHandler(q) /\ route[q] = route[r]}
    BY <1>3 DEF InitController, Goto, PoolInv, HasController, Matched
  <2>2. /\ pc'[r] = "before" /\ \A q \in Requests \ {r} : pc'[q] = pc[q]
        /\ \A q \in Requests : InFlight(q)' <=> InFlight(q)
    BY <2>1 DEF PoolInv, TypeOK, InFlight
  <2>3. Wrapped'
    BY <2>1, <2>2 DEF HandlerInv, Wrapped
  <2>4. ControllerIsMine'
    <3>1. ctrl'[route[r]].ctx = ctxOf[r]
      BY <2>1 DEF PoolInv, TypeOK, Controller
    <3>2. ASSUME NEW q \in Requests \ {r}, InHandler(q)', q \notin overtaken'
          PROVE  ctrl'[route[q]].ctx = ctxOf[q]
      <4>1. InHandler(q) /\ q \notin overtaken /\ route[q] # route[r]
        BY <2>1, <2>2, <3>2 DEF InHandler
      <4>2. route[q] \in Controllers
        BY <4>1 DEF PoolInv, HasController, Matched
      <4>3. ctrl'[route[q]] = ctrl[route[q]]
        BY <2>1, <4>1, <4>2 DEF PoolInv, TypeOK
      <4> QED BY <4>1, <4>3 DEF HandlerInv, ControllerIsMine
    <3> QED BY <2>1, <2>2, <3>1, <3>2 DEF ControllerIsMine
  <2>5. ResponseIsolated' /\ Answer'
    BY <2>1, <2>2 DEF HandlerInv, ResponseIsolated, Answer, Alone, Unsent
  <2> QED BY <2>3, <2>4, <2>5 DEF HandlerInv
<1>4. ASSUME NEW r \in Requests, InHandler(r)
      PROVE  /\ InFlight(r) /\ ctrl[route[r]].ctx \in Ctxs
             /\ ctrl[route[r]].ctx = ctxOf[r] \/ r \in overtaken
             /\ ctxOf[r] \in Ctxs /\ ctx[ctxOf[r]].rw = r
             /\ Alone(r) => ctx[ctxOf[r]].started = resp[r].head
  <2>1. InFlight(r)
    BY <1>4 DEF InHandler, InFlight
  <2> QED BY <1>4, <2>1 DEF HandlerInv, ControllerIsMine, Answer, PoolInv, HasContext,
             ContextExclusive, HasController
<1>5. ASSUME NEW r \in Requests, BeforeAction(r) \/ Action(r) PROVE HandlerInv'
  <2>1. InHandler(r) /\ UserCode(r) /\ (Alone(r) => resp[r].head = FALSE)
    BY <1>5 DEF BeforeAction, Action, InHandler, HandlerInv, Answer, Unsent
  <2>2. \E l \in {"xsrf", "render"} : Goto(r, l) /\ UNCHANGED <<route, ctxOf, overtaken>>
    BY <1>5 DEF BeforeAction, Action
  <2>3. \E l \in {"xsrf", "render"} : Through(r, ctrl[route[r]].ctx, l)
    BY <1>4, <2>1, <2>2, UserCodeStep DEF Through, Unsent
  <2> QED BY <1>4, <2>1, <2>3, <1>0 DEF PCs
<1>6. ASSUME NEW r \in Requests, CheckXSRF(r) \/ Render(r) \/ Panic(r) \/ Abort(r)
      PROVE  HandlerInv'
  <2>1. InHandler(r)
    BY <1>6 DEF CheckXSRF, Render, Panic, Abort, InHandler
  <2> DEFINE c == ctrl[route[r]].ctx
  <2>2. /\ InFlight(r) /\ c \in Ctxs /\ (c = ctxOf[r] \/ r \in overtaken)
        /\ Alone(r) => ctx[ctxOf[r]].started = resp[r].head
    BY <1>4, <2>1
  <2>3. UNCHANGED <<route, ctxOf, ctrl, overtaken>> /\ Operation(c, r)
    BY <1>6 DEF CheckXSRF, Render, Panic, Abort, Operation
  <2>4. CASE CheckXSRF(r)
    <3>1. Through(r, c, "after") \/ Through(r, c, "action")
      <4>1. UNCHANGED <<ctx, resp>>
        BY <2>4 DEF CheckXSRF
      <4>2. CASE ctx[ctxOf[r]].started
        <5>1. Goto(r, "after")
          BY <2>4, <4>2 DEF CheckXSRF
        <5> QED BY <2>1, <2>2, <2>3, <4>1, <5>1 DEF Through, Unsent
      <4>3. CASE ~ctx[ctxOf[r]].started
        <5>1. Goto(r, "action")
          BY <2>4, <4>3 DEF CheckXSRF
        <5>2. ctxOf[r] \in Ctxs /\ ctx[ctxOf[r]].started = FALSE
          BY <1>4, <2>1, <4>3 DEF PoolInv, TypeOK, Context
        <5> QED BY <2>1, <2>2, <2>3, <4>1, <5>1, <5>2 DEF Through, Unsent
      <4> QED BY <4>2, <4>3
    <3> QED BY <2>2, <3>1, <1>0 DEF PCs
  <2>5. CASE Render(r)
    <3>1. ctxOf[r] \in Ctxs /\ ctx[ctxOf[r]].started \in BOOLEAN
      BY <1>4, <2>1 DEF PoolInv, TypeOK, Context
    <3>2. Goto(r, "after") /\ ((~ctx[ctxOf[r]].started) \/ UNCHANGED resp)
      BY <2>5 DEF Render
    <3>3. Through(r, c, "after")
      BY <2>1, <2>2, <2>3, <3>1, <3>2 DEF Through, Unsent
    <3> QED BY <2>2, <3>3, <1>0 DEF PCs
  <2>6. CASE Panic(r)
    <3>1. Through(r, c, "put")
      BY <2>1, <2>2, <2>3, <2>6 DEF Panic, Through, Unsent
    <3> QED BY <2>2, <3>1, <1>0 DEF PCs
  <2>7. CASE Abort(r)
    <3>1. Goto(r, "put") /\ ((Alone(r) => resp[r].head = FALSE) \/ UNCHANGED resp)
      BY <2>7 DEF Abort, SetStatus, HandlerInv, Answer, Unsent
    <3>2. Through(r, c, "put")
      BY <2>1, <2>2, <2>3, <3>1 DEF Through, Unsent
    <3> QED BY <2>2, <3>2, <1>0 DEF PCs
  <2> QED BY <1>6, <2>4, <2>5, <2>6, <2>7
<1>7. ASSUME NEW r \in Requests, Logging(r) PROVE HandlerInv'
  <2>1. /\ pc[r] = "log" /\ Goto(r, "put") /\ UNCHANGED <<route, ctxOf, ctrl, overtaken>>
        /\ WriteHeader(ctxOf[r], r) \/ UNCHANGED <<ctx, resp>>
    BY <1>7 DEF Logging
  <2>2. InFlight(r) /\ ctxOf[r] \in Ctxs /\ ctx[ctxOf[r]].rw = r
    BY <2>1 DEF InFlight, PoolInv, HasContext, ContextExclusive
  <2>3. resp'[r].bodies = resp[r].bodies
    BY <2>1, <2>2 DEF WriteHeader, Wrote, PoolInv, TypeOK, Response
  <2>4. Through(r, ctxOf[r], "put")
    BY <2>1, <2>2, <2>3 DEF Through, Operation, Unsent
  <2> QED BY <2>2, <2>4, <1>0 DEF PCs
<1>8. ASSUME NEW r \in Requests, AfterAction(r) PROVE HandlerInv'
  <2>1. InHandler(r) /\ NoBody(r) /\ Goto(r, "log") /\ UNCHANGED <<route, ctxOf, overtaken>>
    BY <1>8 DEF AfterAction, InHandler
  <2> DEFINE c == ctrl[route[r]].ctx
  <2>2. /\ InFlight(r) /\ c \in Ctxs /\ (c = ctxOf[r] \/ r \in overtaken)
        /\ ctx[ctxOf[r]].rw = r
    BY <1>4, <2>1
  <2>3. c = ctxOf[r] => resp'[r].bodies = resp[r].bodies
    BY <2>1, <2>2 DEF NoBody, WriteHeader, Wrote, SetStatus, PoolInv, TypeOK, Response
  <2>4. Operation(c, r) /\ \A k \in Controllers : ctrl'[k].ctx = ctrl[k].ctx
    BY <2>1, UserCodeStep
  <2>5. Through(r, c, "log")
    BY <2>1, <2>2, <2>3, <2>4 DEF Through, Unsent
  <2> QED BY <2>2, <2>5, <1>0 DEF PCs
<1>9. ASSUME NEW r \in Requests, PutContext(r) PROVE HandlerInv'
  <2>1. /\ pc[r] = "put" /\ pc' = [pc EXCEPT ![r] = "done"]
        /\ ctxOf' = [ctxOf EXCEPT ![r] = None] /\ UNCHANGED <<route, ctx, ctrl, resp, overtaken>>
    BY <1>9 DEF PutContext, Goto
  <2>2. /\ pc'[r] = "done" /\ ~InFlight(r)'
        /\ \A q \in Requests \ {r} : /\ pc'[q] = pc[q] /\ ctxOf'[q] = ctxOf[q]
                                    /\ InFlight(q)' <=> InFlight(q)
    BY <2>1 DEF PoolInv, TypeOK, InFlight
  <2>3. Wrapped' /\ ControllerIsMine'
    BY <2>1, <2>2 DEF HandlerInv, Wrapped, ControllerIsMine, InHandler
  <2>4. ResponseIsolated' /\ Answer'
    BY <2>1, <2>2 DEF HandlerInv, ResponseIsolated, Answer, Alone, Unsent
  <2> QED BY <2>3, <2>4 DEF HandlerInv
<1>10. CASE UNCHANGED vars
  BY <1>10 DEF vars, HandlerInv, Wrapped, ControllerIsMine, ResponseIsolated, Answer, Alone,
     InFlight, InHandler
<1> QED BY <1>1, <1>2, <1>3, <1>5, <1>6, <1>7, <1>8, <1>9, <1>10 DEF Next, ServeHTTP

-----------------------------------------------------------------------------
(* The invariant of the pool. *)
THEOREM SpecPoolInv == Spec => []PoolInv
<1>1. PoolInv /\ [Next]_vars => PoolInv'
  BY StepPool
<1> QED BY <1>1, InitPool, PTL DEF Spec

(* Every variable keeps to its type. *)
THEOREM SpecTypeOK == Spec => []TypeOK
BY SpecPoolInv, PTL DEF PoolInv

(* However requests overlap, finish and panic: a context serves one        *)
(* request at a time and goes back to the pool when the request is done.   *)
THEOREM SpecContextExclusive == Spec => []ContextExclusive
BY SpecPoolInv, PTL DEF PoolInv

(* The invariant of handlers. *)
THEOREM SpecHandlerInv == Spec => [](PoolInv /\ HandlerInv)
<1>1. Init => PoolInv /\ HandlerInv
  BY InitPool, InitHandler
<1>2. PoolInv /\ HandlerInv /\ [Next]_vars => PoolInv' /\ HandlerInv'
  BY StepPool, StepHandler
<1> QED BY <1>1, <1>2, PTL DEF Spec

(* However requests overlap, a handler loses its own context only to the   *)
(* Init of another request of its route.                                   *)
THEOREM SpecControllerIsMine == Spec => []ControllerIsMine
BY SpecHandlerInv, PTL DEF HandlerInv

(* Whoever writes to another request's response is a handler whose         *)
(* controller was taken over by a request of its route.                    *)
THEOREM SpecResponseIsolated == Spec => []ResponseIsolated
BY SpecHandlerInv, PTL DEF HandlerInv

(* What ServeHTTP and its own handler send is one answer at most, also in  *)
(* a handler that was overtaken.                                           *)
THEOREM SpecAnsweredOnce == Spec => []AnsweredOnce
<1>1. HandlerInv => AnsweredOnce
  BY DEF HandlerInv, Answer, Alone, AnsweredOnce
<1> QED BY <1>1, SpecHandlerInv, PTL

(* An action runs after something was sent for its request only if another *)
(* request's handler sent it.                                              *)
THEOREM SpecNoActionAfterOwnResponse == Spec => NoActionAfterOwnResponse
<1> DEFINE A == \A r \in Requests :
                  acted'[r] # acted[r] /\ resp[r].by \subseteq {r} => ~resp[r].head
<1>1. ASSUME PoolInv, HandlerInv, [Next]_vars PROVE [A]_vars
  <2>1. ASSUME NEW r \in Requests, acted'[r] # acted[r], resp[r].by \subseteq {r}
        PROVE  ~resp[r].head
    <3>1. Action(r)
      BY <1>1, <2>1 DEF Next, ServeHTTP, Arrive, Static, ParseForm, Match, SessionStart,
         InitController, BeforeAction, CheckXSRF, Action, Render, AfterAction, Logging, PutContext,
         Panic, Abort, PoolInv, TypeOK, vars
    <3> QED BY <2>1, <3>1, <1>1 DEF Action, HandlerInv, Answer, Alone, Unsent
  <2> QED BY <2>1
<1> QED BY <1>1, SpecHandlerInv, PTL DEF Spec, NoActionAfterOwnResponse

HIDE DispatchAssumption DEF DispatchAssumption

-----------------------------------------------------------------------------
(* The router: what is registered is well-formed.  Every router keeps the  *)
(* numbers of its routes and the configuration it was made with; a route   *)
(* keeps the last matchers of its path, its host and its query among its   *)
(* matchers, and a subrouter, which only comes last, has routes that were  *)
(* made after it.                                                          *)
PathMatchers  == [kind : {"path", "prefix"}, tpl : Seq(UNION {ToSet(t) : t \in PathTpls})]
HostMatchers  == [kind : {"host"}, tpl : HostTpls]
QueryMatchers == [kind : {"query"}, tpl : QueryTpls]
SubMatchers   == [kind : {"mux"}, id : Nat]

Confs == [matchers : Seq(Matchers), path : PathMatchers \cup {Nil},
          host : HostMatchers \cup {Nil}, query : QueryMatchers \cup {Nil}]
Routers == [routes : Seq(Nat), conf : Confs]
Routes == [err : BOOLEAN, controller : Nat \cup {Nil}, matchers : Seq(Matchers \cup SubMatchers),
           path : PathMatchers \cup {Nil}, host : HostMatchers \cup {Nil},
           query : QueryMatchers \cup {Nil}]

Kept(r) == {r.path, r.host, r.query} \subseteq ToSet(r.matchers) \cup {Nil}

RoutersSound(mx, rs) ==
  /\ mx \in Seq(Routers) /\ Len(mx) >= 1
  /\ \A m \in 1..Len(mx) : mx[m].routes \in Seq(1..Len(rs)) /\ Kept(mx[m].conf)

Nested(mx, r, i) ==
  \A n \in 1..Len(r.matchers) : r.matchers[n].kind = "mux" =>
    /\ n = Len(r.matchers) /\ r.matchers[n].id \in 2..Len(mx)
    /\ \A j \in ToSet(mx[r.matchers[n].id].routes) : j > i

RouteSound(mx, r, i) == r.controller \in {i, Nil} /\ Kept(r) /\ Nested(mx, r, i)

Sound(mx, rs) ==
  /\ RoutersSound(mx, rs)
  /\ rs \in Seq(Routes)
  /\ \A i \in 1..Len(rs) : RouteSound(mx, rs[i], i)

Apart(mx) ==
  \A m, n \in 1..Len(mx) : m # n => ToSet(mx[m].routes) \cap ToSet(mx[n].routes) = {}

RouterInv == calls \in 0..MaxCalls /\ Sound(mux, routes) /\ Apart(mux)
USE RouterAssumption DEF RouterAssumption

(* One route is changed, and is still well-formed.                         *)
LEMMA ReplaceSound ==
  ASSUME NEW mx, NEW rs, Sound(mx, rs), NEW i \in 1..Len(rs), NEW r \in Routes,
         RouteSound(mx, r, i)
  PROVE  Sound(mx, [rs EXCEPT ![i] = r])
<1> DEFINE new == [rs EXCEPT ![i] = r]
<1>1. new \in Seq(Routes) /\ Len(new) = Len(rs)
  BY DEF Sound
<1>2. \A j \in 1..Len(rs) : new[j] = IF j = i THEN r ELSE rs[j]
  BY DEF Sound
<1> HIDE DEF new
<1>3. RoutersSound(mx, new)
  BY <1>1 DEF Sound, RoutersSound
<1>4. \A j \in 1..Len(new) : RouteSound(mx, new[j], j)
  BY <1>1, <1>2 DEF Sound
<1> QED BY <1>1, <1>3, <1>4 DEF Sound, new

LEMMA AppendIs ==
  ASSUME NEW S, NEW s \in Seq(S), NEW x
  PROVE  /\ Append(s, x) \in Seq(S \cup {x}) /\ Len(s) \in Nat
         /\ Len(Append(s, x)) = Len(s) + 1 /\ Append(s, x)[Len(s) + 1] = x
         /\ \A n \in 1..Len(s) : Append(s, x)[n] = s[n] /\ n \in 1..Len(s) + 1
         /\ ToSet(Append(s, x)) = ToSet(s) \cup {x}
<1> DEFINE a == Append(s, x)
<1>1. /\ a \in Seq(S \cup {x}) /\ Len(s) \in Nat /\ Len(a) = Len(s) + 1 /\ a[Len(s) + 1] = x
      /\ \A n \in 1..Len(s) : a[n] = s[n] /\ n \in 1..Len(s) + 1
      /\ DOMAIN a = 1..Len(s) + 1 /\ DOMAIN s = 1..Len(s)
  <2>1. s \in Seq(S \cup {x})
    OBVIOUS
  <2> QED BY <2>1
<1> HIDE DEF a
<1>2. \A y \in ToSet(a) : y \in ToSet(s) \cup {x}
  <2> SUFFICES ASSUME NEW n \in 1..Len(s) + 1 PROVE a[n] \in ToSet(s) \cup {x}
    BY <1>1 DEF ToSet
  <2>1. n \in 1..Len(s) \/ n = Len(s) + 1
    BY <1>1
  <2> QED BY <1>1, <2>1 DEF ToSet
<1>3. \A y \in ToSet(s) \cup {x} : y \in ToSet(a)
  <2>1. x \in ToSet(a)
    <3>1. Len(s) + 1 \in 1..Len(s) + 1
      BY <1>1
    <3> QED BY <1>1, <3>1 DEF ToSet
  <2>2. ASSUME NEW n \in 1..Len(s) PROVE s[n] \in ToSet(a)
    BY <1>1 DEF ToSet
  <2>3. \A y \in ToSet(s) : y \in ToSet(a)
    BY <1>1, <2>2 DEF ToSet
  <2> QED BY <2>1, <2>3
<1>4. ToSet(a) = ToSet(s) \cup {x}
  BY <1>2, <1>3
<1> QED BY <1>1, <1>4 DEF a

LEMMA PlainMatchers ==
  ASSUME NEW k \in Matchers
  PROVE  k.kind # "mux" /\ k \in PathMatchers \cup HostMatchers \cup QueryMatchers
BY DEF Matchers, PathMatchers, HostMatchers, QueryMatchers

(* A route with the configuration of a router is registered with it.       *)
LEMMA NewRouteSound ==
  ASSUME RouterInv, NEW m \in DOMAIN mux, NewRoute(m)
  PROVE  Sound(mux', routes') /\ Apart(mux') /\ calls' = calls
<1> DEFINE N   == Len(routes)
           c   == mux[m].conf
           new == [err |-> FALSE, controller |-> Nil, matchers |-> c.matchers,
                   path |-> c.path, host |-> c.host, query |-> c.query]
<1>1. /\ mux \in Seq(Routers) /\ routes \in Seq(Routes) /\ N \in Nat /\ Len(mux) \in Nat
      /\ m \in 1..Len(mux) /\ mux[m] \in Routers /\ Kept(c)
      /\ \A n \in 1..Len(mux) : mux[n].routes \in Seq(1..N)
  BY DEF RouterInv, Sound, RoutersSound
<1>2. c \in Confs /\ mux[m].routes \in Seq(Nat)
  BY <1>1 DEF Routers
<1>3. c.matchers \in Seq(Matchers)
  BY <1>2 DEF Confs
<1>4. c.matchers \in Seq(Matchers \cup SubMatchers)
  BY <1>3
<1>5. new \in Routes
  BY <1>2, <1>4 DEF Confs, Routes
<1>6. routes' = Append(routes, new) /\ mux' = [mux EXCEPT ![m].routes = Append(@, N + 1)]
      /\ calls' = calls
  BY DEF NewRoute, AddRoute
<1> DEFINE list == Append(mux[m].routes, N + 1)
           at   == [mux[m] EXCEPT !.routes = list]
<1>7. list \in Seq(Nat) /\ list \in Seq(1..N + 1) /\ ToSet(list) = ToSet(mux[m].routes) \cup {N + 1}
  <2>1. list \in Seq(Nat) /\ list \in Seq(1..N + 1)
    BY <1>1, <1>2
  <2>2. ToSet(list) = ToSet(mux[m].routes) \cup {N + 1}
    BY <1>2, AppendIs
  <2> QED BY <2>1, <2>2
<1>8. at \in Routers /\ at.routes = list /\ at.conf = c
  BY <1>1, <1>2, <1>7 DEF Routers
<1>9. /\ mux' \in Seq(Routers) /\ Len(mux') = Len(mux)
      /\ \A n \in 1..Len(mux) : mux'[n] = IF n = m THEN at ELSE mux[n]
  <2>1. mux' = [mux EXCEPT ![m] = at]
    BY <1>6
  <2> HIDE DEF at, list
  <2> QED BY <1>1, <1>8, <2>1
<1>10. /\ routes' \in Seq(Routes) /\ Len(routes') = N + 1 /\ routes'[N + 1] = new
       /\ \A i \in 1..N : routes'[i] = routes[i]
  <2> HIDE DEF new
  <2> QED BY <1>1, <1>5, <1>6
<1> HIDE DEF new, at, list
<1>11. RoutersSound(mux', routes')
  <2>1. ASSUME NEW n \in 1..Len(mux) PROVE mux'[n].routes \in Seq(1..N + 1) /\ Kept(mux'[n].conf)
    <3>1. CASE n = m
      BY <1>1, <1>7, <1>8, <1>9, <3>1
    <3>2. CASE n # m
      <4>1. mux'[n] = mux[n] /\ mux[n].routes \in Seq(1..N) /\ Kept(mux[n].conf)
        BY <1>1, <1>9, <3>2 DEF RouterInv, Sound, RoutersSound
      <4>2. 1..N \subseteq 1..N + 1
        BY <1>1
      <4> QED BY <4>1, <4>2
    <3> QED BY <3>1, <3>2
  <2> QED BY <1>9, <1>10, <2>1 DEF RouterInv, Sound, RoutersSound
<1>12. \A n \in 1..Len(mux) : \A j \in ToSet(mux'[n].routes) : j \in ToSet(mux[n].routes) \/ (n = m /\ j = N + 1)
  BY <1>7, <1>8, <1>9
<1>13. ASSUME NEW i \in 1..N + 1 PROVE RouteSound(mux', routes'[i], i)
  <2>1. CASE i = N + 1
    <3>1. \A n \in 1..Len(new.matchers) : new.matchers[n].kind # "mux"
      <4>1. new.matchers = c.matchers /\ \A n \in 1..Len(c.matchers) : c.matchers[n] \in Matchers
        BY <1>3 DEF new
      <4> QED BY <4>1, PlainMatchers
    <3> QED BY <1>1, <1>10, <2>1, <3>1 DEF RouteSound, Nested, Kept, new
  <2>2. CASE i # N + 1
    <3>1. i \in 1..N /\ routes'[i] = routes[i] /\ RouteSound(mux, routes[i], i)
      BY <1>1, <1>10, <2>2 DEF RouterInv, Sound
    <3>2. Nested(mux', routes[i], i)
      <4> DEFINE ms == routes[i].matchers
      <4>1. ASSUME NEW n \in 1..Len(ms), ms[n].kind = "mux"
            PROVE  n = Len(ms) /\ ms[n].id \in 2..Len(mux') /\ \A j \in ToSet(mux'[ms[n].id].routes) : j > i
        <5>1. n = Len(ms) /\ ms[n].id \in 2..Len(mux) /\ \A j \in ToSet(mux[ms[n].id].routes) : j > i
          BY <3>1, <4>1 DEF RouteSound, Nested
        <5>2. ms[n].id \in 1..Len(mux) /\ N + 1 > i
          BY <1>1, <3>1, <5>1
        <5> QED BY <1>9, <1>12, <5>1, <5>2
      <4> QED BY <4>1 DEF Nested
    <3> QED BY <3>1, <3>2 DEF RouteSound
  <2> QED BY <2>1, <2>2
<1>14. Apart(mux')
  <2>1. \A n \in 1..Len(mux) : N + 1 \notin ToSet(mux[n].routes)
    BY <1>1 DEF ToSet
  <2>2. ASSUME NEW a \in 1..Len(mux), NEW b \in 1..Len(mux), a # b,
               NEW j, j \in ToSet(mux'[a].routes), j \in ToSet(mux'[b].routes)
        PROVE  FALSE
    <3>1. j \in ToSet(mux[a].routes) \/ (a = m /\ j = N + 1)
      BY <1>12, <2>2
    <3>2. j \in ToSet(mux[b].routes) \/ (b = m /\ j = N + 1)
      BY <1>12, <2>2
    <3>3. ToSet(mux[a].routes) \cap ToSet(mux[b].routes) = {}
      BY <2>2 DEF RouterInv, Apart
    <3> QED BY <2>1, <2>2, <3>1, <3>2, <3>3
  <2> QED BY <1>9, <2>2 DEF Apart
<1> QED BY <1>6, <1>10, <1>11, <1>13, <1>14 DEF Sound


(* A matcher comes behind the ones a route without a subrouter has.        *)
LEMMA FullPathIs ==
  ASSUME NEW r \in Routes, NEW t \in PathTpls
  PROVE  FullPath(r, t) \in Seq(UNION {ToSet(u) : u \in PathTpls})
<1> DEFINE S == UNION {ToSet(u) : u \in PathTpls}
<1>1. t \in Seq(S)
  <2>1. t \in Seq(ToSet(t)) /\ ToSet(t) \subseteq S
    OBVIOUS
  <2> HIDE DEF S
  <2> QED BY <2>1
<1>2. CASE r.path = Nil
  BY <1>1, <1>2 DEF FullPath
<1>3. CASE r.path # Nil
  <2>1. r.path.tpl \in Seq(S)
    BY <1>3 DEF Routes, PathMatchers
  <2> HIDE DEF S
  <2>2. ASSUME NEW s \in Seq(S) PROVE TrimSlash(s) \in Seq(S)
    <3>1. CASE s # <<>>
      <4>1. Len(s) - 1 \in Nat /\ Len(s) \in Nat
        BY <3>1
      <4>2. SubSeq(s, 1, Len(s) - 1) \in Seq(S)
        BY <4>1
      <4> QED BY <4>2 DEF TrimSlash, Front
    <3>2. CASE s = <<>>
      BY <3>2 DEF TrimSlash
    <3> QED BY <3>1, <3>2
  <2>3. TrimSlash(r.path.tpl) \o t \in Seq(S)
    <3>1. TrimSlash(r.path.tpl) \in Seq(S)
      BY <2>1, <2>2
    <3>2. t \in Seq(S)
      BY <1>1
    <3> QED BY <3>1, <3>2, ConcatProperties
  <2>4. FullPath(r, t) = TrimSlash(r.path.tpl) \o t
    BY <1>3 DEF FullPath
  <2> QED BY <2>3, <2>4 DEF S
<1> QED BY <1>2, <1>3

LEMMA WithMatcherSound ==
  ASSUME NEW mx, NEW i \in Nat, NEW r \in Routes, RouteSound(mx, r, i), ~HasSubrouter(r),
         NEW kind, NEW t,
         \/ IsPath(kind) /\ t \in PathTpls
         \/ kind = "host" /\ t \in HostTpls
         \/ kind = "query" /\ t \in QueryTpls
  PROVE  WithMatcher(r, kind, t) \in Routes /\ RouteSound(mx, WithMatcher(r, kind, t), i)
<1> DEFINE m   == [kind |-> kind, tpl |-> IF IsPath(kind) THEN FullPath(r, t) ELSE t]
           ms  == Append(r.matchers, m)
           new == [Keep(r, m) EXCEPT !.matchers = Append(@, m)]
           bad == t \in BadTpls \/ Names(m) \cap Others(r, kind) # {}
<1>1. WithMatcher(r, kind, t) = IF bad THEN [r EXCEPT !.err = TRUE] ELSE new
  BY DEF WithMatcher
<1>2. [r EXCEPT !.err = TRUE] \in Routes /\ RouteSound(mx, [r EXCEPT !.err = TRUE], i)
  BY DEF Routes, RouteSound, Kept, Nested
<1>3. /\ m.kind = kind
      /\ \/ IsPath(kind) /\ m \in PathMatchers
         \/ kind = "host" /\ m \in HostMatchers
         \/ kind = "query" /\ m \in QueryMatchers
      /\ m \in Matchers
  <2>1. CASE IsPath(kind) /\ t \in PathTpls
    BY <2>1, FullPathIs DEF IsPath, PathMatchers, Matchers
  <2>2. CASE kind = "host" /\ t \in HostTpls
    BY <2>2 DEF IsPath, HostMatchers, Matchers
  <2>3. CASE kind = "query" /\ t \in QueryTpls
    BY <2>3 DEF IsPath, QueryMatchers, Matchers
  <2> QED BY <2>1, <2>2, <2>3
<1> HIDE DEF m
<1>4. new \in Routes /\ new.matchers = ms /\ new.controller = r.controller
      /\ {new.path, new.host, new.query} \subseteq {r.path, r.host, r.query, m}
  <2>1. r.matchers \in Seq(Matchers \cup SubMatchers)
    BY DEF Routes
  <2>2. ms \in Seq(Matchers \cup SubMatchers)
    BY <1>3, <2>1
  <2>3. /\ Keep(r, m) \in Routes /\ Keep(r, m).matchers = r.matchers
        /\ Keep(r, m).controller = r.controller
        /\ {Keep(r, m).path, Keep(r, m).host, Keep(r, m).query} \subseteq {r.path, r.host, r.query, m}
    <3>1. CASE IsPath(kind) /\ m \in PathMatchers
      BY <1>3, <3>1 DEF Keep, IsPath, Routes
    <3>2. CASE kind = "host" /\ m \in HostMatchers
      BY <1>3, <3>2 DEF Keep, IsPath, Routes
    <3>3. CASE kind = "query" /\ m \in QueryMatchers
      BY <1>3, <3>3 DEF Keep, IsPath, Routes
    <3> QED BY <1>3, <3>1, <3>2, <3>3
  <2>4. new = [Keep(r, m) EXCEPT !.matchers = ms]
    BY <2>3
  <2> HIDE DEF ms, new
  <2> QED BY <2>2, <2>3, <2>4 DEF Routes
<1>5. /\ r.matchers \in Seq(Matchers \cup SubMatchers) /\ Len(r.matchers) \in Nat
      /\ Len(ms) = Len(r.matchers) + 1 /\ ms[Len(r.matchers) + 1] = m
      /\ \A n \in 1..Len(r.matchers) : ms[n] = r.matchers[n]
      /\ ToSet(ms) = ToSet(r.matchers) \cup {m}
  <2>1. r.matchers \in Seq(Matchers \cup SubMatchers)
    BY DEF Routes
  <2> DEFINE rms == r.matchers
  <2> HIDE DEF rms
  <2>2. rms \in Seq(Matchers \cup SubMatchers) /\ Append(rms, m) \in Seq(Matchers \cup SubMatchers)
    BY <1>3, <2>1 DEF rms
  <2>3. /\ rms \in Seq(Matchers \cup SubMatchers) /\ Len(rms) \in Nat
        /\ Len(Append(rms, m)) = Len(rms) + 1 /\ Append(rms, m)[Len(rms) + 1] = m
        /\ \A n \in 1..Len(rms) : Append(rms, m)[n] = rms[n]
        /\ ToSet(Append(rms, m)) = ToSet(rms) \cup {m}
    BY <2>2, AppendIs
  <2> QED BY <2>3 DEF rms
<1> HIDE DEF new, ms
<1>6. Kept(new)
  BY <1>4, <1>5 DEF RouteSound, Kept
<1>7. ASSUME NEW n \in 1..Len(ms) PROVE ms[n].kind # "mux"
  <2>1. CASE n = Len(r.matchers) + 1
    BY <1>3, <1>5, <2>1, PlainMatchers
  <2>2. CASE n # Len(r.matchers) + 1
    <3>1. n \in 1..Len(r.matchers) /\ ms[n] = r.matchers[n]
      BY <1>5, <2>2
    <3>2. r.matchers[n] \in ToSet(r.matchers)
      BY <1>5, <3>1 DEF ToSet
    <3> QED BY <3>1, <3>2 DEF HasSubrouter
  <2> QED BY <2>1, <2>2
<1>8. RouteSound(mx, new, i)
  BY <1>4, <1>6, <1>7 DEF RouteSound, Nested
<1> QED BY <1>1, <1>2, <1>4, <1>8

(* What the calls on a route leave sound.                                  *)
LEMMA AddMatcherSound ==
  ASSUME RouterInv, SubrouterLast, NEW i \in DOMAIN routes, NEW kind, NEW t,
         AddMatcher(i, kind, t),
         \/ IsPath(kind) /\ t \in PathTpls
         \/ kind = "host" /\ t \in HostTpls
         \/ kind = "query" /\ t \in QueryTpls
  PROVE  Sound(mux', routes') /\ Apart(mux')
<1>1. /\ routes' = [routes EXCEPT ![i] = WithMatcher(routes[i], kind, t)] /\ mux' = mux
      /\ ~HasSubrouter(routes[i])
  BY DEF AddMatcher, Open
<1>2. i \in 1..Len(routes) /\ i \in Nat /\ routes[i] \in Routes /\ RouteSound(mux, routes[i], i)
  BY DEF RouterInv, Sound
<1>3. WithMatcher(routes[i], kind, t) \in Routes /\ RouteSound(mux, WithMatcher(routes[i], kind, t), i)
  BY <1>1, <1>2, WithMatcherSound
<1> QED BY <1>1, <1>2, <1>3, ReplaceSound DEF RouterInv

LEMMA ControlSound ==
  ASSUME RouterInv, NEW i \in DOMAIN routes, Control(i)
  PROVE  Sound(mux', routes') /\ Apart(mux')
<1> DEFINE new == [routes[i] EXCEPT !.controller = i]
<1>1. routes' = [routes EXCEPT ![i] = new] /\ mux' = mux
  BY DEF Control
<1>2. i \in 1..Len(routes) /\ i \in Nat /\ routes[i] \in Routes /\ RouteSound(mux, routes[i], i)
  BY DEF RouterInv, Sound
<1>3. new \in Routes /\ RouteSound(mux, new, i)
  BY <1>2 DEF Routes, RouteSound, Kept, Nested
<1> HIDE DEF new
<1> QED BY <1>1, <1>2, <1>3, ReplaceSound DEF RouterInv

LEMMA SubrouterSound ==
  ASSUME RouterInv, SubrouterLast, NEW i \in DOMAIN routes, Subrouter(i)
  PROVE  Sound(mux', routes') /\ Apart(mux')
<1> DEFINE L   == Len(mux)
           r   == routes[i]
           c   == Conf(r)
           sub == [routes |-> <<>>, conf |-> c]
           k   == [kind |-> "mux", id |-> L + 1]
           ms  == Append(r.matchers, k)
           new == [r EXCEPT !.matchers = ms]
<1>1. /\ mux \in Seq(Routers) /\ L \in Nat /\ L >= 1 /\ i \in 1..Len(routes) /\ i \in Nat
      /\ r \in Routes /\ RouteSound(mux, r, i) /\ ~HasSubrouter(r)
      /\ mux' = Append(mux, sub) /\ routes' = [routes EXCEPT ![i] = new]
  BY DEF RouterInv, Sound, RoutersSound, Subrouter, Open
<1>2. /\ r.matchers \in Seq(Matchers \cup SubMatchers) /\ Len(r.matchers) \in Nat
      /\ \A n \in 1..Len(r.matchers) : r.matchers[n] \in Matchers
  <2>1. r.matchers \in Seq(Matchers \cup SubMatchers)
    BY <1>1 DEF Routes
  <2>2. ASSUME NEW n \in 1..Len(r.matchers) PROVE r.matchers[n] \in Matchers
    <3>1. r.matchers[n] \in ToSet(r.matchers) /\ r.matchers[n] \in Matchers \cup SubMatchers
      BY <2>1 DEF ToSet
    <3> QED BY <1>1, <3>1 DEF HasSubrouter, SubMatchers
  <2> QED BY <2>1, <2>2
<1>3. r.matchers \in Seq(Matchers)
  BY <1>2
<1>4. sub \in Routers /\ Kept(sub.conf) /\ sub.routes = <<>>
  BY <1>1, <1>3 DEF Routers, Confs, Conf, Routes, RouteSound, Kept
<1> HIDE DEF sub
<1>5. /\ mux' \in Seq(Routers) /\ Len(mux') = L + 1 /\ mux'[L + 1] = sub
      /\ \A m \in 1..L : mux'[m] = mux[m]
  BY <1>1, <1>4
<1>6. \A m \in 1..L + 1 : m \in 1..L \/ m = L + 1
  BY <1>1
<1>7. RoutersSound(mux', routes)
  <2>1. \A m \in 1..L : mux'[m].routes \in Seq(1..Len(routes)) /\ Kept(mux'[m].conf)
    BY <1>5 DEF RouterInv, Sound, RoutersSound
  <2>2. mux'[L + 1].routes \in Seq(1..Len(routes)) /\ Kept(mux'[L + 1].conf)
    <3>1. <<>> \in Seq(1..Len(routes))
      OBVIOUS
    <3> QED BY <1>4, <1>5, <3>1
  <2> QED BY <1>1, <1>5, <1>6, <2>1, <2>2 DEF RoutersSound
<1>8. ASSUME NEW j \in 1..Len(routes), Nested(mux, routes[j], j) PROVE Nested(mux', routes[j], j)
  <2>1. \A id \in 2..L : id \in 2..L + 1 /\ mux'[id] = mux[id]
    BY <1>1, <1>5
  <2> QED BY <1>5, <1>8, <2>1 DEF Nested
<1>9. Sound(mux', routes)
  BY <1>7, <1>8 DEF RouterInv, Sound, RouteSound
<1>10. Apart(mux')
  <2>1. ToSet(mux'[L + 1].routes) = {}
    BY <1>4, <1>5 DEF ToSet
  <2> QED BY <1>5, <1>6, <2>1 DEF RouterInv, Apart
<1>11. /\ ms \in Seq(Matchers \cup SubMatchers) /\ Len(ms) = Len(r.matchers) + 1
       /\ ms[Len(r.matchers) + 1] = k /\ ToSet(ms) = ToSet(r.matchers) \cup {k}
       /\ \A n \in 1..Len(r.matchers) : ms[n] = r.matchers[n]
  <2>1. k \in SubMatchers
    BY <1>1 DEF SubMatchers
  <2> HIDE DEF k
  <2>2. ms \in Seq(Matchers \cup SubMatchers)
    BY <1>2, <2>1
  <2> QED BY <1>2, <2>2, AppendIs
<1>12. new \in Routes /\ new.matchers = ms /\ new.controller = r.controller
       /\ new.path = r.path /\ new.host = r.host /\ new.query = r.query
  <2> HIDE DEF ms
  <2> QED BY <1>1, <1>11 DEF Routes
<1>13. RouteSound(mux', new, i)
  <2>1. Kept(new)
    BY <1>1, <1>11, <1>12 DEF RouteSound, Kept
  <2>2. ASSUME NEW n \in 1..Len(ms), ms[n].kind = "mux"
        PROVE  n = Len(ms) /\ ms[n].id = L + 1
    <3>1. n \notin 1..Len(r.matchers)
      BY <1>2, <1>11, <2>2, PlainMatchers
    <3>2. n = Len(r.matchers) + 1
      BY <1>2, <1>11, <3>1
    <3> QED BY <1>11, <3>2
  <2>3. L + 1 \in 2..Len(mux') /\ ToSet(mux'[L + 1].routes) = {}
    BY <1>1, <1>4, <1>5 DEF ToSet
  <2>4. Nested(mux', new, i)
    <3> HIDE DEF ms, new
    <3> QED BY <1>12, <2>2, <2>3 DEF Nested
  <2> QED BY <1>1, <1>12, <2>1, <2>4 DEF RouteSound
<1> HIDE DEF new
<1> QED BY <1>1, <1>9, <1>10, <1>12, <1>13, ReplaceSound

LEMMA RouterInvInit == ASSUME RouterInit PROVE RouterInv
<1> DEFINE c  == NoConf
           at == [routes |-> <<>>, conf |-> c]
<1>1. c \in Confs /\ Kept(c)
  BY DEF NoConf, Confs, Kept
<1>2. at \in Routers /\ at.conf = c /\ at.routes = <<>>
  BY <1>1 DEF Routers
<1> HIDE DEF c
<1>3. mux = <<at>> /\ routes = <<>> /\ calls = 0
  BY DEF RouterInit, c
<1> HIDE DEF at
<1>4. mux \in Seq(Routers) /\ Len(mux) = 1 /\ mux[1] = at /\ 1..Len(mux) = {1}
  BY <1>2, <1>3
<1>5. routes \in Seq(Routes) /\ Len(routes) = 0 /\ <<>> \in Seq(1..Len(routes))
  BY <1>3
<1>6. RoutersSound(mux, routes)
  <2>1. mux[1].routes \in Seq(1..Len(routes)) /\ Kept(mux[1].conf)
    BY <1>1, <1>2, <1>4, <1>5
  <2> QED BY <1>4, <2>1 DEF RoutersSound
<1>7. Apart(mux)
  BY <1>4 DEF Apart
<1> QED BY <1>3, <1>5, <1>6, <1>7 DEF RouterInv, Sound

LEMMA RouterInvNext ==
  ASSUME RouterInv, SubrouterLast, [RouterNext]_routerVars
  PROVE  RouterInv'
<1>1. CASE UNCHANGED routerVars
  BY <1>1 DEF routerVars, RouterInv, Sound, RoutersSound, RouteSound, Nested, Kept, Apart
<1>2. ASSUME NEW m \in DOMAIN mux, NewRoute(m) PROVE RouterInv'
  BY <1>2, NewRouteSound DEF RouterInv
<1>3. ASSUME NEW i \in DOMAIN routes, Call(i) PROVE calls' \in 0..MaxCalls
  BY <1>3 DEF Call, RouterInv
<1>4. ASSUME NEW i \in DOMAIN routes, NEW kind, NEW t, AddMatcher(i, kind, t),
             \/ IsPath(kind) /\ t \in PathTpls
             \/ kind = "host" /\ t \in HostTpls
             \/ kind = "query" /\ t \in QueryTpls
      PROVE  RouterInv'
  <2>1. calls' \in 0..MaxCalls
    BY <1>3, <1>4 DEF AddMatcher, Open
  <2> QED BY <1>4, <2>1, AddMatcherSound DEF RouterInv
<1>5. ASSUME NEW i \in DOMAIN routes, Path(i) PROVE RouterInv'
  BY <1>4, <1>5 DEF Path, IsPath
<1>6. ASSUME NEW i \in DOMAIN routes, PathPrefix(i) PROVE RouterInv'
  BY <1>4, <1>6 DEF PathPrefix, IsPath
<1>7. ASSUME NEW i \in DOMAIN routes, Host(i) PROVE RouterInv'
  BY <1>4, <1>7 DEF Host
<1>8. ASSUME NEW i \in DOMAIN routes, Queries(i) PROVE RouterInv'
  BY <1>4, <1>8 DEF Queries
<1>9. ASSUME NEW i \in DOMAIN routes, Control(i) PROVE RouterInv'
  BY <1>3, <1>9, ControlSound DEF RouterInv, Control
<1>10. ASSUME NEW i \in DOMAIN routes, Subrouter(i) PROVE RouterInv'
  BY <1>3, <1>10, SubrouterSound DEF RouterInv, Subrouter, Open
<1> QED BY <1>1, <1>2, <1>5, <1>6, <1>7, <1>8, <1>9, <1>10 DEF RouterNext

LEMMA RouterInvAlways == SubrouterLast => (RouterSpec => []RouterInv)
<1> SUFFICES ASSUME SubrouterLast PROVE RouterSpec => []RouterInv
  OBVIOUS
<1>1. RouterInit => RouterInv
  BY RouterInvInit
<1>2. RouterInv /\ [RouterNext]_routerVars => RouterInv'
  BY RouterInvNext
<1> QED BY <1>1, <1>2, PTL DEF RouterSpec

(* Routes belong to one router each, subrouters to one route and to routes *)
(* made after them, and a route keeps the templates of its matchers.       *)
THEOREM RouterTypes == SubrouterLast => (RouterSpec => []RouterTypeOK)
<1>1. RouterInv => RouterTypeOK
  <2> SUFFICES ASSUME RouterInv PROVE RouterTypeOK
    OBVIOUS
  <2>1. /\ DOMAIN mux = 1..Len(mux) /\ DOMAIN routes = 1..Len(routes)
        /\ \A m \in 1..Len(mux) : mux[m].routes \in Seq(1..Len(routes))
    BY DEF RouterInv, Sound, RoutersSound
  <2>2. ASSUME NEW i \in 1..Len(routes)
        PROVE  /\ routes[i].err \in BOOLEAN /\ routes[i].controller \in {i, Nil}
               /\ \A k \in ToSet(routes[i].matchers) :
                    IF k.kind = "mux" THEN \A j \in ToSet(mux[k.id].routes) : j > i
                    ELSE k \in Matchers
               /\ {routes[i].path, routes[i].host, routes[i].query}
                    \subseteq ToSet(routes[i].matchers) \cup {Nil}
    <3>1. routes[i] \in Routes /\ RouteSound(mux, routes[i], i)
      BY DEF RouterInv, Sound
    <3>2. routes[i].err \in BOOLEAN /\ routes[i].matchers \in Seq(Matchers \cup SubMatchers)
      BY <3>1 DEF Routes
    <3>3. ASSUME NEW n \in 1..Len(routes[i].matchers)
          PROVE  IF routes[i].matchers[n].kind = "mux"
                 THEN \A j \in ToSet(mux[routes[i].matchers[n].id].routes) : j > i
                 ELSE routes[i].matchers[n] \in Matchers
      <4>1. routes[i].matchers[n] \in Matchers \cup SubMatchers
        BY <3>2
      <4>2. routes[i].matchers[n] \in SubMatchers => routes[i].matchers[n].kind = "mux"
        BY DEF SubMatchers
      <4> QED BY <3>1, <4>1, <4>2 DEF RouteSound, Nested
    <3>4. \A k \in ToSet(routes[i].matchers) : \E n \in 1..Len(routes[i].matchers) : k = routes[i].matchers[n]
      BY <3>2 DEF ToSet
    <3> QED BY <3>1, <3>2, <3>3, <3>4 DEF RouteSound, Kept
  <2> QED BY <2>1, <2>2 DEF RouterTypeOK, RouterInv, Apart
<1> QED BY <1>1, RouterInvAlways, PTL

-----------------------------------------------------------------------------
(* What Match finds: the loops.                                            *)
HIDE RouterAssumption DEF RouterAssumption
LEMMA LeastIs ==
  ASSUME NEW S, S \subseteq Nat, S # {}
  PROVE  Min(S) \in S /\ \A j \in S : Min(S) <= j
<1>1. PICK x \in S : \A y \in S : ~(<<y, x>> \in OpToRel(<, Nat))
  BY NatLessThanWellFounded, WFMin
<1>2. \A y \in S : ~(y < x)
  <2> SUFFICES ASSUME NEW y \in S, y < x
               PROVE  FALSE
    OBVIOUS
  <2>1. <<y, x>> \in Nat \X Nat /\ <<y, x>>[1] < <<y, x>>[2]
    OBVIOUS
  <2>2. <<y, x>> \in {p \in Nat \X Nat : p[1] < p[2]}
    BY <2>1
  <2> QED BY <1>1, <2>2, Zenon DEF OpToRel
<1>3. \A y \in S : x <= y
  BY <1>2
<1> QED BY <1>3 DEF Min

LEMMA LeastUnique ==
  ASSUME NEW S, S \subseteq Nat, NEW x \in S, \A y \in S : x <= y
  PROVE  Min(S) = x
<1>1. Min(S) \in S /\ \A j \in S : Min(S) <= j
  BY LeastIs
<1>2. Min(S) \in Nat /\ x \in Nat /\ Min(S) <= x /\ x <= Min(S)
  BY <1>1
<1> QED BY <1>2

(* What holds of 0, and of a number if it holds of those before, holds of  *)
(* all: the numbers it does not hold of have no least one.                 *)
LEMMA AllUpTo ==
  ASSUME NEW N \in Nat, NEW S, 0 \in S, \A n \in 0..N : n # N /\ n \in S => n + 1 \in S
  PROVE  \A n \in 0..N : n \in S
<1> DEFINE T == {n \in 0..N : n \notin S}
<1> SUFFICES ASSUME T # {} PROVE FALSE
  OBVIOUS
<1>1. Min(T) \in T /\ \A n \in T : Min(T) <= n
  BY LeastIs
<1>2. Min(T) # 0 /\ Min(T) - 1 \in 0..N /\ Min(T) - 1 \notin T
  BY <1>1
<1>3. Min(T) - 1 \in S /\ Min(T) - 1 # N
  BY <1>1, <1>2
<1>4. (Min(T) - 1) + 1 \in S
  BY <1>2, <1>3
<1> QED BY <1>1, <1>2, <1>4

(* Sequences put behind each other are the last one if the others are      *)
(* empty.                                                                  *)
Behind(P) == CHOOSE f : f = [i \in 1..Len(P) |-> IF i = 1 THEN P[i] ELSE f[i-1] \o P[i]]

LEMMA BehindIs ==
  ASSUME NEW P, P \in Seq(Seq(Int)), \A n \in 1..Len(P) : n # Len(P) => P[n] = <<>>
  PROVE  Behind(P) = [i \in 1..Len(P) |-> IF i = 1 THEN P[i] ELSE Behind(P)[i-1] \o P[i]]
<1> DEFINE f == [i \in 1..Len(P) |-> P[i]]
           g == [i \in 1..Len(P) |-> IF i = 1 THEN P[i] ELSE f[i-1] \o P[i]]
<1>1. ASSUME NEW i \in 1..Len(P), i # 1 PROVE f[i-1] \o P[i] = P[i]
  <2>1. i - 1 \in 1..Len(P) /\ i - 1 # Len(P)
    BY <1>1
  <2>2. f[i-1] = <<>>
    BY <2>1
  <2>3. P[i] \in Seq(Int)
    OBVIOUS
  <2> QED BY <2>2, <2>3, ConcatEmptySeq
<1>2. \A i \in 1..Len(P) : g[i] = f[i]
  BY <1>1
<1>3. f = g
  BY <1>2
<1>4. \E h : h = [i \in 1..Len(P) |-> IF i = 1 THEN P[i] ELSE h[i-1] \o P[i]]
  BY <1>3
<1> QED BY <1>4, Zenon DEF Behind

LEMMA FlattenIsLast ==
  ASSUME NEW P, P \in Seq(Seq(Int)), \A n \in 1..Len(P) : n # Len(P) => P[n] = <<>>
  PROVE  FlattenSeq(P) = IF Len(P) = 0 THEN <<>> ELSE P[Len(P)]
<1>1. CASE Len(P) = 0
  BY <1>1 DEF FlattenSeq
<1>2. CASE Len(P) # 0
  <2> DEFINE f == Behind(P)
             S == {n \in 0..Len(P) : n = 0 \/ f[n] = P[n]}
  <2>1. \A i \in 1..Len(P) : f[i] = IF i = 1 THEN P[i] ELSE f[i-1] \o P[i]
    <3>1. f = [i \in 1..Len(P) |-> IF i = 1 THEN P[i] ELSE f[i-1] \o P[i]]
      BY BehindIs
    <3> HIDE DEF f
    <3> QED BY <3>1
  <2> HIDE DEF f
  <2>2. ASSUME NEW n \in 0..Len(P), n # Len(P), n \in S PROVE n + 1 \in S
    <3>1. n + 1 \in 1..Len(P) /\ P[n + 1] \in Seq(Int) /\ (n + 1) - 1 = n
      BY <2>2
    <3>2. CASE n = 0
      BY <2>1, <3>1, <3>2
    <3>3. CASE n # 0
      <4>1. n \in 1..Len(P) /\ f[n] = <<>>
        BY <2>2, <3>3
      <4>2. f[n + 1] = <<>> \o P[n + 1]
        <5>1. n + 1 # 1
          BY <3>3
        <5> QED BY <2>1, <3>1, <4>1, <5>1
      <4>3. f[n + 1] = P[n + 1]
        BY <3>1, <4>2, ConcatEmptySeq
      <4> QED BY <3>1, <4>3
    <3> QED BY <3>2, <3>3
  <2>3. Len(P) \in Nat /\ 0 \in S
    OBVIOUS
  <2>4. \A n \in 0..Len(P) : n # Len(P) /\ n \in S => n + 1 \in S
    BY <2>2
  <2>5. Len(P) \in S
    <3> HIDE DEF S
    <3>1. \A n \in 0..Len(P) : n \in S
      BY <2>3, <2>4, AllUpTo
    <3> QED BY <2>3, <3>1
  <2>6. f[Len(P)] = P[Len(P)]
    BY <1>2, <2>5
  <2>7. FlattenSeq(P) = Behind(P)[Len(P)]
    BY <1>2, Zenon DEF FlattenSeq, Behind
  <2> QED BY <1>2, <2>6, <2>7 DEF f
<1> QED BY <1>1, <1>2

Reply == [ok : BOOLEAN, filled : Seq(Int)]

LEMMA AnswersAre ==
  ASSUME NEW a \in Seq(Reply)
  PROVE  /\ DOMAIN a = 1..Len(a) /\ Len(a) \in Nat
         /\ \A n \in 1..Len(a) : a[n].ok \in BOOLEAN /\ a[n].filled \in Seq(Int)
<1>1. \A x \in Reply : x.ok \in BOOLEAN /\ x.filled \in Seq(Int)
  BY DEF Reply
<1>2. DOMAIN a = 1..Len(a) /\ Len(a) \in Nat /\ \A n \in 1..Len(a) : a[n] \in Reply
  OBVIOUS
<1> QED BY <1>1, <1>2

LEMMA LoopFills ==
  ASSUME NEW a \in Seq(Reply), NEW last \in 0..Len(a),
         \A n \in 1..last : n # last => a[n].filled = <<>>
  PROVE  FlattenSeq([n \in 1..last |-> a[n].filled]) =
           IF last = 0 THEN <<>> ELSE a[last].filled
<1> DEFINE P == [n \in 1..last |-> a[n].filled]
<1>1. \A n \in 1..last : a[n].filled \in Seq(Int) /\ P[n] = a[n].filled
  <2>1. \A n \in 1..last : n \in 1..Len(a)
    BY AnswersAre
  <2> QED BY <2>1, AnswersAre
<1>2. P \in Seq(Seq(Int)) /\ Len(P) = last
  BY <1>1
<1> HIDE DEF P
<1>3. FlattenSeq(P) = IF Len(P) = 0 THEN <<>> ELSE P[Len(P)]
  BY <1>1, <1>2, FlattenIsLast
<1> QED BY <1>1, <1>2, <1>3 DEF P

Stop(at, N) == IF at = {} THEN N ELSE Min(at)

StopsAt(last, at, N) ==
  /\ last \in 0..N
  /\ at # {} => last \in at /\ last # 0
  /\ \A n \in 1..last : n \in 1..N /\ (n # last => n \notin at /\ n # N)

LEMMA StopIs ==
  ASSUME NEW N \in Nat, NEW at, at \subseteq 1..N
  PROVE  StopsAt(Stop(at, N), at, N)
<1> DEFINE last == Stop(at, N)
<1> SUFFICES StopsAt(last, at, N)
  OBVIOUS
<1>1. CASE at = {}
  <2>1. last = N
    BY <1>1 DEF Stop
  <2> HIDE DEF last
  <2> QED BY <1>1, <2>1 DEF StopsAt
<1>2. CASE at # {}
  <2>1. at \subseteq Nat
    OBVIOUS
  <2>2. last \in at /\ \A n \in at : last <= n
    BY <1>2, <2>1, LeastIs DEF Stop
  <2>3. last \in 1..N
    BY <2>2
  <2>4. ASSUME NEW n \in 1..last PROVE n \in 1..N /\ (n # last => n \notin at /\ n # N)
    <3>1. n \in 1..N /\ n <= last /\ (n = N => last = N)
      BY <2>3
    <3> QED BY <2>2, <2>3, <3>1
  <2>5. last \in 0..N /\ last # 0
    BY <2>3
  <2> HIDE DEF last
  <2> QED BY <2>2, <2>4, <2>5 DEF StopsAt
<1> QED BY <1>1, <1>2

(* A loop over routes gives the first answer that is yes, one over         *)
(* matchers the last one if all are.                                       *)
LEMMA LoopIs ==
  ASSUME NEW a \in Seq(Reply), NEW end \in BOOLEAN, NEW at,
         at = {n \in 1..Len(a) : a[n].ok = end},
         \A n \in 1..Stop(at, Len(a)) : n # Stop(at, Len(a)) => a[n].filled = <<>>
  PROVE  Loop(a, end) = [ok |-> IF at = {} THEN ~end ELSE end,
                         filled |-> IF Stop(at, Len(a)) = 0 THEN <<>> ELSE a[Stop(at, Len(a))].filled]
<1> DEFINE last == Stop(at, Len(a))
<1>1. DOMAIN a = 1..Len(a) /\ Len(a) \in Nat
  BY AnswersAre
<1>2. Loop(a, end) = [ok |-> IF at = {} THEN ~end ELSE end,
                      filled |-> FlattenSeq([n \in 1..last |-> a[n].filled])]
  BY <1>1, Zenon DEF Loop, Stop
<1>3. at \subseteq 1..Len(a)
  BY Zenon
<1>4. last \in 0..Len(a)
  BY <1>1, <1>3, StopIs DEF StopsAt
<1>5. FlattenSeq([n \in 1..last |-> a[n].filled]) = IF last = 0 THEN <<>> ELSE a[last].filled
  BY <1>4, LoopFills
<1> QED BY <1>2, <1>5, Zenon

LEMMA LoopOverRoutes ==
  ASSUME NEW a \in Seq(Reply), \A n \in 1..Len(a) : a[n].ok = FALSE => a[n].filled = <<>>,
         NEW at, at = {n \in 1..Len(a) : a[n].ok = TRUE}
  PROVE  /\ at = {} => Loop(a, TRUE) = [ok |-> FALSE, filled |-> <<>>]
         /\ at # {} => Loop(a, TRUE) = [ok |-> TRUE, filled |-> a[Min(at)].filled]
<1> DEFINE last == Stop(at, Len(a))
<1>1. Len(a) \in Nat /\ at \subseteq 1..Len(a)
  BY AnswersAre
<1>2. /\ last \in 0..Len(a)
      /\ at # {} => last \in at /\ last # 0
      /\ \A n \in 1..last : n \in 1..Len(a) /\ (n # last => n \notin at /\ n # Len(a))
  <2> DEFINE N == Len(a)
  <2>1. N \in Nat /\ at \subseteq 1..N
    BY <1>1
  <2> HIDE DEF N
  <2>2. StopsAt(Stop(at, N), at, N)
    BY <2>1, StopIs, Zenon
  <2>3. StopsAt(last, at, Len(a))
    BY <2>2 DEF N
  <2> HIDE DEF last
  <2> QED BY <2>3, Zenon DEF StopsAt
<1> HIDE DEF last
<1>3. \A n \in 1..Len(a) : n \notin at => a[n].filled = <<>>
  BY AnswersAre
<1>4. Loop(a, TRUE) = [ok |-> IF at = {} THEN ~TRUE ELSE TRUE,
                       filled |-> IF last = 0 THEN <<>> ELSE a[last].filled]
  <2>1. \A n \in 1..last : n # last => a[n].filled = <<>>
    BY <1>2, <1>3
  <2> QED BY <2>1, LoopIs DEF last
<1>5. CASE at = {}
  <2>1. last = Len(a) /\ (last = 0 \/ last \in 1..Len(a))
    BY <1>1, <1>5 DEF last, Stop
  <2>2. last = 0 \/ a[last].filled = <<>>
    BY <1>3, <1>5, <2>1
  <2> QED BY <1>4, <1>5, <2>2
<1>6. CASE at # {}
  <2>1. last = Min(at) /\ last # 0
    BY <1>2, <1>6 DEF last, Stop
  <2>2. Loop(a, TRUE) = [ok |-> TRUE, filled |-> a[last].filled]
    BY <1>4, <1>6, <2>1
  <2> QED BY <1>6, <2>1, <2>2
<1> QED BY <1>5, <1>6

LEMMA LoopOverMatchers ==
  ASSUME NEW a \in Seq(Reply), \A n \in 1..Len(a) : n # Len(a) => a[n].filled = <<>>,
         \A n \in 1..Len(a) : a[n].ok = FALSE => a[n].filled = <<>>
  PROVE  /\ (\E n \in 1..Len(a) : a[n].ok = FALSE) => Loop(a, FALSE) = [ok |-> FALSE, filled |-> <<>>]
         /\ (\A n \in 1..Len(a) : a[n].ok # FALSE) =>
              Loop(a, FALSE) = [ok |-> TRUE, filled |-> IF Len(a) = 0 THEN <<>> ELSE a[Len(a)].filled]
<1> DEFINE at   == {n \in 1..Len(a) : a[n].ok = FALSE}
           last == Stop(at, Len(a))
<1>1. Len(a) \in Nat /\ at \subseteq 1..Len(a)
  BY AnswersAre
<1>2. /\ at = {n \in 1..Len(a) : a[n].ok = FALSE}
      /\ \A n \in at : n \in 1..Len(a) /\ a[n].ok = FALSE /\ a[n].filled = <<>>
  OBVIOUS
<1>3. /\ last \in 0..Len(a)
      /\ at # {} => last \in at /\ last # 0
      /\ \A n \in 1..last : n \in 1..Len(a) /\ (n # last => n \notin at /\ n # Len(a))
  <2> HIDE DEF at
  <2> DEFINE N == Len(a)
  <2>1. N \in Nat /\ at \subseteq 1..N
    BY <1>1
  <2> HIDE DEF N
  <2>2. StopsAt(Stop(at, N), at, N)
    BY <2>1, StopIs, Zenon
  <2>3. StopsAt(last, at, Len(a))
    BY <2>2 DEF N
  <2> HIDE DEF last
  <2> QED BY <2>3, Zenon DEF StopsAt
<1>4. Loop(a, FALSE) = [ok |-> IF at = {} THEN ~FALSE ELSE FALSE,
                        filled |-> IF last = 0 THEN <<>> ELSE a[last].filled]
  <2> HIDE DEF at
  <2>1. \A n \in 1..last : n # last => a[n].filled = <<>>
    BY <1>3
  <2> QED BY <1>2, <2>1, LoopIs
<1>5. CASE at = {}
  <2>1. \A n \in 1..Len(a) : a[n].ok # FALSE
    BY <1>5, Zenon
  <2>2. last = Len(a)
    BY <1>5 DEF Stop
  <2> HIDE DEF at, last
  <2> QED BY <1>4, <1>5, <2>1, <2>2
<1>6. CASE at # {}
  <2>1. \E n \in 1..Len(a) : a[n].ok = FALSE
    BY <1>6, Zenon
  <2> HIDE DEF at, last
  <2>2. last # 0 /\ a[last].filled = <<>>
    <3>1. \A n \in at : a[n].filled = <<>>
      BY <1>2, Zenon
    <3>2. last \in at /\ last # 0
      BY <1>3, <1>6
    <3> QED BY <3>1, <3>2, Zenon
  <2>3. Loop(a, FALSE) = [ok |-> FALSE, filled |-> <<>>]
    BY <1>4, <1>6, <2>2
  <2> QED BY <2>1, <2>3
<1> QED BY <1>5, <1>6


-----------------------------------------------------------------------------
(* The answer of a route rests on those of the routes after it: tables     *)
(* that have the same matchers and routes of subrouters, and answers that  *)
(* are the same after a route, give the same answer for it.                *)
LEMMA MatchRouteSame ==
  ASSUME NEW t, Sound(t.mux, t.routes), NEW i \in 1..Len(t.routes), NEW u,
         u.routes[i] = t.routes[i],
         \A id \in 2..Len(t.mux) : u.mux[id].routes = t.mux[id].routes,
         NEW url, NEW f, NEW g, \A j \in 1..Len(t.routes) : j > i => f[j] = g[j]
  PROVE  MatchRoute(t, i, url, f) = MatchRoute(u, i, url, g)
<1> DEFINE ms == t.routes[i].matchers
<1>1. DOMAIN ms = 1..Len(ms) /\ Nested(t.mux, t.routes[i], i)
  <2>1. t.routes[i] \in Routes /\ RouteSound(t.mux, t.routes[i], i)
    BY DEF Sound
  <2>2. ms \in Seq(Matchers \cup SubMatchers)
    BY <2>1 DEF Routes
  <2> QED BY <2>1, <2>2 DEF RouteSound
<1>2. ASSUME NEW n \in DOMAIN ms PROVE Test(t, ms[n], url, f) = Test(u, ms[n], url, g)
  <2>1. CASE ms[n].kind = "mux"
    <3> DEFINE id == ms[n].id
               rs == t.mux[id].routes
    <3>1. id \in 2..Len(t.mux) /\ \A j \in ToSet(rs) : j > i
      BY <1>1, <2>1 DEF Nested
    <3>2. id \in 1..Len(t.mux)
      <4>1. Len(t.mux) \in Nat
        BY DEF Sound, RoutersSound
      <4> QED BY <3>1, <4>1
    <3>3. rs \in Seq(1..Len(t.routes)) /\ u.mux[id].routes = rs
      BY <3>1, <3>2 DEF Sound, RoutersSound
    <3> HIDE DEF id, rs
    <3>4. ASSUME NEW k \in DOMAIN rs PROVE f[rs[k]] = g[rs[k]]
      <4>1. rs[k] \in ToSet(rs) /\ rs[k] \in 1..Len(t.routes)
        BY <3>3 DEF ToSet
      <4> QED BY <3>1, <4>1
    <3>5. [k \in DOMAIN rs |-> f[rs[k]]] = [k \in DOMAIN rs |-> g[rs[k]]]
      BY <3>4
    <3>6. MatchFirst(rs, f) = MatchFirst(rs, g)
      BY <3>5 DEF MatchFirst
    <3> QED BY <2>1, <3>3, <3>6 DEF Test, id, rs
  <2>2. CASE ms[n].kind # "mux"
    BY <2>2 DEF Test
  <2> QED BY <2>1, <2>2
<1>3. [n \in DOMAIN ms |-> Test(t, ms[n], url, f)] = [n \in DOMAIN ms |-> Test(u, ms[n], url, g)]
  BY <1>2
<1>4. MatchAll(t, ms, url, f) = MatchAll(u, ms, url, g)
  BY <1>3 DEF MatchAll
<1> HIDE DEF ms
<1>5. MatchAll(t, t.routes[i].matchers, url, f) = MatchAll(u, u.routes[i].matchers, url, g)
  BY <1>4 DEF ms
<1> QED BY <1>5 DEF MatchRoute

(* So the recursion that finds the answers ends: from the last route to    *)
(* the first.                                                              *)
LEMMA AnswersIs ==
  ASSUME NEW t, Sound(t.mux, t.routes), NEW url
  PROVE  Answers(t, url) = [i \in 1..Len(t.routes) |-> MatchRoute(t, i, url, Answers(t, url))]
<1> DEFINE N == Len(t.routes)
           Till(f, n) == /\ f = [j \in 1..N |-> f[j]]
                         /\ \A j \in 1..N : j > N - n => f[j] = MatchRoute(t, j, url, f)
           S == {n \in 0..N : \E f : Till(f, n)}
<1>1. N \in Nat /\ DOMAIN t.routes = 1..N
  BY DEF Sound
<1> HIDE DEF N
<1>2. 0 \in S
  <2> DEFINE f == [j \in 1..N |-> 0]
  <2>1. f = [j \in 1..N |-> f[j]] /\ \A j \in 1..N : ~(j > N - 0)
    BY <1>1
  <2>2. Till(f, 0)
    BY <2>1
  <2>3. \E h : Till(h, 0)
    BY <2>2
  <2> HIDE DEF Till
  <2> QED BY <1>1, <2>3
<1>3. ASSUME NEW n \in 0..N, n # N, n \in S PROVE n + 1 \in S
  <2>1. PICK f : Till(f, n)
    BY <1>3
  <2> DEFINE k == N - n
             g == [j \in 1..N |-> IF j = k THEN MatchRoute(t, k, url, f) ELSE f[j]]
  <2>2. k \in 1..N /\ \A j \in 1..N : j > N - (n + 1) => j = k \/ j > k
    BY <1>1, <1>3
  <2>3. /\ g = [j \in 1..N |-> g[j]] /\ g[k] = MatchRoute(t, k, url, f)
        /\ \A j \in 1..N : j > k => g[j] = f[j]
    BY <1>1, <2>2
  <2> HIDE DEF g
  <2>4. ASSUME NEW j \in 1..N, j >= k PROVE MatchRoute(t, j, url, f) = MatchRoute(t, j, url, g)
    <3>1. \A l \in 1..N : l > j => f[l] = g[l]
      BY <1>1, <2>2, <2>3, <2>4
    <3> QED BY <3>1, MatchRouteSame DEF N
  <2>5. ASSUME NEW j \in 1..N, j > N - (n + 1) PROVE g[j] = MatchRoute(t, j, url, g)
    <3>1. CASE j = k
      BY <1>1, <2>2, <2>3, <2>4, <3>1
    <3>2. CASE j > k
      <4>1. f[j] = MatchRoute(t, j, url, f)
        BY <2>1, <3>2
      <4>2. g[j] = f[j] /\ j >= k
        BY <1>1, <2>2, <2>3, <3>2
      <4> QED BY <2>4, <4>1, <4>2
    <3> QED BY <2>2, <2>5, <3>1, <3>2
  <2>6. Till(g, n + 1)
    BY <2>3, <2>5
  <2>7. \E h : Till(h, n + 1)
    BY <2>6
  <2> HIDE DEF Till
  <2> QED BY <1>1, <1>3, <2>7
<1>4. N \in S
  <2> HIDE DEF S
  <2>1. \A n \in 0..N : n # N /\ n \in S => n + 1 \in S
    BY <1>3
  <2>2. \A n \in 0..N : n \in S
    BY <1>1, <1>2, <2>1, AllUpTo
  <2> QED BY <1>1, <2>2
<1>5. PICK f : Till(f, N)
  BY <1>4
<1>6. \A j \in 1..N : f[j] = MatchRoute(t, j, url, f)
  BY <1>1, <1>5
<1>7. f = [j \in DOMAIN t.routes |-> MatchRoute(t, j, url, f)]
  BY <1>1, <1>5, <1>6
<1>8. \E h : h = [j \in DOMAIN t.routes |-> MatchRoute(t, j, url, h)]
  BY <1>7
<1>9. Answers(t, url) = [j \in DOMAIN t.routes |-> MatchRoute(t, j, url, Answers(t, url))]
  BY <1>8, Zenon DEF Answers
<1> QED BY <1>1, <1>9 DEF N

-----------------------------------------------------------------------------
(* The way to the innermost route, in the same manner.                     *)
LEMMA MatcherIs ==
  ASSUME Sound(mux, routes), NEW i \in 1..Len(routes), NEW k \in ToSet(routes[i].matchers),
         k.kind = "mux"
  PROVE  /\ k.id \in 1..Len(mux) /\ k.id \in Nat /\ mux[k.id].routes \in Seq(1..Len(routes))
         /\ \A j \in ToSet(mux[k.id].routes) : j \in 1..Len(routes) /\ j > i
<1> DEFINE ms == routes[i].matchers
<1>1. routes[i] \in Routes /\ Nested(mux, routes[i], i)
  BY DEF Sound, RouteSound
<1>2. ms \in Seq(Matchers \cup SubMatchers)
  BY <1>1 DEF Routes
<1>3. PICK n \in 1..Len(ms) : k = ms[n]
  BY <1>2 DEF ToSet
<1>4. k.id \in 2..Len(mux) /\ \A j \in ToSet(mux[k.id].routes) : j > i
  BY <1>1, <1>3 DEF Nested
<1>5. Len(mux) \in Nat
  BY DEF Sound, RoutersSound
<1>6. k.id \in 1..Len(mux) /\ k.id \in Nat
  BY <1>4, <1>5
<1>7. mux[k.id].routes \in Seq(1..Len(routes))
  BY <1>6 DEF Sound, RoutersSound
<1>8. \A j \in ToSet(mux[k.id].routes) : j \in 1..Len(routes)
  BY <1>7 DEF ToSet
<1> QED BY <1>4, <1>6, <1>7, <1>8

(* FirstAccepting is a route of the router, the first of those that accept.*)
LEMMA FirstAcceptingIs ==
  ASSUME NEW m, NEW S, mux[m].routes \in Seq(S), NEW c,
         \E j \in ToSet(mux[m].routes) : c[j] # <<>>
  PROVE  FirstAccepting(m, c) \in ToSet(mux[m].routes) /\ c[FirstAccepting(m, c)] # <<>>
<1> DEFINE rs == mux[m].routes
           at == {n \in DOMAIN rs : c[rs[n]] # <<>>}
<1>1. DOMAIN rs = 1..Len(rs) /\ Len(rs) \in Nat
  OBVIOUS
<1>2. at \subseteq Nat /\ at # {}
  BY <1>1 DEF ToSet
<1>3. Min(at) \in at
  BY <1>2, LeastIs
<1>4. FirstAccepting(m, c) = rs[Min(at)]
  BY DEF FirstAccepting
<1> HIDE DEF rs
<1>5. rs[Min(at)] \in ToSet(rs) /\ c[rs[Min(at)]] # <<>>
  BY <1>3 DEF ToSet
<1> QED BY <1>4, <1>5 DEF rs

LEMMA ChainSame ==
  ASSUME Sound(mux, routes), NEW i \in 1..Len(routes), NEW url,
         NEW f, NEW g, \A j \in 1..Len(routes) : j > i => f[j] = g[j]
  PROVE  Chain(i, url, f) = Chain(i, url, g)
<1> DEFINE ms   == ToSet(routes[i].matchers)
           subs == {k.id : k \in {l \in ms : l.kind = "mux"}}
<1>1. ASSUME NEW k \in ms PROVE Accepts(k, url, f) <=> Accepts(k, url, g)
  <2>1. CASE k.kind = "mux"
    <3>1. \A j \in ToSet(mux[k.id].routes) : f[j] = g[j]
      BY <2>1, MatcherIs
    <3> QED BY <2>1, <3>1 DEF Accepts
  <2>2. CASE k.kind # "mux"
    BY <2>2 DEF Accepts
  <2> QED BY <2>1, <2>2
<1>2. ASSUME NEW k \in ms, k.kind = "mux", Accepts(k, url, f)
      PROVE  f[FirstAccepting(k.id, f)] = g[FirstAccepting(k.id, g)]
  <2> DEFINE rs == mux[k.id].routes
  <2>1. rs \in Seq(1..Len(routes)) /\ \A j \in ToSet(rs) : f[j] = g[j]
    BY <1>2, MatcherIs
  <2>2. \A n \in DOMAIN rs : f[rs[n]] = g[rs[n]]
    BY <2>1 DEF ToSet
  <2>3. {n \in DOMAIN rs : f[rs[n]] # <<>>} = {n \in DOMAIN rs : g[rs[n]] # <<>>}
    BY <2>2
  <2>4. FirstAccepting(k.id, f) = FirstAccepting(k.id, g)
    BY <2>3, Zenon DEF FirstAccepting
  <2>5. \E j \in ToSet(rs) : f[j] # <<>>
    BY <1>2 DEF Accepts
  <2>6. FirstAccepting(k.id, f) \in ToSet(rs)
    BY <2>1, <2>5, FirstAcceptingIs
  <2> QED BY <2>1, <2>4, <2>6
<1>3. subs # {} => \E k \in ms : k.kind = "mux" /\ Min(subs) = k.id
  <2>1. subs \subseteq Nat
    BY MatcherIs
  <2>2. subs # {} => Min(subs) \in subs
    BY <2>1, LeastIs
  <2> QED BY <2>2
<1>4. CASE routes[i].err \/ \E k \in ms : ~Accepts(k, url, f)
  BY <1>1, <1>4 DEF Chain
<1>5. CASE ~routes[i].err /\ \A k \in ms : Accepts(k, url, f)
  <2>1. CASE subs = {}
    BY <1>1, <1>5, <2>1 DEF Chain
  <2>2. CASE subs # {}
    <3>1. f[FirstAccepting(Min(subs), f)] = g[FirstAccepting(Min(subs), g)]
      BY <1>2, <1>3, <1>5, <2>2
    <3>2. ASSUME NEW c, \A k \in ms : Accepts(k, url, c)
          PROVE  Chain(i, url, c) = Append(c[FirstAccepting(Min(subs), c)], i)
      BY <1>5, <2>2, <3>2 DEF Chain
    <3> HIDE DEF subs
    <3> QED BY <1>1, <1>5, <3>1, <3>2
  <2> QED BY <2>1, <2>2
<1> QED BY <1>4, <1>5

LEMMA ChainsIs ==
  ASSUME Sound(mux, routes), NEW url
  PROVE  Chains(url) = [i \in 1..Len(routes) |-> Chain(i, url, Chains(url))]
<1> DEFINE N == Len(routes)
           Till(f, n) == /\ f = [j \in 1..N |-> f[j]]
                         /\ \A j \in 1..N : j > N - n => f[j] = Chain(j, url, f)
           S == {n \in 0..N : \E f : Till(f, n)}
<1>1. N \in Nat /\ DOMAIN routes = 1..N
  BY DEF Sound
<1> HIDE DEF N
<1>2. 0 \in S
  <2> DEFINE f == [j \in 1..N |-> 0]
  <2>1. f = [j \in 1..N |-> f[j]] /\ \A j \in 1..N : ~(j > N - 0)
    BY <1>1
  <2>2. Till(f, 0)
    BY <2>1
  <2>3. \E h : Till(h, 0)
    BY <2>2
  <2> HIDE DEF Till
  <2> QED BY <1>1, <2>3
<1>3. ASSUME NEW n \in 0..N, n # N, n \in S PROVE n + 1 \in S
  <2>1. PICK f : Till(f, n)
    BY <1>3
  <2> DEFINE k == N - n
             g == [j \in 1..N |-> IF j = k THEN Chain(k, url, f) ELSE f[j]]
  <2>2. k \in 1..N /\ \A j \in 1..N : j > N - (n + 1) => j = k \/ j > k
    BY <1>1, <1>3
  <2>3. /\ g = [j \in 1..N |-> g[j]] /\ g[k] = Chain(k, url, f)
        /\ \A j \in 1..N : j > k => g[j] = f[j]
    BY <1>1, <2>2
  <2> HIDE DEF g
  <2>4. ASSUME NEW j \in 1..N, j >= k PROVE Chain(j, url, f) = Chain(j, url, g)
    <3>1. \A l \in 1..N : l > j => f[l] = g[l]
      BY <1>1, <2>2, <2>3, <2>4
    <3> QED BY <3>1, ChainSame DEF N
  <2>5. ASSUME NEW j \in 1..N, j > N - (n + 1) PROVE g[j] = Chain(j, url, g)
    <3>1. CASE j = k
      BY <1>1, <2>2, <2>3, <2>4, <3>1
    <3>2. CASE j > k
      <4>1. f[j] = Chain(j, url, f)
        BY <2>1, <3>2
      <4>2. g[j] = f[j] /\ j >= k
        BY <1>1, <2>2, <2>3, <3>2
      <4> QED BY <2>4, <4>1, <4>2
    <3> QED BY <2>2, <2>5, <3>1, <3>2
  <2>6. Till(g, n + 1)
    BY <2>3, <2>5
  <2>7. \E h : Till(h, n + 1)
    BY <2>6
  <2> HIDE DEF Till
  <2> QED BY <1>1, <1>3, <2>7
<1>4. N \in S
  <2> HIDE DEF S
  <2>1. \A n \in 0..N : n # N /\ n \in S => n + 1 \in S
    BY <1>3
  <2>2. \A n \in 0..N : n \in S
    BY <1>1, <1>2, <2>1, AllUpTo
  <2> QED BY <1>1, <2>2
<1>5. PICK f : Till(f, N)
  BY <1>4
<1>6. \A j \in 1..N : f[j] = Chain(j, url, f)
  BY <1>1, <1>5
<1>7. f = [j \in DOMAIN routes |-> Chain(j, url, f)]
  BY <1>1, <1>5, <1>6
<1>8. \E h : h = [j \in DOMAIN routes |-> Chain(j, url, h)]
  BY <1>7
<1>9. Chains(url) = [j \in DOMAIN routes |-> Chain(j, url, Chains(url))]
  BY <1>8, Zenon DEF Chains
<1> QED BY <1>1, <1>9 DEF N

-----------------------------------------------------------------------------
(* The answer of a route is yes if there is a way from it, and then the    *)
(* routes of the way, and no other, fill the match.                        *)
AnswerOf(s) == [ok |-> s # <<>>, filled |-> s]

LEMMA AnswerOfIs ==
  ASSUME NEW s \in Seq(Int)
  PROVE  /\ AnswerOf(s) \in Reply /\ AnswerOf(s).filled = s
         /\ s = <<>> => AnswerOf(s) = [ok |-> FALSE, filled |-> <<>>] /\ AnswerOf(s).ok = FALSE
         /\ s # <<>> => AnswerOf(s) = [ok |-> TRUE, filled |-> s] /\ AnswerOf(s).ok = TRUE
<1>1. (s # <<>>) \in BOOLEAN
  OBVIOUS
<1>2. AnswerOf(s) \in Reply /\ AnswerOf(s).filled = s
  BY <1>1 DEF AnswerOf, Reply
<1>3. CASE s = <<>>
  BY <1>2, <1>3 DEF AnswerOf
<1>4. CASE s # <<>>
  BY <1>2, <1>4 DEF AnswerOf
<1> QED BY <1>2, <1>3, <1>4

LEMMA MatchFirstIs ==
  ASSUME NEW m, NEW S, mux[m].routes \in Seq(S), NEW a, NEW c,
         \A j \in ToSet(mux[m].routes) : c[j] \in Seq(Int) /\ a[j] = AnswerOf(c[j])
  PROVE  MatchFirst(mux[m].routes, a) =
           AnswerOf(IF \E j \in ToSet(mux[m].routes) : c[j] # <<>> THEN c[FirstAccepting(m, c)] ELSE <<>>)
<1> DEFINE rs == mux[m].routes
           q  == [n \in DOMAIN rs |-> a[rs[n]]]
           at == {n \in DOMAIN rs : c[rs[n]] # <<>>}
<1>1. DOMAIN rs = 1..Len(rs) /\ Len(rs) \in Nat
  OBVIOUS
<1>2. \A n \in 1..Len(rs) : rs[n] \in ToSet(rs)
  BY <1>1 DEF ToSet
<1>3. ASSUME NEW n \in 1..Len(rs)
      PROVE  q[n] \in Reply /\ q[n] = AnswerOf(c[rs[n]]) /\ c[rs[n]] \in Seq(Int)
  BY <1>1, <1>2, AnswerOfIs
<1>4. q \in Seq(Reply) /\ Len(q) = Len(rs)
  <2>1. q = [n \in 1..Len(rs) |-> q[n]]
    BY <1>1
  <2> HIDE DEF q, rs
  <2>2. \A n \in 1..Len(rs) : q[n] \in Reply
    BY <1>3
  <2> QED BY <1>1, <2>1, <2>2
<1>5. FirstAccepting(m, c) = rs[Min(at)]
  BY DEF FirstAccepting
<1>6. MatchFirst(rs, a) = Loop(q, TRUE)
  BY DEF MatchFirst
<1>7. (\E j \in ToSet(rs) : c[j] # <<>>) <=> at # {}
  BY <1>1 DEF ToSet
<1>8. at \subseteq Nat /\ at \subseteq 1..Len(rs)
  BY <1>1
<1> HIDE DEF q, rs
<1>9. ASSUME NEW n \in 1..Len(q) PROVE /\ q[n].ok = TRUE <=> c[rs[n]] # <<>>
                                       /\ q[n].ok = FALSE => q[n].filled = <<>>
                                       /\ q[n].filled = c[rs[n]]
  <2>1. c[rs[n]] \in Seq(Int) /\ q[n] = AnswerOf(c[rs[n]])
    BY <1>3, <1>4
  <2>2. CASE c[rs[n]] = <<>>
    <3>1. q[n].ok = FALSE /\ q[n].filled = c[rs[n]]
      BY <2>1, <2>2, AnswerOfIs
    <3> QED BY <2>2, <3>1
  <2>3. CASE c[rs[n]] # <<>>
    <3>1. q[n].ok = TRUE /\ q[n].filled = c[rs[n]]
      BY <2>1, <2>3, AnswerOfIs
    <3> QED BY <2>3, <3>1
  <2> QED BY <2>2, <2>3
<1>10. at = {n \in 1..Len(q) : q[n].ok = TRUE}
  BY <1>1, <1>4, <1>9
<1>11. at # {} => Min(at) \in at
  BY <1>8, LeastIs
<1>12. at # {} => Min(at) \in 1..Len(q) /\ c[rs[Min(at)]] # <<>>
  BY <1>4, <1>8, <1>11
<1>13. at = {} => Loop(q, TRUE) = [ok |-> FALSE, filled |-> <<>>]
  <2> HIDE DEF at
  <2> QED BY <1>4, <1>9, <1>10, LoopOverRoutes
<1>14. at # {} => Loop(q, TRUE) = [ok |-> TRUE, filled |-> q[Min(at)].filled]
  <2> HIDE DEF at
  <2> QED BY <1>4, <1>9, <1>10, LoopOverRoutes
<1> HIDE DEF at
<1>15. CASE at = {}
  <2>1. <<>> \in Seq(Int)
    OBVIOUS
  <2> QED BY <1>6, <1>7, <1>13, <1>15, <2>1, AnswerOfIs DEF rs
<1>16. CASE at # {}
  <2>1. q[Min(at)].filled = c[rs[Min(at)]] /\ c[rs[Min(at)]] \in Seq(Int) /\ c[rs[Min(at)]] # <<>>
    BY <1>3, <1>4, <1>9, <1>12, <1>16
  <2>2. Loop(q, TRUE) = AnswerOf(c[rs[Min(at)]])
    BY <1>14, <1>16, <2>1, AnswerOfIs
  <2> QED BY <1>5, <1>6, <1>7, <1>16, <2>2 DEF rs
<1> QED BY <1>15, <1>16

LEMMA AnswerStep ==
  ASSUME Sound(mux, routes), NEW i \in 1..Len(routes), NEW url, NEW a, NEW c,
         \A j \in 1..Len(routes) : j > i => a[j] = AnswerOf(c[j]) /\ c[j] \in Seq(j..Len(routes))
  PROVE  /\ MatchRoute(Table, i, url, a) = AnswerOf(Chain(i, url, c))
         /\ Chain(i, url, c) \in Seq(i..Len(routes))
<1> DEFINE N   == Len(routes)
           ms  == routes[i].matchers
           L   == Len(ms)
           K   == ToSet(ms)
           b   == [n \in DOMAIN ms |-> Test(Table, ms[n], url, a)]
           all == MatchAll(Table, ms, url, a)
           way == Chain(i, url, c)
<1>1. /\ N \in Nat /\ i \in Nat /\ routes[i] \in Routes /\ Nested(mux, routes[i], i)
      /\ Table.mux = mux /\ Table.routes = routes
  BY DEF Sound, RouteSound, Table
<1>2. /\ ms \in Seq(Matchers \cup SubMatchers) /\ routes[i].err \in BOOLEAN
      /\ DOMAIN ms = 1..L /\ L \in Nat
  BY <1>1 DEF Routes
<1>3. \A n \in 1..L : ms[n] \in K
  BY <1>2 DEF ToSet
<1>4. \A k \in K : \E n \in 1..L : k = ms[n]
  BY <1>2 DEF ToSet
<1>5. ASSUME NEW j \in 1..N, j > i PROVE c[j] \in Seq(Int) /\ c[j] \in Seq(i..N)
  <2>1. c[j] \in Seq(j..N) /\ j..N \subseteq Int /\ j..N \subseteq i..N
    BY <1>1, <1>5
  <2> QED BY <2>1
<1>6. ASSUME NEW n \in 1..L
      PROVE  IF ms[n].kind = "mux"
             THEN /\ n = L
                  /\ IF Accepts(ms[n], url, c)
                     THEN /\ b[n] = AnswerOf(c[FirstAccepting(ms[n].id, c)])
                          /\ c[FirstAccepting(ms[n].id, c)] \in Seq(Int)
                          /\ c[FirstAccepting(ms[n].id, c)] \in Seq(i..N)
                          /\ c[FirstAccepting(ms[n].id, c)] # <<>>
                     ELSE b[n] = AnswerOf(<<>>)
             ELSE b[n] = [ok |-> Accepts(ms[n], url, c), filled |-> <<>>]
  <2>1. CASE ms[n].kind # "mux"
    <3>1. b[n] = [ok |-> Holds(ms[n], url), filled |-> <<>>]
      BY <1>2, <2>1 DEF Test
    <3> QED BY <2>1, <3>1 DEF Accepts
  <2>2. CASE ms[n].kind = "mux"
    <3> DEFINE id == ms[n].id
               rs == mux[id].routes
               to == FirstAccepting(id, c)
    <3>1. n = L
      BY <1>1, <2>2 DEF Nested
    <3>2. rs \in Seq(1..N) /\ \A j \in ToSet(rs) : j \in 1..N /\ j > i
      BY <1>3, <2>2, MatcherIs
    <3>3. b[n] = MatchFirst(rs, a)
      BY <1>1, <1>2, <2>2 DEF Test
    <3>4. \A j \in ToSet(rs) : c[j] \in Seq(Int) /\ a[j] = AnswerOf(c[j])
      BY <1>5, <3>2
    <3>5. Accepts(ms[n], url, c) <=> \E j \in ToSet(rs) : c[j] # <<>>
      BY <2>2 DEF Accepts
    <3>6. MatchFirst(rs, a) = AnswerOf(IF \E j \in ToSet(rs) : c[j] # <<>> THEN c[to] ELSE <<>>)
      <4> HIDE DEF id
      <4>1. mux[id].routes \in Seq(1..N)
        BY <3>2
      <4>2. \A j \in ToSet(mux[id].routes) : c[j] \in Seq(Int) /\ a[j] = AnswerOf(c[j])
        BY <3>4
      <4> QED BY <4>1, <4>2, MatchFirstIs
    <3> HIDE DEF rs
    <3>7. CASE Accepts(ms[n], url, c)
      <4>1. to \in ToSet(rs) /\ c[to] # <<>>
        BY <3>2, <3>5, <3>7, FirstAcceptingIs DEF rs
      <4>2. c[to] \in Seq(Int) /\ c[to] \in Seq(i..N)
        BY <1>5, <3>2, <4>1
      <4> HIDE DEF b, id, to
      <4>3. b[n] = AnswerOf(c[to])
        BY <3>3, <3>5, <3>6, <3>7
      <4> QED BY <2>2, <3>1, <3>7, <4>1, <4>2, <4>3 DEF to, id
    <3>8. CASE ~Accepts(ms[n], url, c)
      <4> HIDE DEF b, id, to
      <4>1. b[n] = AnswerOf(<<>>)
        BY <3>3, <3>5, <3>6, <3>8
      <4> QED BY <2>2, <3>1, <3>8, <4>1
    <3> QED BY <3>7, <3>8
  <2> QED BY <2>1, <2>2
<1>7. all = Loop(b, FALSE)
  BY DEF MatchAll
<1>8. b = [n \in 1..L |-> b[n]]
  BY <1>2
<1> HIDE DEF b
<1>9. ASSUME NEW n \in 1..L
      PROVE  /\ b[n] \in Reply
             /\ n # L => b[n].filled = <<>>
             /\ IF Accepts(ms[n], url, c) THEN b[n].ok = TRUE ELSE b[n].ok = FALSE /\ b[n].filled = <<>>
             /\ ms[n].kind # "mux" => b[n].filled = <<>>
  <2>0. <<>> \in Seq(Int)
    OBVIOUS
  <2>1. CASE ms[n].kind # "mux"
    <3>1. b[n] = [ok |-> Accepts(ms[n], url, c), filled |-> <<>>] /\ Accepts(ms[n], url, c) \in BOOLEAN
      <4>1. ms[n] \in Matchers
        BY <1>2, <2>1 DEF SubMatchers
      <4>2. Holds(ms[n], url) \in BOOLEAN
        BY <4>1 DEF Matchers, Holds, PathMatches, SegmentMatches, QueryMatches
      <4>3. Accepts(ms[n], url, c) = Holds(ms[n], url)
        BY <2>1 DEF Accepts
      <4> QED BY <1>6, <2>1, <4>2, <4>3
    <3> QED BY <2>0, <2>1, <3>1 DEF Reply
  <2>2. CASE ms[n].kind = "mux" /\ Accepts(ms[n], url, c)
    <3> DEFINE s == c[FirstAccepting(ms[n].id, c)]
    <3>1. n = L /\ b[n] = AnswerOf(s) /\ s \in Seq(Int) /\ s # <<>>
      BY <1>6, <2>2
    <3> HIDE DEF s
    <3>2. b[n] \in Reply /\ b[n].ok = TRUE
      BY <3>1, AnswerOfIs
    <3> QED BY <2>2, <3>1, <3>2
  <2>3. CASE ms[n].kind = "mux" /\ ~Accepts(ms[n], url, c)
    <3>1. n = L /\ b[n] = AnswerOf(<<>>)
      BY <1>6, <2>3
    <3>2. b[n] \in Reply /\ b[n].ok = FALSE /\ b[n].filled = <<>>
      BY <2>0, <3>1, AnswerOfIs
    <3> QED BY <2>3, <3>1, <3>2
  <2> QED BY <2>1, <2>2, <2>3
<1>10. b \in Seq(Reply) /\ Len(b) = L
  <2>1. \A n \in 1..L : b[n] \in Reply
    BY <1>9
  <2>2. L \in Nat
    BY <1>2
  <2> HIDE DEF L
  <2> QED BY <1>8, <2>1, <2>2
<1>11. (\E n \in 1..L : ~Accepts(ms[n], url, c)) => all = [ok |-> FALSE, filled |-> <<>>]
  BY <1>7, <1>9, <1>10, LoopOverMatchers
<1>12. (\A n \in 1..L : Accepts(ms[n], url, c)) =>
         all = [ok |-> TRUE, filled |-> IF L = 0 THEN <<>> ELSE b[L].filled]
  <2>1. (\A n \in 1..L : Accepts(ms[n], url, c)) => \A n \in 1..L : b[n].ok # FALSE
    BY <1>9
  <2> QED BY <1>7, <1>9, <1>10, <2>1, LoopOverMatchers
<1>13. <<>> \in Seq(Int) /\ <<>> \in Seq(i..N) /\ AnswerOf(<<>>) = [ok |-> FALSE, filled |-> <<>>]
  <2>1. <<>> \in Seq(Int) /\ <<>> \in Seq(i..N)
    OBVIOUS
  <2> QED BY <2>1, AnswerOfIs
<1>14. MatchRoute(Table, i, url, a) =
         IF routes[i].err THEN [ok |-> FALSE, filled |-> <<>>]
         ELSE [ok     |-> all.ok,
               filled |-> IF all.ok THEN Append(all.filled, i) ELSE all.filled]
  BY <1>1 DEF MatchRoute
<1> HIDE DEF all
<1>15. CASE routes[i].err
  <2>1. way = <<>>
    BY <1>15 DEF Chain
  <2> QED BY <1>13, <1>14, <1>15, <2>1
<1>16. CASE ~routes[i].err /\ \E n \in 1..L : ~Accepts(ms[n], url, c)
  <2>1. way = <<>>
    BY <1>3, <1>16 DEF Chain
  <2>2. MatchRoute(Table, i, url, a) = [ok |-> FALSE, filled |-> <<>>]
    <3>1. all = [ok |-> FALSE, filled |-> <<>>]
      BY <1>11, <1>16
    <3>2. all.ok = FALSE /\ all.filled = <<>>
      BY <3>1
    <3> QED BY <1>14, <1>16, <3>2
  <2> QED BY <1>13, <2>1, <2>2
<1>17. CASE ~routes[i].err /\ \A n \in 1..L : Accepts(ms[n], url, c)
  <2> DEFINE fill == IF L = 0 THEN <<>> ELSE b[L].filled
             subs == {k.id : k \in {l \in K : l.kind = "mux"}}
  <2>1. MatchRoute(Table, i, url, a) = [ok |-> TRUE, filled |-> Append(fill, i)]
    <3>1. all = [ok |-> TRUE, filled |-> fill]
      BY <1>12, <1>17
    <3> HIDE DEF fill
    <3>2. all.ok = TRUE /\ all.filled = fill
      BY <3>1
    <3> QED BY <1>14, <1>17, <3>2
  <2>2. way = IF subs = {} THEN <<i>> ELSE Append(c[FirstAccepting(Min(subs), c)], i)
    BY <1>4, <1>17 DEF Chain
  <2>3. way = Append(fill, i) /\ fill \in Seq(Int) /\ fill \in Seq(i..N)
    <3>1. CASE subs = {}
      <4>1. \A n \in 1..L : ms[n].kind # "mux"
        BY <1>3, <3>1
      <4>2. fill = <<>>
        <5>1. \A n \in 1..L : b[n].filled = <<>>
          BY <1>9, <4>1
        <5>2. L = 0 \/ L \in 1..L
          BY <1>2
        <5> QED BY <5>1, <5>2
      <4>3. way = <<i>> /\ Append(<<>>, i) = <<i>>
        BY <2>2, <3>1
      <4> QED BY <1>13, <4>2, <4>3
    <3>2. CASE subs # {}
      <4>1. PICK k \in K : k.kind = "mux"
        BY <3>2
      <4>2. PICK n \in 1..L : k = ms[n]
        BY <1>4
      <4>3. n = L /\ \A l \in K : l.kind = "mux" => l = ms[L]
        BY <1>4, <1>6, <4>1, <4>2
      <4>4. subs = {ms[L].id} /\ ms[L].id \in Nat
        BY <4>1, <4>2, <4>3, MatcherIs
      <4>5. Min(subs) = ms[L].id
        <5> DEFINE x == ms[L].id
        <5>1. subs = {x} /\ x \in Nat
          BY <4>4
        <5> HIDE DEF x, subs
        <5>2. subs \subseteq Nat /\ x \in subs /\ \A y \in subs : x <= y
          BY <5>1
        <5>3. Min(subs) = x
          BY <5>2, LeastUnique
        <5> QED BY <5>3 DEF x
      <4> DEFINE s == c[FirstAccepting(ms[L].id, c)]
      <4>6. b[L] = AnswerOf(s) /\ s \in Seq(Int) /\ s \in Seq(i..N) /\ L # 0
        <5>1. L \in 1..L /\ ms[L].kind = "mux" /\ Accepts(ms[L], url, c)
          BY <1>17, <4>1, <4>2, <4>3
        <5>2. b[L] = AnswerOf(s) /\ s \in Seq(Int) /\ s \in Seq(i..N)
          BY <1>6, <5>1, Zenon
        <5> QED BY <1>2, <5>1, <5>2
      <4> HIDE DEF s
      <4>7. fill = s
        BY <4>6, AnswerOfIs
      <4>8. way = Append(s, i)
        BY <2>2, <3>2, <4>5 DEF s
      <4> QED BY <4>6, <4>7, <4>8
    <3> QED BY <3>1, <3>2
  <2> HIDE DEF fill
  <2>4. i \in i..N /\ i \in Int
    BY <1>1
  <2>5. way \in Seq(i..N) /\ way \in Seq(Int) /\ way # <<>>
    BY <2>3, <2>4
  <2>6. MatchRoute(Table, i, url, a) = [ok |-> TRUE, filled |-> way]
    BY <2>1, <2>3
  <2> QED BY <2>5, <2>6, AnswerOfIs
<1> QED BY <1>15, <1>16, <1>17

(* What holds of a number if it holds of those after it holds of all: the  *)
(* ones it does not hold of have no greatest.                              *)
LEMMA AllDownTo ==
  ASSUME NEW N \in Nat, NEW S,
         \A i \in 1..N : (\A j \in 1..N : j > i => j \in S) => i \in S
  PROVE  \A i \in 1..N : i \in S
<1> DEFINE T == {N - i : i \in {j \in 1..N : j \notin S}}
<1> SUFFICES ASSUME NEW i \in 1..N, i \notin S PROVE FALSE
  OBVIOUS
<1>1. T \subseteq Nat /\ T # {}
  OBVIOUS
<1>2. Min(T) \in T /\ \A d \in T : Min(T) <= d
  BY <1>1, LeastIs
<1>3. PICK l \in 1..N : l \notin S /\ Min(T) = N - l
  BY <1>2
<1>4. ASSUME NEW j \in 1..N, j > l PROVE j \in S
  <2>1. j \notin S => N - j \in T
    OBVIOUS
  <2> HIDE DEF T
  <2>2. j \notin S => N - l <= N - j
    BY <1>2, <1>3, <2>1
  <2> QED BY <1>4, <2>2
<1> QED BY <1>3, <1>4

LEMMA AnswersAreChains ==
  ASSUME Sound(mux, routes), NEW url
  PROVE  \A i \in 1..Len(routes) : /\ Answers(Table, url)[i] = AnswerOf(Chains(url)[i])
                                   /\ Chains(url)[i] \in Seq(i..Len(routes))
<1> DEFINE N == Len(routes)
           a == Answers(Table, url)
           c == Chains(url)
           S == {i \in 1..N : a[i] = AnswerOf(c[i]) /\ c[i] \in Seq(i..N)}
<1>1. N \in Nat /\ Table.routes = routes /\ Table.mux = mux
  BY DEF Sound, Table
<1>2. \A i \in 1..N : a[i] = MatchRoute(Table, i, url, a)
  <2>1. Sound(Table.mux, Table.routes)
    BY <1>1
  <2>2. a = [i \in 1..N |-> MatchRoute(Table, i, url, a)]
    BY <1>1, <2>1, AnswersIs
  <2> HIDE DEF a
  <2> QED BY <2>2
<1>3. \A i \in 1..N : c[i] = Chain(i, url, c)
  <2>1. c = [i \in 1..N |-> Chain(i, url, c)]
    BY ChainsIs
  <2> HIDE DEF c
  <2> QED BY <2>1
<1> HIDE DEF a, c
<1>4. ASSUME NEW i \in 1..N, \A j \in 1..N : j > i => j \in S PROVE i \in S
  <2>1. \A j \in 1..N : j > i => a[j] = AnswerOf(c[j]) /\ c[j] \in Seq(j..N)
    BY <1>4
  <2>2. MatchRoute(Table, i, url, a) = AnswerOf(Chain(i, url, c)) /\ Chain(i, url, c) \in Seq(i..N)
    BY <2>1, AnswerStep
  <2> QED BY <1>2, <1>3, <2>2
<1>5. \A i \in 1..N : i \in S
  <2> HIDE DEF S, N
  <2> QED BY <1>1, <1>4, AllDownTo
<1> QED BY <1>5 DEF a, c

(* So the answer to a request is what is meant.                            *)
LEMMA MuxMatchIs ==
  ASSUME Sound(mux, routes), NEW url
  PROVE  /\ MuxMatch(Table, url).ok = Answered(url)
         /\ MuxMatch(Table, url).m = Filled(Table, IF Answered(url) THEN Meant(url) ELSE <<>>, url)
         /\ Answered(url) => /\ Meant(url) \in Seq(1..Len(routes)) /\ Meant(url) # <<>>
                             /\ \E i \in 1..Len(routes) : Meant(url) = Chains(url)[i]
         /\ MatchFirst(mux[1].routes, Answers(Table, url)).filled =
              IF Answered(url) THEN Meant(url) ELSE <<>>
<1> DEFINE N  == Len(routes)
           a  == Answers(Table, url)
           c  == Chains(url)
           rs == mux[1].routes
           s  == IF Answered(url) THEN Meant(url) ELSE <<>>
<1>1. N \in Nat /\ Table.routes = routes /\ Table.mux = mux /\ rs \in Seq(1..N)
  <2>1. 1 \in 1..Len(mux)
    BY DEF Sound, RoutersSound
  <2> QED BY <2>1 DEF Sound, RoutersSound, Table
<1>2. \A j \in ToSet(rs) : j \in 1..N
  BY <1>1 DEF ToSet
<1>3. ASSUME NEW j \in ToSet(rs)
      PROVE  c[j] \in Seq(Int) /\ a[j] = AnswerOf(c[j]) /\ c[j] \in Seq(1..N)
  <2>1. j \in 1..N /\ c[j] \in Seq(j..N) /\ a[j] = AnswerOf(c[j])
    BY <1>2, AnswersAreChains
  <2>2. j..N \subseteq 1..N /\ j..N \subseteq Int
    BY <1>1, <2>1
  <2> QED BY <2>1, <2>2
<1>4. /\ MuxMatch(Table, url).ok = MatchFirst(rs, a).ok
      /\ MuxMatch(Table, url).m = Filled(Table, MatchFirst(rs, a).filled, url)
  BY <1>1 DEF MuxMatch
<1>5. /\ Answered(url) <=> \E j \in ToSet(rs) : c[j] # <<>>
      /\ Meant(url) = c[FirstAccepting(1, c)]
  BY DEF Answered, Meant
<1> HIDE DEF a, c
<1>6. MatchFirst(rs, a) = AnswerOf(IF \E j \in ToSet(rs) : c[j] # <<>> THEN c[FirstAccepting(1, c)] ELSE <<>>)
  <2>1. mux[1].routes \in Seq(1..N)
    BY <1>1
  <2>2. \A j \in ToSet(mux[1].routes) : c[j] \in Seq(Int) /\ a[j] = AnswerOf(c[j])
    BY <1>3
  <2> QED BY <2>1, <2>2, MatchFirstIs
<1>7. MatchFirst(rs, a) = AnswerOf(s)
  BY <1>5, <1>6
<1>8. Answered(url) => /\ Meant(url) \in Seq(1..N) /\ Meant(url) # <<>> /\ Meant(url) \in Seq(Int)
                       /\ \E i \in 1..N : Meant(url) = c[i]
  <2>1. Answered(url) => FirstAccepting(1, c) \in ToSet(rs) /\ c[FirstAccepting(1, c)] # <<>>
    BY <1>1, <1>5, FirstAcceptingIs
  <2> QED BY <1>2, <1>3, <1>5, <2>1
<1>9. s \in Seq(Int) /\ (Answered(url) <=> s # <<>>)
  BY <1>8
<1>10. Answered(url) \in BOOLEAN
  BY DEF Answered
<1>11. MatchFirst(rs, a).ok = Answered(url) /\ MatchFirst(rs, a).filled = s
  <2> HIDE DEF s, rs
  <2> QED BY <1>7, <1>9, <1>10, AnswerOfIs
<1> QED BY <1>4, <1>8, <1>11 DEF a, c

-----------------------------------------------------------------------------
(* Filling a match, route by route.                                        *)
Fills(t, s, url, f) ==
  /\ f[0] = NoMatch /\ Filled(t, s, url) = f[Len(s)]
  /\ \A n \in 1..Len(s) : f[n] = Fill(t, s[n], url, f[n - 1])

LEMMA FilledIs ==
  ASSUME NEW t, NEW S, NEW s \in Seq(S), NEW url
  PROVE  \E f : Fills(t, s, url, f)
<1> DEFINE N == Len(s)
           Next1(f, n) == IF n = 0 THEN NoMatch ELSE Fill(t, s[n], url, f[n - 1])
           Till(f, n) == f = [j \in 0..N |-> f[j]] /\ \A j \in 0..N : j <= n => f[j] = Next1(f, j)
           T == {n \in 0..N : \E f : Till(f, n)}
<1>1. N \in Nat
  OBVIOUS
<1> HIDE DEF N
<1>2. 0 \in T
  <2> DEFINE f == [j \in 0..N |-> NoMatch]
  <2>1. f = [j \in 0..N |-> f[j]] /\ f[0] = NoMatch
    BY <1>1
  <2>2. \A j \in 0..N : j <= 0 => j = 0
    BY <1>1
  <2> HIDE DEF f
  <2>3. Till(f, 0)
    BY <2>1, <2>2
  <2>4. \E h : Till(h, 0)
    BY <2>3
  <2> HIDE DEF Till
  <2> QED BY <1>1, <2>4
<1>3. ASSUME NEW n \in 0..N, n # N, n \in T PROVE n + 1 \in T
  <2>1. PICK f : Till(f, n)
    BY <1>3
  <2> DEFINE x == Fill(t, s[n + 1], url, f[n])
             g == [j \in 0..N |-> IF j = n + 1 THEN x ELSE f[j]]
  <2>2. n \in Nat /\ n + 1 \in 0..N /\ n + 1 # 0 /\ (n + 1) - 1 = n
        /\ \A j \in 0..N : j <= n + 1 => j = n + 1 \/ j <= n
    BY <1>1, <1>3
  <2>3. g = [j \in 0..N |-> g[j]] /\ g[n + 1] = x /\ \A j \in 0..N : j <= n => g[j] = f[j]
    BY <1>1, <2>2
  <2> HIDE DEF g
  <2>4. ASSUME NEW j \in 0..N, j <= n + 1 PROVE g[j] = Next1(g, j)
    <3>1. CASE j = n + 1
      <4>1. g[n] = f[n]
        BY <1>1, <2>2, <2>3
      <4> QED BY <2>2, <2>3, <3>1, <4>1
    <3>2. CASE j <= n
      <4>1. g[j] = f[j] /\ f[j] = Next1(f, j)
        BY <2>1, <2>3, <3>2
      <4>2. j # 0 => g[j - 1] = f[j - 1]
        <5>1. j # 0 => j - 1 \in 0..N /\ j - 1 <= n
          BY <1>1, <2>2, <3>2
        <5> QED BY <2>3, <5>1
      <4> QED BY <4>1, <4>2
    <3> QED BY <2>2, <2>4, <3>1, <3>2
  <2>5. Till(g, n + 1)
    BY <2>3, <2>4
  <2>6. \E h : Till(h, n + 1)
    BY <2>5
  <2> HIDE DEF Till
  <2> QED BY <1>1, <2>2, <2>6
<1>4. N \in T
  <2> HIDE DEF T
  <2>1. \A n \in 0..N : n # N /\ n \in T => n + 1 \in T
    BY <1>3
  <2>2. \A n \in 0..N : n \in T
    BY <1>1, <1>2, <2>1, AllUpTo
  <2> QED BY <1>1, <2>2
<1>5. PICK f : Till(f, N)
  BY <1>4
<1>6. \A j \in 0..N : f[j] = Next1(f, j)
  <2>1. \A j \in 0..N : j <= N
    BY <1>1
  <2> HIDE DEF Next1
  <2> QED BY <1>5, <2>1
<1>7. f = [j \in 0..N |-> Next1(f, j)]
  BY <1>5, <1>6
<1> DEFINE m == CHOOSE h : h = [n \in 0..N |-> IF n = 0 THEN NoMatch ELSE Fill(t, s[n], url, h[n - 1])]
<1>8. \E h : h = [n \in 0..N |-> IF n = 0 THEN NoMatch ELSE Fill(t, s[n], url, h[n - 1])]
  BY <1>7
<1>9. m = [n \in 0..N |-> IF n = 0 THEN NoMatch ELSE Fill(t, s[n], url, m[n - 1])]
  BY <1>8, Zenon
<1>10. Filled(t, s, url) = m[N]
  BY Zenon DEF Filled, N
<1> HIDE DEF m
<1>11. m[0] = NoMatch
  BY <1>1, <1>9
<1>12. ASSUME NEW n \in 1..N PROVE m[n] = Fill(t, s[n], url, m[n - 1])
  <2>1. n \in 0..N /\ n # 0
    BY <1>1
  <2> QED BY <1>9, <2>1
<1>13. Fills(t, s, url, m)
  BY <1>10, <1>11, <1>12, Zenon DEF N, Fills
<1> QED BY <1>13

(* Its route is the first that fills it, its controller that of the first  *)
(* which has one.                                                          *)
LEMMA FilledRight ==
  ASSUME Sound(mux, routes), NEW s \in Seq(1..Len(routes)), s # <<>>, NEW url
  PROVE  /\ Filled(Table, s, url).route = s[1]
         /\ Filled(Table, s, url).controller = ControllerOf(s)
<1> DEFINE L    == Len(s)
           K(n) == routes[s[n]].controller
           H(n) == {k \in 1..n : K(k) # Nil}
           C(n) == IF H(n) = {} THEN Nil ELSE K(Min(H(n)))
<1>1. /\ L \in Nat /\ L # 0 /\ DOMAIN s = 1..L /\ Table.routes = routes
      /\ \A n \in 1..L : s[n] \in Nat /\ s[n] # Nil
  <2>1. Len(routes) \in Nat
    BY DEF Sound
  <2>2. L \in Nat /\ L # 0 /\ DOMAIN s = 1..L /\ Table.routes = routes /\ \A n \in 1..L : s[n] \in Nat
    BY <2>1 DEF Table
  <2> QED BY <2>2, RouterAssumption DEF RouterAssumption
<1>0. PICK f : Fills(Table, s, url, f)
  BY FilledIs
<1>2. /\ f[0] = NoMatch /\ Filled(Table, s, url) = f[L]
      /\ \A n \in 1..L : f[n] = Fill(Table, s[n], url, f[n - 1])
  BY <1>0, Zenon DEF Fills
<1>3. f[0].route = Nil /\ f[0].controller = Nil
  BY <1>2 DEF NoMatch
<1>4. ASSUME NEW n \in 1..L
      PROVE  /\ f[n].route = IF f[n - 1].route = Nil THEN s[n] ELSE f[n - 1].route
             /\ f[n].controller = IF f[n - 1].controller = Nil THEN K(n) ELSE f[n - 1].controller
  <2> DEFINE new == [route      |-> IF f[n - 1].route = Nil THEN s[n] ELSE f[n - 1].route,
                     controller |-> IF f[n - 1].controller = Nil THEN K(n) ELSE f[n - 1].controller,
                     vars       |-> SetMatch(routes[s[n]], url, f[n - 1].vars)]
  <2>1. f[n] = new
    BY <1>1, <1>2 DEF Fill
  <2> QED BY <2>1
<1> HIDE DEF L, K
<1> DEFINE S == {n \in 0..L : /\ n # 0 => f[n].route = s[1]
                              /\ f[n].controller = C(n)}
<1>5. ASSUME NEW n \in 0..L, n # L, n \in S PROVE n + 1 \in S
  <2>1. n + 1 \in 1..L /\ (n + 1) - 1 = n /\ n + 1 \in 0..L /\ n \in Nat /\ (n # 0 => 1 \in 1..L)
    BY <1>1, <1>5
  <2>2. f[n + 1].route = s[1]
    <3>1. CASE n = 0
      BY <1>3, <1>4, <2>1, <3>1
    <3>2. CASE n # 0
      BY <1>1, <1>4, <1>5, <2>1, <3>2
    <3> QED BY <3>1, <3>2
  <2>3. f[n + 1].controller = IF C(n) = Nil THEN K(n + 1) ELSE C(n)
    BY <1>4, <1>5, <2>1
  <2>4. /\ H(n) \subseteq Nat /\ H(n + 1) \subseteq Nat /\ H(n) \subseteq H(n + 1)
        /\ \A k \in H(n) : k <= n
        /\ \A k \in H(n + 1) : k \in H(n) \/ k = n + 1
    BY <2>1
  <2>5. CASE H(n) = {}
    <3>1. CASE K(n + 1) = Nil
      <4>1. H(n + 1) = {}
        BY <2>4, <2>5, <3>1
      <4> QED BY <2>1, <2>2, <2>3, <2>5, <3>1, <4>1
    <3>2. CASE K(n + 1) # Nil
      <4>1. n + 1 \in H(n + 1) /\ \A k \in H(n + 1) : n + 1 <= k
        BY <2>1, <2>4, <2>5, <3>2
      <4>2. Min(H(n + 1)) = n + 1
        <5> HIDE DEF H
        <5> QED BY <2>4, <4>1, LeastUnique
      <4>3. C(n + 1) = K(n + 1)
        BY <4>1, <4>2
      <4> QED BY <2>1, <2>2, <2>3, <2>5, <4>3
    <3> QED BY <3>1, <3>2
  <2>6. CASE H(n) # {}
    <3> DEFINE x == Min(H(n))
    <3>1. x \in H(n) /\ \A k \in H(n) : x <= k
      <4> HIDE DEF H
      <4> QED BY <2>4, <2>6, LeastIs
    <3>2. x \in H(n + 1) /\ \A k \in H(n + 1) : x <= k
      <4> HIDE DEF H, x
      <4> QED BY <2>1, <2>4, <3>1
    <3>3. Min(H(n + 1)) = x
      <4> HIDE DEF H, x
      <4> QED BY <2>4, <3>2, LeastUnique
    <3>4. C(n) = K(x) /\ K(x) # Nil /\ C(n + 1) = K(x)
      <4>1. K(x) # Nil
        <5> HIDE DEF x
        <5> QED BY <3>1
      <4> QED BY <2>6, <3>2, <3>3, <4>1
    <3> HIDE DEF C, H, x
    <3> QED BY <2>1, <2>2, <2>3, <3>4
  <2> QED BY <2>5, <2>6
<1>6. 0 \in S
  BY <1>1, <1>3
<1>7. L \in S
  <2> HIDE DEF S
  <2>1. \A n \in 0..L : n # L /\ n \in S => n + 1 \in S
    BY <1>5
  <2>2. \A n \in 0..L : n \in S
    BY <1>1, <1>6, <2>1, AllUpTo
  <2> QED BY <1>1, <2>2
<1>8. ControllerOf(s) = C(L)
  BY <1>1 DEF ControllerOf, K
<1> QED BY <1>1, <1>2, <1>7, <1>8

LEMMA InvRouted == ASSUME RouterInv PROVE RoutedRight
<1> SUFFICES ASSUME NEW url \in Urls
             PROVE  /\ MuxMatch(Table, url).ok = Answered(url)
                    /\ MuxMatch(Table, url).ok =>
                         /\ MuxMatch(Table, url).m.route = Meant(url)[1]
                         /\ MuxMatch(Table, url).m.controller = ControllerOf(Meant(url))
  BY DEF RoutedRight
<1>1. Sound(mux, routes)
  BY DEF RouterInv
<1>2. /\ MuxMatch(Table, url).ok = Answered(url)
      /\ Answered(url) => /\ MuxMatch(Table, url).m = Filled(Table, Meant(url), url)
                          /\ Meant(url) \in Seq(1..Len(routes)) /\ Meant(url) # <<>>
  BY <1>1, MuxMatchIs
<1>3. Answered(url) => /\ Filled(Table, Meant(url), url).route = Meant(url)[1]
                       /\ Filled(Table, Meant(url), url).controller = ControllerOf(Meant(url))
  BY <1>1, <1>2, FilledRight
<1> QED BY <1>2, <1>3

(* A request goes to the first route that accepts it, in a subrouter to    *)
(* the first one there, and to the controller nearest to it; a request     *)
(* that no route accepts is not answered.                                  *)
THEOREM RoutedRightAlways == SubrouterLast => (RouterSpec => []RoutedRight)
BY RouterInvAlways, InvRouted, PTL

-----------------------------------------------------------------------------
(* The variables.  A way goes through routes whose own matchers hold.      *)
PlainHold(j, url) ==
  \A k \in ToSet(routes[j].matchers) : k.kind # "mux" => Holds(k, url)

LEMMA ChainAppend ==
  ASSUME Sound(mux, routes), NEW i \in 1..Len(routes), NEW url, NEW c, Chain(i, url, c) # <<>>
  PROVE  /\ PlainHold(i, url)
         /\ \/ Chain(i, url, c) = <<i>>
            \/ \E j \in 1..Len(routes) : j > i /\ Chain(i, url, c) = Append(c[j], i)
<1> DEFINE ms   == ToSet(routes[i].matchers)
           subs == {k.id : k \in {l \in ms : l.kind = "mux"}}
<1>1. ~routes[i].err /\ \A k \in ms : Accepts(k, url, c)
  BY DEF Chain
<1>2. PlainHold(i, url)
  BY <1>1 DEF PlainHold, Accepts
<1>3. CASE subs = {}
  BY <1>1, <1>2, <1>3 DEF Chain
<1>4. CASE subs # {}
  <2>1. subs \subseteq Nat
    BY MatcherIs
  <2>2. Min(subs) \in subs
    BY <1>4, <2>1, LeastIs
  <2>3. PICK k \in ms : k.kind = "mux" /\ Min(subs) = k.id
    BY <2>2
  <2> DEFINE to == FirstAccepting(k.id, c)
  <2>4. \E j \in ToSet(mux[k.id].routes) : c[j] # <<>>
    BY <1>1, <2>3 DEF Accepts
  <2>5. mux[k.id].routes \in Seq(1..Len(routes))
    BY <2>3, MatcherIs
  <2>6. to \in ToSet(mux[k.id].routes)
    BY <2>4, <2>5, FirstAcceptingIs
  <2>7. to \in 1..Len(routes) /\ to > i
    BY <2>3, <2>6, MatcherIs
  <2>8. Chain(i, url, c) = Append(c[to], i)
    BY <1>1, <1>4, <2>3 DEF Chain
  <2> QED BY <1>2, <2>7, <2>8
<1> QED BY <1>3, <1>4

LEMMA ChainsHold ==
  ASSUME Sound(mux, routes), NEW url
  PROVE  \A i \in 1..Len(routes) : \A j \in ToSet(Chains(url)[i]) : PlainHold(j, url)
<1> DEFINE N == Len(routes)
           c == Chains(url)
           S == {i \in 1..N : \A j \in ToSet(c[i]) : PlainHold(j, url)}
<1>1. N \in Nat /\ \A i \in 1..N : c[i] \in Seq(i..N)
  BY AnswersAreChains DEF Sound
<1>2. \A i \in 1..N : c[i] = Chain(i, url, c)
  <2>1. c = [i \in 1..N |-> Chain(i, url, c)]
    BY ChainsIs
  <2> HIDE DEF c
  <2> QED BY <2>1
<1> HIDE DEF c
<1>3. ASSUME NEW i \in 1..N, \A j \in 1..N : j > i => j \in S PROVE i \in S
  <2>1. CASE c[i] = <<>>
    <3>1. ToSet(c[i]) = {}
      BY <2>1 DEF ToSet
    <3> QED BY <3>1
  <2>2. CASE c[i] # <<>>
    <3>1. /\ PlainHold(i, url)
          /\ c[i] = <<i>> \/ \E j \in 1..N : j > i /\ c[i] = Append(c[j], i)
      BY <1>2, <2>2, ChainAppend
    <3>2. CASE c[i] = <<i>>
      <4>1. ToSet(c[i]) = {i}
        BY <3>2 DEF ToSet
      <4> QED BY <3>1, <4>1
    <3>3. ASSUME NEW j \in 1..N, j > i, c[i] = Append(c[j], i) PROVE i \in S
      <4>1. c[j] \in Seq(j..N)
        BY <1>1
      <4>2. ToSet(c[i]) = ToSet(c[j]) \cup {i}
        <5> DEFINE s == c[j]
        <5>1. s \in Seq(j..N) /\ c[i] = Append(s, i)
          BY <3>3, <4>1
        <5> HIDE DEF s
        <5>3. s \in Seq(Int) /\ Append(s, i) \in Seq(Int) /\ i \in Int
          <6>1. j..N \subseteq Int /\ i \in Int
            BY <1>1
          <6> QED BY <5>1, <6>1
        <5>2. ToSet(Append(s, i)) = ToSet(s) \cup {i}
          BY <5>3, AppendIs
        <5> QED BY <5>1, <5>2 DEF s
      <4>3. \A l \in ToSet(c[j]) : PlainHold(l, url)
        BY <1>3, <3>3
      <4> QED BY <3>1, <4>2, <4>3
    <3> QED BY <3>1, <3>2, <3>3
  <2> QED BY <2>1, <2>2
<1>4. \A i \in 1..N : i \in S
  <2> HIDE DEF S, N
  <2> QED BY <1>1, <1>3, AllDownTo
<1> QED BY <1>4 DEF c

(* What one route sets of them.                                            *)
NamesOf(r) == Names(r.path) \cup Names(r.host) \cup Names(r.query)

LEMMA GreatestIs ==
  ASSUME NEW b \in Nat, NEW S, S \subseteq 1..b, S # {}
  PROVE  Max(S) \in S
<1> DEFINE T == {b - j : j \in S}
<1>0. \A j \in S : j \in Int /\ b - j \in Nat
  <2>1. \A j \in 1..b : j \in Int /\ b - j \in Nat
    OBVIOUS
  <2> QED BY <2>1
<1>1. T \subseteq Nat /\ T # {}
  BY <1>0
<1>2. Min(T) \in T /\ \A d \in T : Min(T) <= d
  BY <1>1, LeastIs
<1>3. PICK m \in S : Min(T) = b - m
  BY <1>2
<1>4. \A j \in S : b - m <= b - j
  BY <1>2, <1>3
<1>5. \A j \in S : m >= j
  BY <1>0, <1>4
<1> QED BY <1>5 DEF Max

LEMMA ExtractIs ==
  ASSUME NEW S, NEW t \in Seq(S), NEW p
  PROVE  /\ DOMAIN Extract(t, p) = VarsOf(t)
         /\ \A x \in VarsOf(t) : \E n \in 1..Len(t) : t[n] = x /\ Extract(t, p)[x] = p[n]
<1> SUFFICES ASSUME NEW x \in VarsOf(t)
             PROVE  \E n \in 1..Len(t) : t[n] = x /\ Extract(t, p)[x] = p[n]
  BY DEF Extract
<1> DEFINE I == {i \in 1..Len(t) : t[i] = x}
<1>1. Len(t) \in Nat /\ I \subseteq 1..Len(t) /\ I # {}
  BY DEF VarsOf, ToSet
<1>2. Max(I) \in I
  <2> HIDE DEF I
  <2> QED BY <1>1, GreatestIs
<1>3. Extract(t, p)[x] = p[Max(I)]
  BY DEF Extract
<1> HIDE DEF I
<1>4. Max(I) \in 1..Len(t) /\ t[Max(I)] = x
  BY <1>2 DEF I
<1> QED BY <1>3, <1>4

LEMMA PathVarsAre ==
  ASSUME NEW r \in Routes, NEW url,
         r.path # Nil => PathMatches(r.path.tpl, url.path, r.path.kind = "prefix")
  PROVE  /\ DOMAIN PathVars(r, url) = Names(r.path)
         /\ \A x \in Names(r.path) : Gives(r, url, x, PathVars(r, url)[x])
<1>1. CASE r.path = Nil
  BY <1>1 DEF PathVars, NoVars, Names
<1>2. CASE r.path # Nil
  <2> DEFINE t == r.path.tpl
             S == UNION {ToSet(u) : u \in PathTpls}
           p == url.path
  <2>1. t \in Seq(S)
    BY <1>2 DEF Routes, PathMatchers
  <2>2. PathVars(r, url) = Extract(t, p) /\ Names(r.path) = VarsOf(t)
    BY <1>2 DEF PathVars, Names
  <2> HIDE DEF t, S, p
  <2>3. /\ DOMAIN Extract(t, p) = VarsOf(t)
        /\ \A x \in VarsOf(t) : \E n \in 1..Len(t) : t[n] = x /\ Extract(t, p)[x] = p[n]
    BY <2>1, ExtractIs
  <2>4. DOMAIN t = 1..Len(t)
    BY <2>1
  <2>5. ASSUME NEW x \in VarsOf(t) PROVE Gives(r, url, x, PathVars(r, url)[x])
    <3>1. PICK n \in 1..Len(t) : t[n] = x /\ Extract(t, p)[x] = p[n]
      BY <2>3
    <3> QED BY <1>2, <2>2, <2>4, <3>1 DEF Gives, t, p
  <2> QED BY <2>2, <2>3, <2>5
<1> QED BY <1>1, <1>2

LEMMA HostVarsAre ==
  ASSUME NEW r \in Routes, NEW url
  PROVE  /\ DOMAIN HostVars(r, url) = Names(r.host)
         /\ \A x \in Names(r.host) : Gives(r, url, x, HostVars(r, url)[x])
<1>1. CASE r.host = Nil
  BY <1>1 DEF HostVars, NoVars, Names
<1>2. CASE r.host # Nil
  <2> DEFINE t == r.host.tpl
             p == <<url.host>>
  <2>1. t \in HostTpls
    BY <1>2 DEF Routes, HostMatchers
  <2>2. t \in Seq(ToSet(t)) /\ Len(t) = 1
    BY <2>1, RouterAssumption DEF RouterAssumption
  <2>3. HostVars(r, url) = Extract(t, p) /\ Names(r.host) = VarsOf(t)
    BY <1>2 DEF HostVars, Names
  <2>6. p[1] = url.host
    OBVIOUS
  <2> HIDE DEF t, p
  <2>4. /\ DOMAIN Extract(t, p) = VarsOf(t)
        /\ \A x \in VarsOf(t) : \E n \in 1..Len(t) : t[n] = x /\ Extract(t, p)[x] = p[n]
    BY <2>2, ExtractIs
  <2>5. ASSUME NEW x \in VarsOf(t) PROVE Gives(r, url, x, HostVars(r, url)[x])
    <3>1. t[1] = x /\ Extract(t, p)[x] = url.host
      BY <2>2, <2>4, <2>6
    <3> QED BY <1>2, <2>3, <3>1 DEF Gives, t
  <2> QED BY <2>3, <2>4, <2>5
<1> QED BY <1>1, <1>2

LEMMA QueryVarsAre ==
  ASSUME NEW r \in Routes, NEW url
  PROVE  /\ DOMAIN QueryVars(r, url) = Names(r.query)
         /\ \A x \in Names(r.query) : Gives(r, url, x, QueryVars(r, url)[x])
<1>1. CASE r.query = Nil
  BY <1>1 DEF QueryVars, NoVars, Names
<1>2. CASE r.query # Nil
  <2> DEFINE t == r.query.tpl
             p == <<url.query>>
  <2>1. t \in QueryTpls
    BY <1>2 DEF Routes, QueryMatchers
  <2>2. t \in Seq(ToSet(t)) /\ Len(t) = 1
    BY <2>1, RouterAssumption DEF RouterAssumption
  <2>3. QueryVars(r, url) = Extract(t, p) /\ Names(r.query) = VarsOf(t)
    BY <1>2 DEF QueryVars, Names
  <2>6. p[1] = url.query
    OBVIOUS
  <2> HIDE DEF t, p
  <2>4. /\ DOMAIN Extract(t, p) = VarsOf(t)
        /\ \A x \in VarsOf(t) : \E n \in 1..Len(t) : t[n] = x /\ Extract(t, p)[x] = p[n]
    BY <2>2, ExtractIs
  <2>5. ASSUME NEW x \in VarsOf(t) PROVE Gives(r, url, x, QueryVars(r, url)[x])
    <3>1. t[1] = x /\ Extract(t, p)[x] = url.query
      BY <2>2, <2>4, <2>6
    <3> QED BY <1>2, <2>3, <3>1 DEF Gives, t
  <2> QED BY <2>3, <2>4, <2>5
<1> QED BY <1>1, <1>2

PathFits(r, url) ==
  r.path # Nil => PathMatches(r.path.tpl, url.path, r.path.kind = "prefix")
SetsOwn(r, url, old, v) ==
  /\ DOMAIN v = DOMAIN old \cup NamesOf(r)
  /\ \A x \in DOMAIN v : Gives(r, url, x, v[x]) \/ (x \in DOMAIN old /\ v[x] = old[x])

LEMMA SetMatchIs ==
  ASSUME NEW r \in Routes, NEW url, NEW old, PathFits(r, url)
  PROVE  SetsOwn(r, url, old, SetMatch(r, url, old))
<1> USE DEF PathFits
<1> DEFINE h == HostVars(r, url)
           p == PathVars(r, url)
           q == QueryVars(r, url)
           a == Over(h, old)
           b == Over(p, a)
           c == Over(q, b)
<1>1. /\ DOMAIN h = Names(r.host) /\ \A x \in DOMAIN h : Gives(r, url, x, h[x])
      /\ DOMAIN p = Names(r.path) /\ \A x \in DOMAIN p : Gives(r, url, x, p[x])
      /\ DOMAIN q = Names(r.query) /\ \A x \in DOMAIN q : Gives(r, url, x, q[x])
  BY HostVarsAre, PathVarsAre, QueryVarsAre
<1>2. c = SetMatch(r, url, old)
  BY DEF SetMatch
<1> HIDE DEF h, p, q
<1>3. /\ DOMAIN a = DOMAIN h \cup DOMAIN old
      /\ \A x \in DOMAIN a : \/ x \in DOMAIN h /\ a[x] = h[x]
                             \/ x \in DOMAIN old /\ a[x] = old[x]
  BY DEF Over
<1> HIDE DEF a
<1>4. /\ DOMAIN b = DOMAIN p \cup DOMAIN a
      /\ \A x \in DOMAIN b : \/ x \in DOMAIN p /\ b[x] = p[x]
                             \/ x \in DOMAIN a /\ b[x] = a[x]
  BY DEF Over
<1> HIDE DEF b
<1>5. /\ DOMAIN c = DOMAIN q \cup DOMAIN b
      /\ \A x \in DOMAIN c : \/ x \in DOMAIN q /\ c[x] = q[x]
                             \/ x \in DOMAIN b /\ c[x] = b[x]
  BY DEF Over
<1> HIDE DEF c
<1>6. DOMAIN c = DOMAIN old \cup NamesOf(r)
  BY <1>1, <1>3, <1>4, <1>5 DEF NamesOf
<1>7. ASSUME NEW x \in DOMAIN c PROVE Gives(r, url, x, c[x]) \/ (x \in DOMAIN old /\ c[x] = old[x])
  BY <1>1, <1>3, <1>4, <1>5
<1>8. SetsOwn(r, url, old, c)
  BY <1>6, <1>7 DEF SetsOwn
<1> QED BY <1>2, <1>8

(* A route whose matchers hold has a path that matches.                    *)
LEMMA PathHolds ==
  ASSUME Sound(mux, routes), NEW i \in 1..Len(routes), NEW url, PlainHold(i, url),
         routes[i].path # Nil
  PROVE  PathMatches(routes[i].path.tpl, url.path, routes[i].path.kind = "prefix")
<1> DEFINE m == routes[i].path
<1>1. routes[i] \in Routes /\ Kept(routes[i])
  BY DEF Sound, RouteSound
<1>2. m \in PathMatchers /\ m \in ToSet(routes[i].matchers)
  BY <1>1 DEF Routes, Kept
<1>3. m.kind \in {"path", "prefix"}
  BY <1>2 DEF PathMatchers
<1>4. Holds(m, url)
  BY <1>2, <1>3 DEF PlainHold
<1> HIDE DEF m
<1>5. CASE m.kind = "path"
  BY <1>4, <1>5 DEF Holds, m
<1>6. CASE m.kind = "prefix"
  BY <1>4, <1>6 DEF Holds, m
<1> QED BY <1>3, <1>5, <1>6

LEMMA FilledOwn ==
  ASSUME Sound(mux, routes), NEW s \in Seq(1..Len(routes)), NEW url,
         \A j \in ToSet(s) : PlainHold(j, url)
  PROVE  LET v == Filled(Table, s, url).vars IN
         /\ DOMAIN v = UNION {NamesOf(routes[j]) : j \in ToSet(s)}
         /\ \A x \in DOMAIN v : \E j \in ToSet(s) : Gives(routes[j], url, x, v[x])
<1> DEFINE L    == Len(s)
           R(n) == {s[k] : k \in 1..n}
           Its(v, n) == /\ DOMAIN v = UNION {NamesOf(routes[j]) : j \in R(n)}
                        /\ \A x \in DOMAIN v : \E j \in R(n) : Gives(routes[j], url, x, v[x])
<1>0. PICK f : Fills(Table, s, url, f)
  BY FilledIs
<1>1. /\ f[0] = NoMatch /\ Filled(Table, s, url) = f[L]
      /\ \A n \in 1..L : f[n] = Fill(Table, s[n], url, f[n - 1])
  BY <1>0, Zenon DEF Fills
<1>2. /\ L \in Nat /\ R(L) = ToSet(s) /\ Table.routes = routes
      /\ \A n \in 1..L : s[n] \in ToSet(s) /\ s[n] \in 1..Len(routes)
  BY DEF ToSet, Table
<1>3. ASSUME NEW n \in 1..L PROVE f[n].vars = SetMatch(routes[s[n]], url, f[n - 1].vars)
  <2> DEFINE r == IF f[n - 1].route = Nil THEN s[n] ELSE f[n - 1].route
             k == IF f[n - 1].controller = Nil THEN routes[s[n]].controller ELSE f[n - 1].controller
             x == SetMatch(routes[s[n]], url, f[n - 1].vars)
  <2>1. f[n] = [route |-> r, controller |-> k, vars |-> x]
    BY <1>1, <1>2 DEF Fill
  <2> HIDE DEF r, k, x
  <2>2. f[n].vars = x
    BY <2>1
  <2> QED BY <2>2 DEF x
<1>4. ASSUME NEW n \in 1..L, NEW old PROVE SetsOwn(routes[s[n]], url, old, SetMatch(routes[s[n]], url, old))
  <2> DEFINE r == routes[s[n]]
  <2>1. r \in Routes
    BY <1>2 DEF Sound
  <2>2. PathFits(r, url)
    BY <1>2, PathHolds DEF PathFits
  <2> HIDE DEF r
  <2>3. SetsOwn(r, url, old, SetMatch(r, url, old))
    BY <2>1, <2>2, SetMatchIs, Zenon
  <2> QED BY <2>3 DEF r
<1> DEFINE S == {n \in 0..L : Its(f[n].vars, n)}
<1>5. 0 \in S
  <2>1. f[0].vars = NoVars /\ R(0) = {} /\ DOMAIN NoVars = {}
    BY <1>1 DEF NoMatch, NoVars
  <2> QED BY <1>2, <2>1
<1>6. ASSUME NEW n \in 0..L, n # L, n \in S PROVE n + 1 \in S
  <2> DEFINE old == f[n].vars
             v   == f[n + 1].vars
             i   == s[n + 1]
  <2>1. n + 1 \in 1..L /\ (n + 1) - 1 = n /\ n + 1 \in 0..L
    BY <1>2, <1>6
  <2>2. v = SetMatch(routes[i], url, old)
    BY <1>3, <2>1
  <2>3. /\ DOMAIN v = DOMAIN old \cup NamesOf(routes[i])
        /\ \A x \in DOMAIN v : \/ Gives(routes[i], url, x, v[x])
                               \/ x \in DOMAIN old /\ v[x] = old[x]
    <3> HIDE DEF v, old
    <3>1. SetsOwn(routes[s[n + 1]], url, old, SetMatch(routes[s[n + 1]], url, old))
      BY <1>4, <2>1, Zenon
    <3>2. SetsOwn(routes[i], url, old, v)
      BY <2>2, <3>1
    <3> QED BY <3>2 DEF SetsOwn
  <2>4. R(n + 1) = R(n) \cup {i}
    <3>1. 1..n + 1 = 1..n \cup {n + 1}
      BY <1>2, <1>6
    <3> QED BY <3>1
  <2>5. Its(old, n)
    BY <1>6
  <2> HIDE DEF v, old, i, R
  <2>6. DOMAIN v = UNION {NamesOf(routes[j]) : j \in R(n + 1)}
    BY <2>3, <2>4, <2>5
  <2>7. ASSUME NEW x \in DOMAIN v PROVE \E j \in R(n + 1) : Gives(routes[j], url, x, v[x])
    BY <2>3, <2>4, <2>5
  <2>8. Its(v, n + 1)
    BY <2>6, <2>7
  <2> QED BY <2>1, <2>8 DEF v
<1>7. L \in S
  <2> HIDE DEF S
  <2>1. \A n \in 0..L : n # L /\ n \in S => n + 1 \in S
    BY <1>6
  <2>2. \A n \in 0..L : n \in S
    BY <1>2, <1>5, <2>1, AllUpTo
  <2> QED BY <1>2, <2>2
<1>8. Its(f[L].vars, L)
  BY <1>7
<1> HIDE DEF R
<1> QED BY <1>1, <1>2, <1>8

LEMMA InvVarsOwn == ASSUME RouterInv PROVE VarsOwn
<1> SUFFICES ASSUME NEW url \in Urls
             PROVE  LET a == MuxMatch(Table, url) IN
                    IF a.ok
                    THEN LET rs == {routes[i] : i \in ToSet(Meant(url))} IN
                         /\ DOMAIN a.m.vars = UNION {Names(r.path) \cup Names(r.host) \cup Names(r.query) : r \in rs}
                         /\ \A x \in DOMAIN a.m.vars : \E r \in rs : Gives(r, url, x, a.m.vars[x])
                    ELSE a.m = NoMatch
  BY DEF VarsOwn
<1> DEFINE s == Meant(url)
<1>1. Sound(mux, routes)
  BY DEF RouterInv
<1>2. /\ MuxMatch(Table, url).ok = Answered(url)
      /\ MuxMatch(Table, url).m = Filled(Table, IF Answered(url) THEN s ELSE <<>>, url)
      /\ Answered(url) => /\ s \in Seq(1..Len(routes))
                          /\ \E i \in 1..Len(routes) : s = Chains(url)[i]
  BY <1>1, MuxMatchIs
<1>3. CASE Answered(url)
  <2> DEFINE v == Filled(Table, s, url).vars
  <2>1. \A j \in ToSet(s) : PlainHold(j, url)
    BY <1>1, <1>2, <1>3, ChainsHold
  <2>2. /\ DOMAIN v = UNION {NamesOf(routes[j]) : j \in ToSet(s)}
        /\ \A x \in DOMAIN v : \E j \in ToSet(s) : Gives(routes[j], url, x, v[x])
    BY <1>1, <1>2, <1>3, <2>1, FilledOwn
  <2>3. MuxMatch(Table, url).ok /\ MuxMatch(Table, url).m.vars = v
    BY <1>2, <1>3
  <2> DEFINE rs == {routes[i] : i \in ToSet(s)}
  <2> HIDE DEF v, s
  <2>4. DOMAIN v = UNION {Names(r.path) \cup Names(r.host) \cup Names(r.query) : r \in rs}
    BY <2>2 DEF NamesOf
  <2>5. \A x \in DOMAIN v : \E r \in rs : Gives(r, url, x, v[x])
    BY <2>2
  <2> HIDE DEF rs
  <2> QED BY <2>3, <2>4, <2>5 DEF rs, s
<1>4. CASE ~Answered(url)
  <2>1. <<>> \in Seq({0})
    OBVIOUS
  <2>2. PICK f : Fills(Table, <<>>, url, f)
    BY <2>1, FilledIs
  <2>3. Filled(Table, <<>>, url) = NoMatch
    BY <2>2 DEF Fills
  <2> QED BY <1>2, <1>4, <2>3
<1> QED BY <1>3, <1>4

(* A handler gets exactly the variables of the routes its request went     *)
(* through, each with a value the request has at a place of it, and none   *)
(* of a route that was tried before and given up.                          *)
THEOREM VarsOwnAlways == SubrouterLast => (RouterSpec => []VarsOwn)
BY RouterInvAlways, InvVarsOwn, PTL

-----------------------------------------------------------------------------
(* A route more: the routes before it answer as they did, and so does the  *)
(* router if one of them answered.                                         *)
LEMMA AnswersSame ==
  ASSUME NEW t, Sound(t.mux, t.routes), NEW u, Sound(u.mux, u.routes),
         Len(t.routes) <= Len(u.routes),
         \A i \in 1..Len(t.routes) : u.routes[i] = t.routes[i],
         \A id \in 2..Len(t.mux) : u.mux[id].routes = t.mux[id].routes, NEW url
  PROVE  \A i \in 1..Len(t.routes) : Answers(t, url)[i] = Answers(u, url)[i]
<1> DEFINE N == Len(t.routes)
           f == Answers(t, url)
           g == Answers(u, url)
           S == {i \in 1..N : f[i] = g[i]}
<1>1. N \in Nat /\ Len(u.routes) \in Nat /\ \A i \in 1..N : i \in 1..Len(u.routes)
  BY DEF Sound
<1>2. \A i \in 1..N : f[i] = MatchRoute(t, i, url, f)
  <2>1. f = [i \in 1..N |-> MatchRoute(t, i, url, f)]
    BY AnswersIs
  <2> HIDE DEF f
  <2> QED BY <2>1
<1>3. \A i \in 1..N : g[i] = MatchRoute(u, i, url, g)
  <2>1. g = [i \in 1..Len(u.routes) |-> MatchRoute(u, i, url, g)]
    BY AnswersIs
  <2> HIDE DEF g
  <2> QED BY <1>1, <2>1
<1> HIDE DEF f, g
<1>4. ASSUME NEW i \in 1..N, \A j \in 1..N : j > i => j \in S PROVE i \in S
  <2>1. \A j \in 1..N : j > i => f[j] = g[j]
    BY <1>4
  <2>2. MatchRoute(t, i, url, f) = MatchRoute(u, i, url, g)
    BY <2>1, MatchRouteSame
  <2> QED BY <1>2, <1>3, <2>2
<1>5. \A i \in 1..N : i \in S
  <2> HIDE DEF S, N
  <2> QED BY <1>1, <1>4, AllDownTo
<1> QED BY <1>5 DEF f, g

LEMMA LoopLonger ==
  ASSUME NEW N \in Nat, NEW a, DOMAIN a = 1..N, NEW b, DOMAIN b = 1..N + 1,
         \A n \in 1..N : b[n] = a[n], Loop(a, TRUE).ok
  PROVE  Loop(b, TRUE) = Loop(a, TRUE)
<1> DEFINE at == {n \in DOMAIN a : a[n].ok = TRUE}
           to == {n \in DOMAIN b : b[n].ok = TRUE}
           l  == Min(at)
<1>1. at # {} /\ at \subseteq Nat /\ to \subseteq Nat
  <2>1. Loop(a, TRUE).ok = IF at = {} THEN ~TRUE ELSE TRUE
    BY DEF Loop
  <2> HIDE DEF at
  <2>2. at # {}
    BY <2>1
  <2> QED BY <2>2 DEF at
<1>2. /\ l \in at /\ l \in 1..N /\ l \in to /\ \A n \in at : l <= n
      /\ \A n \in to : n \in at \/ n = N + 1
  BY <1>1, LeastIs
<1>3. \A n \in to : l <= n
  BY <1>2
<1>4. Min(to) = l /\ to # {}
  <2> HIDE DEF to, l
  <2> QED BY <1>1, <1>2, <1>3, LeastUnique
<1>5. [n \in 1..l |-> b[n].filled] = [n \in 1..l |-> a[n].filled]
  <2> HIDE DEF l
  <2>1. \A n \in 1..l : n \in 1..N
    BY <1>2
  <2>2. \A n \in 1..l : b[n].filled = a[n].filled
    BY <2>1
  <2> QED BY <2>2
<1>6. Loop(a, TRUE) = [ok |-> TRUE, filled |-> FlattenSeq([n \in 1..l |-> a[n].filled])]
  BY <1>1 DEF Loop
<1>7. Loop(b, TRUE) = [ok |-> TRUE, filled |-> FlattenSeq([n \in 1..Min(to) |-> b[n].filled])]
  BY <1>4 DEF Loop
<1> HIDE DEF at, to, l
<1> QED BY <1>4, <1>5, <1>6, <1>7

LEMMA FilledSame ==
  ASSUME NEW t, NEW u, NEW S, \A i \in S : u.routes[i] = t.routes[i],
         NEW s \in Seq(S), NEW url
  PROVE  Filled(u, s, url) = Filled(t, s, url)
<1> DEFINE L == Len(s)
<1>1. PICK f : Fills(t, s, url, f)
  BY FilledIs
<1>2. PICK g : Fills(u, s, url, g)
  BY FilledIs
<1>3. /\ f[0] = NoMatch /\ Filled(t, s, url) = f[L] /\ \A n \in 1..L : f[n] = Fill(t, s[n], url, f[n - 1])
      /\ g[0] = NoMatch /\ Filled(u, s, url) = g[L] /\ \A n \in 1..L : g[n] = Fill(u, s[n], url, g[n - 1])
  BY <1>1, <1>2, Zenon DEF Fills
<1>4. L \in Nat /\ \A n \in 1..L : u.routes[s[n]] = t.routes[s[n]]
  OBVIOUS
<1>5. ASSUME NEW n \in 1..L, NEW m PROVE Fill(u, s[n], url, m) = Fill(t, s[n], url, m)
  BY <1>4, Zenon DEF Fill
<1> HIDE DEF L
<1> DEFINE T == {n \in 0..L : g[n] = f[n]}
<1>6. ASSUME NEW n \in 0..L, n # L, n \in T PROVE n + 1 \in T
  <2>1. n + 1 \in 1..L /\ (n + 1) - 1 = n /\ n + 1 \in 0..L
    BY <1>4, <1>6
  <2>2. f[n + 1] = Fill(t, s[n + 1], url, f[n]) /\ g[n + 1] = Fill(u, s[n + 1], url, g[n])
    BY <1>3, <2>1
  <2>3. g[n] = f[n]
    BY <1>6
  <2>4. g[n + 1] = f[n + 1]
    BY <1>5, <2>1, <2>2, <2>3
  <2> QED BY <2>1, <2>4
<1>7. 0 \in T
  BY <1>3, <1>4
<1>8. L \in T
  <2> HIDE DEF T
  <2>1. \A n \in 0..L : n # L /\ n \in T => n + 1 \in T
    BY <1>6
  <2>2. \A n \in 0..L : n \in T
    BY <1>4, <1>7, <2>1, AllUpTo
  <2> QED BY <1>4, <2>2
<1> QED BY <1>3, <1>8

LEMMA NewRouteLast ==
  ASSUME RouterInv, NewRoute(1), NEW url, MuxMatch(Table, url).ok
  PROVE  MuxMatch(Table', url) = MuxMatch(Table, url)
<1> DEFINE t  == Table
           u  == [mux |-> mux', routes |-> routes']
           N  == Len(routes)
           rs == mux[1].routes
           to == mux'[1].routes
           f  == Answers(t, url)
           g  == Answers(u, url)
           a  == [n \in DOMAIN rs |-> f[rs[n]]]
           b  == [n \in DOMAIN to |-> g[to[n]]]
           s  == MatchFirst(rs, f).filled
<1>1. /\ Sound(mux, routes) /\ N \in Nat /\ Len(mux) \in Nat /\ 1 \in DOMAIN mux
      /\ DOMAIN mux = 1..Len(mux) /\ rs \in Seq(1..N) /\ mux \in Seq(Routers) /\ routes \in Seq(Routes)
  <2>1. 1 \in 1..Len(mux)
    BY DEF RouterInv, Sound, RoutersSound
  <2> QED BY <2>1 DEF RouterInv, Sound, RoutersSound
<1>2. Sound(mux', routes')
  BY <1>1, NewRouteSound
<1>3. to = Append(rs, N + 1) /\ \A id \in 2..Len(mux) : mux'[id].routes = mux[id].routes
  <2>1. mux' = [mux EXCEPT ![1].routes = Append(@, N + 1)]
    BY DEF NewRoute
  <2>2. mux'[1] = [mux[1] EXCEPT !.routes = Append(@, N + 1)]
    BY <1>1, <2>1
  <2>3. mux[1] \in Routers
    BY <1>1
  <2>4. to = Append(rs, N + 1)
    BY <2>2, <2>3 DEF Routers
  <2>5. \A id \in 2..Len(mux) : mux'[id] = mux[id]
    BY <1>1, <2>1
  <2> QED BY <2>4, <2>5
<1>4. Len(routes) <= Len(routes') /\ \A i \in 1..N : routes'[i] = routes[i]
  <2> DEFINE c == mux[1].conf
             r == [err |-> FALSE, controller |-> Nil, matchers |-> c.matchers,
                   path |-> c.path, host |-> c.host, query |-> c.query]
  <2>1. routes' = Append(routes, r)
    BY DEF NewRoute, AddRoute
  <2> HIDE DEF r
  <2> QED BY <1>1, <2>1, AppendIs
<1>5. t.mux = mux /\ t.routes = routes /\ u.mux = mux' /\ u.routes = routes' /\ Table' = u
  BY DEF Table
<1> HIDE DEF t, u
<1>6. /\ \A i \in 1..N : u.routes[i] = t.routes[i]
      /\ \A i \in 1..N : f[i] = g[i]
  <2>1. /\ Sound(t.mux, t.routes) /\ Sound(u.mux, u.routes)
        /\ Len(t.routes) = N /\ N <= Len(u.routes)
        /\ \A i \in 1..N : u.routes[i] = t.routes[i]
        /\ \A id \in 2..Len(t.mux) : u.mux[id].routes = t.mux[id].routes
    BY <1>1, <1>2, <1>3, <1>4, <1>5
  <2>2. \A i \in 1..Len(t.routes) : Answers(t, url)[i] = Answers(u, url)[i]
    BY <2>1, AnswersSame
  <2> QED BY <2>1, <2>2
<1> HIDE DEF f, g
<1>7. /\ Len(rs) \in Nat /\ DOMAIN a = 1..Len(rs) /\ DOMAIN b = 1..Len(rs) + 1
      /\ \A n \in 1..Len(rs) : b[n] = a[n]
  <2>1. /\ Len(rs) \in Nat /\ DOMAIN rs = 1..Len(rs) /\ DOMAIN to = 1..Len(rs) + 1
        /\ \A n \in 1..Len(rs) : to[n] = rs[n] /\ rs[n] \in 1..N
    BY <1>1, <1>3
  <2> HIDE DEF rs, to
  <2>2. \A n \in 1..Len(rs) : n \in 1..Len(rs) + 1
    BY <2>1
  <2> QED BY <1>6, <2>1, <2>2
<1>8. /\ MuxMatch(t, url).ok = Loop(a, TRUE).ok
      /\ MuxMatch(t, url) = [ok |-> Loop(a, TRUE).ok, m |-> Filled(t, Loop(a, TRUE).filled, url)]
      /\ MuxMatch(u, url) = [ok |-> Loop(b, TRUE).ok, m |-> Filled(u, Loop(b, TRUE).filled, url)]
      /\ s = Loop(a, TRUE).filled
  BY <1>5 DEF MuxMatch, MatchFirst, f, g
<1>9. s \in Seq(1..N)
  <2>1. s = IF Answered(url) THEN Meant(url) ELSE <<>>
    BY <1>1, MuxMatchIs DEF f, t
  <2>2. Answered(url) => Meant(url) \in Seq(1..N)
    BY <1>1, MuxMatchIs
  <2>3. <<>> \in Seq(1..N)
    OBVIOUS
  <2> HIDE DEF s
  <2> QED BY <2>1, <2>2, <2>3
<1>10. MuxMatch(t, url).ok
  BY DEF t
<1> HIDE DEF a, b, rs, s
<1>11. Loop(a, TRUE).ok
  BY <1>8, <1>10
<1>12. Loop(b, TRUE) = Loop(a, TRUE)
  BY <1>7, <1>11, LoopLonger
<1>13. Filled(u, s, url) = Filled(t, s, url)
  <2> DEFINE S == 1..N
  <2>1. (\A i \in S : u.routes[i] = t.routes[i]) /\ s \in Seq(S)
    BY <1>6, <1>9
  <2> HIDE DEF S
  <2> QED BY <2>1, FilledSame
<1> QED BY <1>5, <1>8, <1>12, <1>13 DEF t

LEMMA OnlyNewRoute ==
  ASSUME RouterInv, [RouterNext]_routerVars, mux'[1].routes # mux[1].routes
  PROVE  NewRoute(1)
<1>1. 1 \in DOMAIN mux /\ mux \in Seq(Routers) /\ Len(mux) \in Nat
  BY DEF RouterInv, Sound, RoutersSound
<1>2. ASSUME NEW m \in DOMAIN mux, NewRoute(m) PROVE m = 1
  <2>1. mux' = [mux EXCEPT ![m].routes = Append(@, Len(routes) + 1)]
    BY <1>2 DEF NewRoute
  <2>2. m # 1 => mux'[1] = mux[1]
    BY <1>1, <2>1
  <2> QED BY <2>2
<1>3. ASSUME NEW i, NEW kind, NEW tpl, AddMatcher(i, kind, tpl) PROVE FALSE
  BY <1>3 DEF AddMatcher
<1>4. ASSUME NEW i, Control(i) PROVE FALSE
  BY <1>4 DEF Control
<1>5. ASSUME NEW i, Subrouter(i) PROVE FALSE
  <2> DEFINE x == [routes |-> <<>>, conf |-> Conf(routes[i])]
  <2>1. mux' = Append(mux, x)
    BY <1>5 DEF Subrouter
  <2> HIDE DEF x
  <2>2. mux'[1] = mux[1]
    BY <1>1, <2>1, AppendIs
  <2> QED BY <2>2
<1>6. CASE RouterNext
  BY <1>2, <1>3, <1>4, <1>5, <1>6 DEF RouterNext, Path, PathPrefix, Host, Queries
<1>7. CASE UNCHANGED routerVars
  BY <1>7 DEF routerVars
<1> QED BY <1>6, <1>7

(* A request that a route of the application's router takes is still taken *)
(* by it, with the same controller and variables, when NewRoute has added  *)
(* another route to that router.                                           *)
THEOREM EarlierFirstAlways == SubrouterLast => (RouterSpec => EarlierFirst)
<1> SUFFICES ASSUME SubrouterLast PROVE RouterSpec => EarlierFirst
  OBVIOUS
<1> DEFINE Same == mux'[1].routes # mux[1].routes =>
                     \A url \in Urls : MuxMatch(Table, url).ok =>
                       MuxMatch(Table', url) = MuxMatch(Table, url)
<1>1. RouterInv /\ [RouterNext]_routerVars => [Same]_routerVars
  BY OnlyNewRoute, NewRouteLast
<1> QED BY <1>1, RouterInvAlways, PTL DEF RouterSpec, EarlierFirst
=============================================================================
