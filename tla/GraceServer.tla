---------------------------- MODULE GraceServer ----------------------------
(***************************************************************************)
(* The graceful server of servers/server.go and servers/grace.go, run by   *)
(* HServer.Run of gonapp.go: a process serves one listening socket; on     *)
(* SIGHUP it forks a child that inherits the socket and that sends it      *)
(* SIGTERM, on SIGINT or SIGTERM it drains its requests and exits.         *)
(*                                                                         *)
(* runningServersForked makes a process fork at most once, so processes    *)
(* form a chain: the child of p is p + 1.  In a process the goroutine of   *)
(* ListenAndServe (serve) and that of handleSignals (hand) interleave.     *)
(***************************************************************************)
EXTENDS Integers

CONSTANTS
  MaxProcs,    \* bound: processes, the first and its descendants
  Conns,       \* client connections, one request each
  MaxSignals,  \* bound: signals sent by the operator
  TLS          \* the server listens with ListenAndServeTLS

ASSUME GraceServerAssumption ==
  MaxProcs \in Nat \ {0} /\ MaxSignals \in Nat /\ TLS \in BOOLEAN

Procs   == 1..MaxProcs
Stops   == {"INT", "TERM"}
Signals == Stops \cup {"HUP"}

ServePCs == {"init", "listen", "tell", "running", "serve", "accepting", "closed", "done"}
HandPCs  == {"off", "notify", "wait", "act", "close", "drain", "send", "post"}
Errors   == {"none", "listen", "tell", "serve", "timeout"}

VARIABLES
  life,        \* of a process: unborn, alive, exited, killed by a signal, crashed
  serve,       \* where ListenAndServe is
  hand,        \* where handleSignals is
  state,       \* srv.state
  sig,         \* the signal handleSignals works on
  pend,        \* signals sent to the process and not yet handed to it
  forked,      \* runningServersForked
  ln,          \* srv.ln is set
  lnOpen,      \* the listener of the process is open
  dup,         \* the process holds another descriptor of the socket
  inShutdown,  \* http.Server.Shutdown has been called
  err,         \* what ListenAndServe returned, or is about to return
  conn,        \* of a connection: new, refused, backlog, served, done,
               \* cut (lost with its process)
  by,          \* the process that accepted the connection, 0 for none
  lost,        \* SIGTERM, if one was dropped because handleSignals was busy
  ignored,     \* shutdown returned early: the server was not running
  stopped,     \* the operator sent SIGINT or SIGTERM
  signals      \* how many signals the operator sent

procVars == <<life, serve, hand, state, sig, forked, ln, inShutdown, err>>
fdVars   == <<lnOpen, dup>>
histVars == <<lost, ignored, stopped, signals>>
vars     == <<procVars, fdVars, histVars, pend, conn, by>>

Alive(p) == p \in Procs /\ life[p] = "alive"
Hand(p, label)  == Alive(p) /\ hand[p] = label
Serve(p, label) == Alive(p) /\ serve[p] = label
HandTo(p, label)  == hand' = [hand EXCEPT ![p] = label]
ServeTo(p, label) == serve' = [serve EXCEPT ![p] = label]
InFlight(p) == {c \in Conns : conn[c] = "served" /\ by[c] = p}

TypeOK ==
  /\ life \in [Procs -> {"unborn", "alive", "exited", "killed", "crashed"}]
  /\ serve \in [Procs -> ServePCs] /\ hand \in [Procs -> HandPCs]
  /\ state \in [Procs -> {"Init", "Running", "ShuttingDown", "Terminate"}]
  /\ sig \in [Procs -> Signals \cup {"none"}]
  /\ pend \in [Procs -> SUBSET Signals] /\ lost \in [Procs -> SUBSET Signals]
  /\ {forked, ln, lnOpen, dup, inShutdown, ignored} \subseteq [Procs -> BOOLEAN]
  /\ err \in [Procs -> Errors]
  /\ conn \in [Conns -> {"new", "refused", "backlog", "served", "done", "cut"}]
  /\ by \in [Conns -> 0..MaxProcs]
  /\ stopped \in BOOLEAN /\ signals \in 0..MaxSignals

(* NewServer sets srv.state; the zero value would be PreSignal. *)
ZeroState == "PreSignal"   \* faulty: the field is left out
NewState  == "Init"

Init ==
  /\ life = [p \in Procs |-> IF p = 1 THEN "alive" ELSE "unborn"]
  /\ serve = [p \in Procs |-> "init"] /\ hand = [p \in Procs |-> "off"]
  /\ state = [p \in Procs |-> NewState]
  /\ sig = [p \in Procs |-> "none"]
  /\ pend = [p \in Procs |-> {}] /\ lost = [p \in Procs |-> {}]
  /\ forked = [p \in Procs |-> FALSE] /\ ln = [p \in Procs |-> FALSE]
  /\ lnOpen = [p \in Procs |-> FALSE] /\ dup = [p \in Procs |-> FALSE]
  /\ inShutdown = [p \in Procs |-> FALSE]
  /\ err = [p \in Procs |-> "none"]
  /\ conn = [c \in Conns |-> "new"] /\ by = [c \in Conns |-> 0]
  /\ ignored = [p \in Procs |-> FALSE]
  /\ stopped = FALSE /\ signals = 0

-----------------------------------------------------------------------------
(* The kernel: the socket lives while a living process holds a descriptor; *)
(* with the last one its backlog is reset.                                 *)
SocketOpen == \E p \in Procs : Alive(p) /\ (lnOpen[p] \/ dup[p])

CloseFds(p, listener, duplicate) ==
  /\ lnOpen' = [lnOpen EXCEPT ![p] = listener]
  /\ dup' = [dup EXCEPT ![p] = duplicate]

ResetBacklog(w) ==
  IF \E p \in Procs : life'[p] = "alive" /\ (lnOpen'[p] \/ dup'[p]) THEN w
  ELSE [c \in Conns |-> IF w[c] = "backlog" THEN "refused" ELSE w[c]]

(* A process is gone: its requests are cut and its descriptors closed.     *)
Gone(p, how) ==
  /\ life' = [life EXCEPT ![p] = how]
  /\ CloseFds(p, FALSE, FALSE)
  /\ conn' = ResetBacklog([c \in Conns |-> IF c \in InFlight(p) THEN "cut" ELSE conn[c]])
  /\ by' = by
  /\ pend' = [pend EXCEPT ![p] = {}]

-----------------------------------------------------------------------------
(* ListenAndServe. *)
(* Faulty: a child tells its parent before it listens. *)
BeginTells(p) ==
  /\ Serve(p, "init")
  /\ HandTo(p, "notify") /\ ServeTo(p, IF p > 1 THEN "tell" ELSE "listen")
  /\ UNCHANGED <<life, state, sig, forked, ln, inShutdown, err, fdVars, histVars, pend, conn, by>>

Begin(p) ==   \* go srv.handleSignals()
  /\ Serve(p, "init")
  /\ HandTo(p, "notify") /\ ServeTo(p, "listen")
  /\ UNCHANGED <<life, state, sig, forked, ln, inShutdown, err, fdVars, histVars, pend, conn, by>>

(* getListener: the first process listens, a child takes the descriptor it *)
(* was started with; either may fail, without one it always does.  Under   *)
(* TLS the server may fail before, as its certificates cannot be read.     *)
Listen(p) ==
  /\ Serve(p, "listen") /\ (p > 1 => dup[p])
  /\ ln' = [ln EXCEPT ![p] = TRUE]
  /\ lnOpen' = [lnOpen EXCEPT ![p] = TRUE]
  /\ ServeTo(p, IF p > 1 THEN "tell" ELSE "running")
  /\ UNCHANGED <<life, hand, state, sig, forked, inShutdown, err, dup, histVars, pend, conn, by>>

ListenFails(p) ==
  /\ Serve(p, "listen") \/ (TLS /\ Serve(p, "init"))
  /\ err' = [err EXCEPT ![p] = "listen"]
  /\ ServeTo(p, "done")
  /\ UNCHANGED <<life, hand, state, sig, forked, ln, inShutdown, fdVars, histVars, pend, conn, by>>

(* Faulty: a child leaves its parent alone. *)
TellNobody(p) ==
  /\ Serve(p, "tell") /\ Alive(p - 1)
  /\ ServeTo(p, "running")
  /\ UNCHANGED <<life, hand, state, sig, forked, ln, inShutdown, err, fdVars, histVars, pend, conn, by>>

(* The child sends SIGTERM to its parent.  When the parent is gone the     *)
(* signal goes to init: it is refused, or init takes it.                   *)
TellParent(p) ==
  /\ Serve(p, "tell") /\ Alive(p - 1)
  /\ pend' = [pend EXCEPT ![p - 1] = @ \cup {"TERM"}]
  /\ ServeTo(p, "running")
  /\ UNCHANGED <<life, hand, state, sig, forked, ln, inShutdown, err, fdVars, histVars, conn, by>>

TellInit(p) ==
  /\ Serve(p, "tell") /\ ~Alive(p - 1)
  /\ \/ ServeTo(p, "running") /\ UNCHANGED err
     \/ ServeTo(p, "done") /\ err' = [err EXCEPT ![p] = "tell"]
  /\ UNCHANGED <<life, hand, state, sig, forked, ln, inShutdown, fdVars, histVars, pend, conn, by>>

SetRunning(p) ==
  /\ Serve(p, "running")
  /\ state' = [state EXCEPT ![p] = "Running"]
  /\ ServeTo(p, "serve")
  /\ UNCHANGED <<life, hand, sig, forked, ln, inShutdown, err, fdVars, histVars, pend, conn, by>>

(* http.Server.Serve: after Shutdown it closes the listener and returns.   *)
StartServe(p) ==
  /\ Serve(p, "serve")
  /\ ServeTo(p, IF inShutdown[p] THEN "closed" ELSE "accepting")
  /\ CloseFds(p, ~inShutdown[p], dup[p])
  /\ UNCHANGED <<life, hand, state, sig, forked, ln, inShutdown, err, histVars, pend>>
  /\ conn' = ResetBacklog(conn) /\ by' = by

ServeFails(p) ==
  /\ Serve(p, "accepting") /\ ~inShutdown[p]
  /\ err' = [err EXCEPT ![p] = "serve"]
  /\ state' = [state EXCEPT ![p] = "Terminate"]
  /\ ServeTo(p, "done")
  /\ CloseFds(p, FALSE, dup[p])
  /\ UNCHANGED <<life, hand, sig, forked, ln, inShutdown, histVars, pend>>
  /\ conn' = ResetBacklog(conn) /\ by' = by

(* Faulty: the program ends without waiting for Shutdown. *)
ServerClosedEnds(p) ==
  /\ Serve(p, "accepting") /\ inShutdown[p] /\ ~lnOpen[p]
  /\ ServeTo(p, "done")
  /\ UNCHANGED <<life, hand, state, sig, forked, ln, inShutdown, err, fdVars, histVars, pend, conn, by>>

ServerClosed(p) ==   \* Serve returns ErrServerClosed
  /\ Serve(p, "accepting") /\ inShutdown[p] /\ ~lnOpen[p]
  /\ ServeTo(p, "closed")
  /\ UNCHANGED <<life, hand, state, sig, forked, ln, inShutdown, err, fdVars, histVars, pend, conn, by>>

(* terminalChan has no buffer: the handler's send meets Serve's receive.   *)
Terminal(p) ==
  /\ Serve(p, "closed") /\ hand[p] = "send"
  /\ state' = [state EXCEPT ![p] = "Terminate"]
  /\ HandTo(p, "post") /\ ServeTo(p, "done")
  /\ UNCHANGED <<life, sig, forked, ln, inShutdown, err, fdVars, histVars, pend, conn, by>>

Exit(p) ==   \* endRunning: Run returns, and with it the program
  /\ Serve(p, "done")
  /\ Gone(p, "exited")
  /\ UNCHANGED <<serve, hand, state, sig, forked, ln, inShutdown, err, histVars>>

-----------------------------------------------------------------------------
(* Signals.  Until signal.Notify they kill; after it, they are sent to     *)
(* sigChan without blocking: sigChan has no buffer, so they are dropped    *)
(* while handleSignals is not at its receive, also before the first one.   *)
KilledBy(p) ==
  /\ Alive(p) /\ hand[p] \in {"off", "notify"} /\ pend[p] # {}
  /\ Gone(p, "killed")
  /\ UNCHANGED <<serve, hand, state, sig, forked, ln, inShutdown, err, histVars>>

Notify(p) ==
  /\ Hand(p, "notify") /\ pend[p] = {}
  /\ HandTo(p, "post")
  /\ UNCHANGED <<life, serve, state, sig, forked, ln, inShutdown, err, fdVars, histVars, pend, conn, by>>

Receive(p, s) ==   \* and the PreSignal hooks
  /\ Hand(p, "wait") /\ s \in pend[p]
  /\ pend' = [pend EXCEPT ![p] = @ \ {s}]
  /\ sig' = [sig EXCEPT ![p] = s]
  /\ HandTo(p, "act")
  /\ UNCHANGED <<life, serve, state, forked, ln, inShutdown, err, fdVars, histVars, conn, by>>

Drop(p, s) ==
  /\ Alive(p) /\ hand[p] \notin {"off", "notify", "wait"} /\ s \in pend[p]
  /\ pend' = [pend EXCEPT ![p] = @ \ {s}]
  /\ lost' = [lost EXCEPT ![p] = @ \cup ({s} \cap {"TERM"})]
  /\ UNCHANGED <<procVars, fdVars, ignored, stopped, signals, conn, by>>

PostHooks(p) ==   \* and to the receive, the first time without hooks
  /\ Hand(p, "post")
  /\ sig' = [sig EXCEPT ![p] = "none"]
  /\ HandTo(p, "wait")
  /\ UNCHANGED <<life, serve, state, forked, ln, inShutdown, err, fdVars, histVars, pend, conn, by>>

-----------------------------------------------------------------------------
(* fork: once per process, whatever becomes of it.  The assertion that ln  *)
(* is a *net.TCPListener panics before the server listens and under TLS.   *)
(* The child inherits the socket if the listener is still open.            *)
ForkAgain(p) ==
  /\ Hand(p, "act") /\ sig[p] = "HUP" /\ forked[p]
  /\ HandTo(p, "post")
  /\ UNCHANGED <<life, serve, state, sig, forked, ln, inShutdown, err, fdVars, histVars, pend, conn, by>>

ForkPanics(p) ==
  /\ Hand(p, "act") /\ sig[p] = "HUP" /\ ~forked[p]
  /\ ~ln[p] \/ TLS
  /\ Gone(p, "crashed")
  /\ UNCHANGED <<serve, hand, state, sig, forked, ln, inShutdown, err, histVars>>

Fork(p) ==
  /\ Hand(p, "act") /\ sig[p] = "HUP" /\ ~forked[p] /\ ln[p] /\ ~TLS
  /\ forked' = [forked EXCEPT ![p] = TRUE]
  /\ \/ /\ p + 1 \in Procs
        /\ life' = [life EXCEPT ![p + 1] = "alive"]
        /\ dup' = [dup EXCEPT ![p] = lnOpen[p], ![p + 1] = lnOpen[p]]
     \/ /\ dup' = [dup EXCEPT ![p] = lnOpen[p]]   \* cmd.Start fails
        /\ UNCHANGED life
  /\ HandTo(p, "post")
  /\ UNCHANGED <<serve, state, sig, ln, inShutdown, err, lnOpen, histVars, pend, conn, by>>

(* The files of the descriptors that fork and getListener leave behind are *)
(* closed when the garbage collector finds them, at any time or never.     *)
Collect(p) ==
  /\ Alive(p) /\ dup[p] /\ serve[p] \notin {"init", "listen"}
  /\ CloseFds(p, lnOpen[p], FALSE)
  /\ UNCHANGED <<procVars, histVars, pend>>
  /\ conn' = ResetBacklog(conn) /\ by' = by

(* shutdown: only a running server shuts down. *)
Shutdown(p) ==
  /\ Hand(p, "act") /\ sig[p] \in Stops
  /\ IF state[p] = "Running"
     THEN /\ state' = [state EXCEPT ![p] = "ShuttingDown"]
          /\ HandTo(p, "close")
          /\ UNCHANGED ignored
     ELSE /\ HandTo(p, "post")
          /\ ignored' = [ignored EXCEPT ![p] = TRUE]
          /\ UNCHANGED state
  /\ UNCHANGED <<life, serve, sig, forked, ln, inShutdown, err, fdVars, lost, stopped, signals, pend, conn, by>>

(* http.Server.Shutdown closes the listener it knows, then waits for the   *)
(* requests in flight or for DefaultTimeout.                               *)
CloseListener(p) ==
  /\ Hand(p, "close")
  /\ inShutdown' = [inShutdown EXCEPT ![p] = TRUE]
  /\ CloseFds(p, lnOpen[p] /\ serve[p] # "accepting", dup[p])
  /\ HandTo(p, "drain")
  /\ UNCHANGED <<life, serve, state, sig, forked, ln, err, histVars, pend>>
  /\ conn' = ResetBacklog(conn) /\ by' = by

(* Faulty: the result of Shutdown is not sent to terminalChan. *)
DrainedNoSend(p) ==
  /\ Hand(p, "drain") /\ InFlight(p) = {}
  /\ HandTo(p, "post")
  /\ UNCHANGED <<life, serve, state, sig, forked, ln, inShutdown, err, fdVars, histVars, pend, conn, by>>

Drained(p) ==
  /\ Hand(p, "drain") /\ InFlight(p) = {}
  /\ HandTo(p, "send")
  /\ UNCHANGED <<life, serve, state, sig, forked, ln, inShutdown, err, fdVars, histVars, pend, conn, by>>

(* Faulty: Shutdown has no deadline. *)
NoTimeout(p) == FALSE

Timeout(p) ==
  /\ Hand(p, "drain") /\ InFlight(p) # {}
  /\ err' = [err EXCEPT ![p] = "timeout"]
  /\ HandTo(p, "send")
  /\ UNCHANGED <<life, serve, state, sig, forked, ln, inShutdown, fdVars, histVars, pend, conn, by>>

-----------------------------------------------------------------------------
(* The world: the operator signals processes, clients connect. *)
Operator(p, s) ==
  /\ Alive(p) /\ signals < MaxSignals
  /\ signals' = signals + 1
  /\ stopped' = (stopped \/ s \in Stops)
  /\ pend' = [pend EXCEPT ![p] = @ \cup {s}]
  /\ UNCHANGED <<procVars, fdVars, lost, ignored, conn, by>>

Connect(c) ==
  /\ conn[c] = "new" /\ ln[1]
  /\ conn' = [conn EXCEPT ![c] = IF SocketOpen THEN "backlog" ELSE "refused"]
  /\ UNCHANGED <<procVars, fdVars, histVars, pend, by>>

Accept(p, c) ==
  /\ Serve(p, "accepting") /\ lnOpen[p] /\ conn[c] = "backlog"
  /\ conn' = [conn EXCEPT ![c] = "served"]
  /\ by' = [by EXCEPT ![c] = p]
  /\ UNCHANGED <<procVars, fdVars, histVars, pend>>

Finish(c) ==
  /\ conn[c] = "served"
  /\ conn' = [conn EXCEPT ![c] = "done"]
  /\ UNCHANGED <<procVars, fdVars, histVars, pend, by>>

ServeSteps(p) ==
  \/ Begin(p) \/ Listen(p) \/ ListenFails(p) \/ TellParent(p) \/ TellInit(p)
  \/ SetRunning(p) \/ StartServe(p) \/ ServerClosed(p) \/ Terminal(p) \/ Exit(p)
HandSteps(p) ==
  \/ Notify(p) \/ PostHooks(p) \/ ForkAgain(p) \/ ForkPanics(p) \/ Fork(p)
  \/ Shutdown(p) \/ CloseListener(p) \/ Drained(p) \/ Timeout(p)
SignalSteps(p) == KilledBy(p) \/ \E s \in Signals : Receive(p, s) \/ Drop(p, s)

Next ==
  \/ \E p \in Procs : ServeSteps(p) \/ HandSteps(p) \/ SignalSteps(p) \/ ServeFails(p) \/ Collect(p)
  \/ \E p \in Procs, s \in Signals : Operator(p, s)
  \/ \E c \in Conns : Connect(c) \/ Finish(c) \/ \E p \in Procs : Accept(p, c)

(* Both goroutines run and signals are delivered; DefaultTimeout expires.  *)
(* Handlers of requests need not finish, and nobody need send anything.    *)
Fairness ==
  \A p \in Procs : WF_vars(ServeSteps(p)) /\ WF_vars(HandSteps(p)) /\ WF_vars(SignalSteps(p))

Spec == Init /\ [][Next]_vars /\ Fairness

-----------------------------------------------------------------------------
(* Nothing went wrong outside the program: no listen, accept or kill       *)
(* failed, no signal arrived before signal.Notify.                         *)
Undisturbed ==
  \A p \in Procs : err[p] \in {"none", "timeout"} /\ life[p] # "killed"

(* Restarts cost no connection: once the first process listens and until   *)
(* the operator asks for a stop, some living process has the listener open *)
(* and is accepting or on its way to accept.                               *)
AlwaysListening ==
  ln[1] /\ ~stopped /\ Undisturbed =>
    \E p \in Procs : Alive(p) /\ lnOpen[p] /\ ~inShutdown[p]
                     /\ serve[p] \in {"tell", "running", "serve", "accepting"}

(* "Make sure the program doesn't exit and waits instead for Shutdown to   *)
(* return": requests in flight are cut only by the timeout, an accept      *)
(* error, a signal before Notify or a crash.                               *)
CutOnlyByTimeout ==
  [][\A c \in Conns : conn[c] = "served" /\ conn'[c] = "cut" =>
       err[by[c]] \in {"timeout", "serve"} \/ life'[by[c]] # "exited"]_vars

(* When parent and child both serve, the parent's SIGTERM is on its way or *)
(* was taken, unless it was dropped or found the parent not yet running.   *)
Told(p) ==
  \/ "TERM" \in pend[p] \cup lost[p] \/ ignored[p]
  \/ sig[p] = "TERM" \/ state[p] \in {"ShuttingDown", "Terminate"}
ParentIsTold ==
  \A p \in Procs : Alive(p) /\ p + 1 \in Procs =>
    (serve[p + 1] \in {"running", "serve", "accepting", "closed"} => Told(p))

(* A handover ends: once the child accepts, the parent goes, unless its    *)
(* SIGTERM was dropped or ignored.                                         *)
HandoverCompletes ==
  \A p \in 2..MaxProcs :
    Serve(p, "accepting") ~> (~Alive(p - 1) \/ "TERM" \in lost[p - 1] \/ ignored[p - 1])

(* A running server that takes SIGINT or SIGTERM goes. *)
StopCompletes ==
  \A p \in Procs : (Hand(p, "act") /\ sig[p] \in Stops /\ state[p] = "Running") ~> ~Alive(p)
=============================================================================
