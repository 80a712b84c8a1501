------------------------ MODULE GraceServer_proofs ------------------------
(***************************************************************************)
(* Proofs about GraceServer, for chains of processes of any length, any    *)
(* set of connections and any number of signals.                           *)
(*                                                                         *)
(* IInv says of one process how the two goroutines and the descriptors     *)
(* hang together (Serves, Handles, Drains), and of the chain that a        *)
(* process without a child has forked none (Chain), that a parent whose    *)
(* child serves has been told (ParentIsTold itself), and that, as long as  *)
(* the operator asks for no stop, a process that has seen a stop signal    *)
(* has a child that is past telling it (Handed).                           *)
(***************************************************************************)
EXTENDS GraceServer, WellFoundedInduction, TLAPS

USE GraceServerAssumption DEF Procs, Signals, Stops, ServePCs, HandPCs, Errors

Types ==
  /\ life \in [Procs -> {"unborn", "alive", "exited", "killed", "crashed"}]
  /\ serve \in [Procs -> ServePCs] /\ hand \in [Procs -> HandPCs]
  /\ state \in [Procs -> {"Init", "Running", "ShuttingDown", "Terminate"}]
  /\ sig \in [Procs -> Signals \cup {"none"}]
  /\ pend \in [Procs -> SUBSET Signals] /\ lost \in [Procs -> SUBSET Signals]
  /\ forked \in [Procs -> BOOLEAN] /\ ln \in [Procs -> BOOLEAN]
  /\ lnOpen \in [Procs -> BOOLEAN] /\ dup \in [Procs -> BOOLEAN]
  /\ inShutdown \in [Procs -> BOOLEAN] /\ ignored \in [Procs -> BOOLEAN]
  /\ err \in [Procs -> Errors]
  /\ conn \in [Conns -> {"new", "refused", "backlog", "served", "done", "cut"}]
  /\ by \in [Conns -> 0..MaxProcs]
  /\ stopped \in BOOLEAN /\ signals \in 0..MaxSignals

(* A process before ListenAndServe, whether it was forked yet or not. *)
Fresh(p) ==
  /\ serve[p] = "init" /\ hand[p] = "off" /\ sig[p] = "none" /\ pend[p] = {}
  /\ state[p] = "Init" /\ ~ln[p] /\ ~forked[p] /\ ~inShutdown[p]

(* ListenAndServe: the listener is there from getListener on, open until   *)
(* Shutdown, and the function returns only for a reason.                   *)
Serves(p) ==
  /\ life[p] = "unborn" => Fresh(p)
  /\ life[p] = "exited" => serve[p] = "done"
  /\ life[p] = "crashed" => ~ln[p] \/ TLS
  /\ ~ln[p] => ~forked[p]
  /\ serve[p] \in {"init", "listen", "tell", "running"} => state[p] = "Init"
  /\ serve[p] \in {"init", "listen"} => ~ln[p]
  /\ serve[p] \in {"tell", "running", "serve", "accepting", "closed"} => ln[p]
  /\ Alive(p) /\ ~inShutdown[p] /\ serve[p] \in {"tell", "running", "serve", "accepting"}
       => lnOpen[p]
  /\ serve[p] = "closed" => inShutdown[p]
  /\ serve[p] = "done" => inShutdown[p] \/ ~ln[p] \/ err[p] \in {"tell", "serve"}

(* handleSignals: it works on a signal from its receive to PostHooks, and  *)
(* only one that stops makes it shut the server down.                      *)
Handles(p) ==
  /\ serve[p] = "init" => hand[p] = "off"
  /\ hand[p] \in {"off", "notify", "wait"} => sig[p] = "none"
  /\ hand[p] \in {"close", "drain", "send"} => sig[p] \in Stops
  /\ hand[p] \in {"close", "drain", "send"} \/ inShutdown[p] =>
       state[p] \in {"ShuttingDown", "Terminate"}
  /\ hand[p] \in {"drain", "send"} => inShutdown[p]
  /\ hand[p] = "post" /\ sig[p] = "TERM" =>
       ignored[p] \/ state[p] \in {"ShuttingDown", "Terminate"}

(* The drain: once Shutdown has been called nothing is accepted, and when  *)
(* its result is sent the requests are done, or the time is up.            *)
Drains(p) ==
  /\ inShutdown[p] => ~(serve[p] = "accepting" /\ lnOpen[p])
  /\ \A c \in InFlight(p) :
       /\ serve[p] \in {"accepting", "closed", "done"}
       /\ hand[p] = "send" \/ serve[p] = "done" => err[p] \in {"timeout", "serve"}

Chain == \A p \in Procs : p + 1 \in Procs /\ ~forked[p] => life[p + 1] = "unborn"

StopSeen(p) ==
  pend[p] \cap Stops # {} \/ sig[p] \in Stops \/ inShutdown[p] \/ state[p] = "ShuttingDown"
Past(p) == p \in Procs /\ ln[p] /\ serve[p] # "tell"
Handed == ~stopped => \A p \in Procs : StopSeen(p) => Past(p + 1)

IInv ==
  /\ Types
  /\ \A p \in Procs : Serves(p) /\ Handles(p) /\ Drains(p)
  /\ Chain /\ ParentIsTold /\ Handed

Cut ==
  \A c \in Conns : conn[c] = "served" /\ conn'[c] = "cut" =>
    err[by[c]] \in {"timeout", "serve"} \/ life'[by[c]] # "exited"

-----------------------------------------------------------------------------
(* Every step keeps the types. *)
LEMMA TypesNext ==
  ASSUME Types, Next
  PROVE  Types'
<1>1. ASSUME NEW p \in Procs,
             \/ ServeSteps(p) \/ HandSteps(p) \/ SignalSteps(p)
             \/ ServeFails(p) \/ Collect(p)
      PROVE  Types'
  <2>1. CASE Begin(p)
    BY <2>1 DEF Begin, Serve, Alive, ServeTo, HandTo, fdVars, histVars, Types
  <2>2. CASE Listen(p)
    BY <2>2 DEF Listen, Serve, Alive, ServeTo, histVars, Types
  <2>3. CASE ListenFails(p)
    BY <2>3 DEF ListenFails, Serve, Alive, ServeTo, fdVars, histVars, Types
  <2>4. CASE TellParent(p)
    BY <2>4 DEF TellParent, Serve, Alive, ServeTo, fdVars, histVars, Types
  <2>5. CASE TellInit(p)
    <3>1. CASE ServeTo(p, "running") /\ UNCHANGED err
      BY <2>5, <3>1 DEF TellInit, Serve, Alive, ServeTo, fdVars, histVars,
         Types
    <3>2. CASE ServeTo(p, "done") /\ err' = [err EXCEPT ![p] = "tell"]
      BY <2>5, <3>2 DEF TellInit, Serve, Alive, ServeTo, fdVars, histVars,
         Types
    <3> QED
      BY <2>5, <3>1, <3>2 DEF TellInit, Serve, Alive, ServeTo, fdVars, histVars
  <2>6. CASE SetRunning(p)
    BY <2>6 DEF SetRunning, Serve, Alive, ServeTo, fdVars, histVars, Types
  <2>7. CASE StartServe(p)
    BY <2>7 DEF StartServe, Serve, Alive, ServeTo, CloseFds, ResetBacklog,
       histVars, Types
  <2>8. CASE ServerClosed(p)
    BY <2>8 DEF ServerClosed, Serve, Alive, ServeTo, fdVars, histVars, Types
  <2>9. CASE Terminal(p)
    BY <2>9 DEF Terminal, Serve, Alive, ServeTo, HandTo, fdVars, histVars,
       Types
  <2>10. CASE Exit(p)
    BY <2>10 DEF Exit, Serve, Alive, Gone, CloseFds, ResetBacklog, InFlight,
       histVars, Types
  <2>11. CASE ServeFails(p)
    BY <2>11 DEF ServeFails, Serve, Alive, ServeTo, CloseFds, ResetBacklog,
       histVars, Types
  <2>12. CASE Notify(p)
    BY <2>12 DEF Notify, Hand, Alive, HandTo, fdVars, histVars, Types
  <2>13. CASE PostHooks(p)
    BY <2>13 DEF PostHooks, Hand, Alive, HandTo, fdVars, histVars, Types
  <2>14. CASE ForkAgain(p)
    BY <2>14 DEF ForkAgain, Hand, Alive, HandTo, fdVars, histVars, Types
  <2>15. CASE ForkPanics(p)
    BY <2>15 DEF ForkPanics, Hand, Alive, Gone, CloseFds, ResetBacklog,
       InFlight, histVars, Types
  <2>16. CASE Fork(p)
    <3>1. /\ lnOpen[p] \in BOOLEAN
          /\ forked' \in [Procs -> BOOLEAN] /\ hand' \in [Procs -> HandPCs]
      BY <2>16 DEF Fork, Hand, Alive, HandTo, histVars, Types
    <3>2. dup' \in [Procs -> BOOLEAN]
      <4>1. \/ dup' = [dup EXCEPT ![p] = lnOpen[p], ![p + 1] = lnOpen[p]]
            \/ dup' = [dup EXCEPT ![p] = lnOpen[p]]
        BY <2>16 DEF Fork
      <4>2. dup \in [Procs -> BOOLEAN] /\ \A f \in [Procs -> BOOLEAN], q \in Int :
              [f EXCEPT ![q] = lnOpen[p]] \in [Procs -> BOOLEAN]
        BY <3>1 DEF Types
      <4> QED BY <4>1, <4>2
    <3>3. life' \in [Procs -> {"unborn", "alive", "exited", "killed", "crashed"}]
      BY <2>16 DEF Fork, Hand, Alive, HandTo, histVars, Types
    <3> QED
      BY <2>16, <3>1, <3>2, <3>3 DEF Fork, Hand, Alive, HandTo, histVars, Types
  <2>17. CASE Shutdown(p)
    BY <2>17 DEF Shutdown, Hand, Alive, HandTo, fdVars, Types
  <2>18. CASE CloseListener(p)
    BY <2>18 DEF CloseListener, Hand, Alive, HandTo, CloseFds, ResetBacklog,
       histVars, Types
  <2>19. CASE Drained(p)
    BY <2>19 DEF Drained, Hand, Alive, HandTo, InFlight, fdVars, histVars,
       Types
  <2>20. CASE Timeout(p)
    BY <2>20 DEF Timeout, Hand, Alive, HandTo, InFlight, fdVars, histVars,
       Types
  <2>21. CASE KilledBy(p)
    BY <2>21 DEF KilledBy, Alive, Gone, CloseFds, ResetBacklog, InFlight,
       histVars, Types
  <2>22. ASSUME NEW s \in Signals, Receive(p, s)
       PROVE  Types'
    BY <2>22 DEF Receive, Hand, Alive, HandTo, fdVars, histVars, Types
  <2>23. ASSUME NEW s \in Signals, Drop(p, s)
       PROVE  Types'
    BY <2>23 DEF Drop, Alive, procVars, fdVars, Types
  <2>24. CASE Collect(p)
    BY <2>24 DEF Collect, CloseFds, ResetBacklog, procVars, histVars, Alive,
       Types
  <2> QED
    BY <1>1, <2>1, <2>2, <2>3, <2>4, <2>5, <2>6, <2>7, <2>8, <2>9, <2>10,
       <2>11, <2>12, <2>13, <2>14, <2>15, <2>16, <2>17, <2>18, <2>19, <2>20,
       <2>21, <2>22, <2>23, <2>24
    DEF ServeSteps, HandSteps, SignalSteps
<1>2. ASSUME NEW p \in Procs, NEW s \in Signals, Operator(p, s)
      PROVE  Types'
  BY <1>2 DEF Operator, Alive, procVars, fdVars, Types
<1>3. ASSUME NEW c \in Conns, Connect(c) \/ Finish(c) \/ \E p \in Procs : Accept(p, c)
      PROVE  Types'
  <2>1. CASE Connect(c)
    BY <2>1 DEF Connect, procVars, fdVars, histVars, Types
  <2>2. CASE Finish(c)
    BY <2>2 DEF Finish, procVars, fdVars, histVars, Types
  <2>3. CASE \E p \in Procs : Accept(p, c)
    BY <2>3 DEF Accept, Serve, Alive, procVars, fdVars, histVars, Types
  <2> QED BY <1>3, <2>1, <2>2, <2>3
<1> QED BY <1>1, <1>2, <1>3 DEF Next

(* ListenAndServe of every process. *)
LEMMA ServesNext ==
  ASSUME IInv, Types', Next
  PROVE  \A q \in Procs : Serves(q)'
<1>1. ASSUME NEW p \in Procs,
             \/ ServeSteps(p) \/ HandSteps(p) \/ SignalSteps(p)
             \/ ServeFails(p) \/ Collect(p)
      PROVE  \A q \in Procs : Serves(q)'
  <2>1. CASE Begin(p)
    BY <2>1 DEF Begin, Serve, ServeTo, HandTo, fdVars, histVars, IInv, Types,
       Serves, Handles, Fresh, Chain, Alive
  <2>2. CASE Listen(p)
    BY <2>2 DEF Listen, Serve, ServeTo, histVars, IInv, Types, Serves, Handles,
       Fresh, Chain, Alive
  <2>3. CASE ListenFails(p)
    BY <2>3 DEF ListenFails, Serve, ServeTo, fdVars, histVars, IInv, Types,
       Serves, Handles, Fresh, Chain, Alive
  <2>4. CASE TellParent(p)
    BY <2>4 DEF TellParent, Serve, ServeTo, fdVars, histVars, IInv, Types,
       Serves, Handles, Fresh, Chain, Alive
  <2>5. CASE TellInit(p)
    BY <2>5 DEF TellInit, Serve, ServeTo, fdVars, histVars, IInv, Types,
       Serves, Handles, Fresh, Chain, Alive
  <2>6. CASE SetRunning(p)
    BY <2>6 DEF SetRunning, Serve, ServeTo, fdVars, histVars, IInv, Types,
       Serves, Handles, Fresh, Chain, Alive
  <2>7. CASE StartServe(p)
    BY <2>7 DEF StartServe, Serve, ServeTo, CloseFds, ResetBacklog, histVars,
       IInv, Types, Serves, Handles, Fresh, Chain, Alive
  <2>8. CASE ServerClosed(p)
    BY <2>8 DEF ServerClosed, Serve, ServeTo, fdVars, histVars, IInv, Types,
       Serves, Handles, Fresh, Chain, Alive
  <2>9. CASE Terminal(p)
    BY <2>9 DEF Terminal, Serve, ServeTo, HandTo, fdVars, histVars, IInv,
       Types, Serves, Handles, Fresh, Chain, Alive
  <2>10. CASE Exit(p)
    BY <2>10 DEF Exit, Serve, Gone, CloseFds, ResetBacklog, InFlight, histVars,
       IInv, Types, Serves, Handles, Fresh, Chain, Alive
  <2>11. CASE ServeFails(p)
    BY <2>11 DEF ServeFails, Serve, ServeTo, CloseFds, ResetBacklog, histVars,
       IInv, Types, Serves, Handles, Fresh, Chain, Alive
  <2>12. CASE Notify(p)
    BY <2>12 DEF Notify, Hand, HandTo, fdVars, histVars, IInv, Types, Serves,
       Handles, Fresh, Chain, Alive
  <2>13. CASE PostHooks(p)
    BY <2>13 DEF PostHooks, Hand, HandTo, fdVars, histVars, IInv, Types,
       Serves, Handles, Fresh, Chain, Alive
  <2>14. CASE ForkAgain(p)
    BY <2>14 DEF ForkAgain, Hand, HandTo, fdVars, histVars, IInv, Types,
       Serves, Handles, Fresh, Chain, Alive
  <2>15. CASE ForkPanics(p)
    BY <2>15 DEF ForkPanics, Hand, Gone, CloseFds, ResetBacklog, InFlight,
       histVars, IInv, Types, Serves, Handles, Fresh, Chain, Alive
  <2>16. CASE Fork(p)
    BY <2>16 DEF Fork, Hand, HandTo, histVars, IInv, Types, Serves, Handles,
       Fresh, Chain, Alive
  <2>17. CASE Shutdown(p)
    BY <2>17 DEF Shutdown, Hand, HandTo, fdVars, IInv, Types, Serves, Handles,
       Fresh, Chain, Alive
  <2>18. CASE CloseListener(p)
    BY <2>18 DEF CloseListener, Hand, HandTo, CloseFds, ResetBacklog, histVars,
       IInv, Types, Serves, Handles, Fresh, Chain, Alive
  <2>19. CASE Drained(p)
    BY <2>19 DEF Drained, Hand, HandTo, InFlight, fdVars, histVars, IInv,
       Types, Serves, Handles, Fresh, Chain, Alive
  <2>20. CASE Timeout(p)
    BY <2>20 DEF Timeout, Hand, HandTo, InFlight, fdVars, histVars, IInv,
       Types, Serves, Handles, Fresh, Chain, Alive
  <2>21. CASE KilledBy(p)
    BY <2>21 DEF KilledBy, Gone, CloseFds, ResetBacklog, InFlight, histVars,
       IInv, Types, Serves, Handles, Fresh, Chain, Alive
  <2>22. ASSUME NEW s \in Signals, Receive(p, s)
       PROVE  \A q \in Procs : Serves(q)'
    BY <2>22 DEF Receive, Hand, HandTo, fdVars, histVars, IInv, Types, Serves,
       Handles, Fresh, Chain, Alive
  <2>23. ASSUME NEW s \in Signals, Drop(p, s)
       PROVE  \A q \in Procs : Serves(q)'
    BY <2>23 DEF Drop, procVars, fdVars, IInv, Types, Serves, Handles, Fresh,
       Chain, Alive
  <2>24. CASE Collect(p)
    BY <2>24 DEF Collect, CloseFds, ResetBacklog, procVars, histVars, IInv,
       Types, Serves, Handles, Fresh, Chain, Alive
  <2> QED
    BY <1>1, <2>1, <2>2, <2>3, <2>4, <2>5, <2>6, <2>7, <2>8, <2>9, <2>10,
       <2>11, <2>12, <2>13, <2>14, <2>15, <2>16, <2>17, <2>18, <2>19, <2>20,
       <2>21, <2>22, <2>23, <2>24
    DEF ServeSteps, HandSteps, SignalSteps
<1>2. ASSUME NEW p \in Procs, NEW s \in Signals, Operator(p, s)
      PROVE  \A q \in Procs : Serves(q)'
  BY <1>2 DEF Operator, procVars, fdVars, IInv, Types, Serves, Handles, Fresh,
     Chain, Alive
<1>3. ASSUME NEW c \in Conns, Connect(c) \/ Finish(c) \/ \E p \in Procs : Accept(p, c)
      PROVE  \A q \in Procs : Serves(q)'
  <2>1. CASE Connect(c)
    BY <2>1 DEF Connect, procVars, fdVars, histVars, IInv, Types, Serves,
       Handles, Fresh, Chain, Alive
  <2>2. CASE Finish(c)
    BY <2>2 DEF Finish, procVars, fdVars, histVars, IInv, Types, Serves,
       Handles, Fresh, Chain, Alive
  <2>3. CASE \E p \in Procs : Accept(p, c)
    BY <2>3 DEF Accept, Serve, procVars, fdVars, histVars, IInv, Types, Serves,
       Handles, Fresh, Chain, Alive
  <2> QED BY <1>3, <2>1, <2>2, <2>3
<1> QED BY <1>1, <1>2, <1>3 DEF Next

(* handleSignals of every process. *)
LEMMA HandlesNext ==
  ASSUME IInv, Types', Next
  PROVE  \A q \in Procs : Handles(q)'
<1>1. ASSUME NEW p \in Procs,
             \/ ServeSteps(p) \/ HandSteps(p) \/ SignalSteps(p)
             \/ ServeFails(p) \/ Collect(p)
      PROVE  \A q \in Procs : Handles(q)'
  <2>1. CASE Begin(p)
    BY <2>1 DEF Begin, Serve, Alive, ServeTo, HandTo, fdVars, histVars, IInv,
       Types, Serves, Handles, Fresh
  <2>2. CASE Listen(p)
    BY <2>2 DEF Listen, Serve, Alive, ServeTo, histVars, IInv, Types, Serves,
       Handles, Fresh
  <2>3. CASE ListenFails(p)
    BY <2>3 DEF ListenFails, Serve, Alive, ServeTo, fdVars, histVars, IInv,
       Types, Serves, Handles, Fresh
  <2>4. CASE TellParent(p)
    BY <2>4 DEF TellParent, Serve, Alive, ServeTo, fdVars, histVars, IInv,
       Types, Serves, Handles, Fresh
  <2>5. CASE TellInit(p)
    BY <2>5 DEF TellInit, Serve, Alive, ServeTo, fdVars, histVars, IInv, Types,
       Serves, Handles, Fresh
  <2>6. CASE SetRunning(p)
    BY <2>6 DEF SetRunning, Serve, Alive, ServeTo, fdVars, histVars, IInv,
       Types, Serves, Handles, Fresh
  <2>7. CASE StartServe(p)
    BY <2>7 DEF StartServe, Serve, Alive, ServeTo, CloseFds, ResetBacklog,
       histVars, IInv, Types, Serves, Handles, Fresh
  <2>8. CASE ServerClosed(p)
    BY <2>8 DEF ServerClosed, Serve, Alive, ServeTo, fdVars, histVars, IInv,
       Types, Serves, Handles, Fresh
  <2>9. CASE Terminal(p)
    BY <2>9 DEF Terminal, Serve, Alive, ServeTo, HandTo, fdVars, histVars,
       IInv, Types, Serves, Handles, Fresh
  <2>10. CASE Exit(p)
    BY <2>10 DEF Exit, Serve, Alive, Gone, CloseFds, ResetBacklog, InFlight,
       histVars, IInv, Types, Serves, Handles, Fresh
  <2>11. CASE ServeFails(p)
    BY <2>11 DEF ServeFails, Serve, Alive, ServeTo, CloseFds, ResetBacklog,
       histVars, IInv, Types, Serves, Handles, Fresh
  <2>12. CASE Notify(p)
    BY <2>12 DEF Notify, Hand, Alive, HandTo, fdVars, histVars, IInv, Types,
       Serves, Handles, Fresh
  <2>13. CASE PostHooks(p)
    BY <2>13 DEF PostHooks, Hand, Alive, HandTo, fdVars, histVars, IInv, Types,
       Serves, Handles, Fresh
  <2>14. CASE ForkAgain(p)
    BY <2>14 DEF ForkAgain, Hand, Alive, HandTo, fdVars, histVars, IInv, Types,
       Serves, Handles, Fresh
  <2>15. CASE ForkPanics(p)
    BY <2>15 DEF ForkPanics, Hand, Alive, Gone, CloseFds, ResetBacklog,
       InFlight, histVars, IInv, Types, Serves, Handles, Fresh
  <2>16. CASE Fork(p)
    BY <2>16 DEF Fork, Hand, Alive, HandTo, histVars, IInv, Types, Serves,
       Handles, Fresh
  <2>17. CASE Shutdown(p)
    <3>1. \A q \in Procs \ {p} : /\ hand'[q] = hand[q] /\ state'[q] = state[q]
                                   /\ ignored'[q] = ignored[q]
      BY <2>17 DEF Shutdown, Hand, Alive, HandTo, fdVars, IInv, Types, Serves,
         Handles, Fresh
    <3>2. hand[p] = "act" /\ sig[p] \in Stops /\ UNCHANGED <<sig, serve, inShutdown>>
      BY <2>17 DEF Shutdown, Hand, Alive, HandTo, fdVars, IInv, Types, Serves,
         Handles, Fresh
    <3>3. CASE state[p] = "Running"
      <4>1. hand'[p] = "close" /\ state'[p] = "ShuttingDown"
        BY <2>17, <3>3 DEF Shutdown, Hand, Alive, HandTo, fdVars, IInv, Types
      <4> QED BY <3>1, <3>2, <4>1 DEF IInv, Types, Handles
    <3>4. CASE state[p] # "Running"
      <4>1. hand'[p] = "post" /\ state'[p] = state[p]
        BY <2>17, <3>4 DEF Shutdown, Hand, Alive, HandTo, fdVars, IInv, Types
      <4>2. ignored' = [ignored EXCEPT ![p] = TRUE]
        BY <2>17, <3>4 DEF Shutdown, Hand, Alive, HandTo, fdVars
      <4> QED BY <3>1, <3>2, <4>1, <4>2 DEF IInv, Types, Handles
    <3> QED BY <3>3, <3>4
  <2>18. CASE CloseListener(p)
    BY <2>18 DEF CloseListener, Hand, Alive, HandTo, CloseFds, ResetBacklog,
       histVars, IInv, Types, Serves, Handles, Fresh
  <2>19. CASE Drained(p)
    BY <2>19 DEF Drained, Hand, Alive, HandTo, InFlight, fdVars, histVars,
       IInv, Types, Serves, Handles, Fresh
  <2>20. CASE Timeout(p)
    BY <2>20 DEF Timeout, Hand, Alive, HandTo, InFlight, fdVars, histVars,
       IInv, Types, Serves, Handles, Fresh
  <2>21. CASE KilledBy(p)
    BY <2>21 DEF KilledBy, Alive, Gone, CloseFds, ResetBacklog, InFlight,
       histVars, IInv, Types, Serves, Handles, Fresh
  <2>22. ASSUME NEW s \in Signals, Receive(p, s)
       PROVE  \A q \in Procs : Handles(q)'
    BY <2>22 DEF Receive, Hand, Alive, HandTo, fdVars, histVars, IInv, Types,
       Serves, Handles, Fresh
  <2>23. ASSUME NEW s \in Signals, Drop(p, s)
       PROVE  \A q \in Procs : Handles(q)'
    BY <2>23 DEF Drop, Alive, procVars, fdVars, IInv, Types, Serves, Handles,
       Fresh
  <2>24. CASE Collect(p)
    BY <2>24 DEF Collect, CloseFds, ResetBacklog, procVars, histVars, Alive,
       IInv, Types, Serves, Handles, Fresh
  <2> QED
    BY <1>1, <2>1, <2>2, <2>3, <2>4, <2>5, <2>6, <2>7, <2>8, <2>9, <2>10,
       <2>11, <2>12, <2>13, <2>14, <2>15, <2>16, <2>17, <2>18, <2>19, <2>20,
       <2>21, <2>22, <2>23, <2>24
    DEF ServeSteps, HandSteps, SignalSteps
<1>2. ASSUME NEW p \in Procs, NEW s \in Signals, Operator(p, s)
      PROVE  \A q \in Procs : Handles(q)'
  BY <1>2 DEF Operator, Alive, procVars, fdVars, IInv, Types, Serves, Handles,
     Fresh
<1>3. ASSUME NEW c \in Conns, Connect(c) \/ Finish(c) \/ \E p \in Procs : Accept(p, c)
      PROVE  \A q \in Procs : Handles(q)'
  <2>1. CASE Connect(c)
    BY <2>1 DEF Connect, procVars, fdVars, histVars, IInv, Types, Serves,
       Handles, Fresh
  <2>2. CASE Finish(c)
    BY <2>2 DEF Finish, procVars, fdVars, histVars, IInv, Types, Serves,
       Handles, Fresh
  <2>3. CASE \E p \in Procs : Accept(p, c)
    BY <2>3 DEF Accept, Serve, Alive, procVars, fdVars, histVars, IInv, Types,
       Serves, Handles, Fresh
  <2> QED BY <1>3, <2>1, <2>2, <2>3
<1> QED BY <1>1, <1>2, <1>3 DEF Next

(* The requests of every process. *)
LEMMA DrainsNext ==
  ASSUME IInv, Types', Next
  PROVE  \A q \in Procs : Drains(q)'
<1>1. ASSUME NEW p \in Procs,
             \/ ServeSteps(p) \/ HandSteps(p) \/ SignalSteps(p)
             \/ ServeFails(p) \/ Collect(p)
      PROVE  \A q \in Procs : Drains(q)'
  <2>1. CASE Begin(p)
    BY <2>1 DEF Begin, Serve, Alive, ServeTo, HandTo, fdVars, histVars, IInv,
       Types, Serves, Handles, Drains, InFlight
  <2>2. CASE Listen(p)
    BY <2>2 DEF Listen, Serve, Alive, ServeTo, histVars, IInv, Types, Serves,
       Handles, Drains, InFlight
  <2>3. CASE ListenFails(p)
    BY <2>3 DEF ListenFails, Serve, Alive, ServeTo, fdVars, histVars, IInv,
       Types, Serves, Handles, Drains, InFlight
  <2>4. CASE TellParent(p)
    BY <2>4 DEF TellParent, Serve, Alive, ServeTo, fdVars, histVars, IInv,
       Types, Serves, Handles, Drains, InFlight
  <2>5. CASE TellInit(p)
    <3>1. serve[p] = "tell" /\ UNCHANGED <<conn, by, hand, inShutdown, lnOpen>>
      BY <2>5 DEF TellInit, Serve, Alive, ServeTo, fdVars, histVars, IInv,
         Types, Serves, Handles, Drains, InFlight
    <3>2. \A q \in Procs \ {p} : serve'[q] = serve[q] /\ err'[q] = err[q]
      BY <2>5 DEF TellInit, Serve, Alive, ServeTo, fdVars, histVars, IInv,
         Types, Serves, Handles, Drains, InFlight
    <3>3. serve'[p] \in {"running", "done"}
      BY <2>5 DEF TellInit, Serve, Alive, ServeTo, fdVars, histVars, IInv,
         Types, Serves, Handles, Drains, InFlight
    <3> QED BY <3>1, <3>2, <3>3 DEF IInv, Types, Serves, Handles, Drains, InFlight
  <2>6. CASE SetRunning(p)
    BY <2>6 DEF SetRunning, Serve, Alive, ServeTo, fdVars, histVars, IInv,
       Types, Serves, Handles, Drains, InFlight
  <2>7. CASE StartServe(p)
    BY <2>7 DEF StartServe, Serve, Alive, ServeTo, CloseFds, ResetBacklog,
       histVars, IInv, Types, Serves, Handles, Drains, InFlight
  <2>8. CASE ServerClosed(p)
    BY <2>8 DEF ServerClosed, Serve, Alive, ServeTo, fdVars, histVars, IInv,
       Types, Serves, Handles, Drains, InFlight
  <2>9. CASE Terminal(p)
    BY <2>9 DEF Terminal, Serve, Alive, ServeTo, HandTo, fdVars, histVars,
       IInv, Types, Serves, Handles, Drains, InFlight
  <2>10. CASE Exit(p)
    BY <2>10 DEF Exit, Serve, Alive, Gone, CloseFds, ResetBacklog, histVars,
       IInv, Types, Serves, Handles, Drains, InFlight
  <2>11. CASE ServeFails(p)
    BY <2>11 DEF ServeFails, Serve, Alive, ServeTo, CloseFds, ResetBacklog,
       histVars, IInv, Types, Serves, Handles, Drains, InFlight
  <2>12. CASE Notify(p)
    BY <2>12 DEF Notify, Hand, Alive, HandTo, fdVars, histVars, IInv, Types,
       Serves, Handles, Drains, InFlight
  <2>13. CASE PostHooks(p)
    BY <2>13 DEF PostHooks, Hand, Alive, HandTo, fdVars, histVars, IInv, Types,
       Serves, Handles, Drains, InFlight
  <2>14. CASE ForkAgain(p)
    BY <2>14 DEF ForkAgain, Hand, Alive, HandTo, fdVars, histVars, IInv, Types,
       Serves, Handles, Drains, InFlight
  <2>15. CASE ForkPanics(p)
    BY <2>15 DEF ForkPanics, Hand, Alive, Gone, CloseFds, ResetBacklog,
       histVars, IInv, Types, Serves, Handles, Drains, InFlight
  <2>16. CASE Fork(p)
    BY <2>16 DEF Fork, Hand, Alive, HandTo, histVars, IInv, Types, Serves,
       Handles, Drains, InFlight
  <2>17. CASE Shutdown(p)
    BY <2>17 DEF Shutdown, Hand, Alive, HandTo, fdVars, IInv, Types, Serves,
       Handles, Drains, InFlight
  <2>18. CASE CloseListener(p)
    BY <2>18 DEF CloseListener, Hand, Alive, HandTo, CloseFds, ResetBacklog,
       histVars, IInv, Types, Serves, Handles, Drains, InFlight
  <2>19. CASE Drained(p)
    BY <2>19 DEF Drained, Hand, Alive, HandTo, fdVars, histVars, IInv, Types,
       Serves, Handles, Drains, InFlight
  <2>20. CASE Timeout(p)
    BY <2>20 DEF Timeout, Hand, Alive, HandTo, fdVars, histVars, IInv, Types,
       Serves, Handles, Drains, InFlight
  <2>21. CASE KilledBy(p)
    BY <2>21 DEF KilledBy, Alive, Gone, CloseFds, ResetBacklog, histVars, IInv,
       Types, Serves, Handles, Drains, InFlight
  <2>22. ASSUME NEW s \in Signals, Receive(p, s)
       PROVE  \A q \in Procs : Drains(q)'
    BY <2>22 DEF Receive, Hand, Alive, HandTo, fdVars, histVars, IInv, Types,
       Serves, Handles, Drains, InFlight
  <2>23. ASSUME NEW s \in Signals, Drop(p, s)
       PROVE  \A q \in Procs : Drains(q)'
    BY <2>23 DEF Drop, Alive, procVars, fdVars, IInv, Types, Serves, Handles,
       Drains, InFlight
  <2>24. CASE Collect(p)
    BY <2>24 DEF Collect, CloseFds, ResetBacklog, procVars, histVars, Alive,
       IInv, Types, Serves, Handles, Drains, InFlight
  <2> QED
    BY <1>1, <2>1, <2>2, <2>3, <2>4, <2>5, <2>6, <2>7, <2>8, <2>9, <2>10,
       <2>11, <2>12, <2>13, <2>14, <2>15, <2>16, <2>17, <2>18, <2>19, <2>20,
       <2>21, <2>22, <2>23, <2>24
    DEF ServeSteps, HandSteps, SignalSteps
<1>2. ASSUME NEW p \in Procs, NEW s \in Signals, Operator(p, s)
      PROVE  \A q \in Procs : Drains(q)'
  BY <1>2 DEF Operator, Alive, procVars, fdVars, IInv, Types, Serves, Handles,
     Drains, InFlight
<1>3. ASSUME NEW c \in Conns, Connect(c) \/ Finish(c) \/ \E p \in Procs : Accept(p, c)
      PROVE  \A q \in Procs : Drains(q)'
  <2>1. CASE Connect(c)
    BY <2>1 DEF Connect, procVars, fdVars, histVars, IInv, Types, Serves,
       Handles, Drains, InFlight
  <2>2. CASE Finish(c)
    BY <2>2 DEF Finish, procVars, fdVars, histVars, IInv, Types, Serves,
       Handles, Drains, InFlight
  <2>3. CASE \E p \in Procs : Accept(p, c)
    BY <2>3 DEF Accept, Serve, Alive, procVars, fdVars, histVars, IInv, Types,
       Serves, Handles, Drains, InFlight
  <2> QED BY <1>3, <2>1, <2>2, <2>3
<1> QED BY <1>1, <1>2, <1>3 DEF Next

(* The chain of processes. *)
LEMMA ChainNext ==
  ASSUME IInv, Types', Next
  PROVE  Chain'
<1>1. ASSUME NEW p \in Procs,
             \/ ServeSteps(p) \/ HandSteps(p) \/ SignalSteps(p)
             \/ ServeFails(p) \/ Collect(p)
      PROVE  Chain'
  <2>1. CASE Begin(p)
    BY <2>1 DEF Begin, Serve, Alive, ServeTo, HandTo, fdVars, histVars, IInv,
       Types, Serves, Fresh, Chain
  <2>2. CASE Listen(p)
    BY <2>2 DEF Listen, Serve, Alive, ServeTo, histVars, IInv, Types, Serves,
       Fresh, Chain
  <2>3. CASE ListenFails(p)
    BY <2>3 DEF ListenFails, Serve, Alive, ServeTo, fdVars, histVars, IInv,
       Types, Serves, Fresh, Chain
  <2>4. CASE TellParent(p)
    BY <2>4 DEF TellParent, Serve, Alive, ServeTo, fdVars, histVars, IInv,
       Types, Serves, Fresh, Chain
  <2>5. CASE TellInit(p)
    BY <2>5 DEF TellInit, Serve, Alive, ServeTo, fdVars, histVars, IInv, Types,
       Serves, Fresh, Chain
  <2>6. CASE SetRunning(p)
    BY <2>6 DEF SetRunning, Serve, Alive, ServeTo, fdVars, histVars, IInv,
       Types, Serves, Fresh, Chain
  <2>7. CASE StartServe(p)
    BY <2>7 DEF StartServe, Serve, Alive, ServeTo, CloseFds, ResetBacklog,
       histVars, IInv, Types, Serves, Fresh, Chain
  <2>8. CASE ServerClosed(p)
    BY <2>8 DEF ServerClosed, Serve, Alive, ServeTo, fdVars, histVars, IInv,
       Types, Serves, Fresh, Chain
  <2>9. CASE Terminal(p)
    BY <2>9 DEF Terminal, Serve, Alive, ServeTo, HandTo, fdVars, histVars,
       IInv, Types, Serves, Fresh, Chain
  <2>10. CASE Exit(p)
    BY <2>10 DEF Exit, Serve, Alive, Gone, CloseFds, ResetBacklog, InFlight,
       histVars, IInv, Types, Serves, Fresh, Chain
  <2>11. CASE ServeFails(p)
    BY <2>11 DEF ServeFails, Serve, Alive, ServeTo, CloseFds, ResetBacklog,
       histVars, IInv, Types, Serves, Fresh, Chain
  <2>12. CASE Notify(p)
    BY <2>12 DEF Notify, Hand, Alive, HandTo, fdVars, histVars, IInv, Types,
       Serves, Fresh, Chain
  <2>13. CASE PostHooks(p)
    BY <2>13 DEF PostHooks, Hand, Alive, HandTo, fdVars, histVars, IInv, Types,
       Serves, Fresh, Chain
  <2>14. CASE ForkAgain(p)
    BY <2>14 DEF ForkAgain, Hand, Alive, HandTo, fdVars, histVars, IInv, Types,
       Serves, Fresh, Chain
  <2>15. CASE ForkPanics(p)
    BY <2>15 DEF ForkPanics, Hand, Alive, Gone, CloseFds, ResetBacklog,
       InFlight, histVars, IInv, Types, Serves, Fresh, Chain
  <2>16. CASE Fork(p)
    BY <2>16 DEF Fork, Hand, Alive, HandTo, histVars, IInv, Types, Serves,
       Fresh, Chain
  <2>17. CASE Shutdown(p)
    BY <2>17 DEF Shutdown, Hand, Alive, HandTo, fdVars, IInv, Types, Serves,
       Fresh, Chain
  <2>18. CASE CloseListener(p)
    BY <2>18 DEF CloseListener, Hand, Alive, HandTo, CloseFds, ResetBacklog,
       histVars, IInv, Types, Serves, Fresh, Chain
  <2>19. CASE Drained(p)
    BY <2>19 DEF Drained, Hand, Alive, HandTo, InFlight, fdVars, histVars,
       IInv, Types, Serves, Fresh, Chain
  <2>20. CASE Timeout(p)
    BY <2>20 DEF Timeout, Hand, Alive, HandTo, InFlight, fdVars, histVars,
       IInv, Types, Serves, Fresh, Chain
  <2>21. CASE KilledBy(p)
    BY <2>21 DEF KilledBy, Alive, Gone, CloseFds, ResetBacklog, InFlight,
       histVars, IInv, Types, Serves, Fresh, Chain
  <2>22. ASSUME NEW s \in Signals, Receive(p, s)
       PROVE  Chain'
    BY <2>22 DEF Receive, Hand, Alive, HandTo, fdVars, histVars, IInv, Types,
       Serves, Fresh, Chain
  <2>23. ASSUME NEW s \in Signals, Drop(p, s)
       PROVE  Chain'
    BY <2>23 DEF Drop, Alive, procVars, fdVars, IInv, Types, Serves, Fresh,
       Chain
  <2>24. CASE Collect(p)
    BY <2>24 DEF Collect, CloseFds, ResetBacklog, procVars, histVars, Alive,
       IInv, Types, Serves, Fresh, Chain
  <2> QED
    BY <1>1, <2>1, <2>2, <2>3, <2>4, <2>5, <2>6, <2>7, <2>8, <2>9, <2>10,
       <2>11, <2>12, <2>13, <2>14, <2>15, <2>16, <2>17, <2>18, <2>19, <2>20,
       <2>21, <2>22, <2>23, <2>24
    DEF ServeSteps, HandSteps, SignalSteps
<1>2. ASSUME NEW p \in Procs, NEW s \in Signals, Operator(p, s)
      PROVE  Chain'
  BY <1>2 DEF Operator, Alive, procVars, fdVars, IInv, Types, Serves, Fresh,
     Chain
<1>3. ASSUME NEW c \in Conns, Connect(c) \/ Finish(c) \/ \E p \in Procs : Accept(p, c)
      PROVE  Chain'
  <2>1. CASE Connect(c)
    BY <2>1 DEF Connect, procVars, fdVars, histVars, IInv, Types, Serves,
       Fresh, Chain
  <2>2. CASE Finish(c)
    BY <2>2 DEF Finish, procVars, fdVars, histVars, IInv, Types, Serves, Fresh,
       Chain
  <2>3. CASE \E p \in Procs : Accept(p, c)
    BY <2>3 DEF Accept, Serve, Alive, procVars, fdVars, histVars, IInv, Types,
       Serves, Fresh, Chain
  <2> QED BY <1>3, <2>1, <2>2, <2>3
<1> QED BY <1>1, <1>2, <1>3 DEF Next

(* A parent stays told until it is gone. *)
LEMMA ParentIsToldNext ==
  ASSUME IInv, Types', Next
  PROVE  ParentIsTold'
<1>1. ASSUME NEW p \in Procs,
             \/ ServeSteps(p) \/ HandSteps(p) \/ SignalSteps(p)
             \/ ServeFails(p) \/ Collect(p)
      PROVE  ParentIsTold'
  <2>1. CASE Begin(p)
    BY <2>1 DEF Begin, Serve, ServeTo, HandTo, fdVars, histVars, IInv, Types,
       Serves, Handles, Fresh, Chain, ParentIsTold, Told, Alive
  <2>2. CASE Listen(p)
    BY <2>2 DEF Listen, Serve, ServeTo, histVars, IInv, Types, Serves, Handles,
       Fresh, Chain, ParentIsTold, Told, Alive
  <2>3. CASE ListenFails(p)
    BY <2>3 DEF ListenFails, Serve, ServeTo, fdVars, histVars, IInv, Types,
       Serves, Handles, Fresh, Chain, ParentIsTold, Told, Alive
  <2>4. CASE TellParent(p)
    BY <2>4 DEF TellParent, Serve, ServeTo, fdVars, histVars, IInv, Types,
       Serves, Handles, Fresh, Chain, ParentIsTold, Told, Alive
  <2>5. CASE TellInit(p)
    BY <2>5 DEF TellInit, Serve, ServeTo, fdVars, histVars, IInv, Types,
       Serves, Handles, Fresh, Chain, ParentIsTold, Told, Alive
  <2>6. CASE SetRunning(p)
    BY <2>6 DEF SetRunning, Serve, ServeTo, fdVars, histVars, IInv, Types,
       Serves, Handles, Fresh, Chain, ParentIsTold, Told, Alive
  <2>7. CASE StartServe(p)
    BY <2>7 DEF StartServe, Serve, ServeTo, CloseFds, ResetBacklog, histVars,
       IInv, Types, Serves, Handles, Fresh, Chain, ParentIsTold, Told, Alive
  <2>8. CASE ServerClosed(p)
    BY <2>8 DEF ServerClosed, Serve, ServeTo, fdVars, histVars, IInv, Types,
       Serves, Handles, Fresh, Chain, ParentIsTold, Told, Alive
  <2>9. CASE Terminal(p)
    BY <2>9 DEF Terminal, Serve, ServeTo, HandTo, fdVars, histVars, IInv,
       Types, Serves, Handles, Fresh, Chain, ParentIsTold, Told, Alive
  <2>10. CASE Exit(p)
    BY <2>10 DEF Exit, Serve, Gone, CloseFds, ResetBacklog, InFlight, histVars,
       IInv, Types, Serves, Handles, Fresh, Chain, ParentIsTold, Told, Alive
  <2>11. CASE ServeFails(p)
    BY <2>11 DEF ServeFails, Serve, ServeTo, CloseFds, ResetBacklog, histVars,
       IInv, Types, Serves, Handles, Fresh, Chain, ParentIsTold, Told, Alive
  <2>12. CASE Notify(p)
    BY <2>12 DEF Notify, Hand, HandTo, fdVars, histVars, IInv, Types, Serves,
       Handles, Fresh, Chain, ParentIsTold, Told, Alive
  <2>13. CASE PostHooks(p)
    BY <2>13 DEF PostHooks, Hand, HandTo, fdVars, histVars, IInv, Types,
       Serves, Handles, Fresh, Chain, ParentIsTold, Told, Alive
  <2>14. CASE ForkAgain(p)
    BY <2>14 DEF ForkAgain, Hand, HandTo, fdVars, histVars, IInv, Types,
       Serves, Handles, Fresh, Chain, ParentIsTold, Told, Alive
  <2>15. CASE ForkPanics(p)
    BY <2>15 DEF ForkPanics, Hand, Gone, CloseFds, ResetBacklog, InFlight,
       histVars, IInv, Types, Serves, Handles, Fresh, Chain, ParentIsTold,
       Told, Alive
  <2>16. CASE Fork(p)
    BY <2>16 DEF Fork, Hand, HandTo, histVars, IInv, Types, Serves, Handles,
       Fresh, Chain, ParentIsTold, Told, Alive
  <2>17. CASE Shutdown(p)
    BY <2>17 DEF Shutdown, Hand, HandTo, fdVars, IInv, Types, Serves, Handles,
       Fresh, Chain, ParentIsTold, Told, Alive
  <2>18. CASE CloseListener(p)
    BY <2>18 DEF CloseListener, Hand, HandTo, CloseFds, ResetBacklog, histVars,
       IInv, Types, Serves, Handles, Fresh, Chain, ParentIsTold, Told, Alive
  <2>19. CASE Drained(p)
    BY <2>19 DEF Drained, Hand, HandTo, InFlight, fdVars, histVars, IInv,
       Types, Serves, Handles, Fresh, Chain, ParentIsTold, Told, Alive
  <2>20. CASE Timeout(p)
    BY <2>20 DEF Timeout, Hand, HandTo, InFlight, fdVars, histVars, IInv,
       Types, Serves, Handles, Fresh, Chain, ParentIsTold, Told, Alive
  <2>21. CASE KilledBy(p)
    BY <2>21 DEF KilledBy, Gone, CloseFds, ResetBacklog, InFlight, histVars,
       IInv, Types, Serves, Handles, Fresh, Chain, ParentIsTold, Told, Alive
  <2>22. ASSUME NEW s \in Signals, Receive(p, s)
       PROVE  ParentIsTold'
    BY <2>22 DEF Receive, Hand, HandTo, fdVars, histVars, IInv, Types, Serves,
       Handles, Fresh, Chain, ParentIsTold, Told, Alive
  <2>23. ASSUME NEW s \in Signals, Drop(p, s)
       PROVE  ParentIsTold'
    <3>1. ASSUME NEW q \in Procs, "TERM" \in pend[q] \cup lost[q]
          PROVE  "TERM" \in pend'[q] \cup lost'[q]
      <4>1. /\ pend \in [Procs -> SUBSET Signals] /\ lost \in [Procs -> SUBSET Signals]
            /\ pend' = [pend EXCEPT ![p] = pend[p] \ {s}]
            /\ lost' = [lost EXCEPT ![p] = lost[p] \cup ({s} \cap {"TERM"})]
        BY <2>23 DEF Drop, IInv, Types
      <4>2. CASE q # p
        BY <3>1, <4>1, <4>2
      <4>3. CASE q = p /\ s = "TERM"
        BY <4>1, <4>3
      <4>4. CASE q = p /\ s # "TERM"
        <5>1. pend'[p] = pend[p] \ {s} /\ lost[p] \subseteq lost'[p]
          BY <4>1
        <5> QED BY <3>1, <4>4, <5>1
      <4> QED BY <4>2, <4>3, <4>4
    <3>2. UNCHANGED <<life, serve, sig, state, ignored>>
      BY <2>23 DEF Drop, procVars
    <3> QED BY <3>1, <3>2 DEF IInv, ParentIsTold, Told, Alive
  <2>24. CASE Collect(p)
    BY <2>24 DEF Collect, CloseFds, ResetBacklog, procVars, histVars, IInv,
       Types, Serves, Handles, Fresh, Chain, ParentIsTold, Told, Alive
  <2> QED
    BY <1>1, <2>1, <2>2, <2>3, <2>4, <2>5, <2>6, <2>7, <2>8, <2>9, <2>10,
       <2>11, <2>12, <2>13, <2>14, <2>15, <2>16, <2>17, <2>18, <2>19, <2>20,
       <2>21, <2>22, <2>23, <2>24
    DEF ServeSteps, HandSteps, SignalSteps
<1>2. ASSUME NEW p \in Procs, NEW s \in Signals, Operator(p, s)
      PROVE  ParentIsTold'
  BY <1>2 DEF Operator, procVars, fdVars, IInv, Types, Serves, Handles, Fresh,
     Chain, ParentIsTold, Told, Alive
<1>3. ASSUME NEW c \in Conns, Connect(c) \/ Finish(c) \/ \E p \in Procs : Accept(p, c)
      PROVE  ParentIsTold'
  <2>1. CASE Connect(c)
    BY <2>1 DEF Connect, procVars, fdVars, histVars, IInv, Types, Serves,
       Handles, Fresh, Chain, ParentIsTold, Told, Alive
  <2>2. CASE Finish(c)
    BY <2>2 DEF Finish, procVars, fdVars, histVars, IInv, Types, Serves,
       Handles, Fresh, Chain, ParentIsTold, Told, Alive
  <2>3. CASE \E p \in Procs : Accept(p, c)
    BY <2>3 DEF Accept, Serve, procVars, fdVars, histVars, IInv, Types, Serves,
       Handles, Fresh, Chain, ParentIsTold, Told, Alive
  <2> QED BY <1>3, <2>1, <2>2, <2>3
<1> QED BY <1>1, <1>2, <1>3 DEF Next

(* Until the operator asks for a stop, only a child past telling sends one. *)
LEMMA HandedNext ==
  ASSUME IInv, Types', Next
  PROVE  Handed'
<1>1. ASSUME NEW p \in Procs,
             \/ ServeSteps(p) \/ HandSteps(p) \/ SignalSteps(p)
             \/ ServeFails(p) \/ Collect(p)
      PROVE  Handed'
  <2>1. CASE Begin(p)
    BY <2>1 DEF Begin, Serve, Alive, ServeTo, HandTo, fdVars, histVars, IInv,
       Types, Serves, Handles, Fresh, Handed, StopSeen, Past
  <2>2. CASE Listen(p)
    BY <2>2 DEF Listen, Serve, Alive, ServeTo, histVars, IInv, Types, Serves,
       Handles, Fresh, Handed, StopSeen, Past
  <2>3. CASE ListenFails(p)
    BY <2>3 DEF ListenFails, Serve, Alive, ServeTo, fdVars, histVars, IInv,
       Types, Serves, Handles, Fresh, Handed, StopSeen, Past
  <2>4. CASE TellParent(p)
    <3>1. p - 1 \in Procs /\ (p - 1) + 1 = p
      BY <2>4 DEF TellParent, Serve, Alive, ServeTo, fdVars, histVars
    <3>2. Past(p)'
      BY <2>4 DEF TellParent, Serve, Alive, ServeTo, fdVars, histVars, IInv,
         Types, Serves, Handles, Fresh, Handed, StopSeen, Past
    <3>3. \A q \in Procs \ {p - 1} : StopSeen(q)' => StopSeen(q)
      BY <2>4 DEF TellParent, Serve, Alive, ServeTo, fdVars, histVars, IInv,
         Types, Serves, Handles, Fresh, Handed, StopSeen, Past
    <3>4. \A q \in Procs : Past(q) => Past(q)'
      BY <2>4 DEF TellParent, Serve, Alive, ServeTo, fdVars, histVars, IInv,
         Types, Serves, Handles, Fresh, Handed, StopSeen, Past
    <3> QED
      BY <2>4, <3>1, <3>2, <3>3, <3>4 DEF TellParent, histVars, IInv, Handed,
         Past
  <2>5. CASE TellInit(p)
    BY <2>5 DEF TellInit, Serve, Alive, ServeTo, fdVars, histVars, IInv, Types,
       Serves, Handles, Fresh, Handed, StopSeen, Past
  <2>6. CASE SetRunning(p)
    BY <2>6 DEF SetRunning, Serve, Alive, ServeTo, fdVars, histVars, IInv,
       Types, Serves, Handles, Fresh, Handed, StopSeen, Past
  <2>7. CASE StartServe(p)
    BY <2>7 DEF StartServe, Serve, Alive, ServeTo, CloseFds, ResetBacklog,
       histVars, IInv, Types, Serves, Handles, Fresh, Handed, StopSeen, Past
  <2>8. CASE ServerClosed(p)
    BY <2>8 DEF ServerClosed, Serve, Alive, ServeTo, fdVars, histVars, IInv,
       Types, Serves, Handles, Fresh, Handed, StopSeen, Past
  <2>9. CASE Terminal(p)
    BY <2>9 DEF Terminal, Serve, Alive, ServeTo, HandTo, fdVars, histVars,
       IInv, Types, Serves, Handles, Fresh, Handed, StopSeen, Past
  <2>10. CASE Exit(p)
    BY <2>10 DEF Exit, Serve, Alive, Gone, CloseFds, ResetBacklog, InFlight,
       histVars, IInv, Types, Serves, Handles, Fresh, Handed, StopSeen, Past
  <2>11. CASE ServeFails(p)
    BY <2>11 DEF ServeFails, Serve, Alive, ServeTo, CloseFds, ResetBacklog,
       histVars, IInv, Types, Serves, Handles, Fresh, Handed, StopSeen, Past
  <2>12. CASE Notify(p)
    BY <2>12 DEF Notify, Hand, Alive, HandTo, fdVars, histVars, IInv, Types,
       Serves, Handles, Fresh, Handed, StopSeen, Past
  <2>13. CASE PostHooks(p)
    BY <2>13 DEF PostHooks, Hand, Alive, HandTo, fdVars, histVars, IInv, Types,
       Serves, Handles, Fresh, Handed, StopSeen, Past
  <2>14. CASE ForkAgain(p)
    BY <2>14 DEF ForkAgain, Hand, Alive, HandTo, fdVars, histVars, IInv, Types,
       Serves, Handles, Fresh, Handed, StopSeen, Past
  <2>15. CASE ForkPanics(p)
    BY <2>15 DEF ForkPanics, Hand, Alive, Gone, CloseFds, ResetBacklog,
       InFlight, histVars, IInv, Types, Serves, Handles, Fresh, Handed,
       StopSeen, Past
  <2>16. CASE Fork(p)
    BY <2>16 DEF Fork, Hand, Alive, HandTo, histVars, IInv, Types, Serves,
       Handles, Fresh, Handed, StopSeen, Past
  <2>17. CASE Shutdown(p)
    BY <2>17 DEF Shutdown, Hand, Alive, HandTo, fdVars, IInv, Types, Serves,
       Handles, Fresh, Handed, StopSeen, Past
  <2>18. CASE CloseListener(p)
    BY <2>18 DEF CloseListener, Hand, Alive, HandTo, CloseFds, ResetBacklog,
       histVars, IInv, Types, Serves, Handles, Fresh, Handed, StopSeen, Past
  <2>19. CASE Drained(p)
    BY <2>19 DEF Drained, Hand, Alive, HandTo, InFlight, fdVars, histVars,
       IInv, Types, Serves, Handles, Fresh, Handed, StopSeen, Past
  <2>20. CASE Timeout(p)
    BY <2>20 DEF Timeout, Hand, Alive, HandTo, InFlight, fdVars, histVars,
       IInv, Types, Serves, Handles, Fresh, Handed, StopSeen, Past
  <2>21. CASE KilledBy(p)
    BY <2>21 DEF KilledBy, Alive, Gone, CloseFds, ResetBacklog, InFlight,
       histVars, IInv, Types, Serves, Handles, Fresh, Handed, StopSeen, Past
  <2>22. ASSUME NEW s \in Signals, Receive(p, s)
       PROVE  Handed'
    BY <2>22 DEF Receive, Hand, Alive, HandTo, fdVars, histVars, IInv, Types,
       Serves, Handles, Fresh, Handed, StopSeen, Past
  <2>23. ASSUME NEW s \in Signals, Drop(p, s)
       PROVE  Handed'
    BY <2>23 DEF Drop, Alive, procVars, fdVars, IInv, Types, Serves, Handles,
       Fresh, Handed, StopSeen, Past
  <2>24. CASE Collect(p)
    BY <2>24 DEF Collect, CloseFds, ResetBacklog, procVars, histVars, Alive,
       IInv, Types, Serves, Handles, Fresh, Handed, StopSeen, Past
  <2> QED
    BY <1>1, <2>1, <2>2, <2>3, <2>4, <2>5, <2>6, <2>7, <2>8, <2>9, <2>10,
       <2>11, <2>12, <2>13, <2>14, <2>15, <2>16, <2>17, <2>18, <2>19, <2>20,
       <2>21, <2>22, <2>23, <2>24
    DEF ServeSteps, HandSteps, SignalSteps
<1>2. ASSUME NEW p \in Procs, NEW s \in Signals, Operator(p, s)
      PROVE  Handed'
  <2>1. CASE s \in Stops
    BY <1>2, <2>1 DEF Operator, Alive, procVars, fdVars, IInv, Types, Handed
  <2>2. CASE s = "HUP"
    <3>1. \A q \in Procs : pend'[q] \cap Stops = pend[q] \cap Stops
      BY <1>2, <2>2 DEF Operator, Alive, procVars, fdVars, IInv, Types
    <3> QED
      BY <1>2, <2>2, <3>1 DEF Operator, Alive, procVars, fdVars, IInv, Types,
         Handed, StopSeen, Past
  <2> QED BY <2>1, <2>2
<1>3. ASSUME NEW c \in Conns, Connect(c) \/ Finish(c) \/ \E p \in Procs : Accept(p, c)
      PROVE  Handed'
  <2>1. CASE Connect(c)
    BY <2>1 DEF Connect, procVars, fdVars, histVars, IInv, Types, Serves,
       Handles, Fresh, Handed, StopSeen, Past
  <2>2. CASE Finish(c)
    BY <2>2 DEF Finish, procVars, fdVars, histVars, IInv, Types, Serves,
       Handles, Fresh, Handed, StopSeen, Past
  <2>3. CASE \E p \in Procs : Accept(p, c)
    BY <2>3 DEF Accept, Serve, Alive, procVars, fdVars, histVars, IInv, Types,
       Serves, Handles, Fresh, Handed, StopSeen, Past
  <2> QED BY <1>3, <2>1, <2>2, <2>3
<1> QED BY <1>1, <1>2, <1>3 DEF Next

(* Only a process that goes cuts requests. *)
LEMMA CutNext ==
  ASSUME IInv, Next
  PROVE  Cut
<1>1. ASSUME NEW p \in Procs,
             \/ ServeSteps(p) \/ HandSteps(p) \/ SignalSteps(p)
             \/ ServeFails(p) \/ Collect(p)
      PROVE  Cut
  <2>1. CASE Begin(p)
    BY <2>1 DEF Begin, Serve, Alive, ServeTo, HandTo, fdVars, histVars, IInv,
       Types, Drains, InFlight, Cut
  <2>2. CASE Listen(p)
    BY <2>2 DEF Listen, Serve, Alive, ServeTo, histVars, IInv, Types, Drains,
       InFlight, Cut
  <2>3. CASE ListenFails(p)
    BY <2>3 DEF ListenFails, Serve, Alive, ServeTo, fdVars, histVars, IInv,
       Types, Drains, InFlight, Cut
  <2>4. CASE TellParent(p)
    BY <2>4 DEF TellParent, Serve, Alive, ServeTo, fdVars, histVars, IInv,
       Types, Drains, InFlight, Cut
  <2>5. CASE TellInit(p)
    BY <2>5 DEF TellInit, Serve, Alive, ServeTo, fdVars, histVars, IInv, Types,
       Drains, InFlight, Cut
  <2>6. CASE SetRunning(p)
    BY <2>6 DEF SetRunning, Serve, Alive, ServeTo, fdVars, histVars, IInv,
       Types, Drains, InFlight, Cut
  <2>7. CASE StartServe(p)
    BY <2>7 DEF StartServe, Serve, Alive, ServeTo, CloseFds, ResetBacklog,
       histVars, IInv, Types, Drains, InFlight, Cut
  <2>8. CASE ServerClosed(p)
    BY <2>8 DEF ServerClosed, Serve, Alive, ServeTo, fdVars, histVars, IInv,
       Types, Drains, InFlight, Cut
  <2>9. CASE Terminal(p)
    BY <2>9 DEF Terminal, Serve, Alive, ServeTo, HandTo, fdVars, histVars,
       IInv, Types, Drains, InFlight, Cut
  <2>10. CASE Exit(p)
    BY <2>10 DEF Exit, Serve, Alive, Gone, CloseFds, ResetBacklog, histVars,
       IInv, Types, Drains, InFlight, Cut
  <2>11. CASE ServeFails(p)
    BY <2>11 DEF ServeFails, Serve, Alive, ServeTo, CloseFds, ResetBacklog,
       histVars, IInv, Types, Drains, InFlight, Cut
  <2>12. CASE Notify(p)
    BY <2>12 DEF Notify, Hand, Alive, HandTo, fdVars, histVars, IInv, Types,
       Drains, InFlight, Cut
  <2>13. CASE PostHooks(p)
    BY <2>13 DEF PostHooks, Hand, Alive, HandTo, fdVars, histVars, IInv, Types,
       Drains, InFlight, Cut
  <2>14. CASE ForkAgain(p)
    BY <2>14 DEF ForkAgain, Hand, Alive, HandTo, fdVars, histVars, IInv, Types,
       Drains, InFlight, Cut
  <2>15. CASE ForkPanics(p)
    BY <2>15 DEF ForkPanics, Hand, Alive, Gone, CloseFds, ResetBacklog,
       histVars, IInv, Types, Drains, InFlight, Cut
  <2>16. CASE Fork(p)
    BY <2>16 DEF Fork, Hand, Alive, HandTo, histVars, IInv, Types, Drains,
       InFlight, Cut
  <2>17. CASE Shutdown(p)
    BY <2>17 DEF Shutdown, Hand, Alive, HandTo, fdVars, IInv, Types, Drains,
       InFlight, Cut
  <2>18. CASE CloseListener(p)
    BY <2>18 DEF CloseListener, Hand, Alive, HandTo, CloseFds, ResetBacklog,
       histVars, IInv, Types, Drains, InFlight, Cut
  <2>19. CASE Drained(p)
    BY <2>19 DEF Drained, Hand, Alive, HandTo, fdVars, histVars, IInv, Types,
       Drains, InFlight, Cut
  <2>20. CASE Timeout(p)
    BY <2>20 DEF Timeout, Hand, Alive, HandTo, fdVars, histVars, IInv, Types,
       Drains, InFlight, Cut
  <2>21. CASE KilledBy(p)
    BY <2>21 DEF KilledBy, Alive, Gone, CloseFds, ResetBacklog, histVars, IInv,
       Types, Drains, InFlight, Cut
  <2>22. ASSUME NEW s \in Signals, Receive(p, s)
       PROVE  Cut
    BY <2>22 DEF Receive, Hand, Alive, HandTo, fdVars, histVars, IInv, Types,
       Drains, InFlight, Cut
  <2>23. ASSUME NEW s \in Signals, Drop(p, s)
       PROVE  Cut
    BY <2>23 DEF Drop, Alive, procVars, fdVars, IInv, Types, Drains, InFlight,
       Cut
  <2>24. CASE Collect(p)
    BY <2>24 DEF Collect, CloseFds, ResetBacklog, procVars, histVars, Alive,
       IInv, Types, Drains, InFlight, Cut
  <2> QED
    BY <1>1, <2>1, <2>2, <2>3, <2>4, <2>5, <2>6, <2>7, <2>8, <2>9, <2>10,
       <2>11, <2>12, <2>13, <2>14, <2>15, <2>16, <2>17, <2>18, <2>19, <2>20,
       <2>21, <2>22, <2>23, <2>24
    DEF ServeSteps, HandSteps, SignalSteps
<1>2. ASSUME NEW p \in Procs, NEW s \in Signals, Operator(p, s)
      PROVE  Cut
  BY <1>2 DEF Operator, Alive, procVars, fdVars, IInv, Types, Drains, InFlight,
     Cut
<1>3. ASSUME NEW c \in Conns, Connect(c) \/ Finish(c) \/ \E p \in Procs : Accept(p, c)
      PROVE  Cut
  <2>1. CASE Connect(c)
    BY <2>1 DEF Connect, procVars, fdVars, histVars, IInv, Types, Drains,
       InFlight, Cut
  <2>2. CASE Finish(c)
    BY <2>2 DEF Finish, procVars, fdVars, histVars, IInv, Types, Drains,
       InFlight, Cut
  <2>3. CASE \E p \in Procs : Accept(p, c)
    BY <2>3 DEF Accept, Serve, Alive, procVars, fdVars, histVars, IInv, Types,
       Drains, InFlight, Cut
  <2> QED BY <1>3, <2>1, <2>2, <2>3
<1> QED BY <1>1, <1>2, <1>3 DEF Next

-----------------------------------------------------------------------------
LEMMA InitInv == Init => IInv
<1> SUFFICES ASSUME Init
             PROVE  IInv
  OBVIOUS
<1>1. Types
  <2>1. life \in [Procs -> {"unborn", "alive", "exited", "killed", "crashed"}]
    BY DEF Init
  <2>2. by \in [Conns -> 0..MaxProcs] /\ signals \in 0..MaxSignals
    BY DEF Init
  <2> QED BY <2>1, <2>2 DEF Init, NewState, Types
<1>2. \A p \in Procs : Fresh(p) /\ serve[p] = "init"
  BY DEF Init, NewState, Fresh
<1>3. \A p \in Procs : life[p] \in {"unborn", "alive"} /\ (p # 1 => life[p] = "unborn")
  BY DEF Init
<1>4. \A c \in Conns : conn[c] = "new"
  BY DEF Init
<1>5. \A p \in Procs : Serves(p) /\ Handles(p) /\ Drains(p)
  BY <1>2, <1>3, <1>4 DEF Serves, Handles, Drains, InFlight, Fresh
<1>6. Chain
  BY <1>3 DEF Chain
<1>7. ParentIsTold
  BY <1>2 DEF ParentIsTold
<1>8. Handed
  BY <1>2 DEF Handed, StopSeen, Fresh
<1> QED BY <1>1, <1>5, <1>6, <1>7, <1>8 DEF IInv

(* IInv is inductive. *)
LEMMA NextInv == IInv /\ [Next]_vars => IInv'
<1>1. ASSUME IInv, Next
      PROVE  IInv'
  <2>1. Types'
    BY <1>1, TypesNext DEF IInv
  <2> QED
    BY <1>1, <2>1, ServesNext, HandlesNext, DrainsNext, ChainNext, ParentIsToldNext,
       HandedNext DEF IInv
<1>2. ASSUME IInv, UNCHANGED vars
      PROVE  IInv'
  BY <1>2 DEF IInv, Types, Serves, Fresh, Handles, Drains, InFlight, Alive, Chain,
     ParentIsTold, Told, Handed, StopSeen, Past, vars, procVars, fdVars, histVars
<1> QED BY <1>1, <1>2

(* In a set of processes that is not empty one has no successor in it. *)
LEMMA LastExists ==
  ASSUME NEW S, S \subseteq Procs, S # {}
  PROVE  \E p \in S : p + 1 \notin S
<1> DEFINE R == OpToRel(<, Nat)
           T == {n \in Nat : MaxProcs - n \in S}
<1>1. T # {}
  <2>1. PICK p \in S : p \in 1..MaxProcs
    OBVIOUS
  <2>2. MaxProcs - p \in Nat /\ MaxProcs - (MaxProcs - p) = p
    BY <2>1
  <2>3. MaxProcs - p \in T
    BY <2>1, <2>2
  <2> QED BY <2>3
<1>2. PICK t \in T : \A u \in T : <<u, t>> \notin R
  <2>1. IsWellFoundedOn(R, Nat)
    BY NatLessThanWellFounded
  <2>2. T \subseteq Nat
    OBVIOUS
  <2> HIDE DEF R, T
  <2> QED BY <1>1, <2>1, <2>2, WFMin
<1>3. \A u \in T : ~(u < t)
  BY <1>2 DEF OpToRel
<1>4. MaxProcs - t \in S /\ t \in Nat /\ MaxProcs - t \in Procs
  OBVIOUS
<1>5. SUFFICES ASSUME (MaxProcs - t) + 1 \in S
               PROVE  FALSE
  BY <1>4
<1>6. t - 1 \in Nat /\ t - 1 < t /\ MaxProcs - (t - 1) = (MaxProcs - t) + 1
  BY <1>4, <1>5
<1>7. t - 1 \in T
  BY <1>5, <1>6
<1> QED BY <1>3, <1>6, <1>7

-----------------------------------------------------------------------------
(* The state of every process, connection and signal keeps to its type. *)
THEOREM SpecTypeOK == Spec => []TypeOK
<1>1. IInv => TypeOK
  BY DEF IInv, Types, TypeOK
<1> QED BY InitInv, NextInv, <1>1, PTL DEF Spec

(* ListenAndServe of a child tells the parent before it serves: the        *)
(* SIGTERM is on its way or was taken, unless it was dropped or found the  *)
(* parent not running.                                                     *)
THEOREM SpecParentIsTold == Spec => []ParentIsTold
<1>1. IInv => ParentIsTold
  BY DEF IInv
<1> QED BY InitInv, NextInv, <1>1, PTL DEF Spec

(* fork, getListener and shutdown: however many restarts follow each other *)
(* and overlap, and until the operator stops the server, some process has  *)
(* the listener open.  Not so under TLS, where a SIGHUP is a crash.        *)
THEOREM SpecAlwaysListening == ~TLS => (Spec => []AlwaysListening)
<1> SUFFICES ASSUME ~TLS
             PROVE  Spec => []AlwaysListening
  OBVIOUS
<1>1. ASSUME IInv
      PROVE  AlwaysListening
  <2>1. SUFFICES ASSUME ln[1], ~stopped, Undisturbed
                 PROVE  \E p \in Procs :
                          Alive(p) /\ lnOpen[p] /\ ~inShutdown[p]
                          /\ serve[p] \in {"tell", "running", "serve", "accepting"}
    BY DEF AlwaysListening
  <2> DEFINE S == {p \in Procs : ln[p]}
  <2>2. PICK p \in Procs : ln[p] /\ p + 1 \notin S
    <3>1. 1 \in S /\ S \subseteq Procs
      BY <2>1
    <3>2. PICK p \in S : p + 1 \notin S
      BY <3>1, LastExists
    <3> QED BY <3>2
  <2>3. ~StopSeen(p)
    BY <1>1, <2>1, <2>2 DEF IInv, Handed, Past
  <2>4. serve[p] \in {"tell", "running", "serve", "accepting"} /\ ~inShutdown[p]
    BY <1>1, <2>1, <2>2, <2>3 DEF IInv, Types, Serves, StopSeen, Undisturbed
  <2>5. Alive(p)
    BY <1>1, <2>1, <2>2, <2>4 DEF IInv, Types, Serves, Fresh, Undisturbed, Alive
  <2>6. lnOpen[p]
    BY <1>1, <2>2, <2>4, <2>5 DEF IInv, Serves
  <2> QED BY <2>2, <2>4, <2>5, <2>6
<1> QED BY InitInv, NextInv, <1>1, PTL DEF Spec

(* shutdown and ListenAndServe: the program waits for Shutdown, so that a  *)
(* process that exits cuts no request unless the time was up or the accept *)
(* failed.                                                                 *)
THEOREM SpecCutOnlyByTimeout == Spec => CutOnlyByTimeout
<1>1. IInv /\ [Next]_vars => [Cut]_vars
  BY CutNext
<1> QED BY InitInv, NextInv, <1>1, PTL DEF Spec, CutOnlyByTimeout, Cut
=============================================================================
