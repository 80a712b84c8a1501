------------------------- MODULE AsyncLog_proofs -------------------------
(***************************************************************************)
(* Proofs about AsyncLog, for any writers, adapters, messages and capacity *)
(* of msgChan: the protocol of Flush and startLogger when one goroutine    *)
(* flushes and Async and Reset come before anyone logs (IInv), the types   *)
(* in any case, and under the same conditions as the protocol that the     *)
(* logger implements LogService (ServiceInv).                              *)
(*                                                                         *)
(* FlushProtocol relates the WaitGroup to where the flusher and the logger *)
(* are.  It needs to know which goroutine can be where: Places says of the *)
(* configuration that Async is over before anyone logs, of the logger that *)
(* it runs from then on, and of the callers that only they drain that find *)
(* a synchronous logger.                                                   *)
(***************************************************************************)
EXTENDS AsyncLog, TLAPS

USE AsyncLogAssumption DEF Goroutines

Types ==
  /\ asynchronous \in BOOLEAN /\ pool \in BOOLEAN /\ started \in BOOLEAN
  /\ wg \in Nat /\ signalChan \in {<<>>, <<"flush">>}
  /\ pc \in [Goroutines -> PCs]
  /\ ret \in [Goroutines -> {"idle", "select", "drain"}]

(* Nobody logs before the application starts the goroutines that do. *)
Before ==
  ~started => /\ msgChan = <<>> /\ signalChan = <<>>
              /\ \A w \in Writers : pc[w] = "idle"
              /\ pc[Logger] \in {"off", "select"}

(* The goroutine that configures; pool is made before Async is over. *)
Configuring ==
  /\ pc[Main] \in {"idle", "setLogger", "delLogger", "async", "go",
                   "drain", "drained", "reset"}
  /\ started => pc[Main] \in {"idle", "setLogger", "delLogger"}
  /\ pc[Main] \in {"async", "go"} => asynchronous /\ pc[Logger] = "off"
  /\ pc[Main] = "go" => pool
  /\ asynchronous /\ pc[Main] \notin {"async", "go"} => pool /\ pc[Logger] # "off"
  /\ ~asynchronous => pc[Logger] = "off"

LoggerPlaces ==
  /\ pc[Logger] \in {"off", "select", "drain", "take", "drained", "range", "loop"}
  /\ pc[Logger] \in {"range", "loop"} => ret[Logger] \in {"select", "drain"}
  /\ pc[Logger] = "off" => wg = 0 /\ signalChan = <<>>

WriterPlaces ==
  \A w \in Writers :
    /\ pc[w] \in {"idle", "default", "mode", "outputs", "send", "range", "loop", "drain",
                  "drained", "signal", "wait", "asleep", "woken", "add"}
    /\ ret[w] = "idle"
    /\ pc[w] \in {"outputs", "send", "signal", "wait", "asleep", "woken", "add"}
         => asynchronous
    /\ pc[w] \in {"drain", "drained"} => ~asynchronous
    /\ pc[w] \in {"drain", "drained", "signal", "wait", "asleep", "woken", "add"}
         => w \in Flushers

Places == Before /\ Configuring /\ LoggerPlaces /\ WriterPlaces

IInv == Types /\ Places /\ FlushProtocol /\ NoPanic

-----------------------------------------------------------------------------
(* Where every goroutine is, and the counters. *)
LEMMA TypesNext ==
  ASSUME IInv, Next
  PROVE  Types'
<1>1. ASSUME NEW w \in Writers, LogCall(w) \/ LogSteps(w)
      PROVE  Types'
  <2>1. CASE LogCall(w)
    BY <2>1 DEF LogCall, At, Goto, config, adapt, chans, IInv, Types, Places,
       WriterPlaces, PCs
  <2>2. CASE DefaultLogger(w)
    BY <2>2 DEF DefaultLogger, At, Goto, config, chans, locals, hist, IInv,
       Types, Places, WriterPlaces, PCs
  <2>3. CASE ReadMode(w)
    BY <2>3 DEF ReadMode, At, Goto, config, adapt, chans, hist, IInv, Types,
       Places, WriterPlaces, PCs
  <2>4. CASE ReadOutputs(w)
    BY <2>4 DEF ReadOutputs, At, Goto, config, adapt, chans, hist, IInv, Types,
       Places, WriterPlaces, PCs
  <2>5. CASE Send(w)
    BY <2>5 DEF Send, At, Goto, config, adapt, hist, IInv, Types, Places,
       WriterPlaces, PCs
  <2> QED BY <1>1, <2>1, <2>2, <2>3, <2>4, <2>5 DEF LogSteps
<1>2. ASSUME NEW f \in Flushers, FlushCall(f) \/ FlushSteps(f)
      PROVE  Types'
  <2>1. CASE FlushCall(f)
    BY <2>1 DEF FlushCall, At, Goto, config, adapt, chans, locals, IInv, Types,
       Places, WriterPlaces, PCs
  <2>2. CASE Signal(f)
    <3>1. signalChan' = <<"flush">>
      <4>1. Len(signalChan) < 1 /\ signalChan' = Append(signalChan, "flush")
        BY <2>2 DEF Signal
      <4>2. signalChan \in {<<>>, <<"flush">>}
        BY DEF IInv, Types
      <4>3. signalChan = <<>>
        BY <4>1, <4>2
      <4> QED BY <4>1, <4>3
    <3> QED
      BY <2>2, <3>1 DEF Signal, At, Goto, config, adapt, locals, hist, IInv,
         Types, Places, WriterPlaces, PCs
  <2>3. CASE Wait(f)
    BY <2>3 DEF Wait, At, Goto, config, adapt, chans, locals, hist, IInv,
       Types, Places, WriterPlaces, PCs
  <2>4. CASE WakeUp(f)
    BY <2>4 DEF WakeUp, At, Goto, config, adapt, chans, locals, hist, IInv,
       Types, Places, WriterPlaces, PCs
  <2>5. CASE AddOne(f)
    BY <2>5 DEF AddOne, At, Goto, config, adapt, locals, IInv, Types, Places,
       WriterPlaces, PCs
  <2>6. CASE FlushSync(f)
    BY <2>6 DEF FlushSync, At, Goto, config, adapt, chans, locals, IInv, Types,
       Places, WriterPlaces, PCs
  <2> QED BY <1>2, <2>1, <2>2, <2>3, <2>4, <2>5, <2>6 DEF FlushSteps
<1>3. ASSUME NEW g \in Goroutines, Work(g)
      PROVE  Types'
  <2>1. CASE RangeOutputs(g)
    BY <2>1 DEF RangeOutputs, At, Goto, config, adapt, chans, hist, IInv,
       Types, Places, WriterPlaces, PCs
  <2>2. CASE WriteOne(g)
    BY <2>2 DEF WriteOne, At, config, adapt, chans, IInv, Types, Places,
       WriterPlaces, PCs
  <2>3. CASE WriteEnd(g)
    BY <2>3 DEF WriteEnd, At, Goto, config, adapt, chans, hist, IInv, Types,
       Places, WriterPlaces, PCs
  <2>4. CASE TestLen(g)
    BY <2>4 DEF TestLen, At, Goto, config, adapt, chans, locals, hist, IInv,
       Types, Places, WriterPlaces, PCs
  <2>5. CASE Take(g)
    BY <2>5 DEF Take, At, Goto, Receive, config, adapt, hist, IInv, Types,
       Places, WriterPlaces, PCs
  <2> QED BY <1>3, <2>1, <2>2, <2>3, <2>4, <2>5 DEF Work
<1>4. ASSUME LoggerSteps
      PROVE  Types'
  <2>1. CASE SelectMessage
    BY <2>1 DEF SelectMessage, At, Goto, Receive, config, adapt, hist, IInv,
       Types, Places, WriterPlaces, PCs
  <2>2. CASE SelectSignal
    <3>1. signalChan' = <<>>
      <4>1. signalChan' = Tail(<<"flush">>)
        BY <2>2 DEF SelectSignal, At, Goto, config, adapt, locals, hist, IInv,
           Types
      <4> QED BY <4>1
    <3> QED
      BY <2>2, <3>1 DEF SelectSignal, At, Goto, config, adapt, locals, hist,
         IInv, Types, Places, WriterPlaces, PCs
  <2>3. CASE Done
    BY <2>3 DEF Done, At, config, adapt, locals, hist, IInv, Types, Places,
       WriterPlaces, PCs
  <2> QED BY <1>4, <2>1, <2>2, <2>3 DEF LoggerSteps
<1>5. ASSUME MainCalls \/ MainSteps
      PROVE  Types'
  <2>1. CASE Start
    BY <2>1 DEF Start, At, adapt, chans, locals, hist, IInv, Types, Places,
       WriterPlaces, PCs
  <2>2. CASE SetLoggerCall
    BY <2>2 DEF SetLoggerCall, At, Goto, chans, locals, hist, IInv, Types,
       Places, WriterPlaces, PCs
  <2>3. CASE DelLoggerCall
    BY <2>3 DEF DelLoggerCall, At, Goto, chans, hist, IInv, Types, Places,
       WriterPlaces, PCs
  <2>4. CASE AsyncCall
    BY <2>4 DEF AsyncCall, At, Goto, Setup, adapt, chans, locals, hist, IInv,
       Types, Places, WriterPlaces, PCs
  <2>5. CASE ResetCall
    BY <2>5 DEF ResetCall, At, Goto, Setup, config, adapt, chans, locals, hist,
       IInv, Types, Places, WriterPlaces, PCs
  <2>6. CASE SetLogger
    BY <2>6 DEF SetLogger, At, Goto, chans, locals, hist, IInv, Types, Places,
       WriterPlaces, PCs
  <2>7. CASE DelLogger
    BY <2>7 DEF DelLogger, At, Goto, chans, hist, IInv, Types, Places,
       WriterPlaces, PCs
  <2>8. CASE MakeChan
    BY <2>8 DEF MakeChan, At, Goto, adapt, chans, locals, hist, IInv, Types,
       Places, WriterPlaces, PCs
  <2>9. CASE GoLogger
    BY <2>9 DEF GoLogger, At, adapt, locals, hist, IInv, Types, Places,
       WriterPlaces, PCs
  <2>10. CASE ResetDestroy
    BY <2>10 DEF ResetDestroy, At, Goto, config, chans, locals, hist, IInv,
       Types, Places, WriterPlaces, PCs
  <2>11. CASE ResetNil
    BY <2>11 DEF ResetNil, At, Goto, config, chans, locals, hist, IInv, Types,
       Places, WriterPlaces, PCs
  <2> QED BY <1>5, <2>1, <2>2, <2>3, <2>4, <2>5, <2>6, <2>7, <2>8, <2>9, <2>10,
     <2>11 DEF MainCalls, MainSteps
<1> QED BY <1>1, <1>2, <1>3, <1>4, <1>5 DEF Next

(* Before the application starts its goroutines. *)
LEMMA BeforeNext ==
  ASSUME Quiet, IInv, Types', Next
  PROVE  Before'
<1>1. ASSUME NEW w \in Writers, LogCall(w) \/ LogSteps(w)
      PROVE  Before'
  <2>1. CASE LogCall(w)
    BY <2>1 DEF LogCall, At, Goto, config, adapt, chans, IInv, Types, Places,
       Before, Configuring, PCs
  <2>2. CASE DefaultLogger(w)
    BY <2>2 DEF DefaultLogger, At, Goto, config, chans, locals, hist, IInv,
       Types, Places, Before, Configuring, PCs
  <2>3. CASE ReadMode(w)
    BY <2>3 DEF ReadMode, At, Goto, config, adapt, chans, hist, IInv, Types,
       Places, Before, Configuring, PCs
  <2>4. CASE ReadOutputs(w)
    BY <2>4 DEF ReadOutputs, At, Goto, config, adapt, chans, hist, IInv, Types,
       Places, Before, Configuring, PCs
  <2>5. CASE Send(w)
    BY <2>5 DEF Send, At, Goto, config, adapt, hist, IInv, Types, Places,
       Before, Configuring, PCs
  <2> QED BY <1>1, <2>1, <2>2, <2>3, <2>4, <2>5 DEF LogSteps
<1>2. ASSUME NEW f \in Flushers, FlushCall(f) \/ FlushSteps(f)
      PROVE  Before'
  <2>1. CASE FlushCall(f)
    BY <2>1 DEF FlushCall, At, Goto, config, adapt, chans, locals, IInv, Types,
       Places, Before, Configuring, PCs
  <2>2. CASE Signal(f)
    BY <2>2 DEF Signal, At, Goto, config, adapt, locals, hist, IInv, Types,
       Places, Before, Configuring, PCs
  <2>3. CASE Wait(f)
    BY <2>3 DEF Wait, At, Goto, config, adapt, chans, locals, hist, IInv,
       Types, Places, Before, Configuring, PCs
  <2>4. CASE WakeUp(f)
    BY <2>4 DEF WakeUp, At, Goto, config, adapt, chans, locals, hist, IInv,
       Types, Places, Before, Configuring, PCs
  <2>5. CASE AddOne(f)
    BY <2>5 DEF AddOne, At, Goto, config, adapt, locals, IInv, Types, Places,
       Before, Configuring, PCs
  <2>6. CASE FlushSync(f)
    BY <2>6 DEF FlushSync, At, Goto, config, adapt, chans, locals, IInv, Types,
       Places, Before, Configuring, PCs
  <2> QED BY <1>2, <2>1, <2>2, <2>3, <2>4, <2>5, <2>6 DEF FlushSteps
<1>3. ASSUME NEW g \in Goroutines, Work(g)
      PROVE  Before'
  <2>1. CASE RangeOutputs(g)
    BY <2>1 DEF RangeOutputs, At, Goto, config, adapt, chans, hist, IInv,
       Types, Places, Before, Configuring, PCs
  <2>2. CASE WriteOne(g)
    BY <2>2 DEF WriteOne, At, config, adapt, chans, IInv, Types, Places,
       Before, Configuring, PCs
  <2>3. CASE WriteEnd(g)
    BY <2>3 DEF WriteEnd, At, Goto, config, adapt, chans, hist, IInv, Types,
       Places, Before, Configuring, PCs
  <2>4. CASE TestLen(g)
    BY <2>4 DEF TestLen, At, Goto, config, adapt, chans, locals, hist, IInv,
       Types, Places, Before, Configuring, PCs
  <2>5. CASE Take(g)
    BY <2>5 DEF Take, At, Goto, Receive, config, adapt, hist, IInv, Types,
       Places, Before, Configuring, PCs
  <2> QED BY <1>3, <2>1, <2>2, <2>3, <2>4, <2>5 DEF Work
<1>4. ASSUME LoggerSteps
      PROVE  Before'
  <2>1. CASE SelectMessage
    BY <2>1 DEF SelectMessage, At, Goto, Receive, config, adapt, hist, IInv,
       Types, Places, Before, Configuring, PCs
  <2>2. CASE SelectSignal
    BY <2>2 DEF SelectSignal, At, Goto, config, adapt, locals, hist, IInv,
       Types, Places, Before, Configuring, PCs
  <2>3. CASE Done
    BY <2>3 DEF Done, At, config, adapt, locals, hist, IInv, Types, Places,
       Before, Configuring, PCs
  <2> QED BY <1>4, <2>1, <2>2, <2>3 DEF LoggerSteps
<1>5. ASSUME MainCalls \/ MainSteps
      PROVE  Before'
  <2>1. CASE Start
    BY <2>1 DEF Start, At, adapt, chans, locals, hist, IInv, Types, Places,
       Before, Configuring, PCs
  <2>2. CASE SetLoggerCall
    BY <2>2 DEF SetLoggerCall, At, Goto, chans, locals, hist, IInv, Types,
       Places, Before, Configuring, PCs
  <2>3. CASE DelLoggerCall
    BY <2>3 DEF DelLoggerCall, At, Goto, chans, hist, IInv, Types, Places,
       Before, Configuring, PCs
  <2>4. CASE AsyncCall
    BY <2>4 DEF AsyncCall, At, Goto, Setup, adapt, chans, locals, hist, IInv,
       Types, Places, Before, Configuring, PCs
  <2>5. CASE ResetCall
    BY <2>5 DEF ResetCall, At, Goto, Setup, config, adapt, chans, locals, hist,
       IInv, Types, Places, Before, Configuring, PCs
  <2>6. CASE SetLogger
    BY <2>6 DEF SetLogger, At, Goto, chans, locals, hist, IInv, Types, Places,
       Before, Configuring, PCs
  <2>7. CASE DelLogger
    BY <2>7 DEF DelLogger, At, Goto, chans, hist, IInv, Types, Places, Before,
       Configuring, PCs
  <2>8. CASE MakeChan
    BY <2>8 DEF MakeChan, At, Goto, adapt, chans, locals, hist, IInv, Types,
       Places, Before, Configuring, PCs
  <2>9. CASE GoLogger
    BY <2>9 DEF GoLogger, At, adapt, locals, hist, IInv, Types, Places, Before,
       Configuring, PCs
  <2>10. CASE ResetDestroy
    BY <2>10 DEF ResetDestroy, At, Goto, config, chans, locals, hist, IInv,
       Types, Places, Before, Configuring, PCs
  <2>11. CASE ResetNil
    BY <2>11 DEF ResetNil, At, Goto, config, chans, locals, hist, IInv, Types,
       Places, Before, Configuring, PCs
  <2> QED BY <1>5, <2>1, <2>2, <2>3, <2>4, <2>5, <2>6, <2>7, <2>8, <2>9, <2>10,
     <2>11 DEF MainCalls, MainSteps
<1> QED BY <1>1, <1>2, <1>3, <1>4, <1>5 DEF Next

(* The goroutine that configures. *)
LEMMA ConfiguringNext ==
  ASSUME Quiet, IInv, Types', Next
  PROVE  Configuring'
<1>1. ASSUME NEW w \in Writers, LogCall(w) \/ LogSteps(w)
      PROVE  Configuring'
  <2>1. CASE LogCall(w)
    BY <2>1 DEF LogCall, At, Goto, config, adapt, chans, IInv, Types, Before,
       Configuring, LoggerPlaces, WriterPlaces, Places, Setup
  <2>2. CASE DefaultLogger(w)
    BY <2>2 DEF DefaultLogger, At, Goto, config, chans, locals, hist, IInv,
       Types, Before, Configuring, LoggerPlaces, WriterPlaces, Places, Setup
  <2>3. CASE ReadMode(w)
    BY <2>3 DEF ReadMode, At, Goto, config, adapt, chans, hist, IInv, Types,
       Before, Configuring, LoggerPlaces, WriterPlaces, Places, Setup
  <2>4. CASE ReadOutputs(w)
    BY <2>4 DEF ReadOutputs, At, Goto, config, adapt, chans, hist, IInv, Types,
       Before, Configuring, LoggerPlaces, WriterPlaces, Places, Setup
  <2>5. CASE Send(w)
    BY <2>5 DEF Send, At, Goto, config, adapt, hist, IInv, Types, Before,
       Configuring, LoggerPlaces, WriterPlaces, Places, Setup
  <2> QED BY <1>1, <2>1, <2>2, <2>3, <2>4, <2>5 DEF LogSteps
<1>2. ASSUME NEW f \in Flushers, FlushCall(f) \/ FlushSteps(f)
      PROVE  Configuring'
  <2>1. CASE FlushCall(f)
    BY <2>1 DEF FlushCall, At, Goto, config, adapt, chans, locals, IInv, Types,
       Before, Configuring, LoggerPlaces, WriterPlaces, Places, Setup
  <2>2. CASE Signal(f)
    BY <2>2 DEF Signal, At, Goto, config, adapt, locals, hist, IInv, Types,
       Before, Configuring, LoggerPlaces, WriterPlaces, Places, Setup
  <2>3. CASE Wait(f)
    BY <2>3 DEF Wait, At, Goto, config, adapt, chans, locals, hist, IInv,
       Types, Before, Configuring, LoggerPlaces, WriterPlaces, Places, Setup
  <2>4. CASE WakeUp(f)
    BY <2>4 DEF WakeUp, At, Goto, config, adapt, chans, locals, hist, IInv,
       Types, Before, Configuring, LoggerPlaces, WriterPlaces, Places, Setup
  <2>5. CASE AddOne(f)
    BY <2>5 DEF AddOne, At, Goto, config, adapt, locals, IInv, Types, Before,
       Configuring, LoggerPlaces, WriterPlaces, Places, Setup
  <2>6. CASE FlushSync(f)
    BY <2>6 DEF FlushSync, At, Goto, config, adapt, chans, locals, IInv, Types,
       Before, Configuring, LoggerPlaces, WriterPlaces, Places, Setup
  <2> QED BY <1>2, <2>1, <2>2, <2>3, <2>4, <2>5, <2>6 DEF FlushSteps
<1>3. ASSUME NEW g \in Goroutines, Work(g)
      PROVE  Configuring'
  <2>1. CASE RangeOutputs(g)
    BY <2>1 DEF RangeOutputs, At, Goto, config, adapt, chans, hist, IInv,
       Types, Before, Configuring, LoggerPlaces, WriterPlaces, Places, Setup
  <2>2. CASE WriteOne(g)
    BY <2>2 DEF WriteOne, At, config, adapt, chans, IInv, Types, Before,
       Configuring, LoggerPlaces, WriterPlaces, Places, Setup
  <2>3. CASE WriteEnd(g)
    BY <2>3 DEF WriteEnd, At, Goto, config, adapt, chans, hist, IInv, Types,
       Before, Configuring, LoggerPlaces, WriterPlaces, Places, Setup
  <2>4. CASE TestLen(g)
    BY <2>4 DEF TestLen, At, Goto, config, adapt, chans, locals, hist, IInv,
       Types, Before, Configuring, LoggerPlaces, WriterPlaces, Places, Setup
  <2>5. CASE Take(g)
    BY <2>5 DEF Take, At, Goto, Receive, config, adapt, hist, IInv, Types,
       Before, Configuring, LoggerPlaces, WriterPlaces, Places, Setup
  <2> QED BY <1>3, <2>1, <2>2, <2>3, <2>4, <2>5 DEF Work
<1>4. ASSUME LoggerSteps
      PROVE  Configuring'
  <2>1. CASE SelectMessage
    BY <2>1 DEF SelectMessage, At, Goto, Receive, config, adapt, hist, IInv,
       Types, Before, Configuring, LoggerPlaces, WriterPlaces, Places, Setup
  <2>2. CASE SelectSignal
    BY <2>2 DEF SelectSignal, At, Goto, config, adapt, locals, hist, IInv,
       Types, Before, Configuring, LoggerPlaces, WriterPlaces, Places, Setup
  <2>3. CASE Done
    BY <2>3 DEF Done, At, config, adapt, locals, hist, IInv, Types, Before,
       Configuring, LoggerPlaces, WriterPlaces, Places, Setup
  <2> QED BY <1>4, <2>1, <2>2, <2>3 DEF LoggerSteps
<1>5. ASSUME MainCalls \/ MainSteps
      PROVE  Configuring'
  <2>1. CASE Start
    BY <2>1 DEF Start, At, adapt, chans, locals, hist, IInv, Types, Before,
       Configuring, LoggerPlaces, WriterPlaces, Places, Setup
  <2>2. CASE SetLoggerCall
    BY <2>2 DEF SetLoggerCall, At, Goto, chans, locals, hist, IInv, Types,
       Before, Configuring, LoggerPlaces, WriterPlaces, Places, Setup
  <2>3. CASE DelLoggerCall
    BY <2>3 DEF DelLoggerCall, At, Goto, chans, hist, IInv, Types, Before,
       Configuring, LoggerPlaces, WriterPlaces, Places, Setup
  <2>4. CASE AsyncCall
    BY <2>4 DEF AsyncCall, At, Goto, adapt, chans, locals, hist, IInv, Types,
       Before, Configuring, LoggerPlaces, WriterPlaces, Places, Setup
  <2>5. CASE ResetCall
    BY <2>5 DEF ResetCall, At, Goto, config, adapt, chans, locals, hist, IInv,
       Types, Before, Configuring, LoggerPlaces, WriterPlaces, Places, Setup
  <2>6. CASE SetLogger
    BY <2>6 DEF SetLogger, At, Goto, chans, locals, hist, IInv, Types, Before,
       Configuring, LoggerPlaces, WriterPlaces, Places, Setup
  <2>7. CASE DelLogger
    BY <2>7 DEF DelLogger, At, Goto, chans, hist, IInv, Types, Before,
       Configuring, LoggerPlaces, WriterPlaces, Places, Setup
  <2>8. CASE MakeChan
    BY <2>8 DEF MakeChan, At, Goto, adapt, chans, locals, hist, IInv, Types,
       Before, Configuring, LoggerPlaces, WriterPlaces, Places, Setup
  <2>9. CASE GoLogger
    BY <2>9 DEF GoLogger, At, adapt, locals, hist, IInv, Types, Before,
       Configuring, LoggerPlaces, WriterPlaces, Places, Setup
  <2>10. CASE ResetDestroy
    BY <2>10 DEF ResetDestroy, At, Goto, config, chans, locals, hist, IInv,
       Types, Before, Configuring, LoggerPlaces, WriterPlaces, Places, Setup
  <2>11. CASE ResetNil
    BY <2>11 DEF ResetNil, At, Goto, config, chans, locals, hist, IInv, Types,
       Before, Configuring, LoggerPlaces, WriterPlaces, Places, Setup
  <2> QED BY <1>5, <2>1, <2>2, <2>3, <2>4, <2>5, <2>6, <2>7, <2>8, <2>9, <2>10,
     <2>11 DEF MainCalls, MainSteps
<1> QED BY <1>1, <1>2, <1>3, <1>4, <1>5 DEF Next

(* startLogger. *)
LEMMA LoggerPlacesNext ==
  ASSUME Quiet, IInv, Types', Next
  PROVE  LoggerPlaces'
<1>1. ASSUME NEW w \in Writers, LogCall(w) \/ LogSteps(w)
      PROVE  LoggerPlaces'
  <2>1. CASE LogCall(w)
    BY <2>1 DEF LogCall, At, Goto, config, adapt, chans, IInv, Types, Before,
       Configuring, LoggerPlaces, WriterPlaces, Places
  <2>2. CASE DefaultLogger(w)
    BY <2>2 DEF DefaultLogger, At, Goto, config, chans, locals, hist, IInv,
       Types, Before, Configuring, LoggerPlaces, WriterPlaces, Places
  <2>3. CASE ReadMode(w)
    BY <2>3 DEF ReadMode, At, Goto, config, adapt, chans, hist, IInv, Types,
       Before, Configuring, LoggerPlaces, WriterPlaces, Places
  <2>4. CASE ReadOutputs(w)
    BY <2>4 DEF ReadOutputs, At, Goto, config, adapt, chans, hist, IInv, Types,
       Before, Configuring, LoggerPlaces, WriterPlaces, Places
  <2>5. CASE Send(w)
    BY <2>5 DEF Send, At, Goto, config, adapt, hist, IInv, Types, Before,
       Configuring, LoggerPlaces, WriterPlaces, Places
  <2> QED BY <1>1, <2>1, <2>2, <2>3, <2>4, <2>5 DEF LogSteps
<1>2. ASSUME NEW f \in Flushers, FlushCall(f) \/ FlushSteps(f)
      PROVE  LoggerPlaces'
  <2>1. CASE FlushCall(f)
    BY <2>1 DEF FlushCall, At, Goto, config, adapt, chans, locals, IInv, Types,
       Before, Configuring, LoggerPlaces, WriterPlaces, Places
  <2>2. CASE Signal(f)
    BY <2>2 DEF Signal, At, Goto, config, adapt, locals, hist, IInv, Types,
       Before, Configuring, LoggerPlaces, WriterPlaces, Places
  <2>3. CASE Wait(f)
    BY <2>3 DEF Wait, At, Goto, config, adapt, chans, locals, hist, IInv,
       Types, Before, Configuring, LoggerPlaces, WriterPlaces, Places
  <2>4. CASE WakeUp(f)
    BY <2>4 DEF WakeUp, At, Goto, config, adapt, chans, locals, hist, IInv,
       Types, Before, Configuring, LoggerPlaces, WriterPlaces, Places
  <2>5. CASE AddOne(f)
    BY <2>5 DEF AddOne, At, Goto, config, adapt, locals, IInv, Types, Before,
       Configuring, LoggerPlaces, WriterPlaces, Places
  <2>6. CASE FlushSync(f)
    BY <2>6 DEF FlushSync, At, Goto, config, adapt, chans, locals, IInv, Types,
       Before, Configuring, LoggerPlaces, WriterPlaces, Places
  <2> QED BY <1>2, <2>1, <2>2, <2>3, <2>4, <2>5, <2>6 DEF FlushSteps
<1>3. ASSUME NEW g \in Goroutines, Work(g)
      PROVE  LoggerPlaces'
  <2>1. CASE RangeOutputs(g)
    BY <2>1 DEF RangeOutputs, At, Goto, config, adapt, chans, hist, IInv,
       Types, Before, Configuring, LoggerPlaces, WriterPlaces, Places
  <2>2. CASE WriteOne(g)
    BY <2>2 DEF WriteOne, At, config, adapt, chans, IInv, Types, Before,
       Configuring, LoggerPlaces, WriterPlaces, Places
  <2>3. CASE WriteEnd(g)
    BY <2>3 DEF WriteEnd, At, Goto, config, adapt, chans, hist, IInv, Types,
       Before, Configuring, LoggerPlaces, WriterPlaces, Places
  <2>4. CASE TestLen(g)
    BY <2>4 DEF TestLen, At, Goto, config, adapt, chans, locals, hist, IInv,
       Types, Before, Configuring, LoggerPlaces, WriterPlaces, Places
  <2>5. CASE Take(g)
    BY <2>5 DEF Take, At, Goto, Receive, config, adapt, hist, IInv, Types,
       Before, Configuring, LoggerPlaces, WriterPlaces, Places
  <2> QED BY <1>3, <2>1, <2>2, <2>3, <2>4, <2>5 DEF Work
<1>4. ASSUME LoggerSteps
      PROVE  LoggerPlaces'
  <2>1. CASE SelectMessage
    BY <2>1 DEF SelectMessage, At, Goto, Receive, config, adapt, hist, IInv,
       Types, Before, Configuring, LoggerPlaces, WriterPlaces, Places
  <2>2. CASE SelectSignal
    BY <2>2 DEF SelectSignal, At, Goto, config, adapt, locals, hist, IInv,
       Types, Before, Configuring, LoggerPlaces, WriterPlaces, Places
  <2>3. CASE Done
    BY <2>3 DEF Done, At, config, adapt, locals, hist, IInv, Types, Before,
       Configuring, LoggerPlaces, WriterPlaces, Places
  <2> QED BY <1>4, <2>1, <2>2, <2>3 DEF LoggerSteps
<1>5. ASSUME MainCalls \/ MainSteps
      PROVE  LoggerPlaces'
  <2>1. CASE Start
    BY <2>1 DEF Start, At, adapt, chans, locals, hist, IInv, Types, Before,
       Configuring, LoggerPlaces, WriterPlaces, Places
  <2>2. CASE SetLoggerCall
    BY <2>2 DEF SetLoggerCall, At, Goto, chans, locals, hist, IInv, Types,
       Before, Configuring, LoggerPlaces, WriterPlaces, Places
  <2>3. CASE DelLoggerCall
    BY <2>3 DEF DelLoggerCall, At, Goto, chans, hist, IInv, Types, Before,
       Configuring, LoggerPlaces, WriterPlaces, Places
  <2>4. CASE AsyncCall
    BY <2>4 DEF AsyncCall, At, Goto, Setup, adapt, chans, locals, hist, IInv,
       Types, Before, Configuring, LoggerPlaces, WriterPlaces, Places
  <2>5. CASE ResetCall
    BY <2>5 DEF ResetCall, At, Goto, Setup, config, adapt, chans, locals, hist,
       IInv, Types, Before, Configuring, LoggerPlaces, WriterPlaces, Places
  <2>6. CASE SetLogger
    BY <2>6 DEF SetLogger, At, Goto, chans, locals, hist, IInv, Types, Before,
       Configuring, LoggerPlaces, WriterPlaces, Places
  <2>7. CASE DelLogger
    BY <2>7 DEF DelLogger, At, Goto, chans, hist, IInv, Types, Before,
       Configuring, LoggerPlaces, WriterPlaces, Places
  <2>8. CASE MakeChan
    BY <2>8 DEF MakeChan, At, Goto, adapt, chans, locals, hist, IInv, Types,
       Before, Configuring, LoggerPlaces, WriterPlaces, Places
  <2>9. CASE GoLogger
    BY <2>9 DEF GoLogger, At, adapt, locals, hist, IInv, Types, Before,
       Configuring, LoggerPlaces, WriterPlaces, Places
  <2>10. CASE ResetDestroy
    BY <2>10 DEF ResetDestroy, At, Goto, config, chans, locals, hist, IInv,
       Types, Before, Configuring, LoggerPlaces, WriterPlaces, Places
  <2>11. CASE ResetNil
    BY <2>11 DEF ResetNil, At, Goto, config, chans, locals, hist, IInv, Types,
       Before, Configuring, LoggerPlaces, WriterPlaces, Places
  <2> QED BY <1>5, <2>1, <2>2, <2>3, <2>4, <2>5, <2>6, <2>7, <2>8, <2>9, <2>10,
     <2>11 DEF MainCalls, MainSteps
<1> QED BY <1>1, <1>2, <1>3, <1>4, <1>5 DEF Next

(* writeMsg and Flush. *)
LEMMA WriterPlacesNext ==
  ASSUME Quiet, IInv, Types', Next
  PROVE  WriterPlaces'
<1>1. ASSUME NEW w \in Writers, LogCall(w) \/ LogSteps(w)
      PROVE  WriterPlaces'
  <2>1. CASE LogCall(w)
    BY <2>1 DEF LogCall, At, Goto, config, adapt, chans, IInv, Types, Before,
       Configuring, LoggerPlaces, WriterPlaces, Places
  <2>2. CASE DefaultLogger(w)
    BY <2>2 DEF DefaultLogger, At, Goto, config, chans, locals, hist, IInv,
       Types, Before, Configuring, LoggerPlaces, WriterPlaces, Places
  <2>3. CASE ReadMode(w)
    BY <2>3 DEF ReadMode, At, Goto, config, adapt, chans, hist, IInv, Types,
       Before, Configuring, LoggerPlaces, WriterPlaces, Places
  <2>4. CASE ReadOutputs(w)
    BY <2>4 DEF ReadOutputs, At, Goto, config, adapt, chans, hist, IInv, Types,
       Before, Configuring, LoggerPlaces, WriterPlaces, Places
  <2>5. CASE Send(w)
    BY <2>5 DEF Send, At, Goto, config, adapt, hist, IInv, Types, Before,
       Configuring, LoggerPlaces, WriterPlaces, Places
  <2> QED BY <1>1, <2>1, <2>2, <2>3, <2>4, <2>5 DEF LogSteps
<1>2. ASSUME NEW f \in Flushers, FlushCall(f) \/ FlushSteps(f)
      PROVE  WriterPlaces'
  <2>1. CASE FlushCall(f)
    BY <2>1 DEF FlushCall, At, Goto, config, adapt, chans, locals, IInv, Types,
       Before, Configuring, LoggerPlaces, WriterPlaces, Places
  <2>2. CASE Signal(f)
    BY <2>2 DEF Signal, At, Goto, config, adapt, locals, hist, IInv, Types,
       Before, Configuring, LoggerPlaces, WriterPlaces, Places
  <2>3. CASE Wait(f)
    BY <2>3 DEF Wait, At, Goto, config, adapt, chans, locals, hist, IInv,
       Types, Before, Configuring, LoggerPlaces, WriterPlaces, Places
  <2>4. CASE WakeUp(f)
    BY <2>4 DEF WakeUp, At, Goto, config, adapt, chans, locals, hist, IInv,
       Types, Before, Configuring, LoggerPlaces, WriterPlaces, Places
  <2>5. CASE AddOne(f)
    BY <2>5 DEF AddOne, At, Goto, config, adapt, locals, IInv, Types, Before,
       Configuring, LoggerPlaces, WriterPlaces, Places
  <2>6. CASE FlushSync(f)
    BY <2>6 DEF FlushSync, At, Goto, config, adapt, chans, locals, IInv, Types,
       Before, Configuring, LoggerPlaces, WriterPlaces, Places
  <2> QED BY <1>2, <2>1, <2>2, <2>3, <2>4, <2>5, <2>6 DEF FlushSteps
<1>3. ASSUME NEW g \in Goroutines, Work(g)
      PROVE  WriterPlaces'
  <2>1. CASE RangeOutputs(g)
    BY <2>1 DEF RangeOutputs, At, Goto, config, adapt, chans, hist, IInv,
       Types, Before, Configuring, LoggerPlaces, WriterPlaces, Places
  <2>2. CASE WriteOne(g)
    BY <2>2 DEF WriteOne, At, config, adapt, chans, IInv, Types, Before,
       Configuring, LoggerPlaces, WriterPlaces, Places
  <2>3. CASE WriteEnd(g)
    BY <2>3 DEF WriteEnd, At, Goto, config, adapt, chans, hist, IInv, Types,
       Before, Configuring, LoggerPlaces, WriterPlaces, Places
  <2>4. CASE TestLen(g)
    BY <2>4 DEF TestLen, At, Goto, config, adapt, chans, locals, hist, IInv,
       Types, Before, Configuring, LoggerPlaces, WriterPlaces, Places
  <2>5. CASE Take(g)
    BY <2>5 DEF Take, At, Goto, Receive, config, adapt, hist, IInv, Types,
       Before, Configuring, LoggerPlaces, WriterPlaces, Places
  <2> QED BY <1>3, <2>1, <2>2, <2>3, <2>4, <2>5 DEF Work
<1>4. ASSUME LoggerSteps
      PROVE  WriterPlaces'
  <2>1. CASE SelectMessage
    BY <2>1 DEF SelectMessage, At, Goto, Receive, config, adapt, hist, IInv,
       Types, Before, Configuring, LoggerPlaces, WriterPlaces, Places
  <2>2. CASE SelectSignal
    BY <2>2 DEF SelectSignal, At, Goto, config, adapt, locals, hist, IInv,
       Types, Before, Configuring, LoggerPlaces, WriterPlaces, Places
  <2>3. CASE Done
    BY <2>3 DEF Done, At, config, adapt, locals, hist, IInv, Types, Before,
       Configuring, LoggerPlaces, WriterPlaces, Places
  <2> QED BY <1>4, <2>1, <2>2, <2>3 DEF LoggerSteps
<1>5. ASSUME MainCalls \/ MainSteps
      PROVE  WriterPlaces'
  <2>1. CASE Start
    BY <2>1 DEF Start, At, adapt, chans, locals, hist, IInv, Types, Before,
       Configuring, LoggerPlaces, WriterPlaces, Places
  <2>2. CASE SetLoggerCall
    BY <2>2 DEF SetLoggerCall, At, Goto, chans, locals, hist, IInv, Types,
       Before, Configuring, LoggerPlaces, WriterPlaces, Places
  <2>3. CASE DelLoggerCall
    BY <2>3 DEF DelLoggerCall, At, Goto, chans, hist, IInv, Types, Before,
       Configuring, LoggerPlaces, WriterPlaces, Places
  <2>4. CASE AsyncCall
    BY <2>4 DEF AsyncCall, At, Goto, Setup, adapt, chans, locals, hist, IInv,
       Types, Before, Configuring, LoggerPlaces, WriterPlaces, Places
  <2>5. CASE ResetCall
    BY <2>5 DEF ResetCall, At, Goto, Setup, config, adapt, chans, locals, hist,
       IInv, Types, Before, Configuring, LoggerPlaces, WriterPlaces, Places
  <2>6. CASE SetLogger
    BY <2>6 DEF SetLogger, At, Goto, chans, locals, hist, IInv, Types, Before,
       Configuring, LoggerPlaces, WriterPlaces, Places
  <2>7. CASE DelLogger
    BY <2>7 DEF DelLogger, At, Goto, chans, hist, IInv, Types, Before,
       Configuring, LoggerPlaces, WriterPlaces, Places
  <2>8. CASE MakeChan
    BY <2>8 DEF MakeChan, At, Goto, adapt, chans, locals, hist, IInv, Types,
       Before, Configuring, LoggerPlaces, WriterPlaces, Places
  <2>9. CASE GoLogger
    BY <2>9 DEF GoLogger, At, adapt, locals, hist, IInv, Types, Before,
       Configuring, LoggerPlaces, WriterPlaces, Places
  <2>10. CASE ResetDestroy
    BY <2>10 DEF ResetDestroy, At, Goto, config, chans, locals, hist, IInv,
       Types, Before, Configuring, LoggerPlaces, WriterPlaces, Places
  <2>11. CASE ResetNil
    BY <2>11 DEF ResetNil, At, Goto, config, chans, locals, hist, IInv, Types,
       Before, Configuring, LoggerPlaces, WriterPlaces, Places
  <2> QED BY <1>5, <2>1, <2>2, <2>3, <2>4, <2>5, <2>6, <2>7, <2>8, <2>9, <2>10,
     <2>11 DEF MainCalls, MainSteps
<1> QED BY <1>1, <1>2, <1>3, <1>4, <1>5 DEF Next

(* The WaitGroup. *)
LEMMA ProtocolNext ==
  ASSUME Quiet, OneFlusher, IInv, Types', Next
  PROVE  FlushProtocol' /\ NoPanic'
<1>1. ASSUME NEW w \in Writers, LogCall(w) \/ LogSteps(w)
      PROVE  FlushProtocol' /\ NoPanic'
  <2>1. CASE LogCall(w)
    BY <2>1 DEF LogCall, At, Goto, config, adapt, chans, IInv, Types, Before,
       Configuring, LoggerPlaces, WriterPlaces, Places, FlushProtocol, NoPanic,
       Signalled, Flushing, Released, OneFlusher
  <2>2. CASE DefaultLogger(w)
    BY <2>2 DEF DefaultLogger, At, Goto, config, chans, locals, hist, IInv,
       Types, Before, Configuring, LoggerPlaces, WriterPlaces, Places,
       FlushProtocol, NoPanic, Signalled, Flushing, Released, OneFlusher
  <2>3. CASE ReadMode(w)
    <3>1. ~panic'
      <4>1. started /\ pc[w] # "idle"
        BY <2>3 DEF ReadMode, At, Goto, config, adapt, chans, hist, IInv,
           Places, Before
      <4>2. asynchronous => pool
        BY <4>1 DEF IInv, Places, Configuring
      <4> QED
        BY <2>3, <4>2 DEF ReadMode, At, Goto, config, adapt, chans, hist, IInv,
           NoPanic
    <3>2. /\ UNCHANGED <<wg, signalChan>> /\ UNCHANGED pc[Logger]
          /\ UNCHANGED (ret[Logger])
          /\ \A v \in Writers \ {w} : UNCHANGED (pc[v])
          /\ pc[w] = "mode" /\ pc'[w] \in {"outputs", "range"}
      BY <2>3 DEF ReadMode, At, Goto, config, adapt, chans, hist, IInv, Types
    <3> QED BY <3>1, <3>2 DEF IInv, FlushProtocol, NoPanic, Signalled, Flushing,
       Released, OneFlusher
  <2>4. CASE ReadOutputs(w)
    BY <2>4 DEF ReadOutputs, At, Goto, config, adapt, chans, hist, IInv, Types,
       Before, Configuring, LoggerPlaces, WriterPlaces, Places, FlushProtocol,
       NoPanic, Signalled, Flushing, Released, OneFlusher
  <2>5. CASE Send(w)
    BY <2>5 DEF Send, At, Goto, config, adapt, hist, IInv, Types, Before,
       Configuring, LoggerPlaces, WriterPlaces, Places, FlushProtocol, NoPanic,
       Signalled, Flushing, Released, OneFlusher
  <2> QED BY <1>1, <2>1, <2>2, <2>3, <2>4, <2>5 DEF LogSteps
<1>2. ASSUME NEW f \in Flushers, FlushCall(f) \/ FlushSteps(f)
      PROVE  FlushProtocol' /\ NoPanic'
  <2>1. CASE FlushCall(f)
    BY <2>1 DEF FlushCall, At, Goto, config, adapt, chans, locals, IInv, Types,
       Before, Configuring, LoggerPlaces, WriterPlaces, Places, FlushProtocol,
       NoPanic, Signalled, Flushing, Released, OneFlusher
  <2>2. CASE Signal(f)
    BY <2>2 DEF Signal, At, Goto, config, adapt, locals, hist, IInv, Types,
       Before, Configuring, LoggerPlaces, WriterPlaces, Places, FlushProtocol,
       NoPanic, Signalled, Flushing, Released, OneFlusher
  <2>3. CASE Wait(f)
    BY <2>3 DEF Wait, At, Goto, config, adapt, chans, locals, hist, IInv,
       Types, Before, Configuring, LoggerPlaces, WriterPlaces, Places,
       FlushProtocol, NoPanic, Signalled, Flushing, Released, OneFlusher
  <2>4. CASE WakeUp(f)
    BY <2>4 DEF WakeUp, At, Goto, config, adapt, chans, locals, hist, IInv,
       Types, Before, Configuring, LoggerPlaces, WriterPlaces, Places,
       FlushProtocol, NoPanic, Signalled, Flushing, Released, OneFlusher
  <2>5. CASE AddOne(f)
    BY <2>5 DEF AddOne, At, Goto, config, adapt, locals, IInv, Types, Before,
       Configuring, LoggerPlaces, WriterPlaces, Places, FlushProtocol, NoPanic,
       Signalled, Flushing, Released, OneFlusher
  <2>6. CASE FlushSync(f)
    BY <2>6 DEF FlushSync, At, Goto, config, adapt, chans, locals, IInv, Types,
       Before, Configuring, LoggerPlaces, WriterPlaces, Places, FlushProtocol,
       NoPanic, Signalled, Flushing, Released, OneFlusher
  <2> QED BY <1>2, <2>1, <2>2, <2>3, <2>4, <2>5, <2>6 DEF FlushSteps
<1>3. ASSUME NEW g \in Goroutines, Work(g)
      PROVE  FlushProtocol' /\ NoPanic'
  <2>1. CASE RangeOutputs(g)
    BY <2>1 DEF RangeOutputs, At, Goto, config, adapt, chans, hist, IInv,
       Types, Before, Configuring, LoggerPlaces, WriterPlaces, Places,
       FlushProtocol, NoPanic, Signalled, Flushing, Released, OneFlusher
  <2>2. CASE WriteOne(g)
    BY <2>2 DEF WriteOne, At, config, adapt, chans, IInv, Types, Before,
       Configuring, LoggerPlaces, WriterPlaces, Places, FlushProtocol, NoPanic,
       Signalled, Flushing, Released, OneFlusher
  <2>3. CASE WriteEnd(g)
    BY <2>3 DEF WriteEnd, At, Goto, config, adapt, chans, hist, IInv, Types,
       Before, Configuring, LoggerPlaces, WriterPlaces, Places, FlushProtocol,
       NoPanic, Signalled, Flushing, Released, OneFlusher
  <2>4. CASE TestLen(g)
    BY <2>4 DEF TestLen, At, Goto, config, adapt, chans, locals, hist, IInv,
       Types, Before, Configuring, LoggerPlaces, WriterPlaces, Places,
       FlushProtocol, NoPanic, Signalled, Flushing, Released, OneFlusher
  <2>5. CASE Take(g)
    BY <2>5 DEF Take, At, Goto, Receive, config, adapt, hist, IInv, Types,
       Before, Configuring, LoggerPlaces, WriterPlaces, Places, FlushProtocol,
       NoPanic, Signalled, Flushing, Released, OneFlusher
  <2> QED BY <1>3, <2>1, <2>2, <2>3, <2>4, <2>5 DEF Work
<1>4. ASSUME LoggerSteps
      PROVE  FlushProtocol' /\ NoPanic'
  <2>1. CASE SelectMessage
    BY <2>1 DEF SelectMessage, At, Goto, Receive, config, adapt, hist, IInv,
       Types, Before, Configuring, LoggerPlaces, WriterPlaces, Places,
       FlushProtocol, NoPanic, Signalled, Flushing, Released, OneFlusher
  <2>2. CASE SelectSignal
    BY <2>2 DEF SelectSignal, At, Goto, config, adapt, locals, hist, IInv,
       Types, Before, Configuring, LoggerPlaces, WriterPlaces, Places,
       FlushProtocol, NoPanic, Signalled, Flushing, Released, OneFlusher
  <2>3. CASE Done
    BY <2>3 DEF Done, At, config, adapt, locals, hist, IInv, Types, Before,
       Configuring, LoggerPlaces, WriterPlaces, Places, FlushProtocol, NoPanic,
       Signalled, Flushing, Released, OneFlusher
  <2> QED BY <1>4, <2>1, <2>2, <2>3 DEF LoggerSteps
<1>5. ASSUME MainCalls \/ MainSteps
      PROVE  FlushProtocol' /\ NoPanic'
  <2>1. CASE Start
    BY <2>1 DEF Start, At, adapt, chans, locals, hist, IInv, Types, Before,
       Configuring, LoggerPlaces, WriterPlaces, Places, FlushProtocol, NoPanic,
       Signalled, Flushing, Released, OneFlusher
  <2>2. CASE SetLoggerCall
    BY <2>2 DEF SetLoggerCall, At, Goto, chans, locals, hist, IInv, Types,
       Before, Configuring, LoggerPlaces, WriterPlaces, Places, FlushProtocol,
       NoPanic, Signalled, Flushing, Released, OneFlusher
  <2>3. CASE DelLoggerCall
    BY <2>3 DEF DelLoggerCall, At, Goto, chans, hist, IInv, Types, Before,
       Configuring, LoggerPlaces, WriterPlaces, Places, FlushProtocol, NoPanic,
       Signalled, Flushing, Released, OneFlusher
  <2>4. CASE AsyncCall
    BY <2>4 DEF AsyncCall, At, Goto, Setup, adapt, chans, locals, hist, IInv,
       Types, Before, Configuring, LoggerPlaces, WriterPlaces, Places,
       FlushProtocol, NoPanic, Signalled, Flushing, Released, OneFlusher
  <2>5. CASE ResetCall
    BY <2>5 DEF ResetCall, At, Goto, Setup, config, adapt, chans, locals, hist,
       IInv, Types, Before, Configuring, LoggerPlaces, WriterPlaces, Places,
       FlushProtocol, NoPanic, Signalled, Flushing, Released, OneFlusher
  <2>6. CASE SetLogger
    BY <2>6 DEF SetLogger, At, Goto, chans, locals, hist, IInv, Types, Before,
       Configuring, LoggerPlaces, WriterPlaces, Places, FlushProtocol, NoPanic,
       Signalled, Flushing, Released, OneFlusher
  <2>7. CASE DelLogger
    BY <2>7 DEF DelLogger, At, Goto, chans, hist, IInv, Types, Before,
       Configuring, LoggerPlaces, WriterPlaces, Places, FlushProtocol, NoPanic,
       Signalled, Flushing, Released, OneFlusher
  <2>8. CASE MakeChan
    BY <2>8 DEF MakeChan, At, Goto, adapt, chans, locals, hist, IInv, Types,
       Before, Configuring, LoggerPlaces, WriterPlaces, Places, FlushProtocol,
       NoPanic, Signalled, Flushing, Released, OneFlusher
  <2>9. CASE GoLogger
    BY <2>9 DEF GoLogger, At, adapt, locals, hist, IInv, Types, Before,
       Configuring, LoggerPlaces, WriterPlaces, Places, FlushProtocol, NoPanic,
       Signalled, Flushing, Released, OneFlusher
  <2>10. CASE ResetDestroy
    BY <2>10 DEF ResetDestroy, At, Goto, config, chans, locals, hist, IInv,
       Types, Before, Configuring, LoggerPlaces, WriterPlaces, Places,
       FlushProtocol, NoPanic, Signalled, Flushing, Released, OneFlusher
  <2>11. CASE ResetNil
    BY <2>11 DEF ResetNil, At, Goto, config, chans, locals, hist, IInv, Types,
       Before, Configuring, LoggerPlaces, WriterPlaces, Places, FlushProtocol,
       NoPanic, Signalled, Flushing, Released, OneFlusher
  <2> QED BY <1>5, <2>1, <2>2, <2>3, <2>4, <2>5, <2>6, <2>7, <2>8, <2>9, <2>10,
     <2>11 DEF MainCalls, MainSteps
<1> QED BY <1>1, <1>2, <1>3, <1>4, <1>5 DEF Next

-----------------------------------------------------------------------------
LEMMA InitInv == Init => IInv
<1> SUFFICES ASSUME Init
             PROVE  IInv
  OBVIOUS
<1>1. Types
  BY DEF Init, Types, PCs
<1>2. pc[Main] = "idle" /\ pc[Logger] = "off" /\ \A w \in Writers : pc[w] = "idle"
  BY DEF Init
<1>3. Places
  BY <1>2 DEF Init, Places, Before, Configuring, LoggerPlaces, WriterPlaces
<1>4. FlushProtocol /\ NoPanic
  BY <1>2 DEF Init, FlushProtocol, NoPanic
<1> QED BY <1>1, <1>3, <1>4 DEF IInv

(* IInv is inductive. *)
LEMMA NextInv == Quiet /\ OneFlusher /\ IInv /\ [Next]_vars => IInv'
<1>1. ASSUME Quiet, OneFlusher, IInv, Next
      PROVE  IInv'
  <2>1. Types'
    BY <1>1, TypesNext
  <2> QED
    BY <1>1, <2>1, BeforeNext, ConfiguringNext, LoggerPlacesNext, WriterPlacesNext,
       ProtocolNext DEF IInv, Places
<1>2. ASSUME IInv, UNCHANGED vars
      PROVE  IInv'
  BY <1>2 DEF IInv, Types, Places, Before, Configuring, LoggerPlaces, WriterPlaces,
     FlushProtocol, NoPanic, Signalled, Flushing, Released, vars, config, adapt, chans,
     locals, hist
<1> QED BY <1>1, <1>2

(* Flush and startLogger: with one goroutine that flushes, the WaitGroup's *)
(* counter is zero exactly from the logger's Done to the flusher's Add,    *)
(* and a flusher that sleeps has a flush under way that will wake it.      *)
THEOREM SpecFlushProtocol == Quiet /\ OneFlusher => (Spec => []FlushProtocol)
<1> SUFFICES ASSUME Quiet, OneFlusher
             PROVE  Spec => []FlushProtocol
  OBVIOUS
<1>1. IInv => FlushProtocol
  BY DEF IInv
<1>2. IInv /\ [Next]_vars => IInv'
  BY NextInv
<1> QED BY InitInv, <1>1, <1>2, PTL DEF Spec

(* writeMsg, Flush and startLogger never panic then: the pool is there     *)
(* when a message is taken from it, Done finds the counter raised, and     *)
(* nobody raises it before the flusher that was woken has left Wait.       *)
THEOREM SpecNoPanic == Quiet /\ OneFlusher => (Spec => []NoPanic)
<1> SUFFICES ASSUME Quiet, OneFlusher
             PROVE  Spec => []NoPanic
  OBVIOUS
<1>1. IInv => NoPanic
  BY DEF IInv
<1>2. IInv /\ [Next]_vars => IInv'
  BY NextInv
<1> QED BY InitInv, <1>1, <1>2, PTL DEF Spec

-----------------------------------------------------------------------------
(* Sequences: what is in them, in which order, and whether it is twice. *)
Precedes(m, k) == m[1] = k[1] => m[2] < k[2]
Ordered(s)     == \A i, j \in DOMAIN s : i < j => Precedes(s[i], s[j])
Distinct(s)    == \A i, j \in DOMAIN s : s[i] = s[j] => i = j

LEMMA RanTypes ==
  ASSUME NEW S, NEW s \in Seq(S)
  PROVE  /\ Ran(s) \subseteq S
         /\ s = <<>> <=> Ran(s) = {}
<1>1. \A i \in DOMAIN s : s[i] \in S
  OBVIOUS
<1>2. s # <<>> => s[1] \in Ran(s)
  BY DEF Ran
<1> QED BY <1>1, <1>2 DEF Ran

LEMMA RanAppend ==
  ASSUME NEW S, NEW s \in Seq(S), NEW x \in S
  PROVE  /\ Append(s, x) \in Seq(S)
         /\ Ran(Append(s, x)) = Ran(s) \cup {x}
         /\ Ordered(s) /\ (\A y \in Ran(s) : Precedes(y, x)) => Ordered(Append(s, x))
         /\ Distinct(s) /\ x \notin Ran(s) => Distinct(Append(s, x))
<1> DEFINE t == Append(s, x)
<1>1. /\ t \in Seq(S) /\ Len(t) = Len(s) + 1 /\ t[Len(s) + 1] = x
      /\ \A i \in 1..Len(s) : t[i] = s[i]
  OBVIOUS
<1>2. DOMAIN s = 1..Len(s) /\ DOMAIN t = 1..(Len(s) + 1) /\ Len(s) \in Nat
  BY <1>1
<1> HIDE DEF t
<1>3. Ran(t) = Ran(s) \cup {x}
  BY <1>1, <1>2 DEF Ran
<1>4. Ordered(s) /\ (\A y \in Ran(s) : Precedes(y, x)) => Ordered(t)
  <2> SUFFICES ASSUME Ordered(s), \A y \in Ran(s) : Precedes(y, x),
                      NEW i \in 1..(Len(s) + 1), NEW j \in 1..(Len(s) + 1), i < j
               PROVE  Precedes(t[i], t[j])
    BY <1>2 DEF Ordered
  <2>1. i \in DOMAIN s /\ t[i] = s[i] /\ s[i] \in Ran(s)
    BY <1>1, <1>2 DEF Ran
  <2>2. CASE j \in DOMAIN s
    BY <1>1, <1>2, <2>1, <2>2 DEF Ordered
  <2>3. CASE j = Len(s) + 1
    BY <1>1, <2>1, <2>3
  <2> QED BY <1>2, <2>2, <2>3
<1>5. Distinct(s) /\ x \notin Ran(s) => Distinct(t)
  BY <1>1, <1>2 DEF Distinct, Ran
<1> QED BY <1>1, <1>3, <1>4, <1>5 DEF t

LEMMA RanTail ==
  ASSUME NEW S, NEW s \in Seq(S), s # <<>>
  PROVE  /\ Head(s) \in S /\ Tail(s) \in Seq(S) /\ Len(Tail(s)) = Len(s) - 1
         /\ Ran(s) = Ran(Tail(s)) \cup {Head(s)}
         /\ Ordered(s) => Ordered(Tail(s)) /\ \A y \in Ran(Tail(s)) : Precedes(Head(s), y)
         /\ Distinct(s) => Distinct(Tail(s)) /\ Head(s) \notin Ran(Tail(s))
<1> DEFINE t == Tail(s)
<1>1. /\ t \in Seq(S) /\ Len(t) = Len(s) - 1 /\ Head(s) = s[1] /\ Head(s) \in S
      /\ \A i \in 1..(Len(s) - 1) : t[i] = s[i + 1]
  OBVIOUS
<1>2. DOMAIN s = 1..Len(s) /\ DOMAIN t = 1..(Len(s) - 1) /\ Len(s) \in Nat /\ Len(s) # 0
  BY <1>1
<1> HIDE DEF t
<1>3. Ran(s) = Ran(t) \cup {Head(s)}
  <2>1. \A i \in DOMAIN s : i = 1 \/ (i - 1 \in DOMAIN t /\ t[i - 1] = s[i])
    BY <1>1, <1>2
  <2>2. \A i \in DOMAIN t : i + 1 \in DOMAIN s /\ t[i] = s[i + 1]
    BY <1>1, <1>2
  <2>3. Ran(s) \subseteq Ran(t) \cup {Head(s)}
    BY <1>1, <2>1 DEF Ran
  <2>4. Ran(t) \cup {Head(s)} \subseteq Ran(s)
    BY <1>1, <1>2, <2>2 DEF Ran
  <2> QED BY <2>3, <2>4
<1>4. \A i \in DOMAIN t : i + 1 \in DOMAIN s /\ t[i] = s[i + 1] /\ 1 < i + 1 /\ i \in Nat
  BY <1>1, <1>2
<1>5. ASSUME Ordered(s)
      PROVE  Ordered(t) /\ \A y \in Ran(t) : Precedes(Head(s), y)
  <2>1. \A y \in Ran(t) : Precedes(s[1], y)
    BY <1>2, <1>4, <1>5 DEF Ordered, Ran
  <2>2. ASSUME NEW i \in DOMAIN t, NEW j \in DOMAIN t, i < j PROVE Precedes(t[i], t[j])
    <3>1. i + 1 < j + 1
      BY <1>4, <2>2
    <3> QED BY <1>4, <1>5, <3>1 DEF Ordered
  <2> QED BY <1>1, <2>1, <2>2 DEF Ordered
<1>6. ASSUME Distinct(s)
      PROVE  Distinct(t) /\ Head(s) \notin Ran(t)
  <2>1. \A i, j \in DOMAIN t : t[i] = t[j] => i = j
    <3> SUFFICES ASSUME NEW i \in DOMAIN t, NEW j \in DOMAIN t, t[i] = t[j] PROVE i = j
      OBVIOUS
    <3>1. i + 1 = j + 1
      BY <1>4, <1>6 DEF Distinct
    <3> QED BY <1>4, <3>1
  <2>2. \A i \in DOMAIN t : t[i] # s[1]
    <3> SUFFICES ASSUME NEW i \in DOMAIN t, t[i] = s[1] PROVE FALSE
      OBVIOUS
    <3>1. i + 1 = 1
      BY <1>2, <1>4, <1>6 DEF Distinct
    <3> QED BY <1>4, <3>1
  <2> QED BY <1>1, <2>1, <2>2 DEF Distinct, Ran
<1> QED BY <1>1, <1>3, <1>5, <1>6 DEF t

(* What DelLogger leaves of the adapters. *)
LEMMA WithoutTypes ==
  ASSUME NEW S, NEW s \in Seq(S), NEW i \in DOMAIN s
  PROVE  /\ Without(s, i) \in Seq(S)
         /\ Ran(Without(s, i)) \subseteq Ran(s)
         /\ Distinct(s) => Distinct(Without(s, i))
<1> DEFINE n == Len(s)
           p == SubSeq(s, 1, i - 1)
           q == SubSeq(s, i + 1, n)
           t == p \o q
<1>1. n \in Nat /\ DOMAIN s = 1..n /\ i \in 1..n
  OBVIOUS
<1>2. /\ p \in Seq(S) /\ Len(p) = i - 1 /\ \A j \in 1..(i - 1) : p[j] = s[j]
  BY <1>1
<1>3. /\ q \in Seq(S) /\ Len(q) = n - i /\ \A j \in 1..(n - i) : q[j] = s[i + j]
  BY <1>1
<1> HIDE DEF p, q
<1>4. /\ t \in Seq(S) /\ Len(t) = n - 1
      /\ \A j \in 1..(n - 1) : t[j] = IF j < i THEN s[j] ELSE s[j + 1]
  <2>1. t \in Seq(S) /\ Len(t) = Len(p) + Len(q)
    <3>1. \A u, v \in Seq(S) : u \o v \in Seq(S) /\ Len(u \o v) = Len(u) + Len(v)
      OBVIOUS
    <3> QED BY <1>2, <1>3, <3>1
  <2>2. \A j \in 1..(n - 1) : t[j] = IF j <= i - 1 THEN p[j] ELSE q[j - (i - 1)]
    BY <1>1, <1>2, <1>3
  <2>3. ASSUME NEW j \in 1..(n - 1) PROVE t[j] = IF j < i THEN s[j] ELSE s[j + 1]
    <3>1. CASE j < i
      BY <1>1, <1>2, <2>2, <3>1
    <3>2. CASE ~(j < i)
      <4>1. j - (i - 1) \in 1..(n - i) /\ i + (j - (i - 1)) = j + 1
        BY <1>1, <3>2
      <4>2. t[j] = q[j - (i - 1)]
        <5>1. ~(j <= i - 1)
          BY <1>1, <3>2
        <5> QED BY <2>2, <5>1
      <4> QED BY <1>3, <3>2, <4>1, <4>2
    <3> QED BY <3>1, <3>2
  <2> QED BY <1>1, <1>2, <1>3, <2>1, <2>3
<1>5. Without(s, i) = t
  BY DEF Without, p, q
<1> HIDE DEF t
<1>6. DOMAIN t = 1..(n - 1)
  BY <1>1, <1>4
<1>7. \A j \in DOMAIN t : \E k \in DOMAIN s : t[j] = s[k] /\ k = IF j < i THEN j ELSE j + 1
  BY <1>1, <1>4, <1>6
<1>8. Ran(t) \subseteq Ran(s)
  BY <1>7 DEF Ran
<1>9. Distinct(s) => Distinct(t)
  BY <1>6, <1>7 DEF Distinct
<1> QED BY <1>4, <1>5, <1>8, <1>9

-----------------------------------------------------------------------------
(* Types.  Who writes has a message, whatever the configuration. *)
Writing == {"default", "mode", "outputs", "send", "range", "loop"}
Holding == \A g \in Goroutines : pc[g] \in Writing => msg[g] \in Messages

LEMMA ElemsTypes ==
  ASSUME TypeOK
  PROVE  /\ Elems(outputs) \in Seq(Adapters) /\ Ran(Elems(outputs)) \subseteq Adapters
         /\ \A g \in Goroutines : todo[g] \in Seq(Adapters) /\ Ran(todo[g]) \subseteq Adapters
         /\ \A a \in Adapters : written[a] \in Seq(Messages)
         /\ Ran(msgChan) \subseteq Messages
<1>1. Elems(outputs) \in Seq(Adapters)
  <2>1. <<>> \in Seq(Adapters)
    OBVIOUS
  <2> QED BY <2>1 DEF TypeOK, Elems
<1> QED BY <1>1, RanTypes DEF TypeOK

LEMMA AppendAdapterTypes ==
  ASSUME TypeOK, NEW name, AppendAdapter(name)
  PROVE  /\ outputs' \in Seq(Adapters) \cup {Nil}
         /\ lg' \in [Adapters -> {"new", "open", "closed"}]
         /\ \/ UNCHANGED <<outputs, lg>>
            \/ \E a \in Adapters :
                 /\ lg[a] = "new" /\ lg' = [lg EXCEPT ![a] = "open"]
                 /\ outputs' = Append(Elems(outputs), a)
<1>1. CASE UNCHANGED adapt
  BY <1>1 DEF adapt, TypeOK
<1>2. ASSUME NEW a \in Adapters, lg[a] = "new", outputs' = Append(Elems(outputs), a),
             lg' = [lg EXCEPT ![a] = "open"]
      PROVE  outputs' \in Seq(Adapters) /\ lg' \in [Adapters -> {"new", "open", "closed"}]
  BY <1>2, ElemsTypes, RanAppend DEF TypeOK
<1> QED BY <1>1, <1>2 DEF AppendAdapter, adapt

LEMMA ReceiveTypes ==
  ASSUME TypeOK, Holding, NEW g \in Goroutines, NEW label \in {"select", "drain"},
         Receive(g, label)
  PROVE  TypeOK' /\ Holding'
<1>1. /\ Head(msgChan) \in Messages /\ Tail(msgChan) \in Seq(Messages)
      /\ Len(Tail(msgChan)) <= MsgChanLen
  BY RanTail DEF Receive, TypeOK
<1> QED BY <1>1 DEF Receive, Goto, config, adapt, hist, TypeOK, Holding, Writing, PCs

LEMMA TypeNext ==
  ASSUME TypeOK, Holding, Next
  PROVE  TypeOK' /\ Holding'
<1>1. ASSUME NEW w \in Writers, LogCall(w) \/ LogSteps(w)
      PROVE  TypeOK' /\ Holding'
  <2>1. CASE LogCall(w)
    <3>1. /\ <<w, sent[w] + 1>> \in Messages /\ sent' \in [Writers -> Nat]
          /\ msg' \in [Goroutines -> Messages \cup {Nil}]
          /\ \A g \in Goroutines : msg'[g] = IF g = w THEN <<w, sent[w] + 1>> ELSE msg[g]
      BY <2>1 DEF LogCall, TypeOK, Messages
    <3>2. pc' \in [Goroutines -> PCs] /\ \A g \in Goroutines \ {w} : pc'[g] = pc[g]
      BY <2>1 DEF LogCall, Goto, TypeOK, PCs
    <3>3. Holding'
      BY <3>1, <3>2 DEF Holding
    <3>4. TypeOK'
      BY <2>1, <3>1, <3>2 DEF LogCall, At, config, adapt, chans, TypeOK
    <3> QED BY <3>3, <3>4
  <2>2. CASE DefaultLogger(w)
    <3>1. /\ outputs' \in Seq(Adapters) \cup {Nil}
          /\ lg' \in [Adapters -> {"new", "open", "closed"}]
      BY <2>2, AppendAdapterTypes DEF DefaultLogger
    <3> QED BY <2>2, <3>1 DEF DefaultLogger, At, Goto, config, chans, locals, hist, TypeOK,
       Holding, Writing, PCs
  <2>3. CASE ReadMode(w)
    BY <2>3 DEF ReadMode, At, Goto, config, adapt, chans, hist, TypeOK,
       Holding, Writing, PCs
  <2>4. CASE ReadOutputs(w)
    BY <2>4 DEF ReadOutputs, At, Goto, config, adapt, chans, hist, TypeOK,
       Holding, Writing, PCs
  <2>5. CASE Send(w)
    <3>1. msg[w] \in Messages /\ Len(msgChan) < MsgChanLen
      BY <2>5 DEF Send, At, Holding, Writing
    <3>2. msgChan' \in Seq(Messages) /\ Len(msgChan') <= MsgChanLen
      BY <2>5, <3>1 DEF Send, TypeOK
    <3> QED BY <2>5, <3>2 DEF Send, At, Goto, config, adapt, hist, TypeOK, Holding, Writing,
       PCs
  <2> QED BY <1>1, <2>1, <2>2, <2>3, <2>4, <2>5 DEF LogSteps
<1>2. ASSUME NEW f \in Flushers, FlushCall(f) \/ FlushSteps(f)
      PROVE  TypeOK' /\ Holding'
  <2>1. CASE FlushCall(f)
    <3>1. Undelivered \subseteq Messages \X Adapters
      BY ElemsTypes DEF Undelivered, Holding, Writing
    <3>2. owed' \in [Writers -> SUBSET (Messages \X Adapters)]
      BY <2>1, <3>1 DEF FlushCall, TypeOK
    <3> QED BY <2>1, <3>2 DEF FlushCall, At, Goto, config, adapt, chans, locals, TypeOK,
       Holding, Writing, PCs
  <2>2. CASE Signal(f)
    <3>1. signalChan' \in Seq({"flush"}) /\ Len(signalChan') <= 1
      BY <2>2 DEF Signal, TypeOK
    <3> QED BY <2>2, <3>1 DEF Signal, At, Goto, config, adapt, locals, hist, TypeOK,
       Holding, Writing, PCs
  <2>3. CASE Wait(f)
    BY <2>3 DEF Wait, At, Goto, config, adapt, chans, locals, hist, TypeOK,
       Holding, Writing, PCs
  <2>4. CASE WakeUp(f)
    BY <2>4 DEF WakeUp, At, Goto, config, adapt, chans, locals, hist, TypeOK,
       Holding, Writing, PCs
  <2>5. CASE AddOne(f)
    BY <2>5 DEF AddOne, At, Goto, config, adapt, locals, TypeOK, Holding,
       Writing, PCs
  <2>6. CASE FlushSync(f)
    BY <2>6 DEF FlushSync, At, Goto, config, adapt, chans, locals, TypeOK,
       Holding, Writing, PCs
  <2> QED BY <1>2, <2>1, <2>2, <2>3, <2>4, <2>5, <2>6 DEF FlushSteps
<1>3. ASSUME NEW g \in Goroutines, Work(g)
      PROVE  TypeOK' /\ Holding'
  <2>1. CASE RangeOutputs(g)
    <3>1. todo' \in [Goroutines -> Seq(Adapters)]
      BY <2>1, ElemsTypes DEF RangeOutputs, TypeOK
    <3> QED BY <2>1, <3>1 DEF RangeOutputs, At, Goto, config, adapt, chans, hist, TypeOK,
       Holding, Writing, PCs
  <2>2. CASE WriteOne(g)
    <3>1. /\ Head(todo[g]) \in Adapters /\ Tail(todo[g]) \in Seq(Adapters)
          /\ msg[g] \in Messages
      BY <2>2, ElemsTypes, RanTail DEF WriteOne, At, Holding, Writing
    <3>2. written' \in [Adapters -> Seq(Messages)]
      BY <2>2, <3>1, RanAppend DEF WriteOne, TypeOK
    <3>3. todo' \in [Goroutines -> Seq(Adapters)]
      BY <2>2, <3>1 DEF WriteOne, TypeOK
    <3> QED BY <2>2, <3>2, <3>3 DEF WriteOne, At, config, adapt, chans, TypeOK, Holding,
       Writing, PCs
  <2>3. CASE WriteEnd(g)
    BY <2>3 DEF WriteEnd, At, Goto, config, adapt, chans, hist, TypeOK,
       Holding, Writing, PCs
  <2>4. CASE TestLen(g)
    BY <2>4 DEF TestLen, At, Goto, config, adapt, chans, locals, hist, TypeOK,
       Holding, Writing, PCs
  <2>5. CASE Take(g)
    BY <2>5, ReceiveTypes DEF Take, At
  <2> QED BY <1>3, <2>1, <2>2, <2>3, <2>4, <2>5 DEF Work
<1>4. ASSUME LoggerSteps
      PROVE  TypeOK' /\ Holding'
  <2>1. CASE SelectMessage
    BY <2>1, ReceiveTypes DEF SelectMessage, At
  <2>2. CASE SelectSignal
    <3>1. signalChan' \in Seq({"flush"}) /\ Len(signalChan') <= 1
      BY <2>2, RanTail DEF SelectSignal, TypeOK
    <3> QED BY <2>2, <3>1 DEF SelectSignal, At, Goto, config, adapt, locals, hist, TypeOK,
       Holding, Writing, PCs
  <2>3. CASE Done
    <3>1. UNCHANGED <<config, adapt, msgChan, signalChan, locals, hist>> /\ panic' \in BOOLEAN
      BY <2>3 DEF Done, TypeOK
    <3>2. wg' \in Nat
      BY <2>3 DEF Done, TypeOK
    <3>3. /\ pc' \in [Goroutines -> PCs]
          /\ \A g \in Goroutines : pc'[g] \in Writing => pc'[g] = pc[g]
      BY <2>3 DEF Done, TypeOK, PCs, Writing
    <3>4. Holding'
      BY <3>1, <3>3 DEF Holding, locals
    <3>5. TypeOK'
      BY <3>1, <3>2, <3>3 DEF config, adapt, locals, hist, TypeOK
    <3> QED BY <3>4, <3>5
  <2> QED BY <1>4, <2>1, <2>2, <2>3 DEF LoggerSteps
<1>5. ASSUME MainCalls \/ MainSteps
      PROVE  TypeOK' /\ Holding'
  <2>1. CASE Start
    BY <2>1 DEF Start, At, adapt, chans, locals, hist, TypeOK, Holding,
       Writing, PCs
  <2>2. CASE SetLoggerCall
    BY <2>2 DEF SetLoggerCall, At, Goto, chans, locals, hist, TypeOK, Holding,
       Writing, PCs
  <2>3. CASE DelLoggerCall
    <3>1. /\ todo' \in [Goroutines -> Seq(Adapters)]
          /\ lg' \in [Adapters -> {"new", "open", "closed"}]
      <4>1. PICK i \in DOMAIN Elems(outputs) :
              /\ lg' = [lg EXCEPT ![outputs[i]] = "closed"]
              /\ todo' = [todo EXCEPT ![Main] = Without(outputs, i)]
        BY <2>3 DEF DelLoggerCall
      <4>2. outputs \in Seq(Adapters) /\ outputs = Elems(outputs)
        BY <4>1 DEF TypeOK, Elems
      <4>3. Without(outputs, i) \in Seq(Adapters)
        BY <4>1, <4>2, WithoutTypes
      <4> QED BY <4>1, <4>3 DEF TypeOK
    <3> QED BY <2>3, <3>1 DEF DelLoggerCall, At, Goto, chans, hist, TypeOK, Holding, Writing,
       PCs
  <2>4. CASE AsyncCall
    BY <2>4 DEF AsyncCall, At, Goto, adapt, chans, locals, hist, TypeOK,
       Holding, Writing, PCs
  <2>5. CASE ResetCall
    BY <2>5 DEF ResetCall, At, Goto, config, adapt, chans, locals, hist,
       TypeOK, Holding, Writing, PCs
  <2>6. CASE SetLogger
    <3>1. /\ outputs' \in Seq(Adapters) \cup {Nil}
          /\ lg' \in [Adapters -> {"new", "open", "closed"}]
      BY <2>6, AppendAdapterTypes DEF SetLogger
    <3> QED BY <2>6, <3>1 DEF SetLogger, At, Goto, chans, locals, hist, TypeOK, Holding,
       Writing, PCs
  <2>7. CASE DelLogger
    <3>1. /\ todo' \in [Goroutines -> Seq(Adapters)]
          /\ outputs' \in Seq(Adapters)
      BY <2>7 DEF DelLogger, TypeOK
    <3> QED BY <2>7, <3>1 DEF DelLogger, At, Goto, chans, hist, TypeOK, Holding, Writing, PCs
  <2>8. CASE MakeChan
    BY <2>8 DEF MakeChan, At, Goto, adapt, chans, locals, hist, TypeOK,
       Holding, Writing, PCs
  <2>9. CASE GoLogger
    BY <2>9 DEF GoLogger, At, adapt, locals, hist, TypeOK, Holding, Writing,
       PCs
  <2>10. CASE ResetDestroy
    BY <2>10 DEF ResetDestroy, At, Goto, config, chans, locals, hist, TypeOK,
       Holding, Writing, PCs
  <2>11. CASE ResetNil
    BY <2>11 DEF ResetNil, At, Goto, config, chans, locals, hist, TypeOK,
       Holding, Writing, PCs
  <2> QED BY <1>5, <2>1, <2>2, <2>3, <2>4, <2>5, <2>6, <2>7, <2>8, <2>9, <2>10,
     <2>11 DEF MainCalls, MainSteps
<1> QED BY <1>1, <1>2, <1>3, <1>4, <1>5 DEF Next

LEMMA InitTypes == ASSUME Init PROVE TypeOK /\ Holding
<1>1. /\ <<Default>> \in Seq(Adapters) /\ <<>> \in Seq(Adapters) /\ <<>> \in Seq(Messages)
      /\ <<>> \in Seq({"flush"}) /\ Len(<<>>) = 0
  OBVIOUS
<1>2. Holding
  BY DEF Init, Holding, Writing
<1>3. \A g \in Goroutines : (IF g = Logger THEN "off" ELSE "idle") \in PCs
  BY DEF PCs
<1>4. /\ pc \in [Goroutines -> PCs] /\ lg \in [Adapters -> {"new", "open", "closed"}]
      /\ written \in [Adapters -> Seq(Messages)] /\ todo \in [Goroutines -> Seq(Adapters)]
  BY <1>1, <1>3 DEF Init
<1>5. /\ msgChan \in Seq(Messages) /\ Len(msgChan) <= MsgChanLen
      /\ signalChan \in Seq({"flush"}) /\ Len(signalChan) <= 1 /\ outputs \in Seq(Adapters)
  BY <1>1 DEF Init
<1> QED BY <1>2, <1>4, <1>5 DEF Init, TypeOK

(* The types hold for every configuration: of the channels that they stay  *)
(* within their capacity, of a goroutine that writes that it has a message *)
(* to write.                                                               *)
THEOREM SpecTypeOK == Spec => []TypeOK
<1>1. Init => TypeOK /\ Holding
  BY InitTypes
<1>2. TypeOK /\ Holding /\ [Next]_vars => TypeOK' /\ Holding'
  <2>1. CASE Next
    BY <2>1, TypeNext
  <2>2. CASE UNCHANGED vars
    BY <2>2 DEF vars, config, adapt, chans, locals, hist, TypeOK, Holding
  <2> QED BY <2>1, <2>2
<1> QED BY <1>1, <1>2, PTL DEF Spec

-----------------------------------------------------------------------------
(* LogsInOrder.  A message is in one place at a time, its writer's hand,   *)
(* the channel or the logger's hand; what is behind it there is newer, and *)
(* what the adapters ahead of it have got is older.                        *)
Busy(w) == pc[w] \in Writing

IsLogged(m) == m \in Messages /\ 1 <= m[2] /\ m[2] <= sent[m[1]]
IsSent(m)   == IsLogged(m) /\ (Busy(m[1]) => m[2] < sent[m[1]])

(* The adapters that g may yet give its message to. *)
Ahead(g) == IF pc[g] = "loop" THEN Ran(todo[g]) ELSE Adapters

Older(a, m) == \A k \in Ran(written[a]) : Precedes(k, m)

(* No adapter is twice in a list, and none is used again. *)
Lists ==
  /\ Distinct(Elems(outputs)) /\ \A g \in Goroutines : Distinct(todo[g])
  /\ \A a \in Ran(Elems(outputs)) : lg[a] # "new"
  /\ pc[Main] = "delLogger" => Ran(todo[Main]) \subseteq Ran(Elems(outputs))

(* The writers write or the logger does. *)
Modes ==
  /\ pc[Logger] = "off" => msgChan = <<>>
  /\ \A w \in Writers : pc[w] \in {"range", "loop"} => ~asynchronous

InHand ==
  \A w \in Writers : Busy(w) =>
    /\ msg[w] = <<w, sent[w]>> /\ sent[w] >= 1
    /\ \A a \in Ahead(w) : Older(a, msg[w])

InChan ==
  /\ Ordered(msgChan)
  /\ \A k \in Ran(msgChan) : IsSent(k) /\ \A a \in Adapters : Older(a, k)

InLogger ==
  pc[Logger] \in {"range", "loop"} =>
    /\ IsSent(msg[Logger])
    /\ \A k \in Ran(msgChan) : Precedes(msg[Logger], k)
    /\ \A a \in Ahead(Logger) : Older(a, msg[Logger])

Queue ==
  /\ InHand /\ InChan /\ InLogger
  /\ \A a \in Adapters : \A m \in Ran(written[a]) : IsLogged(m)

(* Only the logger receives from the channel, and Main never writes. *)
LEMMA Places1 ==
  ASSUME IInv, NEW g \in Goroutines
  PROVE  /\ pc[g] = "take" => g = Logger
         /\ pc[g] \in {"range", "loop"} => g # Main
         /\ pc[g] = "drain" /\ g # Logger => ~asynchronous \/ g = Main
BY DEF IInv, Places, Configuring, LoggerPlaces, WriterPlaces

LEMMA ListsSame ==
  ASSUME Lists, UNCHANGED <<outputs, todo>>,
         \A a \in Adapters : lg[a] # "new" => lg'[a] # "new",
         Ran(Elems(outputs)) \subseteq Adapters,
         pc'[Main] = "delLogger" => pc[Main] = "delLogger"
  PROVE  Lists'
<1>1. Elems(outputs)' = Elems(outputs)
  BY DEF Elems
<1> QED BY <1>1 DEF Lists

LEMMA ListsAppend ==
  ASSUME TypeOK, Lists, UNCHANGED todo, pc'[Main] = "delLogger" => pc[Main] = "delLogger",
         \/ UNCHANGED <<outputs, lg>>
         \/ \E a \in Adapters : /\ lg[a] = "new" /\ lg' = [lg EXCEPT ![a] = "open"]
                                /\ outputs' = Append(Elems(outputs), a)
  PROVE  Lists'
<1>1. CASE UNCHANGED <<outputs, lg>>
  BY <1>1, ElemsTypes, ListsSame
<1>2. ASSUME NEW a \in Adapters, lg[a] = "new", lg' = [lg EXCEPT ![a] = "open"],
             outputs' = Append(Elems(outputs), a)
      PROVE  Lists'
  <2>1. a \notin Ran(Elems(outputs))
    BY <1>2 DEF Lists
  <2>2. /\ outputs' \in Seq(Adapters) /\ Ran(outputs') = Ran(Elems(outputs)) \cup {a}
        /\ Distinct(outputs')
    BY <1>2, <2>1, ElemsTypes, RanAppend DEF Lists
  <2>3. Elems(outputs)' = outputs'
    BY <2>2 DEF Elems
  <2>4. \A b \in Ran(outputs') : lg'[b] # "new"
    BY <1>2, <2>2, ElemsTypes DEF Lists, TypeOK
  <2>5. Ran(Elems(outputs))' = Ran(outputs') /\ Distinct(Elems(outputs))'
    BY <2>2, <2>3 DEF Ran, Distinct
  <2>6. \A g \in Goroutines : Distinct(todo[g])'
    BY DEF Lists, Distinct
  <2>7. Ran(todo[Main])' = Ran(todo[Main])
    BY DEF Ran
  <2> QED BY <2>2, <2>4, <2>5, <2>6, <2>7 DEF Lists
<1> QED BY <1>1, <1>2

(* The adapters of a list lose some. *)
LEMMA ListsLess ==
  ASSUME Lists, NEW o, Elems(outputs)' = o, Distinct(o), Ran(o) \subseteq Ran(Elems(outputs)),
         Ran(Elems(outputs)) \subseteq Adapters,
         \A a \in Adapters : lg[a] # "new" => lg'[a] # "new",
         \A g \in Goroutines : Distinct(todo'[g]),
         pc'[Main] = "delLogger" => Ran(todo'[Main]) \subseteq Ran(o)
  PROVE  Lists'
BY DEF Lists

LEMMA EmptyList == Distinct(<<>>) /\ Ran(<<>>) = {} /\ \A S : <<>> \in Seq(S)
BY DEF Distinct, Ran

(* The lists of adapters. *)
LEMMA ListsNext ==
  ASSUME TypeOK, IInv, Lists, Next
  PROVE  Lists'
<1>1. ASSUME NEW w \in Writers, LogCall(w) \/ LogSteps(w)
      PROVE  Lists'
  <2>1. CASE LogCall(w)
    <3>1. /\ UNCHANGED <<outputs, todo, lg>>
          /\ pc'[Main] = "delLogger" => pc[Main] = "delLogger"
      BY <2>1 DEF LogCall, At, Goto, config, adapt, chans, TypeOK, PCs
    <3> QED BY <3>1, ElemsTypes, ListsSame
  <2>2. CASE DefaultLogger(w)
    <3>1. /\ UNCHANGED todo /\ (pc'[Main] = "delLogger" => pc[Main] = "delLogger")
          /\ \/ UNCHANGED <<outputs, lg>>
             \/ \E a \in Adapters :
                  /\ lg[a] = "new" /\ lg' = [lg EXCEPT ![a] = "open"]
                  /\ outputs' = Append(Elems(outputs), a)
      <4>1. PICK name : AppendAdapter(name)
        BY <2>2 DEF DefaultLogger
      <4>2. UNCHANGED todo /\ (pc'[Main] = "delLogger" => pc[Main] = "delLogger")
        BY <2>2 DEF DefaultLogger, At, Goto, locals, TypeOK
      <4> QED BY <4>1, <4>2, AppendAdapterTypes
    <3> QED BY <3>1, ListsAppend
  <2>3. CASE ReadMode(w)
    <3>1. /\ UNCHANGED <<outputs, todo, lg>>
          /\ pc'[Main] = "delLogger" => pc[Main] = "delLogger"
      BY <2>3 DEF ReadMode, At, Goto, config, adapt, chans, hist, TypeOK, PCs
    <3> QED BY <3>1, ElemsTypes, ListsSame
  <2>4. CASE ReadOutputs(w)
    <3>1. /\ UNCHANGED <<outputs, todo, lg>>
          /\ pc'[Main] = "delLogger" => pc[Main] = "delLogger"
      BY <2>4 DEF ReadOutputs, At, Goto, config, adapt, chans, hist, TypeOK,
         PCs
    <3> QED BY <3>1, ElemsTypes, ListsSame
  <2>5. CASE Send(w)
    <3>1. /\ UNCHANGED <<outputs, todo, lg>>
          /\ pc'[Main] = "delLogger" => pc[Main] = "delLogger"
      BY <2>5 DEF Send, At, Goto, config, adapt, hist, TypeOK, PCs
    <3> QED BY <3>1, ElemsTypes, ListsSame
  <2> QED BY <1>1, <2>1, <2>2, <2>3, <2>4, <2>5 DEF LogSteps
<1>2. ASSUME NEW f \in Flushers, FlushCall(f) \/ FlushSteps(f)
      PROVE  Lists'
  <2>1. CASE FlushCall(f)
    <3>1. /\ UNCHANGED <<outputs, todo, lg>>
          /\ pc'[Main] = "delLogger" => pc[Main] = "delLogger"
      BY <2>1 DEF FlushCall, At, Goto, config, adapt, chans, locals, TypeOK,
         PCs
    <3> QED BY <3>1, ElemsTypes, ListsSame
  <2>2. CASE Signal(f)
    <3>1. /\ UNCHANGED <<outputs, todo, lg>>
          /\ pc'[Main] = "delLogger" => pc[Main] = "delLogger"
      BY <2>2 DEF Signal, At, Goto, config, adapt, locals, hist, TypeOK, PCs
    <3> QED BY <3>1, ElemsTypes, ListsSame
  <2>3. CASE Wait(f)
    <3>1. /\ UNCHANGED <<outputs, todo, lg>>
          /\ pc'[Main] = "delLogger" => pc[Main] = "delLogger"
      BY <2>3 DEF Wait, At, Goto, config, adapt, chans, locals, hist, TypeOK,
         PCs
    <3> QED BY <3>1, ElemsTypes, ListsSame
  <2>4. CASE WakeUp(f)
    <3>1. /\ UNCHANGED <<outputs, todo, lg>>
          /\ pc'[Main] = "delLogger" => pc[Main] = "delLogger"
      BY <2>4 DEF WakeUp, At, Goto, config, adapt, chans, locals, hist, TypeOK,
         PCs
    <3> QED BY <3>1, ElemsTypes, ListsSame
  <2>5. CASE AddOne(f)
    <3>1. /\ UNCHANGED <<outputs, todo, lg>>
          /\ pc'[Main] = "delLogger" => pc[Main] = "delLogger"
      BY <2>5 DEF AddOne, At, Goto, config, adapt, locals, TypeOK, PCs
    <3> QED BY <3>1, ElemsTypes, ListsSame
  <2>6. CASE FlushSync(f)
    <3>1. /\ UNCHANGED <<outputs, todo, lg>>
          /\ pc'[Main] = "delLogger" => pc[Main] = "delLogger"
      BY <2>6 DEF FlushSync, At, Goto, config, adapt, chans, locals, TypeOK,
         PCs
    <3> QED BY <3>1, ElemsTypes, ListsSame
  <2> QED BY <1>2, <2>1, <2>2, <2>3, <2>4, <2>5, <2>6 DEF FlushSteps
<1>3. ASSUME NEW g \in Goroutines, Work(g)
      PROVE  Lists'
  <2>1. CASE RangeOutputs(g)
    <3>1. /\ todo' = [todo EXCEPT ![g] = Elems(outputs)] /\ UNCHANGED <<outputs, lg>>
          /\ g # Main /\ pc'[Main] = pc[Main]
      BY <2>1, Places1 DEF RangeOutputs, At, Goto, adapt, TypeOK
    <3>2. \A h \in Goroutines : Distinct(todo'[h])
      BY <3>1 DEF Lists, TypeOK
    <3>3. Elems(outputs)' = Elems(outputs) /\ todo'[Main] = todo[Main]
      BY <3>1 DEF Elems, TypeOK
    <3> QED BY <3>1, <3>2, <3>3, ElemsTypes, ListsLess DEF Lists
  <2>2. CASE WriteOne(g)
    <3>1. /\ todo[g] # <<>> /\ todo' = [todo EXCEPT ![g] = Tail(@)]
          /\ UNCHANGED <<outputs, lg, pc>> /\ g # Main
      BY <2>2, Places1 DEF WriteOne, At, adapt
    <3>2. Distinct(Tail(todo[g]))
      BY <3>1, ElemsTypes, RanTail DEF Lists
    <3>3. \A h \in Goroutines : Distinct(todo'[h])
      BY <3>1, <3>2 DEF Lists, TypeOK
    <3>4. Elems(outputs)' = Elems(outputs) /\ todo'[Main] = todo[Main]
      BY <3>1 DEF Elems, TypeOK
    <3> QED BY <3>1, <3>3, <3>4, ElemsTypes, ListsLess DEF Lists
  <2>3. CASE WriteEnd(g)
    <3>1. /\ UNCHANGED <<outputs, todo, lg>>
          /\ pc'[Main] = "delLogger" => pc[Main] = "delLogger"
      BY <2>3 DEF WriteEnd, At, Goto, config, adapt, chans, hist, TypeOK, PCs
    <3> QED BY <3>1, ElemsTypes, ListsSame
  <2>4. CASE TestLen(g)
    <3>1. /\ UNCHANGED <<outputs, todo, lg>>
          /\ pc'[Main] = "delLogger" => pc[Main] = "delLogger"
      BY <2>4 DEF TestLen, At, Goto, config, adapt, chans, locals, hist,
         TypeOK, PCs
    <3> QED BY <3>1, ElemsTypes, ListsSame
  <2>5. CASE Take(g)
    <3>1. /\ UNCHANGED <<outputs, todo, lg>>
          /\ pc'[Main] = "delLogger" => pc[Main] = "delLogger"
      BY <2>5 DEF Take, At, Goto, Receive, config, adapt, hist, TypeOK, PCs
    <3> QED BY <3>1, ElemsTypes, ListsSame
  <2> QED BY <1>3, <2>1, <2>2, <2>3, <2>4, <2>5 DEF Work
<1>4. ASSUME LoggerSteps
      PROVE  Lists'
  <2>1. CASE SelectMessage
    <3>1. /\ UNCHANGED <<outputs, todo, lg>>
          /\ pc'[Main] = "delLogger" => pc[Main] = "delLogger"
      BY <2>1 DEF SelectMessage, At, Goto, Receive, config, adapt, hist,
         TypeOK, PCs
    <3> QED BY <3>1, ElemsTypes, ListsSame
  <2>2. CASE SelectSignal
    <3>1. /\ UNCHANGED <<outputs, todo, lg>>
          /\ pc'[Main] = "delLogger" => pc[Main] = "delLogger"
      BY <2>2 DEF SelectSignal, At, Goto, config, adapt, locals, hist, TypeOK,
         PCs
    <3> QED BY <3>1, ElemsTypes, ListsSame
  <2>3. CASE Done
    <3>1. /\ UNCHANGED <<outputs, todo, lg>>
          /\ pc'[Main] = "delLogger" => pc[Main] = "delLogger"
      BY <2>3 DEF Done, At, config, adapt, locals, hist, TypeOK, PCs
    <3> QED BY <3>1, ElemsTypes, ListsSame
  <2> QED BY <1>4, <2>1, <2>2, <2>3 DEF LoggerSteps
<1>5. ASSUME MainCalls \/ MainSteps
      PROVE  Lists'
  <2>1. CASE Start
    <3>1. /\ UNCHANGED <<outputs, todo, lg>>
          /\ pc'[Main] = "delLogger" => pc[Main] = "delLogger"
      BY <2>1 DEF Start, At, adapt, chans, locals, hist, TypeOK, PCs
    <3> QED BY <3>1, ElemsTypes, ListsSame
  <2>2. CASE SetLoggerCall
    <3>1. /\ UNCHANGED <<todo, lg>> /\ pc'[Main] = "setLogger" /\ outputs' \in {outputs, <<>>}
      BY <2>2 DEF SetLoggerCall, At, Goto, locals, TypeOK
    <3>2. Elems(outputs)' \in {Elems(outputs), <<>>}
      BY <3>1 DEF Elems
    <3>3. Distinct(Elems(outputs)) /\ \A g \in Goroutines : Distinct(todo'[g])
      BY <3>1 DEF Lists
    <3> QED BY <3>1, <3>2, <3>3, EmptyList, ElemsTypes, ListsLess
  <2>3. CASE DelLoggerCall
    <3>1. PICK i \in DOMAIN Elems(outputs) :
            /\ lg' = [lg EXCEPT ![outputs[i]] = "closed"]
            /\ todo' = [todo EXCEPT ![Main] = Without(outputs, i)]
      BY <2>3 DEF DelLoggerCall
    <3>2. outputs = Elems(outputs) /\ Elems(outputs)' = Elems(outputs)
      BY <2>3, <3>1 DEF DelLoggerCall, Elems
    <3>3. /\ Distinct(Without(outputs, i))
          /\ Ran(Without(outputs, i)) \subseteq Ran(Elems(outputs))
      BY <3>1, <3>2, ElemsTypes, WithoutTypes DEF Lists
    <3>4. \A a \in Adapters : lg[a] # "new" => lg'[a] # "new"
      BY <3>1 DEF TypeOK
    <3>5. /\ \A g \in Goroutines : Distinct(todo'[g])
          /\ Ran(todo'[Main]) \subseteq Ran(Elems(outputs))
      BY <3>1, <3>3 DEF Lists, TypeOK
    <3> QED BY <3>2, <3>4, <3>5, ElemsTypes, ListsLess DEF Lists
  <2>4. CASE AsyncCall
    <3>1. /\ UNCHANGED <<outputs, todo, lg>>
          /\ pc'[Main] = "delLogger" => pc[Main] = "delLogger"
      BY <2>4 DEF AsyncCall, At, Goto, adapt, chans, locals, hist, TypeOK, PCs
    <3> QED BY <3>1, ElemsTypes, ListsSame
  <2>5. CASE ResetCall
    <3>1. /\ UNCHANGED <<outputs, todo, lg>>
          /\ pc'[Main] = "delLogger" => pc[Main] = "delLogger"
      BY <2>5 DEF ResetCall, At, Goto, config, adapt, chans, locals, hist,
         TypeOK, PCs
    <3> QED BY <3>1, ElemsTypes, ListsSame
  <2>6. CASE SetLogger
    <3>1. /\ UNCHANGED todo /\ (pc'[Main] = "delLogger" => pc[Main] = "delLogger")
          /\ \/ UNCHANGED <<outputs, lg>>
             \/ \E a \in Adapters :
                  /\ lg[a] = "new" /\ lg' = [lg EXCEPT ![a] = "open"]
                  /\ outputs' = Append(Elems(outputs), a)
      <4>1. PICK name : AppendAdapter(name)
        BY <2>6 DEF SetLogger
      <4>2. UNCHANGED todo /\ (pc'[Main] = "delLogger" => pc[Main] = "delLogger")
        BY <2>6 DEF SetLogger, At, Goto, locals, TypeOK
      <4> QED BY <4>1, <4>2, AppendAdapterTypes
    <3> QED BY <3>1, ListsAppend
  <2>7. CASE DelLogger
    <3>1. /\ outputs' = todo[Main] /\ todo' = [todo EXCEPT ![Main] = <<>>] /\ UNCHANGED lg
          /\ pc[Main] = "delLogger" /\ pc'[Main] = "idle"
      BY <2>7 DEF DelLogger, At, Goto, TypeOK
    <3>2. Elems(outputs)' = todo[Main]
      BY <3>1, ElemsTypes DEF Elems
    <3>3. Distinct(todo[Main]) /\ Ran(todo[Main]) \subseteq Ran(Elems(outputs))
      BY <3>1 DEF Lists
    <3>4. \A g \in Goroutines : Distinct(todo'[g])
      BY <3>1, EmptyList DEF Lists, TypeOK
    <3> QED BY <3>1, <3>2, <3>3, <3>4, ElemsTypes, ListsLess
  <2>8. CASE MakeChan
    <3>1. /\ UNCHANGED <<outputs, todo, lg>>
          /\ pc'[Main] = "delLogger" => pc[Main] = "delLogger"
      BY <2>8 DEF MakeChan, At, Goto, adapt, chans, locals, hist, TypeOK, PCs
    <3> QED BY <3>1, ElemsTypes, ListsSame
  <2>9. CASE GoLogger
    <3>1. /\ UNCHANGED <<outputs, todo, lg>>
          /\ pc'[Main] = "delLogger" => pc[Main] = "delLogger"
      BY <2>9 DEF GoLogger, At, adapt, locals, hist, TypeOK, PCs
    <3> QED BY <3>1, ElemsTypes, ListsSame
  <2>10. CASE ResetDestroy
    <3>1. /\ UNCHANGED <<outputs, todo>> /\ pc'[Main] = "reset"
          /\ \A a \in Adapters : lg[a] # "new" => lg'[a] # "new"
      BY <2>10 DEF ResetDestroy, At, Goto, locals, TypeOK
    <3> QED BY <3>1, ElemsTypes, ListsSame
  <2>11. CASE ResetNil
    <3>1. UNCHANGED <<todo, lg>> /\ pc'[Main] = "idle" /\ outputs' = Nil
      BY <2>11 DEF ResetNil, At, Goto, locals, TypeOK
    <3>2. Elems(outputs)' = <<>>
      BY <3>1 DEF Elems
    <3>3. \A g \in Goroutines : Distinct(todo'[g])
      BY <3>1 DEF Lists
    <3> QED BY <3>1, <3>2, <3>3, EmptyList, ElemsTypes, ListsLess
  <2> QED BY <1>5, <2>1, <2>2, <2>3, <2>4, <2>5, <2>6, <2>7, <2>8, <2>9, <2>10,
     <2>11 DEF MainCalls, MainSteps
<1> QED BY <1>1, <1>2, <1>3, <1>4, <1>5 DEF Next

(* Who writes. *)
LEMMA ModesNext ==
  ASSUME Quiet, IInv, Modes, Next
  PROVE  Modes'
<1>1. ASSUME NEW w \in Writers, LogCall(w) \/ LogSteps(w)
      PROVE  Modes'
  <2>1. CASE LogCall(w)
    BY <2>1 DEF LogCall, At, Goto, config, adapt, chans, Setup, IInv, Types,
       Before, Configuring, LoggerPlaces, WriterPlaces, Places, Modes
  <2>2. CASE DefaultLogger(w)
    BY <2>2 DEF DefaultLogger, At, Goto, config, chans, locals, hist, Setup,
       IInv, Types, Before, Configuring, LoggerPlaces, WriterPlaces, Places,
       Modes
  <2>3. CASE ReadMode(w)
    BY <2>3 DEF ReadMode, At, Goto, config, adapt, chans, hist, Setup, IInv,
       Types, Before, Configuring, LoggerPlaces, WriterPlaces, Places, Modes
  <2>4. CASE ReadOutputs(w)
    BY <2>4 DEF ReadOutputs, At, Goto, config, adapt, chans, hist, Setup, IInv,
       Types, Before, Configuring, LoggerPlaces, WriterPlaces, Places, Modes
  <2>5. CASE Send(w)
    BY <2>5 DEF Send, At, Goto, config, adapt, hist, Setup, IInv, Types,
       Before, Configuring, LoggerPlaces, WriterPlaces, Places, Modes
  <2> QED BY <1>1, <2>1, <2>2, <2>3, <2>4, <2>5 DEF LogSteps
<1>2. ASSUME NEW f \in Flushers, FlushCall(f) \/ FlushSteps(f)
      PROVE  Modes'
  <2>1. CASE FlushCall(f)
    BY <2>1 DEF FlushCall, At, Goto, config, adapt, chans, locals, Setup, IInv,
       Types, Before, Configuring, LoggerPlaces, WriterPlaces, Places, Modes
  <2>2. CASE Signal(f)
    BY <2>2 DEF Signal, At, Goto, config, adapt, locals, hist, Setup, IInv,
       Types, Before, Configuring, LoggerPlaces, WriterPlaces, Places, Modes
  <2>3. CASE Wait(f)
    BY <2>3 DEF Wait, At, Goto, config, adapt, chans, locals, hist, Setup,
       IInv, Types, Before, Configuring, LoggerPlaces, WriterPlaces, Places,
       Modes
  <2>4. CASE WakeUp(f)
    BY <2>4 DEF WakeUp, At, Goto, config, adapt, chans, locals, hist, Setup,
       IInv, Types, Before, Configuring, LoggerPlaces, WriterPlaces, Places,
       Modes
  <2>5. CASE AddOne(f)
    BY <2>5 DEF AddOne, At, Goto, config, adapt, locals, Setup, IInv, Types,
       Before, Configuring, LoggerPlaces, WriterPlaces, Places, Modes
  <2>6. CASE FlushSync(f)
    BY <2>6 DEF FlushSync, At, Goto, config, adapt, chans, locals, Setup, IInv,
       Types, Before, Configuring, LoggerPlaces, WriterPlaces, Places, Modes
  <2> QED BY <1>2, <2>1, <2>2, <2>3, <2>4, <2>5, <2>6 DEF FlushSteps
<1>3. ASSUME NEW g \in Goroutines, Work(g)
      PROVE  Modes'
  <2>1. CASE RangeOutputs(g)
    BY <2>1 DEF RangeOutputs, At, Goto, config, adapt, chans, hist, Setup,
       IInv, Types, Before, Configuring, LoggerPlaces, WriterPlaces, Places,
       Modes
  <2>2. CASE WriteOne(g)
    BY <2>2 DEF WriteOne, At, Goto, config, adapt, chans, Setup, IInv, Types,
       Before, Configuring, LoggerPlaces, WriterPlaces, Places, Modes
  <2>3. CASE WriteEnd(g)
    BY <2>3 DEF WriteEnd, At, Goto, config, adapt, chans, hist, Setup, IInv,
       Types, Before, Configuring, LoggerPlaces, WriterPlaces, Places, Modes
  <2>4. CASE TestLen(g)
    BY <2>4 DEF TestLen, At, Goto, config, adapt, chans, locals, hist, Setup,
       IInv, Types, Before, Configuring, LoggerPlaces, WriterPlaces, Places,
       Modes
  <2>5. CASE Take(g)
    BY <2>5 DEF Take, At, Goto, Receive, config, adapt, hist, Setup, IInv,
       Types, Before, Configuring, LoggerPlaces, WriterPlaces, Places, Modes
  <2> QED BY <1>3, <2>1, <2>2, <2>3, <2>4, <2>5 DEF Work
<1>4. ASSUME LoggerSteps
      PROVE  Modes'
  <2>1. CASE SelectMessage
    BY <2>1 DEF SelectMessage, At, Goto, Receive, config, adapt, hist, Setup,
       IInv, Types, Before, Configuring, LoggerPlaces, WriterPlaces, Places,
       Modes
  <2>2. CASE SelectSignal
    BY <2>2 DEF SelectSignal, At, Goto, config, adapt, locals, hist, Setup,
       IInv, Types, Before, Configuring, LoggerPlaces, WriterPlaces, Places,
       Modes
  <2>3. CASE Done
    BY <2>3 DEF Done, At, config, adapt, locals, hist, Setup, IInv, Types,
       Before, Configuring, LoggerPlaces, WriterPlaces, Places, Modes
  <2> QED BY <1>4, <2>1, <2>2, <2>3 DEF LoggerSteps
<1>5. ASSUME MainCalls \/ MainSteps
      PROVE  Modes'
  <2>1. CASE Start
    BY <2>1 DEF Start, At, adapt, chans, locals, hist, Setup, IInv, Types,
       Before, Configuring, LoggerPlaces, WriterPlaces, Places, Modes
  <2>2. CASE SetLoggerCall
    BY <2>2 DEF SetLoggerCall, At, Goto, chans, locals, hist, Setup, IInv,
       Types, Before, Configuring, LoggerPlaces, WriterPlaces, Places, Modes
  <2>3. CASE DelLoggerCall
    BY <2>3 DEF DelLoggerCall, At, Goto, chans, hist, Setup, IInv, Types,
       Before, Configuring, LoggerPlaces, WriterPlaces, Places, Modes
  <2>4. CASE AsyncCall
    BY <2>4 DEF AsyncCall, At, Goto, adapt, chans, locals, hist, Setup, IInv,
       Types, Before, Configuring, LoggerPlaces, WriterPlaces, Places, Modes
  <2>5. CASE ResetCall
    BY <2>5 DEF ResetCall, At, Goto, config, adapt, chans, locals, hist, Setup,
       IInv, Types, Before, Configuring, LoggerPlaces, WriterPlaces, Places,
       Modes
  <2>6. CASE SetLogger
    BY <2>6 DEF SetLogger, At, Goto, chans, locals, hist, Setup, IInv, Types,
       Before, Configuring, LoggerPlaces, WriterPlaces, Places, Modes
  <2>7. CASE DelLogger
    BY <2>7 DEF DelLogger, At, Goto, chans, hist, Setup, IInv, Types, Before,
       Configuring, LoggerPlaces, WriterPlaces, Places, Modes
  <2>8. CASE MakeChan
    BY <2>8 DEF MakeChan, At, Goto, adapt, chans, locals, hist, Setup, IInv,
       Types, Before, Configuring, LoggerPlaces, WriterPlaces, Places, Modes
  <2>9. CASE GoLogger
    BY <2>9 DEF GoLogger, At, adapt, locals, hist, Setup, IInv, Types, Before,
       Configuring, LoggerPlaces, WriterPlaces, Places, Modes
  <2>10. CASE ResetDestroy
    BY <2>10 DEF ResetDestroy, At, Goto, config, chans, locals, hist, Setup,
       IInv, Types, Before, Configuring, LoggerPlaces, WriterPlaces, Places,
       Modes
  <2>11. CASE ResetNil
    BY <2>11 DEF ResetNil, At, Goto, config, chans, locals, hist, Setup, IInv,
       Types, Before, Configuring, LoggerPlaces, WriterPlaces, Places, Modes
  <2> QED BY <1>5, <2>1, <2>2, <2>3, <2>4, <2>5, <2>6, <2>7, <2>8, <2>9, <2>10,
     <2>11 DEF MainCalls, MainSteps
<1> QED BY <1>1, <1>2, <1>3, <1>4, <1>5 DEF Next

(* A step that takes nothing further than it is: who writes after it wrote *)
(* before, the same and to no more adapters.                               *)
Still ==
  /\ UNCHANGED <<msgChan, written, sent>>
  /\ \A g \in Writers \cup {Logger} :
       pc'[g] \in Writing => /\ pc[g] \in Writing /\ msg'[g] = msg[g]
                             /\ Ahead(g)' \subseteq Ahead(g)

LEMMA StillQueue ==
  ASSUME IInv, Queue, Still
  PROVE  Queue'
<1>1. /\ UNCHANGED <<msgChan, written, sent>>
      /\ \A w \in Writers :
           Busy(w)' => Busy(w) /\ msg'[w] = msg[w] /\ Ahead(w)' \subseteq Ahead(w)
  BY DEF Still, Busy
<1>2. \A m : IsLogged(m) => IsLogged(m)'
  BY <1>1 DEF IsLogged
<1>3. \A m : IsSent(m) => IsSent(m)'
  BY <1>1, <1>2 DEF IsSent, IsLogged, Messages
<1>4. \A a, m : Older(a, m) => Older(a, m)'
  BY <1>1 DEF Older
<1>5. InHand'
  BY <1>1, <1>4 DEF Queue, InHand
<1>6. InChan'
  BY <1>1, <1>3, <1>4 DEF Queue, InChan
<1>7. InLogger'
  <2> SUFFICES ASSUME pc'[Logger] \in {"range", "loop"} PROVE InLogger'
    BY DEF InLogger
  <2>1. /\ pc[Logger] \in Writing /\ msg'[Logger] = msg[Logger]
        /\ Ahead(Logger)' \subseteq Ahead(Logger)
    BY DEF Still, Writing
  <2>2. pc[Logger] \in {"range", "loop"}
    BY <2>1 DEF IInv, Places, LoggerPlaces, Writing
  <2> QED BY <1>1, <1>3, <1>4, <2>1, <2>2 DEF Queue, InLogger
<1>8. \A a \in Adapters : \A m \in Ran(written'[a]) : IsLogged(m)'
  BY <1>1, <1>2 DEF Queue
<1> QED BY <1>5, <1>6, <1>7, <1>8 DEF Queue

(* A new message is newer than all its writer has logged. *)
LEMMA LogCallQueue ==
  ASSUME TypeOK, IInv, Queue, NEW w \in Writers, LogCall(w)
  PROVE  Queue'
<1> DEFINE m == <<w, sent[w] + 1>>
<1>1. /\ UNCHANGED <<msgChan, written, todo>> /\ sent' = [sent EXCEPT ![w] = @ + 1]
      /\ msg' = [msg EXCEPT ![w] = m]
      /\ pc[w] = "idle" /\ pc' = [pc EXCEPT ![w] = IF init THEN "mode" ELSE "default"]
  BY DEF LogCall, At, Goto, chans
<1>2. /\ sent[w] \in Nat /\ sent'[w] = sent[w] + 1 /\ msg'[w] = m
      /\ pc'[w] \in {"mode", "default"} /\ ~Busy(w)
      /\ \A g \in Goroutines \ {w} : pc'[g] = pc[g] /\ msg'[g] = msg[g]
      /\ \A v \in Writers \ {w} : sent'[v] = sent[v]
      /\ \A v \in Writers : sent[v] \in Nat
  BY <1>1 DEF TypeOK, Busy, Writing
<1>3. \A k : IsLogged(k) => IsLogged(k)' /\ Precedes(k, m)
  BY <1>2 DEF IsLogged, Messages, Precedes
<1>4. \A k : IsSent(k) => IsSent(k)'
  <2> SUFFICES ASSUME NEW k, IsSent(k) PROVE IsSent(k)'
    OBVIOUS
  <2>1. IsLogged(k) /\ IsLogged(k)' /\ k[1] \in Writers /\ k[2] \in Nat
    BY <1>3 DEF IsSent, IsLogged, Messages
  <2>2. CASE k[1] = w
    BY <1>2, <2>1, <2>2 DEF IsSent, IsLogged
  <2>3. CASE k[1] # w
    BY <1>2, <2>1, <2>3 DEF IsSent, Busy
  <2> QED BY <2>2, <2>3
<1>5. \A a, k : Older(a, k) => Older(a, k)'
  BY <1>1 DEF Older
<1>6. InHand'
  <2> SUFFICES ASSUME NEW v \in Writers, Busy(v)'
               PROVE  /\ msg'[v] = <<v, sent'[v]>> /\ sent'[v] >= 1
                      /\ \A a \in Ahead(v)' : Older(a, msg[v])'
    BY DEF InHand
  <2>1. CASE v = w
    <3>1. Ahead(w)' = Adapters
      BY <1>2 DEF Ahead
    <3>2. \A a \in Adapters : \A k \in Ran(written'[a]) : Precedes(k, m)
      BY <1>1, <1>3 DEF Queue
    <3>3. m = <<w, sent'[w]>> /\ sent'[w] >= 1
      BY <1>2
    <3> QED BY <1>2, <2>1, <3>1, <3>2, <3>3 DEF Older
  <2>2. CASE v # w
    <3>1. Busy(v) /\ Ahead(v)' = Ahead(v)
      BY <1>1, <1>2, <2>2 DEF Busy, Ahead
    <3> QED BY <1>2, <1>5, <2>2, <3>1 DEF Queue, InHand
  <2> QED BY <2>1, <2>2
<1>7. InChan'
  BY <1>1, <1>4, <1>5 DEF Queue, InChan
<1>8. InLogger'
  <2>1. /\ Ahead(Logger)' = Ahead(Logger) /\ pc'[Logger] = pc[Logger]
        /\ msg'[Logger] = msg[Logger]
    BY <1>1, <1>2 DEF Ahead
  <2> QED BY <1>1, <1>4, <1>5, <2>1 DEF Queue, InLogger
<1>9. \A a \in Adapters : \A k \in Ran(written'[a]) : IsLogged(k)'
  BY <1>1, <1>3 DEF Queue
<1> QED BY <1>6, <1>7, <1>8, <1>9 DEF Queue

(* A message that goes to the channel is the newest of its writer's. *)
LEMMA SendQueue ==
  ASSUME TypeOK, IInv, Queue, NEW w \in Writers, Send(w)
  PROVE  Queue'
<1> SUFFICES ASSUME NEW m, m = msg[w] PROVE Queue'
  OBVIOUS
<1>1. /\ UNCHANGED <<written, todo, sent>> /\ msgChan' = Append(msgChan, m)
      /\ pc[w] = "send" /\ pc' = [pc EXCEPT ![w] = "idle"] /\ msg' = [msg EXCEPT ![w] = Nil]
  BY DEF Send, At, Goto, hist
<1>2. /\ Busy(w) /\ ~Busy(w)' /\ Ahead(w) = Adapters
      /\ \A g \in Goroutines \ {w} : pc'[g] = pc[g] /\ msg'[g] = msg[g]
      /\ sent[w] \in Nat
  BY <1>1 DEF TypeOK, Busy, Writing, Ahead
<1>3. m = <<w, sent[w]>> /\ sent[w] >= 1 /\ \A a \in Adapters : Older(a, m)
  BY <1>2 DEF Queue, InHand
<1>4. m \in Messages /\ m[1] = w /\ m[2] = sent[w]
  BY <1>2, <1>3 DEF Messages
<1>5. \A k : IsSent(k) => Precedes(k, m)
  BY <1>2, <1>4 DEF IsSent, Precedes
<1>6. \A k : IsLogged(k) => IsLogged(k)'
  BY <1>1 DEF IsLogged
<1>7. \A k : IsSent(k) => IsSent(k)'
  <2>1. \A v \in Writers : Busy(v)' => Busy(v)
    BY <1>2 DEF Busy
  <2> QED BY <1>1, <1>6, <2>1 DEF IsSent, IsLogged, Messages
<1>8. IsSent(m)'
  BY <1>1, <1>2, <1>3, <1>4 DEF IsSent, IsLogged
<1>9. \A a, k : Older(a, k) => Older(a, k)'
  BY <1>1 DEF Older
<1>10. /\ Ran(msgChan') = Ran(msgChan) \cup {m}
       /\ (\A y \in Ran(msgChan) : Precedes(y, m)) /\ Ordered(msgChan) => Ordered(msgChan')
  BY <1>1, <1>4, RanAppend DEF TypeOK
<1>11. InHand'
  <2> SUFFICES ASSUME NEW v \in Writers, Busy(v)'
               PROVE  /\ msg'[v] = <<v, sent'[v]>> /\ sent'[v] >= 1
                      /\ \A a \in Ahead(v)' : Older(a, msg[v])'
    BY DEF InHand
  <2>1. v # w /\ Busy(v) /\ Ahead(v)' = Ahead(v)
    BY <1>1, <1>2 DEF Busy, Ahead
  <2> QED BY <1>1, <1>2, <1>9, <2>1 DEF Queue, InHand
<1>12. InChan'
  BY <1>3, <1>5, <1>7, <1>8, <1>9, <1>10 DEF Queue, InChan
<1>13. InLogger'
  <2>1. /\ Ahead(Logger)' = Ahead(Logger) /\ pc'[Logger] = pc[Logger]
        /\ msg'[Logger] = msg[Logger]
    BY <1>1, <1>2 DEF Ahead
  <2> QED BY <1>5, <1>7, <1>9, <1>10, <2>1 DEF Queue, InLogger
<1>14. \A a \in Adapters : \A k \in Ran(written'[a]) : IsLogged(k)'
  BY <1>1, <1>6 DEF Queue
<1> QED BY <1>11, <1>12, <1>13, <1>14 DEF Queue

(* The logger takes the oldest message. *)
LEMMA ReceiveQueue ==
  ASSUME TypeOK, IInv, Queue, NEW label, Receive(Logger, label)
  PROVE  Queue'
<1> DEFINE m == Head(msgChan)
<1>1. /\ UNCHANGED <<written, todo, sent>> /\ msgChan # <<>> /\ msgChan' = Tail(msgChan)
      /\ pc' = [pc EXCEPT ![Logger] = "range"] /\ msg' = [msg EXCEPT ![Logger] = m]
  BY DEF Receive, Goto, hist
<1>2. /\ m \in Ran(msgChan) /\ Ran(msgChan') \subseteq Ran(msgChan)
      /\ Ordered(msgChan) => Ordered(msgChan') /\ \A y \in Ran(msgChan') : Precedes(m, y)
  BY <1>1, RanTail DEF TypeOK
<1> HIDE DEF m
<1>3. /\ \A w \in Writers : pc'[w] = pc[w] /\ msg'[w] = msg[w]
      /\ pc'[Logger] = "range" /\ msg'[Logger] = m
  BY <1>1 DEF TypeOK
<1>4. /\ \A w \in Writers : Busy(w)' = Busy(w) /\ Ahead(w)' = Ahead(w)
      /\ Ahead(Logger)' = Adapters
  BY <1>1, <1>3 DEF Busy, Ahead
<1>5. /\ \A k : IsLogged(k) => IsLogged(k)'
      /\ \A k : IsSent(k) => IsSent(k)'
      /\ \A a, k : Older(a, k) => Older(a, k)'
  BY <1>1, <1>4 DEF IsSent, IsLogged, Messages, Older
<1>6. InHand'
  BY <1>1, <1>3, <1>4, <1>5 DEF Queue, InHand
<1>7. InChan'
  BY <1>2, <1>5 DEF Queue, InChan
<1>8. InLogger'
  BY <1>2, <1>3, <1>4, <1>5 DEF Queue, InChan, InLogger
<1>9. \A a \in Adapters : \A k \in Ran(written'[a]) : IsLogged(k)'
  BY <1>1, <1>5 DEF Queue
<1> QED BY <1>6, <1>7, <1>8, <1>9 DEF Queue

(* A writer writes its newest message, and the logger an older one than    *)
(* there is in any hand and in the channel.                                *)
LEMMA WriteOneQueue ==
  ASSUME TypeOK, IInv, Lists, Modes, Queue, NEW g \in Goroutines, WriteOne(g)
  PROVE  Queue'
<1> SUFFICES ASSUME NEW m, m = msg[g], NEW b, b = Head(todo[g]) PROVE Queue'
  OBVIOUS
<1>1. /\ UNCHANGED <<msgChan, msg, sent, pc>> /\ pc[g] = "loop" /\ todo[g] # <<>>
      /\ written' = [written EXCEPT ![b] = Append(@, m)]
      /\ todo' = [todo EXCEPT ![g] = Tail(@)]
  BY DEF WriteOne, At, chans
<1>2. g \in Writers \/ g = Logger
  BY <1>1, Places1
<1>3. /\ b \in Adapters /\ b \in Ran(todo[g]) /\ b \notin Ran(Tail(todo[g]))
      /\ Ran(Tail(todo[g])) \subseteq Ran(todo[g])
  BY <1>1, ElemsTypes, RanTail DEF Lists
<1>4. /\ IsLogged(m) /\ Busy(g)
      /\ g \in Writers => m = <<g, sent[g]>> /\ sent[g] \in Nat
      /\ g = Logger => IsSent(m) /\ \A k \in Ran(msgChan) : Precedes(m, k)
  <2>1. CASE g \in Writers
    <3>1. Busy(g)
      BY <1>1 DEF Busy, Writing
    <3>2. m = <<g, sent[g]>> /\ sent[g] >= 1 /\ sent[g] \in Nat
      BY <2>1, <3>1 DEF Queue, InHand, TypeOK
    <3>3. IsLogged(m)
      BY <2>1, <3>2 DEF IsLogged, Messages
    <3> QED BY <2>1, <3>1, <3>2, <3>3
  <2>2. CASE g = Logger
    BY <1>1, <2>2 DEF Queue, InLogger, IsSent, Busy, Writing
  <2> QED BY <1>2, <2>1, <2>2
<1>5. /\ Ahead(g)' = Ran(Tail(todo[g])) /\ Ahead(g) = Ran(todo[g])
      /\ \A h \in Goroutines \ {g} : Ahead(h)' = Ahead(h)
  BY <1>1 DEF Ahead, TypeOK
<1>6. \A a \in Adapters : Ran(written'[a]) = IF a = b THEN Ran(written[a]) \cup {m}
                                             ELSE Ran(written[a])
  <2>1. m \in Messages /\ written[b] \in Seq(Messages)
    BY <1>3, <1>4, ElemsTypes DEF IsLogged
  <2>2. Ran(Append(written[b], m)) = Ran(written[b]) \cup {m}
    BY <2>1, RanAppend
  <2> QED BY <1>1, <1>3, <2>2 DEF TypeOK
<1>7. \A a \in Adapters : \A k : Older(a, k) /\ (a = b => Precedes(m, k)) => Older(a, k)'
  BY <1>6 DEF Older
<1>8. /\ \A k : IsLogged(k) => IsLogged(k)'
      /\ \A k : IsSent(k) => IsSent(k)'
      /\ \A h : Busy(h)' = Busy(h)
  BY <1>1 DEF IsSent, IsLogged, Busy
<1>9. \A h \in Goroutines : Ahead(h) \subseteq Adapters
  BY ElemsTypes DEF Ahead
<1>10. InHand'
  <2> SUFFICES ASSUME NEW v \in Writers, Busy(v), NEW a \in Ahead(v)'
               PROVE  Older(a, msg[v])'
    BY <1>1, <1>5, <1>8 DEF Queue, InHand
  <2>1. /\ a \in Ahead(v) /\ a \in Adapters /\ Older(a, msg[v]) /\ msg[v] = <<v, sent[v]>>
        /\ a = b => v # g
    BY <1>3, <1>5, <1>9 DEF Queue, InHand
  <2>2. a = b => Precedes(m, msg[v])
    <3>1. CASE g \in Writers
      BY <1>4, <2>1, <3>1 DEF Precedes
    <3>2. CASE g = Logger
      BY <1>4, <2>1, <3>2 DEF Precedes, IsSent
    <3> QED BY <1>2, <3>1, <3>2
  <2> QED BY <1>1, <1>7, <2>1, <2>2 DEF Older
<1>11. InChan'
  <2>1. CASE g \in Writers
    <3>1. msgChan = <<>>
      BY <1>1, <2>1 DEF Modes, IInv, Places, Configuring
    <3> QED BY <1>1, <3>1, EmptyList DEF InChan, Ordered
  <2>2. CASE g = Logger
    BY <1>1, <1>4, <1>7, <1>8, <2>2 DEF Queue, InChan
  <2> QED BY <1>2, <2>1, <2>2
<1>12. InLogger'
  <2>1. CASE g \in Writers
    <3>1. pc[Logger] \in {"range", "loop"} => asynchronous
      BY DEF IInv, Places, Configuring
    <3>2. pc'[Logger] \notin {"range", "loop"}
      BY <1>1, <2>1, <3>1 DEF Modes
    <3> QED BY <3>2 DEF InLogger
  <2>2. CASE g = Logger
    <3>1. \A a \in Ahead(Logger)' : Older(a, msg[Logger])'
      BY <1>1, <1>3, <1>5, <1>7, <1>9, <2>2 DEF Queue, InLogger, Older
    <3> QED BY <1>1, <1>8, <2>2, <3>1 DEF Queue, InLogger
  <2> QED BY <1>2, <2>1, <2>2
<1>13. \A a \in Adapters : \A k \in Ran(written'[a]) : IsLogged(k)'
  BY <1>4, <1>6, <1>8 DEF Queue
<1> QED BY <1>10, <1>11, <1>12, <1>13 DEF Queue

LEMMA QueueNext ==
  ASSUME TypeOK, IInv, Lists, Modes, Queue, Next
  PROVE  Queue'
<1>1. ASSUME NEW w \in Writers, LogCall(w) \/ LogSteps(w)
      PROVE  Queue'
  <2>1. CASE LogCall(w)
    BY <2>1, LogCallQueue
  <2>2. CASE DefaultLogger(w)
    <3>1. Still
      BY <2>2 DEF DefaultLogger, At, Goto, config, chans, locals, hist, Still,
         Ahead, Writing, TypeOK
    <3> QED BY <3>1, StillQueue
  <2>3. CASE ReadMode(w)
    <3>1. Still
      BY <2>3 DEF ReadMode, At, Goto, config, adapt, chans, hist, Still, Ahead,
         Writing, TypeOK
    <3> QED BY <3>1, StillQueue
  <2>4. CASE ReadOutputs(w)
    <3>1. Still
      BY <2>4 DEF ReadOutputs, At, Goto, config, adapt, chans, hist, Still,
         Ahead, Writing, TypeOK
    <3> QED BY <3>1, StillQueue
  <2>5. CASE Send(w)
    BY <2>5, SendQueue
  <2> QED BY <1>1, <2>1, <2>2, <2>3, <2>4, <2>5 DEF LogSteps
<1>2. ASSUME NEW f \in Flushers, FlushCall(f) \/ FlushSteps(f)
      PROVE  Queue'
  <2>1. CASE FlushCall(f)
    <3>1. Still
      BY <2>1 DEF FlushCall, At, Goto, config, adapt, chans, locals, Still,
         Ahead, Writing, TypeOK, IInv, Places, LoggerPlaces, WriterPlaces
    <3> QED BY <3>1, StillQueue
  <2>2. CASE Signal(f)
    <3>1. Still
      BY <2>2 DEF Signal, At, Goto, config, adapt, locals, hist, Still, Ahead,
         Writing, TypeOK, IInv, Places, LoggerPlaces, WriterPlaces
    <3> QED BY <3>1, StillQueue
  <2>3. CASE Wait(f)
    <3>1. Still
      BY <2>3 DEF Wait, At, Goto, config, adapt, chans, locals, hist, Still,
         Ahead, Writing, TypeOK, IInv, Places, LoggerPlaces, WriterPlaces
    <3> QED BY <3>1, StillQueue
  <2>4. CASE WakeUp(f)
    <3>1. Still
      BY <2>4 DEF WakeUp, At, Goto, config, adapt, chans, locals, hist, Still,
         Ahead, Writing, TypeOK, IInv, Places, LoggerPlaces, WriterPlaces
    <3> QED BY <3>1, StillQueue
  <2>5. CASE AddOne(f)
    <3>1. Still
      BY <2>5 DEF AddOne, At, Goto, config, adapt, locals, Still, Ahead,
         Writing, TypeOK, IInv, Places, LoggerPlaces, WriterPlaces
    <3> QED BY <3>1, StillQueue
  <2>6. CASE FlushSync(f)
    <3>1. Still
      BY <2>6 DEF FlushSync, At, Goto, config, adapt, chans, locals, Still,
         Ahead, Writing, TypeOK, IInv, Places, LoggerPlaces, WriterPlaces
    <3> QED BY <3>1, StillQueue
  <2> QED BY <1>2, <2>1, <2>2, <2>3, <2>4, <2>5, <2>6 DEF FlushSteps
<1>3. ASSUME NEW g \in Goroutines, Work(g)
      PROVE  Queue'
  <2>1. CASE RangeOutputs(g)
    <3>1. Still
      BY <2>1, ElemsTypes, Places1 DEF RangeOutputs, At, Goto, config, adapt,
         chans, hist, Still, Ahead, Writing, TypeOK
    <3> QED BY <3>1, StillQueue
  <2>2. CASE WriteOne(g)
    BY <2>2, WriteOneQueue
  <2>3. CASE WriteEnd(g)
    <3>1. Still
      BY <2>3, ElemsTypes, Places1 DEF WriteEnd, At, Goto, config, adapt,
         chans, hist, Still, Ahead, Writing, TypeOK, IInv, Places,
         LoggerPlaces, WriterPlaces
    <3> QED BY <3>1, StillQueue
  <2>4. CASE TestLen(g)
    <3>1. Still
      BY <2>4, ElemsTypes, Places1 DEF TestLen, At, Goto, config, adapt, chans,
         locals, hist, Still, Ahead, Writing, TypeOK
    <3> QED BY <3>1, StillQueue
  <2>5. CASE Take(g)
    <3>1. Receive(Logger, "drain")
      BY <2>5, Places1 DEF Take, At
    <3> QED BY <3>1, ReceiveQueue
  <2> QED BY <1>3, <2>1, <2>2, <2>3, <2>4, <2>5 DEF Work
<1>4. ASSUME LoggerSteps
      PROVE  Queue'
  <2>1. CASE SelectMessage
    BY <2>1, ReceiveQueue DEF SelectMessage
  <2>2. CASE SelectSignal
    <3>1. Still
      BY <2>2 DEF SelectSignal, At, Goto, config, adapt, locals, hist, Still,
         Ahead, Writing, TypeOK
    <3> QED BY <3>1, StillQueue
  <2>3. CASE Done
    <3>1. Still
      BY <2>3 DEF Done, At, config, adapt, locals, hist, Still, Ahead, Writing,
         TypeOK, IInv, Places, LoggerPlaces, WriterPlaces
    <3> QED BY <3>1, StillQueue
  <2> QED BY <1>4, <2>1, <2>2, <2>3 DEF LoggerSteps
<1>5. ASSUME MainCalls \/ MainSteps
      PROVE  Queue'
  <2>1. CASE Start
    <3>1. Still
      BY <2>1 DEF Start, At, adapt, chans, locals, hist, Still, Ahead, Writing,
         TypeOK
    <3> QED BY <3>1, StillQueue
  <2>2. CASE SetLoggerCall
    <3>1. Still
      BY <2>2 DEF SetLoggerCall, At, Goto, chans, locals, hist, Still, Ahead,
         Writing, TypeOK
    <3> QED BY <3>1, StillQueue
  <2>3. CASE DelLoggerCall
    <3>1. Still
      BY <2>3 DEF DelLoggerCall, At, Goto, chans, hist, Still, Ahead, Writing,
         TypeOK
    <3> QED BY <3>1, StillQueue
  <2>4. CASE AsyncCall
    <3>1. Still
      BY <2>4 DEF AsyncCall, At, Goto, adapt, chans, locals, hist, Still,
         Ahead, Writing, TypeOK
    <3> QED BY <3>1, StillQueue
  <2>5. CASE ResetCall
    <3>1. Still
      BY <2>5 DEF ResetCall, At, Goto, config, adapt, chans, locals, hist,
         Still, Ahead, Writing, TypeOK
    <3> QED BY <3>1, StillQueue
  <2>6. CASE SetLogger
    <3>1. Still
      BY <2>6 DEF SetLogger, At, Goto, chans, locals, hist, Still, Ahead,
         Writing, TypeOK
    <3> QED BY <3>1, StillQueue
  <2>7. CASE DelLogger
    <3>1. Still
      BY <2>7 DEF DelLogger, At, Goto, chans, hist, Still, Ahead, Writing,
         TypeOK
    <3> QED BY <3>1, StillQueue
  <2>8. CASE MakeChan
    <3>1. Still
      BY <2>8 DEF MakeChan, At, Goto, adapt, chans, locals, hist, Still, Ahead,
         Writing, TypeOK
    <3> QED BY <3>1, StillQueue
  <2>9. CASE GoLogger
    <3>1. Still
      BY <2>9 DEF GoLogger, At, adapt, locals, hist, Still, Ahead, Writing,
         TypeOK, IInv, Places, LoggerPlaces, WriterPlaces
    <3> QED BY <3>1, StillQueue
  <2>10. CASE ResetDestroy
    <3>1. Still
      BY <2>10 DEF ResetDestroy, At, Goto, config, chans, locals, hist, Still,
         Ahead, Writing, TypeOK
    <3> QED BY <3>1, StillQueue
  <2>11. CASE ResetNil
    <3>1. Still
      BY <2>11 DEF ResetNil, At, Goto, config, chans, locals, hist, Still,
         Ahead, Writing, TypeOK
    <3> QED BY <3>1, StillQueue
  <2> QED BY <1>5, <2>1, <2>2, <2>3, <2>4, <2>5, <2>6, <2>7, <2>8, <2>9, <2>10,
     <2>11 DEF MainCalls, MainSteps
<1> QED BY <1>1, <1>2, <1>3, <1>4, <1>5 DEF Next

(* What a Flush is owed is on its way, or the adapter is gone. *)
Reached(m, a) ==
  \/ m \in Ran(written[a]) \/ m \in Ran(msgChan)
  \/ pc[Logger] = "range" /\ m = msg[Logger]
  \/ pc[Logger] = "loop" /\ m = msg[Logger] /\ a \in Ran(todo[Logger])

Seen == \A a \in Ran(todo[Logger]) : lg[a] # "new"

Owing(f) ==
  \A d \in owed[f] :
    /\ IsLogged(d[1]) /\ d[2] \in Adapters /\ lg[d[2]] # "new"
    /\ d[2] \in Attached => Reached(d[1], d[2])

Delivered(f) == \A d \in owed[f] : d[2] \in Attached => d[1] \in Ran(written[d[2]])

(* The flusher has only to return, or the logger only to let it. *)
Free(f) == Released(f) \/ (pc[f] \in {"wait", "asleep"} /\ pc[Logger] = "drained")

DueInv ==
  /\ Seen
  /\ \A f \in Flushers :
       /\ Owing(f)
       /\ pc[f] \notin {"signal", "wait", "asleep", "woken", "add"} => owed[f] = {}
       /\ Free(f) => Delivered(f)

(* An adapter that comes has not been there. *)
Fresh ==
  \A a \in Adapters : lg[a] # "new" => lg'[a] # "new" /\ (a \in Attached' => a \in Attached)

(* Nothing gets lost. *)
Kept ==
  /\ \A a \in Adapters : Ran(written[a]) \subseteq Ran(written'[a])
  /\ \A a \in Adapters \cap Attached : \A m : Reached(m, a) => Reached(m, a)'

LEMMA FreshAppend ==
  ASSUME TypeOK, NEW name, AppendAdapter(name)
  PROVE  Fresh
<1>1. CASE UNCHANGED <<outputs, lg>>
  BY <1>1 DEF Fresh, Attached, Elems
<1>2. ASSUME NEW a \in Adapters, lg[a] = "new", lg' = [lg EXCEPT ![a] = "open"],
             outputs' = Append(Elems(outputs), a)
      PROVE  Fresh
  <2>1. outputs' \in Seq(Adapters) /\ Ran(outputs') = Ran(Elems(outputs)) \cup {a}
    BY <1>2, ElemsTypes, RanAppend
  <2>2. Attached' = Attached \cup {a}
    BY <2>1 DEF Attached, Elems
  <2> QED BY <1>2, <2>2 DEF Fresh, TypeOK
<1> QED BY <1>1, <1>2, AppendAdapterTypes

(* Adapters. *)
LEMMA FreshNext ==
  ASSUME TypeOK, Lists, Next
  PROVE  Fresh
<1>1. ASSUME NEW w \in Writers, LogCall(w) \/ LogSteps(w)
      PROVE  Fresh
  <2>1. CASE LogCall(w)
    <3>1. UNCHANGED outputs /\ \A a \in Adapters : lg[a] # "new" => lg'[a] # "new"
      BY <2>1 DEF LogCall, At, Goto, config, adapt, chans, TypeOK
    <3> QED BY <3>1 DEF Fresh, Attached, Elems
  <2>2. CASE DefaultLogger(w)
    <3>1. PICK name : AppendAdapter(name)
      BY <2>2 DEF DefaultLogger
    <3> QED BY <3>1, FreshAppend
  <2>3. CASE ReadMode(w)
    <3>1. UNCHANGED outputs /\ \A a \in Adapters : lg[a] # "new" => lg'[a] # "new"
      BY <2>3 DEF ReadMode, At, Goto, config, adapt, chans, hist, TypeOK
    <3> QED BY <3>1 DEF Fresh, Attached, Elems
  <2>4. CASE ReadOutputs(w)
    <3>1. UNCHANGED outputs /\ \A a \in Adapters : lg[a] # "new" => lg'[a] # "new"
      BY <2>4 DEF ReadOutputs, At, Goto, config, adapt, chans, hist, TypeOK
    <3> QED BY <3>1 DEF Fresh, Attached, Elems
  <2>5. CASE Send(w)
    <3>1. UNCHANGED outputs /\ \A a \in Adapters : lg[a] # "new" => lg'[a] # "new"
      BY <2>5 DEF Send, At, Goto, config, adapt, hist, TypeOK
    <3> QED BY <3>1 DEF Fresh, Attached, Elems
  <2> QED BY <1>1, <2>1, <2>2, <2>3, <2>4, <2>5 DEF LogSteps
<1>2. ASSUME NEW f \in Flushers, FlushCall(f) \/ FlushSteps(f)
      PROVE  Fresh
  <2>1. CASE FlushCall(f)
    <3>1. UNCHANGED outputs /\ \A a \in Adapters : lg[a] # "new" => lg'[a] # "new"
      BY <2>1 DEF FlushCall, At, Goto, config, adapt, chans, locals, TypeOK
    <3> QED BY <3>1 DEF Fresh, Attached, Elems
  <2>2. CASE Signal(f)
    <3>1. UNCHANGED outputs /\ \A a \in Adapters : lg[a] # "new" => lg'[a] # "new"
      BY <2>2 DEF Signal, At, Goto, config, adapt, locals, hist, TypeOK
    <3> QED BY <3>1 DEF Fresh, Attached, Elems
  <2>3. CASE Wait(f)
    <3>1. UNCHANGED outputs /\ \A a \in Adapters : lg[a] # "new" => lg'[a] # "new"
      BY <2>3 DEF Wait, At, Goto, config, adapt, chans, locals, hist, TypeOK
    <3> QED BY <3>1 DEF Fresh, Attached, Elems
  <2>4. CASE WakeUp(f)
    <3>1. UNCHANGED outputs /\ \A a \in Adapters : lg[a] # "new" => lg'[a] # "new"
      BY <2>4 DEF WakeUp, At, Goto, config, adapt, chans, locals, hist, TypeOK
    <3> QED BY <3>1 DEF Fresh, Attached, Elems
  <2>5. CASE AddOne(f)
    <3>1. UNCHANGED outputs /\ \A a \in Adapters : lg[a] # "new" => lg'[a] # "new"
      BY <2>5 DEF AddOne, At, Goto, config, adapt, locals, TypeOK
    <3> QED BY <3>1 DEF Fresh, Attached, Elems
  <2>6. CASE FlushSync(f)
    <3>1. UNCHANGED outputs /\ \A a \in Adapters : lg[a] # "new" => lg'[a] # "new"
      BY <2>6 DEF FlushSync, At, Goto, config, adapt, chans, locals, TypeOK
    <3> QED BY <3>1 DEF Fresh, Attached, Elems
  <2> QED BY <1>2, <2>1, <2>2, <2>3, <2>4, <2>5, <2>6 DEF FlushSteps
<1>3. ASSUME NEW g \in Goroutines, Work(g)
      PROVE  Fresh
  <2>1. CASE RangeOutputs(g)
    <3>1. UNCHANGED outputs /\ \A a \in Adapters : lg[a] # "new" => lg'[a] # "new"
      BY <2>1 DEF RangeOutputs, At, Goto, config, adapt, chans, hist, TypeOK
    <3> QED BY <3>1 DEF Fresh, Attached, Elems
  <2>2. CASE WriteOne(g)
    <3>1. UNCHANGED outputs /\ \A a \in Adapters : lg[a] # "new" => lg'[a] # "new"
      BY <2>2 DEF WriteOne, At, Goto, config, adapt, chans, TypeOK
    <3> QED BY <3>1 DEF Fresh, Attached, Elems
  <2>3. CASE WriteEnd(g)
    <3>1. UNCHANGED outputs /\ \A a \in Adapters : lg[a] # "new" => lg'[a] # "new"
      BY <2>3 DEF WriteEnd, At, Goto, config, adapt, chans, hist, TypeOK
    <3> QED BY <3>1 DEF Fresh, Attached, Elems
  <2>4. CASE TestLen(g)
    <3>1. UNCHANGED outputs /\ \A a \in Adapters : lg[a] # "new" => lg'[a] # "new"
      BY <2>4 DEF TestLen, At, Goto, config, adapt, chans, locals, hist, TypeOK
    <3> QED BY <3>1 DEF Fresh, Attached, Elems
  <2>5. CASE Take(g)
    <3>1. UNCHANGED outputs /\ \A a \in Adapters : lg[a] # "new" => lg'[a] # "new"
      BY <2>5 DEF Take, At, Goto, Receive, config, adapt, hist, TypeOK
    <3> QED BY <3>1 DEF Fresh, Attached, Elems
  <2> QED BY <1>3, <2>1, <2>2, <2>3, <2>4, <2>5 DEF Work
<1>4. ASSUME LoggerSteps
      PROVE  Fresh
  <2>1. CASE SelectMessage
    <3>1. UNCHANGED outputs /\ \A a \in Adapters : lg[a] # "new" => lg'[a] # "new"
      BY <2>1 DEF SelectMessage, At, Goto, Receive, config, adapt, hist, TypeOK
    <3> QED BY <3>1 DEF Fresh, Attached, Elems
  <2>2. CASE SelectSignal
    <3>1. UNCHANGED outputs /\ \A a \in Adapters : lg[a] # "new" => lg'[a] # "new"
      BY <2>2 DEF SelectSignal, At, Goto, config, adapt, locals, hist, TypeOK
    <3> QED BY <3>1 DEF Fresh, Attached, Elems
  <2>3. CASE Done
    <3>1. UNCHANGED outputs /\ \A a \in Adapters : lg[a] # "new" => lg'[a] # "new"
      BY <2>3 DEF Done, At, config, adapt, locals, hist, TypeOK
    <3> QED BY <3>1 DEF Fresh, Attached, Elems
  <2> QED BY <1>4, <2>1, <2>2, <2>3 DEF LoggerSteps
<1>5. ASSUME MainCalls \/ MainSteps
      PROVE  Fresh
  <2>1. CASE Start
    <3>1. UNCHANGED outputs /\ \A a \in Adapters : lg[a] # "new" => lg'[a] # "new"
      BY <2>1 DEF Start, At, adapt, chans, locals, hist, TypeOK
    <3> QED BY <3>1 DEF Fresh, Attached, Elems
  <2>2. CASE SetLoggerCall
    <3>1. UNCHANGED lg /\ outputs' \in {outputs, <<>>}
      BY <2>2 DEF SetLoggerCall
    <3> QED BY <3>1, EmptyList DEF Fresh, Attached, Elems
  <2>3. CASE DelLoggerCall
    <3>1. PICK i : lg' = [lg EXCEPT ![outputs[i]] = "closed"]
      BY <2>3 DEF DelLoggerCall
    <3>2. UNCHANGED outputs
      BY <2>3 DEF DelLoggerCall
    <3> QED BY <3>1, <3>2 DEF Fresh, Attached, Elems, TypeOK
  <2>4. CASE AsyncCall
    <3>1. UNCHANGED outputs /\ \A a \in Adapters : lg[a] # "new" => lg'[a] # "new"
      BY <2>4 DEF AsyncCall, At, Goto, adapt, chans, locals, hist, TypeOK
    <3> QED BY <3>1 DEF Fresh, Attached, Elems
  <2>5. CASE ResetCall
    <3>1. UNCHANGED outputs /\ \A a \in Adapters : lg[a] # "new" => lg'[a] # "new"
      BY <2>5 DEF ResetCall, At, Goto, config, adapt, chans, locals, hist,
         TypeOK
    <3> QED BY <3>1 DEF Fresh, Attached, Elems
  <2>6. CASE SetLogger
    <3>1. PICK name : AppendAdapter(name)
      BY <2>6 DEF SetLogger
    <3> QED BY <3>1, FreshAppend
  <2>7. CASE DelLogger
    <3>1. outputs' = todo[Main] /\ UNCHANGED lg /\ pc[Main] = "delLogger"
      BY <2>7 DEF DelLogger, At
    <3>2. Attached' \subseteq Attached
      BY <3>1, ElemsTypes DEF Attached, Lists, Elems
    <3> QED BY <3>1, <3>2 DEF Fresh
  <2>8. CASE MakeChan
    <3>1. UNCHANGED outputs /\ \A a \in Adapters : lg[a] # "new" => lg'[a] # "new"
      BY <2>8 DEF MakeChan, At, Goto, adapt, chans, locals, hist, TypeOK
    <3> QED BY <3>1 DEF Fresh, Attached, Elems
  <2>9. CASE GoLogger
    <3>1. UNCHANGED outputs /\ \A a \in Adapters : lg[a] # "new" => lg'[a] # "new"
      BY <2>9 DEF GoLogger, At, adapt, locals, hist, TypeOK
    <3> QED BY <3>1 DEF Fresh, Attached, Elems
  <2>10. CASE ResetDestroy
    <3>1. UNCHANGED outputs /\ \A a \in Adapters : lg[a] # "new" => lg'[a] # "new"
      BY <2>10 DEF ResetDestroy, At, Goto, config, chans, locals, hist, TypeOK
    <3> QED BY <3>1 DEF Fresh, Attached, Elems
  <2>11. CASE ResetNil
    <3>1. UNCHANGED lg /\ outputs' = Nil
      BY <2>11 DEF ResetNil
    <3> QED BY <3>1, EmptyList DEF Fresh, Attached, Elems
  <2> QED BY <1>5, <2>1, <2>2, <2>3, <2>4, <2>5, <2>6, <2>7, <2>8, <2>9, <2>10,
     <2>11 DEF MainCalls, MainSteps
<1> QED BY <1>1, <1>2, <1>3, <1>4, <1>5 DEF Next
LEMMA KeptSame ==
  ASSUME UNCHANGED <<msgChan, written>>,
         pc[Logger] \in {"range", "loop"} =>
           /\ pc'[Logger] = pc[Logger] /\ msg'[Logger] = msg[Logger]
           /\ todo'[Logger] = todo[Logger]
  PROVE  Kept
BY DEF Kept, Reached

LEMMA KeptReceive ==
  ASSUME TypeOK, NEW label, Receive(Logger, label), pc[Logger] \notin {"range", "loop"}
  PROVE  Kept
<1>1. /\ UNCHANGED written /\ msgChan # <<>> /\ msgChan' = Tail(msgChan)
      /\ pc'[Logger] = "range" /\ msg'[Logger] = Head(msgChan)
  BY DEF Receive, Goto, hist, TypeOK
<1>2. Ran(msgChan) = Ran(msgChan') \cup {Head(msgChan)}
  BY <1>1, RanTail DEF TypeOK
<1> QED BY <1>1, <1>2 DEF Kept, Reached

(* Messages. *)
LEMMA KeptNext ==
  ASSUME TypeOK, Holding, IInv, Next
  PROVE  Kept
<1>1. ASSUME NEW w \in Writers, LogCall(w) \/ LogSteps(w)
      PROVE  Kept
  <2>1. CASE LogCall(w)
    <3>1. /\ UNCHANGED <<msgChan, written>>
          /\ pc[Logger] \in {"range", "loop"} =>
               /\ pc'[Logger] = pc[Logger] /\ msg'[Logger] = msg[Logger]
               /\ todo'[Logger] = todo[Logger]
      BY <2>1 DEF LogCall, At, Goto, config, adapt, chans, TypeOK, IInv,
         Places, Configuring
    <3> QED BY <3>1, KeptSame
  <2>2. CASE DefaultLogger(w)
    <3>1. /\ UNCHANGED <<msgChan, written>>
          /\ pc[Logger] \in {"range", "loop"} =>
               /\ pc'[Logger] = pc[Logger] /\ msg'[Logger] = msg[Logger]
               /\ todo'[Logger] = todo[Logger]
      BY <2>2 DEF DefaultLogger, At, Goto, config, chans, locals, hist, TypeOK,
         IInv, Places, Configuring
    <3> QED BY <3>1, KeptSame
  <2>3. CASE ReadMode(w)
    <3>1. /\ UNCHANGED <<msgChan, written>>
          /\ pc[Logger] \in {"range", "loop"} =>
               /\ pc'[Logger] = pc[Logger] /\ msg'[Logger] = msg[Logger]
               /\ todo'[Logger] = todo[Logger]
      BY <2>3 DEF ReadMode, At, Goto, config, adapt, chans, hist, TypeOK, IInv,
         Places, Configuring
    <3> QED BY <3>1, KeptSame
  <2>4. CASE ReadOutputs(w)
    <3>1. /\ UNCHANGED <<msgChan, written>>
          /\ pc[Logger] \in {"range", "loop"} =>
               /\ pc'[Logger] = pc[Logger] /\ msg'[Logger] = msg[Logger]
               /\ todo'[Logger] = todo[Logger]
      BY <2>4 DEF ReadOutputs, At, Goto, config, adapt, chans, hist, TypeOK,
         IInv, Places, Configuring
    <3> QED BY <3>1, KeptSame
  <2>5. CASE Send(w)
    <3>1. /\ UNCHANGED <<written, todo>> /\ msgChan' = Append(msgChan, msg[w])
          /\ pc'[Logger] = pc[Logger] /\ msg'[Logger] = msg[Logger] /\ msg[w] \in Messages
      BY <2>5 DEF Send, At, Goto, hist, TypeOK, Holding, Writing
    <3>2. Ran(msgChan') = Ran(msgChan) \cup {msg[w]}
      BY <3>1, RanAppend DEF TypeOK
    <3> QED BY <3>1, <3>2 DEF Kept, Reached
  <2> QED BY <1>1, <2>1, <2>2, <2>3, <2>4, <2>5 DEF LogSteps
<1>2. ASSUME NEW f \in Flushers, FlushCall(f) \/ FlushSteps(f)
      PROVE  Kept
  <2>1. CASE FlushCall(f)
    <3>1. /\ UNCHANGED <<msgChan, written>>
          /\ pc[Logger] \in {"range", "loop"} =>
               /\ pc'[Logger] = pc[Logger] /\ msg'[Logger] = msg[Logger]
               /\ todo'[Logger] = todo[Logger]
      BY <2>1 DEF FlushCall, At, Goto, config, adapt, chans, locals, TypeOK,
         IInv, Places, Configuring
    <3> QED BY <3>1, KeptSame
  <2>2. CASE Signal(f)
    <3>1. /\ UNCHANGED <<msgChan, written>>
          /\ pc[Logger] \in {"range", "loop"} =>
               /\ pc'[Logger] = pc[Logger] /\ msg'[Logger] = msg[Logger]
               /\ todo'[Logger] = todo[Logger]
      BY <2>2 DEF Signal, At, Goto, config, adapt, locals, hist, TypeOK, IInv,
         Places, Configuring
    <3> QED BY <3>1, KeptSame
  <2>3. CASE Wait(f)
    <3>1. /\ UNCHANGED <<msgChan, written>>
          /\ pc[Logger] \in {"range", "loop"} =>
               /\ pc'[Logger] = pc[Logger] /\ msg'[Logger] = msg[Logger]
               /\ todo'[Logger] = todo[Logger]
      BY <2>3 DEF Wait, At, Goto, config, adapt, chans, locals, hist, TypeOK,
         IInv, Places, Configuring
    <3> QED BY <3>1, KeptSame
  <2>4. CASE WakeUp(f)
    <3>1. /\ UNCHANGED <<msgChan, written>>
          /\ pc[Logger] \in {"range", "loop"} =>
               /\ pc'[Logger] = pc[Logger] /\ msg'[Logger] = msg[Logger]
               /\ todo'[Logger] = todo[Logger]
      BY <2>4 DEF WakeUp, At, Goto, config, adapt, chans, locals, hist, TypeOK,
         IInv, Places, Configuring
    <3> QED BY <3>1, KeptSame
  <2>5. CASE AddOne(f)
    <3>1. /\ UNCHANGED <<msgChan, written>>
          /\ pc[Logger] \in {"range", "loop"} =>
               /\ pc'[Logger] = pc[Logger] /\ msg'[Logger] = msg[Logger]
               /\ todo'[Logger] = todo[Logger]
      BY <2>5 DEF AddOne, At, Goto, config, adapt, locals, TypeOK, IInv,
         Places, Configuring
    <3> QED BY <3>1, KeptSame
  <2>6. CASE FlushSync(f)
    <3>1. /\ UNCHANGED <<msgChan, written>>
          /\ pc[Logger] \in {"range", "loop"} =>
               /\ pc'[Logger] = pc[Logger] /\ msg'[Logger] = msg[Logger]
               /\ todo'[Logger] = todo[Logger]
      BY <2>6 DEF FlushSync, At, Goto, config, adapt, chans, locals, TypeOK,
         IInv, Places, Configuring
    <3> QED BY <3>1, KeptSame
  <2> QED BY <1>2, <2>1, <2>2, <2>3, <2>4, <2>5, <2>6 DEF FlushSteps
<1>3. ASSUME NEW g \in Goroutines, Work(g)
      PROVE  Kept
  <2>1. CASE RangeOutputs(g)
    <3>1. /\ UNCHANGED <<written, msgChan, msg, outputs>> /\ pc[g] = "range"
          /\ todo' = [todo EXCEPT ![g] = Elems(outputs)] /\ pc' = [pc EXCEPT ![g] = "loop"]
      BY <2>1 DEF RangeOutputs, At, Goto, hist, adapt, chans
    <3>2. CASE g # Logger
      <4>1. pc'[Logger] = pc[Logger] /\ todo'[Logger] = todo[Logger]
        BY <3>1, <3>2 DEF TypeOK
      <4> QED BY <3>1, <4>1, KeptSame
    <3>3. CASE g = Logger
      <4>1. pc'[Logger] = "loop" /\ Ran(todo'[Logger]) = Attached
        BY <3>1, <3>3 DEF TypeOK, Attached
      <4> QED BY <3>1, <3>3, <4>1 DEF Kept, Reached
    <3> QED BY <3>2, <3>3
  <2>2. CASE WriteOne(g)
    <3>1. /\ UNCHANGED <<msgChan, msg, pc>> /\ pc[g] = "loop" /\ todo[g] # <<>>
          /\ written' = [written EXCEPT ![Head(todo[g])] = Append(@, msg[g])]
          /\ todo' = [todo EXCEPT ![g] = Tail(@)]
      BY <2>2 DEF WriteOne, At, chans
    <3>2. /\ Head(todo[g]) \in Adapters /\ msg[g] \in Messages
          /\ Ran(todo[g]) = Ran(Tail(todo[g])) \cup {Head(todo[g])}
      BY <3>1, ElemsTypes, RanTail DEF Holding, Writing
    <3>3. /\ \A a \in Adapters : Ran(written[a]) \subseteq Ran(written'[a])
          /\ msg[g] \in Ran(written'[Head(todo[g])])
      <4>1. Ran(Append(written[Head(todo[g])], msg[g]))
              = Ran(written[Head(todo[g])]) \cup {msg[g]}
        BY <3>2, ElemsTypes, RanAppend
      <4> QED BY <3>1, <3>2, <4>1 DEF TypeOK
    <3>4. todo'[Logger] = IF g = Logger THEN Tail(todo[Logger]) ELSE todo[Logger]
      BY <3>1 DEF TypeOK
    <3> QED BY <3>1, <3>2, <3>3, <3>4 DEF Kept, Reached
  <2>3. CASE WriteEnd(g)
    <3>1. /\ UNCHANGED <<msgChan, written, todo>> /\ pc[g] = "loop" /\ todo[g] = <<>>
          /\ \A h \in Goroutines \ {g} : pc'[h] = pc[h] /\ msg'[h] = msg[h]
      BY <2>3 DEF WriteEnd, At, Goto, chans, hist, TypeOK
    <3>2. g = Logger => Ran(todo[Logger]) = {}
      BY <3>1, EmptyList
    <3> QED BY <3>1, <3>2 DEF Kept, Reached
  <2>4. CASE TestLen(g)
    <3>1. /\ UNCHANGED <<msgChan, written>>
          /\ pc[Logger] \in {"range", "loop"} =>
               /\ pc'[Logger] = pc[Logger] /\ msg'[Logger] = msg[Logger]
               /\ todo'[Logger] = todo[Logger]
      BY <2>4 DEF TestLen, At, Goto, config, adapt, chans, locals, hist,
         TypeOK, IInv, Places, Configuring
    <3> QED BY <3>1, KeptSame
  <2>5. CASE Take(g)
    <3>1. Receive(Logger, "drain")
      BY <2>5, Places1 DEF Take, At
    <3> QED BY <2>5, <3>1, Places1, KeptReceive DEF Take, At
  <2> QED BY <1>3, <2>1, <2>2, <2>3, <2>4, <2>5 DEF Work
<1>4. ASSUME LoggerSteps
      PROVE  Kept
  <2>1. CASE SelectMessage
    BY <2>1, KeptReceive DEF SelectMessage, At
  <2>2. CASE SelectSignal
    <3>1. /\ UNCHANGED <<msgChan, written>>
          /\ pc[Logger] \in {"range", "loop"} =>
               /\ pc'[Logger] = pc[Logger] /\ msg'[Logger] = msg[Logger]
               /\ todo'[Logger] = todo[Logger]
      BY <2>2 DEF SelectSignal, At, Goto, config, adapt, locals, hist, TypeOK,
         IInv, Places, Configuring
    <3> QED BY <3>1, KeptSame
  <2>3. CASE Done
    <3>1. /\ UNCHANGED <<msgChan, written>>
          /\ pc[Logger] \in {"range", "loop"} =>
               /\ pc'[Logger] = pc[Logger] /\ msg'[Logger] = msg[Logger]
               /\ todo'[Logger] = todo[Logger]
      BY <2>3 DEF Done, At, config, adapt, locals, hist, TypeOK, IInv, Places,
         Configuring
    <3> QED BY <3>1, KeptSame
  <2> QED BY <1>4, <2>1, <2>2, <2>3 DEF LoggerSteps
<1>5. ASSUME MainCalls \/ MainSteps
      PROVE  Kept
  <2>1. CASE Start
    <3>1. /\ UNCHANGED <<msgChan, written>>
          /\ pc[Logger] \in {"range", "loop"} =>
               /\ pc'[Logger] = pc[Logger] /\ msg'[Logger] = msg[Logger]
               /\ todo'[Logger] = todo[Logger]
      BY <2>1 DEF Start, At, adapt, chans, locals, hist, TypeOK, IInv, Places,
         Configuring
    <3> QED BY <3>1, KeptSame
  <2>2. CASE SetLoggerCall
    <3>1. /\ UNCHANGED <<msgChan, written>>
          /\ pc[Logger] \in {"range", "loop"} =>
               /\ pc'[Logger] = pc[Logger] /\ msg'[Logger] = msg[Logger]
               /\ todo'[Logger] = todo[Logger]
      BY <2>2 DEF SetLoggerCall, At, Goto, chans, locals, hist, TypeOK, IInv,
         Places, Configuring
    <3> QED BY <3>1, KeptSame
  <2>3. CASE DelLoggerCall
    <3>1. /\ UNCHANGED <<msgChan, written>>
          /\ pc[Logger] \in {"range", "loop"} =>
               /\ pc'[Logger] = pc[Logger] /\ msg'[Logger] = msg[Logger]
               /\ todo'[Logger] = todo[Logger]
      BY <2>3 DEF DelLoggerCall, At, Goto, chans, hist, TypeOK, IInv, Places,
         Configuring
    <3> QED BY <3>1, KeptSame
  <2>4. CASE AsyncCall
    <3>1. /\ UNCHANGED <<msgChan, written>>
          /\ pc[Logger] \in {"range", "loop"} =>
               /\ pc'[Logger] = pc[Logger] /\ msg'[Logger] = msg[Logger]
               /\ todo'[Logger] = todo[Logger]
      BY <2>4 DEF AsyncCall, At, Goto, adapt, chans, locals, hist, TypeOK,
         IInv, Places, Configuring
    <3> QED BY <3>1, KeptSame
  <2>5. CASE ResetCall
    <3>1. /\ UNCHANGED <<msgChan, written>>
          /\ pc[Logger] \in {"range", "loop"} =>
               /\ pc'[Logger] = pc[Logger] /\ msg'[Logger] = msg[Logger]
               /\ todo'[Logger] = todo[Logger]
      BY <2>5 DEF ResetCall, At, Goto, config, adapt, chans, locals, hist,
         TypeOK, IInv, Places, Configuring
    <3> QED BY <3>1, KeptSame
  <2>6. CASE SetLogger
    <3>1. /\ UNCHANGED <<msgChan, written>>
          /\ pc[Logger] \in {"range", "loop"} =>
               /\ pc'[Logger] = pc[Logger] /\ msg'[Logger] = msg[Logger]
               /\ todo'[Logger] = todo[Logger]
      BY <2>6 DEF SetLogger, At, Goto, chans, locals, hist, TypeOK, IInv,
         Places, Configuring
    <3> QED BY <3>1, KeptSame
  <2>7. CASE DelLogger
    <3>1. /\ UNCHANGED <<msgChan, written>>
          /\ pc[Logger] \in {"range", "loop"} =>
               /\ pc'[Logger] = pc[Logger] /\ msg'[Logger] = msg[Logger]
               /\ todo'[Logger] = todo[Logger]
      BY <2>7 DEF DelLogger, At, Goto, chans, hist, TypeOK, IInv, Places,
         Configuring
    <3> QED BY <3>1, KeptSame
  <2>8. CASE MakeChan
    <3>1. /\ UNCHANGED <<msgChan, written>>
          /\ pc[Logger] \in {"range", "loop"} =>
               /\ pc'[Logger] = pc[Logger] /\ msg'[Logger] = msg[Logger]
               /\ todo'[Logger] = todo[Logger]
      BY <2>8 DEF MakeChan, At, Goto, adapt, chans, locals, hist, TypeOK, IInv,
         Places, Configuring
    <3> QED BY <3>1, KeptSame
  <2>9. CASE GoLogger
    <3>1. /\ UNCHANGED <<msgChan, written>>
          /\ pc[Logger] \in {"range", "loop"} =>
               /\ pc'[Logger] = pc[Logger] /\ msg'[Logger] = msg[Logger]
               /\ todo'[Logger] = todo[Logger]
      BY <2>9 DEF GoLogger, At, adapt, locals, hist, TypeOK, IInv, Places,
         Configuring
    <3> QED BY <3>1, KeptSame
  <2>10. CASE ResetDestroy
    <3>1. /\ UNCHANGED <<msgChan, written>>
          /\ pc[Logger] \in {"range", "loop"} =>
               /\ pc'[Logger] = pc[Logger] /\ msg'[Logger] = msg[Logger]
               /\ todo'[Logger] = todo[Logger]
      BY <2>10 DEF ResetDestroy, At, Goto, config, chans, locals, hist, TypeOK,
         IInv, Places, Configuring
    <3> QED BY <3>1, KeptSame
  <2>11. CASE ResetNil
    <3>1. /\ UNCHANGED <<msgChan, written>>
          /\ pc[Logger] \in {"range", "loop"} =>
               /\ pc'[Logger] = pc[Logger] /\ msg'[Logger] = msg[Logger]
               /\ todo'[Logger] = todo[Logger]
      BY <2>11 DEF ResetNil, At, Goto, config, chans, locals, hist, TypeOK,
         IInv, Places, Configuring
    <3> QED BY <3>1, KeptSame
  <2> QED BY <1>5, <2>1, <2>2, <2>3, <2>4, <2>5, <2>6, <2>7, <2>8, <2>9, <2>10,
     <2>11 DEF MainCalls, MainSteps
<1> QED BY <1>1, <1>2, <1>3, <1>4, <1>5 DEF Next

OwedStep(h) ==
  /\ owed'[h] \subseteq owed[h] \/ (FlushCall(h) /\ owed'[h] = Undelivered)
  /\ pc'[h] \notin {"signal", "wait", "asleep", "woken", "add"} =>
       \/ pc[h] \notin {"signal", "wait", "asleep", "woken", "add"} \/ owed'[h] = {}

(* Only a call of Flush records what is due, and only a return clears it. *)
LEMMA OwedNext ==
  ASSUME Quiet, IInv, TypeOK, NEW h \in Flushers, Next
  PROVE  OwedStep(h)
<1>1. ASSUME NEW w \in Writers, LogCall(w) \/ LogSteps(w)
      PROVE  OwedStep(h)
  <2>1. CASE LogCall(w)
    BY <2>1 DEF LogCall, At, Goto, config, adapt, chans, OwedStep, IInv, Types,
       Before, Configuring, LoggerPlaces, WriterPlaces, Places, TypeOK
  <2>2. CASE DefaultLogger(w)
    BY <2>2 DEF DefaultLogger, At, Goto, config, chans, locals, hist, OwedStep,
       IInv, Types, Before, Configuring, LoggerPlaces, WriterPlaces, Places,
       TypeOK
  <2>3. CASE ReadMode(w)
    BY <2>3 DEF ReadMode, At, Goto, config, adapt, chans, hist, OwedStep, IInv,
       Types, Before, Configuring, LoggerPlaces, WriterPlaces, Places, TypeOK
  <2>4. CASE ReadOutputs(w)
    BY <2>4 DEF ReadOutputs, At, Goto, config, adapt, chans, hist, OwedStep,
       IInv, Types, Before, Configuring, LoggerPlaces, WriterPlaces, Places,
       TypeOK
  <2>5. CASE Send(w)
    BY <2>5 DEF Send, At, Goto, config, adapt, hist, OwedStep, IInv, Types,
       Before, Configuring, LoggerPlaces, WriterPlaces, Places, TypeOK
  <2> QED BY <1>1, <2>1, <2>2, <2>3, <2>4, <2>5 DEF LogSteps
<1>2. ASSUME NEW f \in Flushers, FlushCall(f) \/ FlushSteps(f)
      PROVE  OwedStep(h)
  <2>1. CASE FlushCall(f)
    <3>1. /\ owed'[f] = Undelivered /\ pc[f] = "idle"
          /\ \A e \in Flushers \ {f} : owed'[e] = owed[e] /\ pc'[e] = pc[e]
      BY <2>1 DEF FlushCall, At, Goto, TypeOK
    <3> QED BY <2>1, <3>1 DEF OwedStep
  <2>2. CASE Signal(f)
    BY <2>2 DEF Signal, At, Goto, config, adapt, locals, hist, OwedStep, IInv,
       Types, Before, Configuring, LoggerPlaces, WriterPlaces, Places, TypeOK
  <2>3. CASE Wait(f)
    BY <2>3 DEF Wait, At, Goto, config, adapt, chans, locals, hist, OwedStep,
       IInv, Types, Before, Configuring, LoggerPlaces, WriterPlaces, Places,
       TypeOK
  <2>4. CASE WakeUp(f)
    BY <2>4 DEF WakeUp, At, Goto, config, adapt, chans, locals, hist, OwedStep,
       IInv, Types, Before, Configuring, LoggerPlaces, WriterPlaces, Places,
       TypeOK
  <2>5. CASE AddOne(f)
    BY <2>5 DEF AddOne, At, Goto, config, adapt, locals, OwedStep, IInv, Types,
       Before, Configuring, LoggerPlaces, WriterPlaces, Places, TypeOK
  <2>6. CASE FlushSync(f)
    BY <2>6 DEF FlushSync, At, Goto, config, adapt, chans, locals, OwedStep,
       IInv, Types, Before, Configuring, LoggerPlaces, WriterPlaces, Places,
       TypeOK
  <2> QED BY <1>2, <2>1, <2>2, <2>3, <2>4, <2>5, <2>6 DEF FlushSteps
<1>3. ASSUME NEW g \in Goroutines, Work(g)
      PROVE  OwedStep(h)
  <2>1. CASE RangeOutputs(g)
    BY <2>1 DEF RangeOutputs, At, Goto, config, adapt, chans, hist, OwedStep,
       IInv, Types, Before, Configuring, LoggerPlaces, WriterPlaces, Places,
       TypeOK
  <2>2. CASE WriteOne(g)
    BY <2>2 DEF WriteOne, At, Goto, config, adapt, chans, OwedStep, IInv,
       Types, Before, Configuring, LoggerPlaces, WriterPlaces, Places, TypeOK
  <2>3. CASE WriteEnd(g)
    BY <2>3 DEF WriteEnd, At, Goto, config, adapt, chans, hist, OwedStep, IInv,
       Types, Before, Configuring, LoggerPlaces, WriterPlaces, Places, TypeOK
  <2>4. CASE TestLen(g)
    BY <2>4 DEF TestLen, At, Goto, config, adapt, chans, locals, hist,
       OwedStep, IInv, Types, Before, Configuring, LoggerPlaces, WriterPlaces,
       Places, TypeOK
  <2>5. CASE Take(g)
    BY <2>5 DEF Take, At, Goto, Receive, config, adapt, hist, OwedStep, IInv,
       Types, Before, Configuring, LoggerPlaces, WriterPlaces, Places, TypeOK
  <2> QED BY <1>3, <2>1, <2>2, <2>3, <2>4, <2>5 DEF Work
<1>4. ASSUME LoggerSteps
      PROVE  OwedStep(h)
  <2>1. CASE SelectMessage
    BY <2>1 DEF SelectMessage, At, Goto, Receive, config, adapt, hist,
       OwedStep, IInv, Types, Before, Configuring, LoggerPlaces, WriterPlaces,
       Places, TypeOK
  <2>2. CASE SelectSignal
    BY <2>2 DEF SelectSignal, At, Goto, config, adapt, locals, hist, OwedStep,
       IInv, Types, Before, Configuring, LoggerPlaces, WriterPlaces, Places,
       TypeOK
  <2>3. CASE Done
    BY <2>3 DEF Done, At, config, adapt, locals, hist, OwedStep, IInv, Types,
       Before, Configuring, LoggerPlaces, WriterPlaces, Places, TypeOK
  <2> QED BY <1>4, <2>1, <2>2, <2>3 DEF LoggerSteps
<1>5. ASSUME MainCalls \/ MainSteps
      PROVE  OwedStep(h)
  <2>1. CASE Start
    BY <2>1 DEF Start, At, adapt, chans, locals, hist, OwedStep, IInv, Types,
       Before, Configuring, LoggerPlaces, WriterPlaces, Places, TypeOK
  <2>2. CASE SetLoggerCall
    BY <2>2 DEF SetLoggerCall, At, Goto, chans, locals, hist, OwedStep, IInv,
       Types, Before, Configuring, LoggerPlaces, WriterPlaces, Places, TypeOK
  <2>3. CASE DelLoggerCall
    BY <2>3 DEF DelLoggerCall, At, Goto, chans, hist, OwedStep, IInv, Types,
       Before, Configuring, LoggerPlaces, WriterPlaces, Places, TypeOK
  <2>4. CASE AsyncCall
    BY <2>4 DEF AsyncCall, At, Goto, adapt, chans, locals, hist, OwedStep,
       IInv, Types, Before, Configuring, LoggerPlaces, WriterPlaces, Places,
       TypeOK
  <2>5. CASE ResetCall
    BY <2>5 DEF ResetCall, At, Goto, config, adapt, chans, locals, hist,
       OwedStep, IInv, Types, Before, Configuring, LoggerPlaces, WriterPlaces,
       Places, TypeOK
  <2>6. CASE SetLogger
    BY <2>6 DEF SetLogger, At, Goto, chans, locals, hist, OwedStep, IInv,
       Types, Before, Configuring, LoggerPlaces, WriterPlaces, Places, TypeOK
  <2>7. CASE DelLogger
    BY <2>7 DEF DelLogger, At, Goto, chans, hist, OwedStep, IInv, Types,
       Before, Configuring, LoggerPlaces, WriterPlaces, Places, TypeOK
  <2>8. CASE MakeChan
    BY <2>8 DEF MakeChan, At, Goto, adapt, chans, locals, hist, OwedStep, IInv,
       Types, Before, Configuring, LoggerPlaces, WriterPlaces, Places, TypeOK
  <2>9. CASE GoLogger
    BY <2>9 DEF GoLogger, At, adapt, locals, hist, OwedStep, IInv, Types,
       Before, Configuring, LoggerPlaces, WriterPlaces, Places, TypeOK
  <2>10. CASE ResetDestroy
    BY <2>10 DEF ResetDestroy, At, Goto, config, chans, locals, hist, OwedStep,
       IInv, Types, Before, Configuring, LoggerPlaces, WriterPlaces, Places,
       TypeOK
  <2>11. CASE ResetNil
    BY <2>11 DEF ResetNil, At, Goto, config, chans, locals, hist, OwedStep,
       IInv, Types, Before, Configuring, LoggerPlaces, WriterPlaces, Places,
       TypeOK
  <2> QED BY <1>5, <2>1, <2>2, <2>3, <2>4, <2>5, <2>6, <2>7, <2>8, <2>9, <2>10,
     <2>11 DEF MainCalls, MainSteps
<1> QED BY <1>1, <1>2, <1>3, <1>4, <1>5 DEF Next

FreeStep(h) == Free(h)' => Free(h) \/ (msgChan = <<>> /\ pc[Logger] = "drain")

(* The flusher is let go after a look at the empty channel, by the logger. *)
LEMMA FreeNext ==
  ASSUME Quiet, OneFlusher, IInv, NEW h \in Flushers, Next
  PROVE  FreeStep(h)
<1>1. ASSUME NEW w \in Writers, LogCall(w) \/ LogSteps(w)
      PROVE  FreeStep(h)
  <2>1. CASE LogCall(w)
    BY <2>1 DEF LogCall, At, Goto, config, adapt, chans, FreeStep, Free, IInv,
       Types, Before, Configuring, LoggerPlaces, WriterPlaces, Places,
       FlushProtocol, Signalled, Flushing, Released, OneFlusher
  <2>2. CASE DefaultLogger(w)
    BY <2>2 DEF DefaultLogger, At, Goto, config, chans, locals, hist, FreeStep,
       Free, IInv, Types, Before, Configuring, LoggerPlaces, WriterPlaces,
       Places, FlushProtocol, Signalled, Flushing, Released, OneFlusher
  <2>3. CASE ReadMode(w)
    BY <2>3 DEF ReadMode, At, Goto, config, adapt, chans, hist, FreeStep, Free,
       IInv, Types, Before, Configuring, LoggerPlaces, WriterPlaces, Places,
       FlushProtocol, Signalled, Flushing, Released, OneFlusher
  <2>4. CASE ReadOutputs(w)
    BY <2>4 DEF ReadOutputs, At, Goto, config, adapt, chans, hist, FreeStep,
       Free, IInv, Types, Before, Configuring, LoggerPlaces, WriterPlaces,
       Places, FlushProtocol, Signalled, Flushing, Released, OneFlusher
  <2>5. CASE Send(w)
    BY <2>5 DEF Send, At, Goto, config, adapt, hist, FreeStep, Free, IInv,
       Types, Before, Configuring, LoggerPlaces, WriterPlaces, Places,
       FlushProtocol, Signalled, Flushing, Released, OneFlusher
  <2> QED BY <1>1, <2>1, <2>2, <2>3, <2>4, <2>5 DEF LogSteps
<1>2. ASSUME NEW f \in Flushers, FlushCall(f) \/ FlushSteps(f)
      PROVE  FreeStep(h)
  <2>1. CASE FlushCall(f)
    BY <2>1 DEF FlushCall, At, Goto, config, adapt, chans, locals, FreeStep,
       Free, IInv, Types, Before, Configuring, LoggerPlaces, WriterPlaces,
       Places, FlushProtocol, Signalled, Flushing, Released, OneFlusher
  <2>2. CASE Signal(f)
    BY <2>2 DEF Signal, At, Goto, config, adapt, locals, hist, FreeStep, Free,
       IInv, Types, Before, Configuring, LoggerPlaces, WriterPlaces, Places,
       FlushProtocol, Signalled, Flushing, Released, OneFlusher
  <2>3. CASE Wait(f)
    BY <2>3 DEF Wait, At, Goto, config, adapt, chans, locals, hist, FreeStep,
       Free, IInv, Types, Before, Configuring, LoggerPlaces, WriterPlaces,
       Places, FlushProtocol, Signalled, Flushing, Released, OneFlusher
  <2>4. CASE WakeUp(f)
    BY <2>4 DEF WakeUp, At, Goto, config, adapt, chans, locals, hist, FreeStep,
       Free, IInv, Types, Before, Configuring, LoggerPlaces, WriterPlaces,
       Places, FlushProtocol, Signalled, Flushing, Released, OneFlusher
  <2>5. CASE AddOne(f)
    BY <2>5 DEF AddOne, At, Goto, config, adapt, locals, FreeStep, Free, IInv,
       Types, Before, Configuring, LoggerPlaces, WriterPlaces, Places,
       FlushProtocol, Signalled, Flushing, Released, OneFlusher
  <2>6. CASE FlushSync(f)
    BY <2>6 DEF FlushSync, At, Goto, config, adapt, chans, locals, FreeStep,
       Free, IInv, Types, Before, Configuring, LoggerPlaces, WriterPlaces,
       Places, FlushProtocol, Signalled, Flushing, Released, OneFlusher
  <2> QED BY <1>2, <2>1, <2>2, <2>3, <2>4, <2>5, <2>6 DEF FlushSteps
<1>3. ASSUME NEW g \in Goroutines, Work(g)
      PROVE  FreeStep(h)
  <2>1. CASE RangeOutputs(g)
    BY <2>1 DEF RangeOutputs, At, Goto, config, adapt, chans, hist, FreeStep,
       Free, IInv, Types, Before, Configuring, LoggerPlaces, WriterPlaces,
       Places, FlushProtocol, Signalled, Flushing, Released, OneFlusher
  <2>2. CASE WriteOne(g)
    BY <2>2 DEF WriteOne, At, Goto, config, adapt, chans, FreeStep, Free, IInv,
       Types, Before, Configuring, LoggerPlaces, WriterPlaces, Places,
       FlushProtocol, Signalled, Flushing, Released, OneFlusher
  <2>3. CASE WriteEnd(g)
    BY <2>3 DEF WriteEnd, At, Goto, config, adapt, chans, hist, FreeStep, Free,
       IInv, Types, Before, Configuring, LoggerPlaces, WriterPlaces, Places,
       FlushProtocol, Signalled, Flushing, Released, OneFlusher
  <2>4. CASE TestLen(g)
    BY <2>4 DEF TestLen, At, Goto, config, adapt, chans, locals, hist,
       FreeStep, Free, IInv, Types, Before, Configuring, LoggerPlaces,
       WriterPlaces, Places, FlushProtocol, Signalled, Flushing, Released,
       OneFlusher
  <2>5. CASE Take(g)
    BY <2>5 DEF Take, At, Goto, Receive, config, adapt, hist, FreeStep, Free,
       IInv, Types, Before, Configuring, LoggerPlaces, WriterPlaces, Places,
       FlushProtocol, Signalled, Flushing, Released, OneFlusher
  <2> QED BY <1>3, <2>1, <2>2, <2>3, <2>4, <2>5 DEF Work
<1>4. ASSUME LoggerSteps
      PROVE  FreeStep(h)
  <2>1. CASE SelectMessage
    BY <2>1 DEF SelectMessage, At, Goto, Receive, config, adapt, hist,
       FreeStep, Free, IInv, Types, Before, Configuring, LoggerPlaces,
       WriterPlaces, Places, FlushProtocol, Signalled, Flushing, Released,
       OneFlusher
  <2>2. CASE SelectSignal
    BY <2>2 DEF SelectSignal, At, Goto, config, adapt, locals, hist, FreeStep,
       Free, IInv, Types, Before, Configuring, LoggerPlaces, WriterPlaces,
       Places, FlushProtocol, Signalled, Flushing, Released, OneFlusher
  <2>3. CASE Done
    BY <2>3 DEF Done, At, config, adapt, locals, hist, FreeStep, Free, IInv,
       Types, Before, Configuring, LoggerPlaces, WriterPlaces, Places,
       FlushProtocol, Signalled, Flushing, Released, OneFlusher
  <2> QED BY <1>4, <2>1, <2>2, <2>3 DEF LoggerSteps
<1>5. ASSUME MainCalls \/ MainSteps
      PROVE  FreeStep(h)
  <2>1. CASE Start
    BY <2>1 DEF Start, At, adapt, chans, locals, hist, FreeStep, Free, IInv,
       Types, Before, Configuring, LoggerPlaces, WriterPlaces, Places,
       FlushProtocol, Signalled, Flushing, Released, OneFlusher
  <2>2. CASE SetLoggerCall
    BY <2>2 DEF SetLoggerCall, At, Goto, chans, locals, hist, FreeStep, Free,
       IInv, Types, Before, Configuring, LoggerPlaces, WriterPlaces, Places,
       FlushProtocol, Signalled, Flushing, Released, OneFlusher
  <2>3. CASE DelLoggerCall
    BY <2>3 DEF DelLoggerCall, At, Goto, chans, hist, FreeStep, Free, IInv,
       Types, Before, Configuring, LoggerPlaces, WriterPlaces, Places,
       FlushProtocol, Signalled, Flushing, Released, OneFlusher
  <2>4. CASE AsyncCall
    BY <2>4 DEF AsyncCall, At, Goto, adapt, chans, locals, hist, FreeStep,
       Free, IInv, Types, Before, Configuring, LoggerPlaces, WriterPlaces,
       Places, FlushProtocol, Signalled, Flushing, Released, OneFlusher
  <2>5. CASE ResetCall
    BY <2>5 DEF ResetCall, At, Goto, config, adapt, chans, locals, hist,
       FreeStep, Free, IInv, Types, Before, Configuring, LoggerPlaces,
       WriterPlaces, Places, FlushProtocol, Signalled, Flushing, Released,
       OneFlusher
  <2>6. CASE SetLogger
    BY <2>6 DEF SetLogger, At, Goto, chans, locals, hist, FreeStep, Free, IInv,
       Types, Before, Configuring, LoggerPlaces, WriterPlaces, Places,
       FlushProtocol, Signalled, Flushing, Released, OneFlusher
  <2>7. CASE DelLogger
    BY <2>7 DEF DelLogger, At, Goto, chans, hist, FreeStep, Free, IInv, Types,
       Before, Configuring, LoggerPlaces, WriterPlaces, Places, FlushProtocol,
       Signalled, Flushing, Released, OneFlusher
  <2>8. CASE MakeChan
    BY <2>8 DEF MakeChan, At, Goto, adapt, chans, locals, hist, FreeStep, Free,
       IInv, Types, Before, Configuring, LoggerPlaces, WriterPlaces, Places,
       FlushProtocol, Signalled, Flushing, Released, OneFlusher
  <2>9. CASE GoLogger
    BY <2>9 DEF GoLogger, At, adapt, locals, hist, FreeStep, Free, IInv, Types,
       Before, Configuring, LoggerPlaces, WriterPlaces, Places, FlushProtocol,
       Signalled, Flushing, Released, OneFlusher
  <2>10. CASE ResetDestroy
    BY <2>10 DEF ResetDestroy, At, Goto, config, chans, locals, hist, FreeStep,
       Free, IInv, Types, Before, Configuring, LoggerPlaces, WriterPlaces,
       Places, FlushProtocol, Signalled, Flushing, Released, OneFlusher
  <2>11. CASE ResetNil
    BY <2>11 DEF ResetNil, At, Goto, config, chans, locals, hist, FreeStep,
       Free, IInv, Types, Before, Configuring, LoggerPlaces, WriterPlaces,
       Places, FlushProtocol, Signalled, Flushing, Released, OneFlusher
  <2> QED BY <1>5, <2>1, <2>2, <2>3, <2>4, <2>5, <2>6, <2>7, <2>8, <2>9, <2>10,
     <2>11 DEF MainCalls, MainSteps
<1> QED BY <1>1, <1>2, <1>3, <1>4, <1>5 DEF Next

LEMMA SeenSame ==
  ASSUME TypeOK, Seen, Fresh, UNCHANGED (todo[Logger])
  PROVE  Seen'
BY ElemsTypes DEF Seen, Fresh

LEMMA SeenNext ==
  ASSUME TypeOK, Lists, Seen, Fresh, Next
  PROVE  Seen'
<1>1. ASSUME NEW w \in Writers, LogCall(w) \/ LogSteps(w)
      PROVE  Seen'
  <2>1. CASE LogCall(w)
    <3>1. UNCHANGED (todo[Logger])
      BY <2>1 DEF LogCall, At, Goto, config, adapt, chans, TypeOK
    <3> QED BY <3>1, SeenSame
  <2>2. CASE DefaultLogger(w)
    <3>1. UNCHANGED (todo[Logger])
      BY <2>2 DEF DefaultLogger, At, Goto, config, chans, locals, hist, TypeOK
    <3> QED BY <3>1, SeenSame
  <2>3. CASE ReadMode(w)
    <3>1. UNCHANGED (todo[Logger])
      BY <2>3 DEF ReadMode, At, Goto, config, adapt, chans, hist, TypeOK
    <3> QED BY <3>1, SeenSame
  <2>4. CASE ReadOutputs(w)
    <3>1. UNCHANGED (todo[Logger])
      BY <2>4 DEF ReadOutputs, At, Goto, config, adapt, chans, hist, TypeOK
    <3> QED BY <3>1, SeenSame
  <2>5. CASE Send(w)
    <3>1. UNCHANGED (todo[Logger])
      BY <2>5 DEF Send, At, Goto, config, adapt, hist, TypeOK
    <3> QED BY <3>1, SeenSame
  <2> QED BY <1>1, <2>1, <2>2, <2>3, <2>4, <2>5 DEF LogSteps
<1>2. ASSUME NEW f \in Flushers, FlushCall(f) \/ FlushSteps(f)
      PROVE  Seen'
  <2>1. CASE FlushCall(f)
    <3>1. UNCHANGED (todo[Logger])
      BY <2>1 DEF FlushCall, At, Goto, config, adapt, chans, locals, TypeOK
    <3> QED BY <3>1, SeenSame
  <2>2. CASE Signal(f)
    <3>1. UNCHANGED (todo[Logger])
      BY <2>2 DEF Signal, At, Goto, config, adapt, locals, hist, TypeOK
    <3> QED BY <3>1, SeenSame
  <2>3. CASE Wait(f)
    <3>1. UNCHANGED (todo[Logger])
      BY <2>3 DEF Wait, At, Goto, config, adapt, chans, locals, hist, TypeOK
    <3> QED BY <3>1, SeenSame
  <2>4. CASE WakeUp(f)
    <3>1. UNCHANGED (todo[Logger])
      BY <2>4 DEF WakeUp, At, Goto, config, adapt, chans, locals, hist, TypeOK
    <3> QED BY <3>1, SeenSame
  <2>5. CASE AddOne(f)
    <3>1. UNCHANGED (todo[Logger])
      BY <2>5 DEF AddOne, At, Goto, config, adapt, locals, TypeOK
    <3> QED BY <3>1, SeenSame
  <2>6. CASE FlushSync(f)
    <3>1. UNCHANGED (todo[Logger])
      BY <2>6 DEF FlushSync, At, Goto, config, adapt, chans, locals, TypeOK
    <3> QED BY <3>1, SeenSame
  <2> QED BY <1>2, <2>1, <2>2, <2>3, <2>4, <2>5, <2>6 DEF FlushSteps
<1>3. ASSUME NEW g \in Goroutines, Work(g)
      PROVE  Seen'
  <2>1. CASE RangeOutputs(g)
    <3>1. UNCHANGED lg /\ todo'[Logger] \in {todo[Logger], Elems(outputs)}
      BY <2>1 DEF RangeOutputs, adapt, TypeOK
    <3> QED BY <3>1 DEF Seen, Lists
  <2>2. CASE WriteOne(g)
    <3>1. /\ UNCHANGED lg /\ todo[g] # <<>>
          /\ todo'[Logger] = todo[Logger] \/ (g = Logger /\ todo'[Logger] = Tail(todo[Logger]))
      BY <2>2 DEF WriteOne, adapt, TypeOK
    <3>2. Ran(todo'[Logger]) \subseteq Ran(todo[Logger])
      BY <3>1, ElemsTypes, RanTail
    <3> QED BY <3>1, <3>2 DEF Seen
  <2>3. CASE WriteEnd(g)
    <3>1. UNCHANGED (todo[Logger])
      BY <2>3 DEF WriteEnd, At, Goto, config, adapt, chans, hist, TypeOK
    <3> QED BY <3>1, SeenSame
  <2>4. CASE TestLen(g)
    <3>1. UNCHANGED (todo[Logger])
      BY <2>4 DEF TestLen, At, Goto, config, adapt, chans, locals, hist, TypeOK
    <3> QED BY <3>1, SeenSame
  <2>5. CASE Take(g)
    <3>1. UNCHANGED (todo[Logger])
      BY <2>5 DEF Take, At, Goto, Receive, config, adapt, hist, TypeOK
    <3> QED BY <3>1, SeenSame
  <2> QED BY <1>3, <2>1, <2>2, <2>3, <2>4, <2>5 DEF Work
<1>4. ASSUME LoggerSteps
      PROVE  Seen'
  <2>1. CASE SelectMessage
    <3>1. UNCHANGED (todo[Logger])
      BY <2>1 DEF SelectMessage, At, Goto, Receive, config, adapt, hist, TypeOK
    <3> QED BY <3>1, SeenSame
  <2>2. CASE SelectSignal
    <3>1. UNCHANGED (todo[Logger])
      BY <2>2 DEF SelectSignal, At, Goto, config, adapt, locals, hist, TypeOK
    <3> QED BY <3>1, SeenSame
  <2>3. CASE Done
    <3>1. UNCHANGED (todo[Logger])
      BY <2>3 DEF Done, At, config, adapt, locals, hist, TypeOK
    <3> QED BY <3>1, SeenSame
  <2> QED BY <1>4, <2>1, <2>2, <2>3 DEF LoggerSteps
<1>5. ASSUME MainCalls \/ MainSteps
      PROVE  Seen'
  <2>1. CASE Start
    <3>1. UNCHANGED (todo[Logger])
      BY <2>1 DEF Start, At, adapt, chans, locals, hist, TypeOK
    <3> QED BY <3>1, SeenSame
  <2>2. CASE SetLoggerCall
    <3>1. UNCHANGED (todo[Logger])
      BY <2>2 DEF SetLoggerCall, At, Goto, chans, locals, hist, TypeOK
    <3> QED BY <3>1, SeenSame
  <2>3. CASE DelLoggerCall
    <3>1. UNCHANGED (todo[Logger])
      BY <2>3 DEF DelLoggerCall, At, Goto, chans, hist, TypeOK
    <3> QED BY <3>1, SeenSame
  <2>4. CASE AsyncCall
    <3>1. UNCHANGED (todo[Logger])
      BY <2>4 DEF AsyncCall, At, Goto, adapt, chans, locals, hist, TypeOK
    <3> QED BY <3>1, SeenSame
  <2>5. CASE ResetCall
    <3>1. UNCHANGED (todo[Logger])
      BY <2>5 DEF ResetCall, At, Goto, config, adapt, chans, locals, hist,
         TypeOK
    <3> QED BY <3>1, SeenSame
  <2>6. CASE SetLogger
    <3>1. UNCHANGED (todo[Logger])
      BY <2>6 DEF SetLogger, At, Goto, chans, locals, hist, TypeOK
    <3> QED BY <3>1, SeenSame
  <2>7. CASE DelLogger
    <3>1. UNCHANGED (todo[Logger])
      BY <2>7 DEF DelLogger, At, Goto, chans, hist, TypeOK
    <3> QED BY <3>1, SeenSame
  <2>8. CASE MakeChan
    <3>1. UNCHANGED (todo[Logger])
      BY <2>8 DEF MakeChan, At, Goto, adapt, chans, locals, hist, TypeOK
    <3> QED BY <3>1, SeenSame
  <2>9. CASE GoLogger
    <3>1. UNCHANGED (todo[Logger])
      BY <2>9 DEF GoLogger, At, adapt, locals, hist, TypeOK
    <3> QED BY <3>1, SeenSame
  <2>10. CASE ResetDestroy
    <3>1. UNCHANGED (todo[Logger])
      BY <2>10 DEF ResetDestroy, At, Goto, config, chans, locals, hist, TypeOK
    <3> QED BY <3>1, SeenSame
  <2>11. CASE ResetNil
    <3>1. UNCHANGED (todo[Logger])
      BY <2>11 DEF ResetNil, At, Goto, config, chans, locals, hist, TypeOK
    <3> QED BY <3>1, SeenSame
  <2> QED BY <1>5, <2>1, <2>2, <2>3, <2>4, <2>5, <2>6, <2>7, <2>8, <2>9, <2>10,
     <2>11 DEF MainCalls, MainSteps
<1> QED BY <1>1, <1>2, <1>3, <1>4, <1>5 DEF Next

(* Nothing that was logged is not. *)
LEMMA SentNext ==
  ASSUME TypeOK, Next
  PROVE  \A v \in Writers : sent[v] <= sent'[v]
<1>1. ASSUME NEW w \in Writers, LogCall(w) \/ LogSteps(w)
      PROVE  \A v \in Writers : sent[v] <= sent'[v]
  <2>1. CASE LogCall(w)
    BY <2>1 DEF LogCall, At, Goto, config, adapt, chans, TypeOK
  <2>2. CASE DefaultLogger(w)
    BY <2>2 DEF DefaultLogger, At, Goto, config, chans, locals, hist, TypeOK
  <2>3. CASE ReadMode(w)
    BY <2>3 DEF ReadMode, At, Goto, config, adapt, chans, hist, TypeOK
  <2>4. CASE ReadOutputs(w)
    BY <2>4 DEF ReadOutputs, At, Goto, config, adapt, chans, hist, TypeOK
  <2>5. CASE Send(w)
    BY <2>5 DEF Send, At, Goto, config, adapt, hist, TypeOK
  <2> QED BY <1>1, <2>1, <2>2, <2>3, <2>4, <2>5 DEF LogSteps
<1>2. ASSUME NEW f \in Flushers, FlushCall(f) \/ FlushSteps(f)
      PROVE  \A v \in Writers : sent[v] <= sent'[v]
  <2>1. CASE FlushCall(f)
    BY <2>1 DEF FlushCall, At, Goto, config, adapt, chans, locals, TypeOK
  <2>2. CASE Signal(f)
    BY <2>2 DEF Signal, At, Goto, config, adapt, locals, hist, TypeOK
  <2>3. CASE Wait(f)
    BY <2>3 DEF Wait, At, Goto, config, adapt, chans, locals, hist, TypeOK
  <2>4. CASE WakeUp(f)
    BY <2>4 DEF WakeUp, At, Goto, config, adapt, chans, locals, hist, TypeOK
  <2>5. CASE AddOne(f)
    BY <2>5 DEF AddOne, At, Goto, config, adapt, locals, TypeOK
  <2>6. CASE FlushSync(f)
    BY <2>6 DEF FlushSync, At, Goto, config, adapt, chans, locals, TypeOK
  <2> QED BY <1>2, <2>1, <2>2, <2>3, <2>4, <2>5, <2>6 DEF FlushSteps
<1>3. ASSUME NEW g \in Goroutines, Work(g)
      PROVE  \A v \in Writers : sent[v] <= sent'[v]
  <2>1. CASE RangeOutputs(g)
    BY <2>1 DEF RangeOutputs, At, Goto, config, adapt, chans, hist, TypeOK
  <2>2. CASE WriteOne(g)
    BY <2>2 DEF WriteOne, At, Goto, config, adapt, chans, TypeOK
  <2>3. CASE WriteEnd(g)
    BY <2>3 DEF WriteEnd, At, Goto, config, adapt, chans, hist, TypeOK
  <2>4. CASE TestLen(g)
    BY <2>4 DEF TestLen, At, Goto, config, adapt, chans, locals, hist, TypeOK
  <2>5. CASE Take(g)
    BY <2>5 DEF Take, At, Goto, Receive, config, adapt, hist, TypeOK
  <2> QED BY <1>3, <2>1, <2>2, <2>3, <2>4, <2>5 DEF Work
<1>4. ASSUME LoggerSteps
      PROVE  \A v \in Writers : sent[v] <= sent'[v]
  <2>1. CASE SelectMessage
    BY <2>1 DEF SelectMessage, At, Goto, Receive, config, adapt, hist, TypeOK
  <2>2. CASE SelectSignal
    BY <2>2 DEF SelectSignal, At, Goto, config, adapt, locals, hist, TypeOK
  <2>3. CASE Done
    BY <2>3 DEF Done, At, config, adapt, locals, hist, TypeOK
  <2> QED BY <1>4, <2>1, <2>2, <2>3 DEF LoggerSteps
<1>5. ASSUME MainCalls \/ MainSteps
      PROVE  \A v \in Writers : sent[v] <= sent'[v]
  <2>1. CASE Start
    BY <2>1 DEF Start, At, adapt, chans, locals, hist, TypeOK
  <2>2. CASE SetLoggerCall
    BY <2>2 DEF SetLoggerCall, At, Goto, chans, locals, hist, TypeOK
  <2>3. CASE DelLoggerCall
    BY <2>3 DEF DelLoggerCall, At, Goto, chans, hist, TypeOK
  <2>4. CASE AsyncCall
    BY <2>4 DEF AsyncCall, At, Goto, adapt, chans, locals, hist, TypeOK
  <2>5. CASE ResetCall
    BY <2>5 DEF ResetCall, At, Goto, config, adapt, chans, locals, hist, TypeOK
  <2>6. CASE SetLogger
    BY <2>6 DEF SetLogger, At, Goto, chans, locals, hist, TypeOK
  <2>7. CASE DelLogger
    BY <2>7 DEF DelLogger, At, Goto, chans, hist, TypeOK
  <2>8. CASE MakeChan
    BY <2>8 DEF MakeChan, At, Goto, adapt, chans, locals, hist, TypeOK
  <2>9. CASE GoLogger
    BY <2>9 DEF GoLogger, At, adapt, locals, hist, TypeOK
  <2>10. CASE ResetDestroy
    BY <2>10 DEF ResetDestroy, At, Goto, config, chans, locals, hist, TypeOK
  <2>11. CASE ResetNil
    BY <2>11 DEF ResetNil, At, Goto, config, chans, locals, hist, TypeOK
  <2> QED BY <1>5, <2>1, <2>2, <2>3, <2>4, <2>5, <2>6, <2>7, <2>8, <2>9, <2>10,
     <2>11 DEF MainCalls, MainSteps
<1> QED BY <1>1, <1>2, <1>3, <1>4, <1>5 DEF Next

(* What Flush records when it is called is on its way, and there is        *)
(* nothing when the logger is synchronous.                                 *)
LEMMA FlushCallDue ==
  ASSUME TypeOK, IInv, Lists, Modes, Queue, Seen, NEW f \in Flushers, FlushCall(f),
         owed'[f] = Undelivered
  PROVE  /\ Owing(f)' /\ pc'[f] \in {"signal", "drain"}
         /\ pc'[f] = "drain" => owed'[f] = {}
<1>1. /\ UNCHANGED <<outputs, lg, msgChan, msg, todo, sent, written>> /\ pc[f] = "idle"
      /\ pc' = [pc EXCEPT ![f] = IF asynchronous THEN "signal" ELSE "drain"] /\ started
  BY DEF FlushCall, At, Goto, adapt, chans, locals
<1>2. /\ pc'[f] = IF asynchronous THEN "signal" ELSE "drain"
      /\ pc'[Logger] = pc[Logger]
  BY <1>1 DEF TypeOK
<1>3. pc'[f] = "drain" => owed'[f] = {}
  <2> SUFFICES ASSUME ~asynchronous PROVE Undelivered = {}
    BY <1>2
  <2>1. pc[Logger] = "off" /\ msgChan = <<>>
    BY DEF IInv, Places, Configuring, Modes
  <2> QED BY <2>1, EmptyList DEF Undelivered
<1>4. ASSUME NEW d \in Undelivered
      PROVE  /\ IsLogged(d[1]) /\ d[2] \in Adapters /\ lg[d[2]] # "new"
             /\ Reached(d[1], d[2])
  <2>1. CASE d \in Ran(msgChan) \X Ran(Elems(outputs))
    BY <2>1, ElemsTypes DEF Queue, InChan, IsSent, Lists, Reached
  <2>2. CASE pc[Logger] = "range" /\ d \in {msg[Logger]} \X Ran(Elems(outputs))
    BY <2>2, ElemsTypes DEF Queue, InLogger, IsSent, Lists, Reached
  <2>3. CASE pc[Logger] = "loop" /\ d \in {msg[Logger]} \X Ran(todo[Logger])
    BY <2>3, ElemsTypes DEF Queue, InLogger, IsSent, Seen, Reached
  <2> QED BY <2>1, <2>2, <2>3 DEF Undelivered
<1>5. \A m, a : (IsLogged(m) => IsLogged(m)') /\ (Reached(m, a) => Reached(m, a)')
  BY <1>1, <1>2 DEF IsLogged, Reached
<1> QED BY <1>1, <1>2, <1>3, <1>4, <1>5 DEF Owing

LEMMA DueNext ==
  ASSUME Quiet, OneFlusher, TypeOK, Holding, IInv, Lists, Modes, Queue, DueInv, Next
  PROVE  DueInv'
<1>1. /\ Fresh /\ Kept
      /\ \A v \in Writers : sent[v] <= sent'[v] /\ sent'[v] \in Nat /\ sent[v] \in Nat
  BY FreshNext, KeptNext, SentNext, TypeNext DEF TypeOK
<1>2. Seen /\ Seen'
  BY <1>1, SeenNext DEF DueInv
<1>3. \A m : IsLogged(m) => IsLogged(m)'
  BY <1>1 DEF IsLogged, Messages
<1>4. ASSUME NEW f \in Flushers
      PROVE  /\ Owing(f)'
             /\ pc'[f] \notin {"signal", "wait", "asleep", "woken", "add"} => owed'[f] = {}
             /\ Free(f)' => Delivered(f)'
  <2>1. /\ Owing(f)
        /\ Free(f) => Delivered(f)
        /\ pc[f] \notin {"signal", "wait", "asleep", "woken", "add"} => owed[f] = {}
    BY DEF DueInv
  <2>2. OwedStep(f) /\ FreeStep(f)
    BY OwedNext, FreeNext
  <2>3. CASE FlushCall(f) /\ owed'[f] = Undelivered
    <3>1. /\ Owing(f)' /\ pc'[f] \in {"signal", "drain"}
          /\ pc'[f] = "drain" => owed'[f] = {}
      BY <1>2, <2>3, FlushCallDue
    <3>2. ~Free(f)'
      BY <3>1 DEF Free, Released
    <3> QED BY <3>1, <3>2
  <2>4. CASE owed'[f] \subseteq owed[f]
    <3>1. ASSUME NEW d \in owed'[f]
          PROVE  /\ IsLogged(d[1])' /\ d[2] \in Adapters /\ lg'[d[2]] # "new"
                 /\ d[2] \in Attached' => d[2] \in Attached /\ Reached(d[1], d[2])'
      BY <1>1, <1>3, <2>1, <2>4 DEF Owing, Fresh, Kept
    <3>2. Free(f)' => Delivered(f)
      <4>1. msgChan = <<>> /\ pc[Logger] = "drain" => Delivered(f)
        BY <2>1, EmptyList DEF Owing, Reached, Delivered
      <4> QED BY <2>1, <2>2, <4>1 DEF FreeStep
    <3>3. Delivered(f) => Delivered(f)'
      BY <1>1, <2>4, <3>1 DEF Delivered, Kept
    <3>4. pc'[f] \notin {"signal", "wait", "asleep", "woken", "add"} => owed'[f] = {}
      BY <2>1, <2>2, <2>4 DEF OwedStep, FlushCall, At
    <3> QED BY <3>1, <3>2, <3>3, <3>4 DEF Owing
  <2> QED BY <2>2, <2>3, <2>4 DEF OwedStep
<1> QED BY <1>2, <1>4 DEF DueInv

-----------------------------------------------------------------------------
(* All of it is inductive. *)
ServiceInv == IInv /\ TypeOK /\ Holding /\ Lists /\ Modes /\ Queue /\ DueInv

LEMMA ServiceInit == ASSUME Init PROVE ServiceInv
<1>1. /\ pc = [g \in Goroutines |-> IF g = Logger THEN "off" ELSE "idle"]
      /\ msgChan = <<>> /\ outputs = <<Default>> /\ owed = [w \in Writers |-> {}]
      /\ todo = [g \in Goroutines |-> <<>>] /\ written = [a \in Adapters |-> <<>>]
      /\ lg[Default] = "open"
  BY DEF Init
<1>2. pc[Logger] = "off" /\ pc[Main] = "idle" /\ \A w \in Writers : pc[w] = "idle"
  BY <1>1
<1>3. Ran(<<Default>>) = {Default} /\ Distinct(<<Default>>)
  BY DEF Ran, Distinct
<1>4. Elems(outputs) = <<Default>>
  <2>1. <<Default>> \in Seq(Adapters)
    OBVIOUS
  <2>2. <<Default>> # Nil
    BY <2>1
  <2> QED BY <1>1, <2>2 DEF Elems
<1>5. Lists
  BY <1>1, <1>2, <1>3, <1>4, EmptyList DEF Lists
<1>6. Modes
  BY <1>1, <1>2 DEF Modes
<1>7. Queue
  BY <1>1, <1>2, EmptyList DEF Queue, InHand, InChan, InLogger, Busy, Writing, Ordered
<1>8. DueInv
  BY <1>1, <1>2, EmptyList DEF DueInv, Seen, Owing, Free, Released, Delivered
<1>9. IInv /\ TypeOK /\ Holding
  BY InitInv, InitTypes
<1> QED BY <1>5, <1>6, <1>7, <1>8, <1>9 DEF ServiceInv

LEMMA ServiceNext ==
  ASSUME Quiet, OneFlusher, ServiceInv, [Next]_vars
  PROVE  ServiceInv'
<1>1. CASE Next
  BY <1>1, NextInv, TypeNext, ListsNext, ModesNext, QueueNext, DueNext DEF ServiceInv
<1>2. CASE UNCHANGED vars
  <2>1. IInv'
    BY <1>2, NextInv DEF ServiceInv
  <2>2. TypeOK' /\ Holding' /\ Lists' /\ Modes'
    BY <1>2 DEF ServiceInv, vars, config, adapt, chans, locals, hist, TypeOK, Holding, Lists,
       Modes, Elems
  <2>3. Queue'
    BY <1>2 DEF ServiceInv, vars, config, adapt, chans, locals, hist, Queue, InHand, InChan,
       InLogger, Busy, Ahead, Older, IsSent, IsLogged
  <2>4. DueInv'
    BY <1>2 DEF ServiceInv, vars, config, adapt, chans, locals, hist, DueInv, Seen, Owing, Free,
       Released, Delivered, Signalled, Flushing, Attached, Elems, Reached, IsLogged
  <2> QED BY <2>1, <2>2, <2>3, <2>4 DEF ServiceInv
<1> QED BY <1>1, <1>2

-----------------------------------------------------------------------------
(* The steps of LogService.  Most steps here are none there. *)
LEMMA Stutters ==
  ASSUME UNCHANGED <<sent, written, outputs, owed>>
  PROVE  UNCHANGED Service!vars
BY DEF Service!vars, Attached, Elems, Due

LEMMA Configures ==
  ASSUME UNCHANGED <<sent, written, owed>>, TypeOK'
  PROVE  Service!Next
<1>1. Attached' \in SUBSET Adapters
  <2>1. Ran(Elems(outputs')) \subseteq Adapters
    <3>1. outputs' \in Seq(Adapters) \cup {Nil}
      BY DEF TypeOK
    <3>2. Elems(outputs') \in Seq(Adapters)
      BY <3>1, EmptyList DEF Elems
    <3> QED BY <3>2, RanTypes
  <2> QED BY <2>1 DEF Attached
<1>2. UNCHANGED Due
  BY DEF Due
<1> QED BY <1>1, <1>2 DEF Service!Next, Service!Configure

LEMMA WriteOneIs ==
  ASSUME ServiceInv, NEW g \in Goroutines, WriteOne(g)
  PROVE  \E a \in Adapters : Service!Write(a)
<1> SUFFICES ASSUME NEW m, m = msg[g], NEW a, a = Head(todo[g])
             PROVE  \E b \in Adapters : Service!Write(b)
  OBVIOUS
<1>1. /\ UNCHANGED <<sent, outputs, owed>> /\ pc[g] = "loop" /\ todo[g] # <<>>
      /\ written' = [written EXCEPT ![a] = Append(@, m)]
  BY DEF WriteOne, At, adapt
<1>2. g \in Writers \/ g = Logger
  BY <1>1, Places1 DEF ServiceInv
<1>3. a \in Adapters /\ a \in Ahead(g)
  BY <1>1, ElemsTypes, RanTail DEF ServiceInv, Ahead
<1>4. IsLogged(m) /\ Older(a, m)
  <2>1. CASE g \in Writers
    <3>1. Busy(g) /\ TypeOK /\ sent[g] \in Nat
      BY <1>1, <2>1 DEF Busy, Writing, ServiceInv, TypeOK
    <3>2. m = <<g, sent[g]>> /\ sent[g] >= 1 /\ Older(a, m)
      BY <1>3, <2>1, <3>1 DEF ServiceInv, Queue, InHand
    <3> QED BY <2>1, <3>1, <3>2 DEF IsLogged, Messages
  <2>2. CASE g = Logger
    BY <1>1, <1>3, <2>2 DEF ServiceInv, Queue, InLogger, IsSent
  <2> QED BY <1>2, <2>1, <2>2
<1>5. PICK w \in Writers, n \in Nat : m = <<w, n>>
  BY <1>4 DEF IsLogged, Messages
<1>6. n \in 1..sent[w] /\ sent[w] \in Nat
  BY <1>4, <1>5 DEF IsLogged, ServiceInv, TypeOK
<1>7. \A k \in Service!Got(a) : k[1] = w => k[2] < n
  BY <1>4, <1>5 DEF Older, Precedes, Ran, Service!Got
<1>8. UNCHANGED <<sent, Attached, Due>>
  BY <1>1 DEF Attached, Elems, Due
<1> QED BY <1>1, <1>3, <1>5, <1>6, <1>7, <1>8 DEF Service!Write

LEMMA FlushCallIs ==
  ASSUME OneFlusher, ServiceInv, NEW f \in Flushers, FlushCall(f)
  PROVE  Service!FlushCall(f)
<1>1. /\ UNCHANGED <<sent, written, outputs, lg, msgChan, msg, todo>> /\ pc[f] = "idle"
      /\ owed' = [owed EXCEPT ![f] = Undelivered]
  BY DEF FlushCall, At, adapt, chans, locals
<1>2. owed[f] = {} /\ owed \in [Writers -> SUBSET (Messages \X Adapters)]
  BY <1>1 DEF ServiceInv, DueInv, TypeOK
<1>3. owed'[f] = Undelivered
  BY <1>1, <1>2
<1>4. Undelivered \subseteq Messages \X Adapters
  BY ElemsTypes DEF ServiceInv, Undelivered, Holding, Writing
<1>5. ASSUME NEW d \in Undelivered PROVE IsLogged(d[1])
  <2>1. d[1] \in Ran(msgChan) \/ (pc[Logger] \in {"range", "loop"} /\ d[1] = msg[Logger])
    BY DEF Undelivered
  <2> QED BY <2>1 DEF ServiceInv, Queue, InChan, InLogger, IsSent
<1>6. \A m : IsLogged(m) => m \in Service!Logged
  <2> SUFFICES ASSUME NEW m, IsLogged(m) PROVE m \in Service!Logged
    OBVIOUS
  <2>1. PICK w \in Writers, n \in Nat : m = <<w, n>> /\ n \in 1..sent[w]
    BY DEF IsLogged, Messages, ServiceInv, TypeOK
  <2> QED BY <2>1 DEF Service!Logged
<1>7. Undelivered \subseteq Service!Logged \X Adapters
  BY <1>4, <1>5, <1>6
<1>8. Due' \in [Flushers -> SUBSET (Service!Logged \X Adapters)]
  BY <1>3, <1>7 DEF Due, OneFlusher
<1>9. Due[f] = {} /\ \A g \in Flushers \ {f} : Due'[g] = Due[g]
  BY <1>2 DEF Due, OneFlusher
<1>10. UNCHANGED <<sent, written, Attached>>
  BY <1>1 DEF Attached, Elems
<1> QED BY <1>8, <1>9, <1>10 DEF Service!FlushCall

LEMMA FlushReturnIs ==
  ASSUME ServiceInv, NEW f \in Flushers, owed' = [owed EXCEPT ![f] = {}],
         UNCHANGED <<sent, written, outputs>>, Delivered(f)
  PROVE  Service!FlushReturn(f)
<1>1. owed \in [Writers -> SUBSET (Messages \X Adapters)]
  BY DEF ServiceInv, TypeOK
<1>2. Due' = [Due EXCEPT ![f] = {}]
  BY <1>1 DEF Due
<1>3. UNCHANGED <<sent, written, Attached>>
  BY DEF Attached, Elems
<1>4. \A d \in Due[f] : d[2] \in Attached => d[1] \in Service!Got(d[2])
  BY DEF Due, Delivered, Service!Got, Ran
<1> QED BY <1>2, <1>3, <1>4 DEF Service!FlushReturn

LEMMA ServiceStep ==
  ASSUME OneFlusher, ServiceInv, Next
  PROVE  Service!Next \/ UNCHANGED Service!vars
<1>1. ASSUME NEW w \in Writers, LogCall(w) \/ LogSteps(w)
      PROVE  Service!Next \/ UNCHANGED Service!vars
  <2>1. CASE LogCall(w)
    <3>1. UNCHANGED <<written, outputs, owed>> /\ sent' = [sent EXCEPT ![w] = @ + 1]
      BY <2>1 DEF LogCall, adapt
    <3>2. Service!Log(w)
      BY <3>1 DEF Service!Log, Attached, Elems, Due
    <3> QED BY <1>1, <3>2 DEF Service!Next
  <2>2. CASE DefaultLogger(w)
    <3>1. UNCHANGED <<sent, written, owed>> /\ TypeOK'
      BY <2>2, TypeNext DEF ServiceInv, DefaultLogger, config, chans, locals, hist
    <3> QED BY <3>1, Configures
  <2>3. CASE ReadMode(w)
    <3>1. UNCHANGED <<sent, written, outputs, owed>>
      BY <2>3 DEF ReadMode, At, Goto, config, adapt, chans, hist
    <3> QED BY <3>1, Stutters
  <2>4. CASE ReadOutputs(w)
    <3>1. UNCHANGED <<sent, written, outputs, owed>>
      BY <2>4 DEF ReadOutputs, At, Goto, config, adapt, chans, hist
    <3> QED BY <3>1, Stutters
  <2>5. CASE Send(w)
    <3>1. UNCHANGED <<sent, written, outputs, owed>>
      BY <2>5 DEF Send, At, Goto, config, adapt, hist
    <3> QED BY <3>1, Stutters
  <2> QED BY <1>1, <2>1, <2>2, <2>3, <2>4, <2>5 DEF LogSteps
<1>2. ASSUME NEW f \in Flushers, FlushCall(f) \/ FlushSteps(f)
      PROVE  Service!Next \/ UNCHANGED Service!vars
  <2>1. CASE FlushCall(f)
    BY <2>1, FlushCallIs DEF Service!Next
  <2>2. CASE Signal(f)
    <3>1. UNCHANGED <<sent, written, outputs, owed>>
      BY <2>2 DEF Signal, At, Goto, config, adapt, locals, hist
    <3> QED BY <3>1, Stutters
  <2>3. CASE Wait(f)
    <3>1. UNCHANGED <<sent, written, outputs, owed>>
      BY <2>3 DEF Wait, At, Goto, config, adapt, chans, locals, hist
    <3> QED BY <3>1, Stutters
  <2>4. CASE WakeUp(f)
    <3>1. UNCHANGED <<sent, written, outputs, owed>>
      BY <2>4 DEF WakeUp, At, Goto, config, adapt, chans, locals, hist
    <3> QED BY <3>1, Stutters
  <2>5. CASE AddOne(f)
    <3>1. /\ pc[f] = "add" /\ owed' = [owed EXCEPT ![f] = {}]
          /\ UNCHANGED <<sent, written, outputs>>
      BY <2>5 DEF AddOne, At, adapt
    <3>2. Delivered(f)
      BY <3>1 DEF ServiceInv, DueInv, Free, Released
    <3> QED BY <3>1, <3>2, FlushReturnIs DEF Service!Next
  <2>6. CASE FlushSync(f)
    <3>1. /\ pc[f] = "drained" /\ owed' = [owed EXCEPT ![f] = {}]
          /\ UNCHANGED <<sent, written, outputs>>
      BY <2>6 DEF FlushSync, At, adapt
    <3>2. Delivered(f)
      BY <3>1 DEF ServiceInv, DueInv, Delivered
    <3> QED BY <3>1, <3>2, FlushReturnIs DEF Service!Next
  <2> QED BY <1>2, <2>1, <2>2, <2>3, <2>4, <2>5, <2>6 DEF FlushSteps
<1>3. ASSUME NEW g \in Goroutines, Work(g)
      PROVE  Service!Next \/ UNCHANGED Service!vars
  <2>1. CASE RangeOutputs(g)
    <3>1. UNCHANGED <<sent, written, outputs, owed>>
      BY <2>1 DEF RangeOutputs, At, Goto, config, adapt, chans, hist
    <3> QED BY <3>1, Stutters
  <2>2. CASE WriteOne(g)
    BY <2>2, WriteOneIs DEF Service!Next
  <2>3. CASE WriteEnd(g)
    <3>1. UNCHANGED <<sent, written, outputs, owed>>
      BY <2>3 DEF WriteEnd, At, Goto, config, adapt, chans, hist
    <3> QED BY <3>1, Stutters
  <2>4. CASE TestLen(g)
    <3>1. UNCHANGED <<sent, written, outputs, owed>>
      BY <2>4 DEF TestLen, At, Goto, config, adapt, chans, locals, hist
    <3> QED BY <3>1, Stutters
  <2>5. CASE Take(g)
    <3>1. UNCHANGED <<sent, written, outputs, owed>>
      BY <2>5 DEF Take, At, Goto, Receive, config, adapt, hist
    <3> QED BY <3>1, Stutters
  <2> QED BY <1>3, <2>1, <2>2, <2>3, <2>4, <2>5 DEF Work
<1>4. ASSUME LoggerSteps
      PROVE  Service!Next \/ UNCHANGED Service!vars
  <2>1. CASE SelectMessage
    <3>1. UNCHANGED <<sent, written, outputs, owed>>
      BY <2>1 DEF SelectMessage, At, Goto, Receive, config, adapt, hist
    <3> QED BY <3>1, Stutters
  <2>2. CASE SelectSignal
    <3>1. UNCHANGED <<sent, written, outputs, owed>>
      BY <2>2 DEF SelectSignal, At, Goto, config, adapt, locals, hist
    <3> QED BY <3>1, Stutters
  <2>3. CASE Done
    <3>1. UNCHANGED <<sent, written, outputs, owed>>
      BY <2>3 DEF Done, At, config, adapt, locals, hist
    <3> QED BY <3>1, Stutters
  <2> QED BY <1>4, <2>1, <2>2, <2>3 DEF LoggerSteps
<1>5. ASSUME MainCalls \/ MainSteps
      PROVE  Service!Next \/ UNCHANGED Service!vars
  <2>1. CASE Start
    <3>1. UNCHANGED <<sent, written, outputs, owed>>
      BY <2>1 DEF Start, At, adapt, chans, locals, hist
    <3> QED BY <3>1, Stutters
  <2>2. CASE SetLoggerCall
    <3>1. UNCHANGED <<sent, written, owed>> /\ TypeOK'
      BY <2>2, TypeNext DEF ServiceInv, SetLoggerCall, chans, locals, hist
    <3> QED BY <3>1, Configures
  <2>3. CASE DelLoggerCall
    <3>1. UNCHANGED <<sent, written, outputs, owed>>
      BY <2>3 DEF DelLoggerCall, At, Goto, chans, hist
    <3> QED BY <3>1, Stutters
  <2>4. CASE AsyncCall
    <3>1. UNCHANGED <<sent, written, outputs, owed>>
      BY <2>4 DEF AsyncCall, At, Goto, adapt, chans, locals, hist
    <3> QED BY <3>1, Stutters
  <2>5. CASE ResetCall
    <3>1. UNCHANGED <<sent, written, outputs, owed>>
      BY <2>5 DEF ResetCall, At, Goto, config, adapt, chans, locals, hist
    <3> QED BY <3>1, Stutters
  <2>6. CASE SetLogger
    <3>1. UNCHANGED <<sent, written, owed>> /\ TypeOK'
      BY <2>6, TypeNext DEF ServiceInv, SetLogger, chans, locals, hist
    <3> QED BY <3>1, Configures
  <2>7. CASE DelLogger
    <3>1. UNCHANGED <<sent, written, owed>> /\ TypeOK'
      BY <2>7, TypeNext DEF ServiceInv, DelLogger, chans, hist
    <3> QED BY <3>1, Configures
  <2>8. CASE MakeChan
    <3>1. UNCHANGED <<sent, written, outputs, owed>>
      BY <2>8 DEF MakeChan, At, Goto, adapt, chans, locals, hist
    <3> QED BY <3>1, Stutters
  <2>9. CASE GoLogger
    <3>1. UNCHANGED <<sent, written, outputs, owed>>
      BY <2>9 DEF GoLogger, At, adapt, locals, hist
    <3> QED BY <3>1, Stutters
  <2>10. CASE ResetDestroy
    <3>1. UNCHANGED <<sent, written, outputs, owed>>
      BY <2>10 DEF ResetDestroy, At, Goto, config, chans, locals, hist
    <3> QED BY <3>1, Stutters
  <2>11. CASE ResetNil
    <3>1. UNCHANGED <<sent, written, owed>> /\ TypeOK'
      BY <2>11, TypeNext DEF ServiceInv, ResetNil, config, chans, locals, hist
    <3> QED BY <3>1, Configures
  <2> QED BY <1>5, <2>1, <2>2, <2>3, <2>4, <2>5, <2>6, <2>7, <2>8, <2>9, <2>10,
     <2>11 DEF MainCalls, MainSteps
<1> QED BY <1>1, <1>2, <1>3, <1>4, <1>5 DEF Next

(* A GonLogger that queues is a logger like any other: every adapter gets  *)
(* each writer's messages in the order they were logged and none twice,    *)
(* and Flush returns when what it found queued or in hand has reached      *)
(* every adapter that is still there, for any number of writers, messages  *)
(* and adapters, any capacity of msgChan, and SetLogger and DelLogger at   *)
(* any time.                                                               *)
THEOREM SpecLogsInOrder == Quiet /\ OneFlusher => (Spec => LogsInOrder)
<1> SUFFICES ASSUME Quiet, OneFlusher
             PROVE  Spec => LogsInOrder
  OBVIOUS
<1>1. Init => Service!Init
  <2> SUFFICES ASSUME Init PROVE Service!Init
    OBVIOUS
  <2>1. Attached \subseteq Adapters
    BY ServiceInit, ElemsTypes DEF ServiceInv, Attached
  <2>2. Due = [f \in Flushers |-> {}]
    BY DEF Init, Due
  <2> QED BY <2>1, <2>2 DEF Init, Service!Init
<1>2. Init => ServiceInv
  BY ServiceInit
<1>3. ServiceInv /\ [Next]_vars => ServiceInv'
  BY ServiceNext
<1>4. ServiceInv /\ [Next]_vars => [Service!Next]_(Service!vars)
  <2>1. ASSUME ServiceInv, Next PROVE Service!Next \/ UNCHANGED Service!vars
    BY <2>1, ServiceStep
  <2>2. ASSUME UNCHANGED vars PROVE UNCHANGED Service!vars
    BY <2>2, Stutters DEF vars, adapt, hist
  <2> QED BY <2>1, <2>2
<1> QED BY <1>1, <1>2, <1>3, <1>4, PTL DEF Spec, LogsInOrder, Service!Spec
=============================================================================
