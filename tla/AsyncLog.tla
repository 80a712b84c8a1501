------------------------------ MODULE AsyncLog ------------------------------
(***************************************************************************)
(* GonLogger of logs/gon_logger.go: goroutines log through writeMsg, which *)
(* writes to the adapters itself or, after Async, sends the message over   *)
(* the bounded msgChan to the goroutine startLogger.  Flush hands that     *)
(* goroutine a signal and waits for it on a WaitGroup.                     *)
(*                                                                         *)
(* A call is a sequence of steps: each read or write of a field that other *)
(* goroutines change is a step of its own, because only SetLogger,         *)
(* DelLogger and Async take the lock.  A message is a pair <<writer, n>>;  *)
(* an adapter is one instance made by setLogger, used once.  A local       *)
(* variable whose value is no longer used is set back to its first value.  *)
(***************************************************************************)
EXTENDS Integers, Sequences

CONSTANTS
  Writers,     \* goroutines that log
  Flushers,    \* the writers that also call Flush
  Main,        \* the goroutine that configures the logger
  Logger,      \* the goroutine startLogger
  Adapters,    \* adapter instances
  Default,     \* the console adapter NewLogger installs
  NameOf,      \* the name an adapter instance is registered under
  MsgChanLen,  \* capacity of msgChan
  MaxMsgs,     \* bound: how many messages each writer logs
  Quiet,       \* Reset and Async are called only before anyone logs
  Nil          \* a nil slice, a free lock, no message

Goroutines == Writers \cup {Main, Logger}
Messages   == Writers \X Nat

ASSUME AsyncLogAssumption ==
  /\ Flushers \subseteq Writers
  /\ Main \notin Writers /\ Logger \notin Writers /\ Main # Logger
  /\ Default \in Adapters
  /\ DOMAIN NameOf = Adapters
  /\ MsgChanLen \in Nat \ {0}
  /\ MaxMsgs \in [Writers -> Nat]
  /\ Quiet \in BOOLEAN
  /\ Nil \notin Goroutines /\ Nil \notin Messages /\ Nil \notin Seq(Adapters)

VARIABLES
  init,          \* gl.init: SetLogger has been called
  asynchronous,  \* gl.asynchronous
  pool,          \* logMsgPool (and msgChan) have been made
  msgChan,       \* the messages in gl.msgChan
  signalChan,    \* the signals in gl.signalChan
  wg,            \* the counter of gl.wg
  outputs,       \* gl.outputs: a sequence of adapters, or Nil
  lock,          \* the goroutine that holds gl.lock, or Nil
  lg,            \* the state of each adapter instance
  started,       \* the writers have been started
  sent,          \* how many messages each writer has logged
  pc,            \* where each goroutine is
  msg,           \* the message a goroutine is writing (lm, bm)
  todo,          \* the adapters its loop over outputs has left
  ret,           \* where writeToLoggers returns to
  written,       \* the messages each adapter got, in order
  owed,          \* what a Flush found undelivered when it was called
  panic          \* the program has panicked

config == <<init, asynchronous, pool, lock, started>>
adapt  == <<outputs, lg>>
chans  == <<msgChan, signalChan, wg>>
locals == <<msg, todo, ret>>
hist   == <<sent, written, owed>>
vars   == <<config, adapt, chans, locals, hist, pc, panic>>

PCs == {"off", "idle", "default", "mode", "outputs", "send",   \* writeMsg
        "range", "loop",                                       \* writeToLoggers
        "drain", "take", "drained",                            \* flush
        "select",                                              \* startLogger
        "signal", "wait", "asleep", "woken", "add",            \* Flush
        "reset", "setLogger", "delLogger", "async", "go"}      \* configuration

(* A range over a nil slice visits nothing. *)
Elems(s) == IF s = Nil THEN <<>> ELSE s
Ran(s)   == {s[i] : i \in DOMAIN s}
Goto(g, label) == pc' = [pc EXCEPT ![g] = label]
At(g, label)   == pc[g] = label /\ ~panic

TypeOK ==
  /\ {init, asynchronous, pool, started, panic} \subseteq BOOLEAN
  /\ msgChan \in Seq(Messages) /\ Len(msgChan) <= MsgChanLen
  /\ signalChan \in Seq({"flush"}) /\ Len(signalChan) <= 1
  /\ wg \in Nat
  /\ outputs \in Seq(Adapters) \cup {Nil}
  /\ lock \in {Main, Nil}
  /\ lg \in [Adapters -> {"new", "open", "closed"}]
  /\ sent \in [Writers -> Nat]
  /\ pc \in [Goroutines -> PCs]
  /\ msg \in [Goroutines -> Messages \cup {Nil}]
  /\ todo \in [Goroutines -> Seq(Adapters)]
  /\ ret \in [Goroutines -> {"idle", "select", "drain"}]
  /\ written \in [Adapters -> Seq(Messages)]
  /\ owed \in [Writers -> SUBSET (Messages \X Adapters)]

(* NewLogger: a console adapter is set, gl.init stays false. *)
Init ==
  /\ init = FALSE /\ asynchronous = FALSE /\ pool = FALSE
  /\ msgChan = <<>> /\ signalChan = <<>> /\ wg = 0
  /\ outputs = <<Default>> /\ lock = Nil
  /\ lg = [a \in Adapters |-> IF a = Default THEN "open" ELSE "new"]
  /\ started = FALSE
  /\ sent = [w \in Writers |-> 0]
  /\ pc = [g \in Goroutines |-> IF g = Logger THEN "off" ELSE "idle"]
  /\ msg = [g \in Goroutines |-> Nil]
  /\ todo = [g \in Goroutines |-> <<>>]
  /\ ret = [g \in Goroutines |-> "idle"]
  /\ written = [a \in Adapters |-> <<>>]
  /\ owed = [w \in Writers |-> {}]
  /\ panic = FALSE

-----------------------------------------------------------------------------
(* setLogger: an adapter name that is already in outputs is an error that  *)
(* changes nothing, otherwise a fresh adapter is appended.                 *)
Taken(name) == \E a \in Ran(Elems(outputs)) : NameOf[a] = name

AppendAdapter(name) ==
  \/ Taken(name) /\ UNCHANGED adapt
  \/ /\ ~Taken(name)
     /\ \E a \in Adapters :
          /\ lg[a] = "new" /\ NameOf[a] = name
          /\ outputs' = Append(Elems(outputs), a)
          /\ lg' = [lg EXCEPT ![a] = "open"]

(* writeMsg: a logger that nobody configured gets a console first.         *)
LogCall(w) ==
  /\ started /\ At(w, "idle") /\ sent[w] < MaxMsgs[w]
  /\ sent' = [sent EXCEPT ![w] = @ + 1]
  /\ msg' = [msg EXCEPT ![w] = <<w, sent[w] + 1>>]
  /\ Goto(w, IF init THEN "mode" ELSE "default")
  /\ UNCHANGED <<config, adapt, chans, todo, ret, written, owed, panic>>

DefaultLogger(w) ==
  /\ At(w, "default") /\ lock = Nil
  /\ AppendAdapter(NameOf[Default])
  /\ Goto(w, "mode")
  /\ UNCHANGED <<config, chans, locals, hist, panic>>

(* Synchronous: the caller writes itself.  Asynchronous: Get on a pool     *)
(* that Async has not made yet is a nil dereference.                       *)
ReadMode(w) ==
  /\ At(w, "mode")
  /\ IF asynchronous
     THEN /\ panic' = ~pool
          /\ Goto(w, "outputs")
          /\ UNCHANGED ret
     ELSE /\ ret' = [ret EXCEPT ![w] = "idle"]
          /\ Goto(w, "range")
          /\ UNCHANGED panic
  /\ UNCHANGED <<config, adapt, chans, msg, todo, hist>>

(* After Reset there are no outputs: the message goes back to the pool.    *)
ReadOutputs(w) ==
  /\ At(w, "outputs")
  /\ IF outputs = Nil
     THEN Goto(w, "idle") /\ msg' = [msg EXCEPT ![w] = Nil]
     ELSE Goto(w, "send") /\ UNCHANGED msg
  /\ UNCHANGED <<config, adapt, chans, todo, ret, hist, panic>>

(* Faulty: a queue without a capacity. *)
SendUnbounded(w) ==
  /\ At(w, "send")
  /\ msgChan' = Append(msgChan, msg[w])
  /\ msg' = [msg EXCEPT ![w] = Nil]
  /\ Goto(w, "idle")
  /\ UNCHANGED <<config, adapt, signalChan, wg, todo, ret, hist, panic>>

Send(w) ==
  /\ At(w, "send") /\ Len(msgChan) < MsgChanLen
  /\ msgChan' = Append(msgChan, msg[w])
  /\ msg' = [msg EXCEPT ![w] = Nil]
  /\ Goto(w, "idle")
  /\ UNCHANGED <<config, adapt, signalChan, wg, todo, ret, hist, panic>>

-----------------------------------------------------------------------------
(* writeToLoggers: the loop ranges over the slice outputs was at its start *)
RangeOutputs(g) ==
  /\ At(g, "range")
  /\ todo' = [todo EXCEPT ![g] = Elems(outputs)]
  /\ Goto(g, "loop")
  /\ UNCHANGED <<config, adapt, chans, msg, ret, hist, panic>>

WriteOne(g) ==
  /\ At(g, "loop") /\ todo[g] # <<>>
  /\ written' = [written EXCEPT ![Head(todo[g])] = Append(@, msg[g])]
  /\ todo' = [todo EXCEPT ![g] = Tail(@)]
  /\ UNCHANGED <<config, adapt, chans, msg, ret, sent, owed, pc, panic>>

WriteEnd(g) ==
  /\ At(g, "loop") /\ todo[g] = <<>>
  /\ Goto(g, ret[g])
  /\ msg' = [msg EXCEPT ![g] = Nil]
  /\ ret' = [ret EXCEPT ![g] = "idle"]
  /\ UNCHANGED <<config, adapt, chans, todo, hist, panic>>

(* flush: the length is tested first and the message received after, so a  *)
(* second goroutine that drains may leave the receive blocked.             *)
TestLen(g) ==
  /\ At(g, "drain")
  /\ Goto(g, IF asynchronous /\ msgChan # <<>> THEN "take" ELSE "drained")
  /\ UNCHANGED <<config, adapt, chans, locals, hist, panic>>

(* A receive from msgChan, then writeToLoggers, then back to label.        *)
Receive(g, label) ==
  /\ msgChan # <<>>
  /\ msg' = [msg EXCEPT ![g] = Head(msgChan)]
  /\ msgChan' = Tail(msgChan)
  /\ ret' = [ret EXCEPT ![g] = label]
  /\ Goto(g, "range")
  /\ UNCHANGED <<config, adapt, signalChan, wg, todo, hist, panic>>

(* Faulty: flush empties the channel without writing. *)
TakeAndDrop(g) ==
  /\ At(g, "take") /\ msgChan # <<>>
  /\ msgChan' = Tail(msgChan)
  /\ Goto(g, "drain")
  /\ UNCHANGED <<config, adapt, signalChan, wg, locals, hist, panic>>

Take(g) == At(g, "take") /\ Receive(g, "drain")

-----------------------------------------------------------------------------
(* startLogger: the select takes a message or a signal.                    *)
SelectMessage == At(Logger, "select") /\ Receive(Logger, "select")

(* Faulty: the signal is acknowledged without a flush. *)
SignalNoFlush ==
  /\ At(Logger, "select") /\ signalChan # <<>>
  /\ signalChan' = Tail(signalChan)
  /\ Goto(Logger, "drained")
  /\ UNCHANGED <<config, adapt, msgChan, wg, locals, hist, panic>>

SelectSignal ==
  /\ At(Logger, "select") /\ signalChan # <<>>
  /\ signalChan' = Tail(signalChan)
  /\ Goto(Logger, "drain")
  /\ UNCHANGED <<config, adapt, msgChan, wg, locals, hist, panic>>

(* Faulty: the logger flushes and forgets wg.Done. *)
NoDone ==
  /\ At(Logger, "drained")
  /\ Goto(Logger, "select")
  /\ UNCHANGED <<config, adapt, chans, locals, hist, panic>>

(* wg.Done: below zero it panics, at zero it wakes the goroutines in Wait. *)
Done ==
  /\ At(Logger, "drained")
  /\ IF wg = 0
     THEN panic' = TRUE /\ UNCHANGED <<wg, pc>>
     ELSE /\ wg' = wg - 1
          /\ pc' = [g \in Goroutines |->
                     IF g = Logger THEN "select"
                     ELSE IF wg = 1 /\ pc[g] = "asleep" THEN "woken"
                     ELSE pc[g]]
          /\ UNCHANGED panic
  /\ UNCHANGED <<config, adapt, msgChan, signalChan, locals, hist>>

-----------------------------------------------------------------------------
(* Flush.  owed records which message is due to which adapter at the call: *)
(* all of the channel, and what the logger still has in hand.              *)
Undelivered ==
  (Ran(msgChan) \X Ran(Elems(outputs)))
  \cup (IF pc[Logger] = "range" THEN {msg[Logger]} \X Ran(Elems(outputs)) ELSE {})
  \cup (IF pc[Logger] = "loop" THEN {msg[Logger]} \X Ran(todo[Logger]) ELSE {})

FlushCall(f) ==
  /\ started /\ At(f, "idle")
  /\ owed' = [owed EXCEPT ![f] = Undelivered]
  /\ Goto(f, IF asynchronous THEN "signal" ELSE "drain")
  /\ UNCHANGED <<config, adapt, chans, locals, sent, written, panic>>

Signal(f) ==
  /\ At(f, "signal") /\ Len(signalChan) < 1
  /\ signalChan' = Append(signalChan, "flush")
  /\ Goto(f, "wait")
  /\ UNCHANGED <<config, adapt, msgChan, wg, locals, hist, panic>>

(* wg.Wait returns at once at zero and sleeps otherwise; a goroutine that  *)
(* is woken and finds the counter raised again panics.                     *)
Wait(f) ==
  /\ At(f, "wait")
  /\ Goto(f, IF wg = 0 THEN "add" ELSE "asleep")
  /\ UNCHANGED <<config, adapt, chans, locals, hist, panic>>

WakeUp(f) ==
  /\ At(f, "woken")
  /\ panic' = (wg # 0)
  /\ Goto(f, "add")
  /\ UNCHANGED <<config, adapt, chans, locals, hist>>

(* Faulty: Flush does not raise the counter again. *)
NoAdd(f) ==
  /\ At(f, "add")
  /\ owed' = [owed EXCEPT ![f] = {}]
  /\ Goto(f, "idle")
  /\ UNCHANGED <<config, adapt, chans, locals, sent, written, panic>>

AddOne(f) ==
  /\ At(f, "add")
  /\ wg' = wg + 1
  /\ owed' = [owed EXCEPT ![f] = {}]
  /\ Goto(f, "idle")
  /\ UNCHANGED <<config, adapt, msgChan, signalChan, locals, sent, written, panic>>

(* Flush of a synchronous logger: nothing is queued. *)
FlushSync(f) ==
  /\ At(f, "drained")
  /\ owed' = [owed EXCEPT ![f] = {}]
  /\ Goto(f, "idle")
  /\ UNCHANGED <<config, adapt, chans, locals, sent, written, panic>>

-----------------------------------------------------------------------------
(* Configuration, by one goroutine. *)
Setup == Quiet => ~started

(* The application starts the goroutines that log. *)
Start ==
  /\ At(Main, "idle") /\ ~started
  /\ started' = TRUE
  /\ UNCHANGED <<init, asynchronous, pool, lock, adapt, chans, locals, hist, pc, panic>>

(* SetLogger: the first call empties outputs before it appends to them.    *)
SetLoggerCall ==
  /\ At(Main, "idle") /\ lock = Nil
  /\ lock' = Main /\ init' = TRUE
  /\ outputs' = IF init THEN outputs ELSE <<>>
  /\ Goto(Main, "setLogger")
  /\ UNCHANGED <<asynchronous, pool, started, lg, chans, locals, hist, panic>>

SetLogger ==
  /\ At(Main, "setLogger")
  /\ \E a \in Adapters : AppendAdapter(NameOf[a])
  /\ lock' = Nil
  /\ Goto(Main, "idle")
  /\ UNCHANGED <<init, asynchronous, pool, started, chans, locals, hist, panic>>

(* DelLogger: the adapter is destroyed first and taken out after, while    *)
(* the logger may be in its loop over the old outputs.  One has the name:  *)
(* setLogger refuses a name that is taken.                                 *)
Without(s, i) == SubSeq(s, 1, i - 1) \o SubSeq(s, i + 1, Len(s))

DelLoggerCall ==
  /\ At(Main, "idle") /\ lock = Nil
  /\ \E i \in DOMAIN Elems(outputs) :
       /\ lg' = [lg EXCEPT ![outputs[i]] = "closed"]
       /\ todo' = [todo EXCEPT ![Main] = Without(outputs, i)]
  /\ lock' = Main
  /\ Goto(Main, "delLogger")
  /\ UNCHANGED <<init, asynchronous, pool, started, outputs, chans, msg, ret, hist, panic>>

DelLogger ==
  /\ At(Main, "delLogger")
  /\ outputs' = todo[Main]
  /\ todo' = [todo EXCEPT ![Main] = <<>>]
  /\ lock' = Nil
  /\ Goto(Main, "idle")
  /\ UNCHANGED <<init, asynchronous, pool, started, lg, chans, msg, ret, hist, panic>>

(* Async: the flag is raised before the channel, the pool and the logger   *)
(* goroutine exist.                                                        *)
AsyncCall ==
  /\ At(Main, "idle") /\ lock = Nil /\ ~asynchronous /\ Setup
  /\ lock' = Main /\ asynchronous' = TRUE
  /\ Goto(Main, "async")
  /\ UNCHANGED <<init, pool, started, adapt, chans, locals, hist, panic>>

MakeChan ==
  /\ At(Main, "async")
  /\ pool' = TRUE
  /\ Goto(Main, "go")
  /\ UNCHANGED <<init, asynchronous, lock, started, adapt, chans, locals, hist, panic>>

(* Faulty: Async starts the logger without raising the counter. *)
GoNoAdd ==
  /\ At(Main, "go")
  /\ lock' = Nil
  /\ pc' = [pc EXCEPT ![Main] = "idle", ![Logger] = "select"]
  /\ UNCHANGED <<init, asynchronous, pool, started, adapt, chans, locals, hist, panic>>

GoLogger ==
  /\ At(Main, "go")
  /\ wg' = wg + 1 /\ lock' = Nil
  /\ pc' = [pc EXCEPT ![Main] = "idle", ![Logger] = "select"]
  /\ UNCHANGED <<init, asynchronous, pool, started, adapt, msgChan, signalChan, locals, hist, panic>>

(* Reset: flush, destroy the outputs, forget them; without the lock.       *)
ResetCall ==
  /\ At(Main, "idle") /\ Setup
  /\ Goto(Main, "drain")
  /\ UNCHANGED <<config, adapt, chans, locals, hist, panic>>

ResetDestroy ==
  /\ At(Main, "drained")
  /\ lg' = [a \in Adapters |-> IF a \in Ran(Elems(outputs)) THEN "closed" ELSE lg[a]]
  /\ Goto(Main, "reset")
  /\ UNCHANGED <<config, outputs, chans, locals, hist, panic>>

ResetNil ==
  /\ At(Main, "reset")
  /\ outputs' = Nil
  /\ Goto(Main, "idle")
  /\ UNCHANGED <<config, lg, chans, locals, hist, panic>>

-----------------------------------------------------------------------------
(* flush and writeToLoggers, run by whichever goroutine called them. *)
Work(g) == RangeOutputs(g) \/ WriteOne(g) \/ WriteEnd(g) \/ TestLen(g) \/ Take(g)

LogSteps(w)   == DefaultLogger(w) \/ ReadMode(w) \/ ReadOutputs(w) \/ Send(w)
FlushSteps(f) == Signal(f) \/ Wait(f) \/ WakeUp(f) \/ AddOne(f) \/ FlushSync(f)
LoggerSteps   == SelectMessage \/ SelectSignal \/ Done
MainSteps     == \/ SetLogger \/ DelLogger \/ MakeChan \/ GoLogger
                 \/ ResetDestroy \/ ResetNil
MainCalls     == Start \/ SetLoggerCall \/ DelLoggerCall \/ AsyncCall \/ ResetCall

Next ==
  \/ \E w \in Writers : LogCall(w) \/ LogSteps(w)
  \/ \E f \in Flushers : FlushCall(f) \/ FlushSteps(f)
  \/ \E g \in Goroutines : Work(g)
  \/ LoggerSteps
  \/ MainCalls \/ MainSteps

(* The Go scheduler runs every goroutine that can run; nothing obliges the *)
(* application to call the logger.                                         *)
Fairness ==
  /\ \A w \in Writers : WF_vars(LogSteps(w) \/ Work(w))
  /\ \A f \in Flushers : WF_vars(FlushSteps(f))
  /\ WF_vars(LoggerSteps \/ Work(Logger))
  /\ WF_vars(MainSteps \/ Work(Main))

Spec == Init /\ [][Next]_vars /\ Fairness

-----------------------------------------------------------------------------
(* No goroutine ever panics: the pool exists when it is used, the counter  *)
(* of the WaitGroup never goes below zero and is never raised again before *)
(* a goroutine it woke has left Wait.                                      *)
NoPanic == ~panic

(* With one flusher, the WaitGroup counter is zero exactly from the        *)
(* logger's Done to the flusher's Add; a flush is under way in the logger  *)
(* only while the flusher waits, and a sleeping flusher always has one.    *)
Flushing ==
  \/ pc[Logger] \in {"drain", "take", "drained"}
  \/ pc[Logger] \in {"range", "loop"} /\ ret[Logger] = "drain"
Signalled == signalChan # <<>> \/ Flushing
OneFlusher == \A f, g \in Flushers : f = g
Released(f) == pc[f] \in {"woken", "add"} \/ (pc[f] = "wait" /\ ~Signalled)
FlushProtocol ==
  OneFlusher /\ Quiet /\ pc[Logger] # "off" =>
    /\ wg = IF \E f \in Flushers : Released(f) THEN 0 ELSE 1
    /\ Signalled => \E f \in Flushers : pc[f] \in {"wait", "asleep"}
    /\ \A f \in Flushers : pc[f] = "asleep" => Signalled
    /\ ~(signalChan # <<>> /\ Flushing)

(* The logger is one to its callers, LogService: every adapter gets the    *)
(* messages of a writer in the order they were logged, no message twice;   *)
(* and, "Flush flush all chan data", when Flush returns every message that *)
(* was queued or in hand at the call has reached every adapter it was due  *)
(* to that has not been removed since.                                     *)
Attached == Ran(Elems(outputs))
Due      == [f \in Flushers |-> owed[f]]
Service  == INSTANCE LogService WITH logged <- sent, attached <- Attached, due <- Due
LogsInOrder == Service!Spec

(* A queued message reaches each adapter, unless the adapter is removed.   *)
QueuedIsWritten ==
  \A w \in Writers, a \in Adapters : \A n \in 1..MaxMsgs[w] :
    (<<w, n>> \in Ran(msgChan) /\ a \in Ran(Elems(outputs)))
      ~> (a \notin Ran(Elems(outputs)) \/ <<w, n>> \in Ran(written[a]))

(* Flush returns, once the writers pause long enough for the logger to     *)
(* find the channel empty (MaxMsgs makes them pause).                      *)
FlushReturns == \A f \in Flushers : pc[f] = "signal" ~> pc[f] = "idle"
=============================================================================
