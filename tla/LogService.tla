----------------------------- MODULE LogService -----------------------------
(***************************************************************************)
(* What the callers of a logger may expect, whether it writes at once or   *)
(* queues: each adapter gets messages that were logged, those of one       *)
(* writer in the order it logged them and none twice; and a Flush comes    *)
(* back only when what it found under way has reached every adapter that   *)
(* is still there.  Queues, signals and goroutines are not their concern.  *)
(***************************************************************************)
EXTENDS Integers, Sequences

CONSTANTS Writers, Flushers, Adapters

VARIABLES
  logged,    \* how many messages each writer has logged
  written,   \* the messages each adapter got, in order
  attached,  \* the adapters messages go to
  due        \* what a Flush waits for: pairs of a message and an adapter

vars == <<logged, written, attached, due>>

Logged == UNION {{<<w, n>> : n \in 1..logged[w]} : w \in Writers}
Got(a) == {written[a][i] : i \in DOMAIN written[a]}

Init ==
  /\ logged = [w \in Writers |-> 0] /\ written = [a \in Adapters |-> <<>>]
  /\ attached \subseteq Adapters
  /\ due = [f \in Flushers |-> {}]

Log(w) ==
  /\ logged' = [logged EXCEPT ![w] = @ + 1]
  /\ UNCHANGED <<written, attached, due>>

Write(a) ==
  /\ \E w \in Writers : \E n \in 1..logged[w] :
       /\ \A m \in Got(a) : m[1] = w => m[2] < n
       /\ written' = [written EXCEPT ![a] = Append(@, <<w, n>>)]
  /\ UNCHANGED <<logged, attached, due>>

Configure ==
  /\ attached' \in SUBSET Adapters
  /\ UNCHANGED <<logged, written, due>>

FlushCall(f) ==
  /\ due[f] = {}
  /\ due' \in [Flushers -> SUBSET (Logged \X Adapters)]
  /\ \A g \in Flushers \ {f} : due'[g] = due[g]
  /\ UNCHANGED <<logged, written, attached>>

FlushReturn(f) ==
  /\ \A d \in due[f] : d[2] \in attached => d[1] \in Got(d[2])
  /\ due' = [due EXCEPT ![f] = {}]
  /\ UNCHANGED <<logged, written, attached>>

Next ==
  \/ \E w \in Writers : Log(w)
  \/ \E a \in Adapters : Write(a)
  \/ Configure
  \/ \E f \in Flushers : FlushCall(f) \/ FlushReturn(f)

Spec == Init /\ [][Next]_vars
=============================================================================
