----------------------------- MODULE FreshRead -----------------------------
(***************************************************************************)
(* What a client may expect of a server of files that change: a request    *)
(* looks at its file once, and is answered with a content the file has     *)
(* had at some moment since then, never with an older one; or it is left   *)
(* without an answer, at a moment when the file is not there or because a  *)
(* call of the file system failed.  Each failure costs one request its     *)
(* answer and leaves nothing behind for others.                            *)
(* How contents are cached, locked and dropped is not a client's concern.  *)
(***************************************************************************)
EXTENDS Integers

CONSTANTS Requests, Files, MaxVersion, MaxFaults

VARIABLES
  version,  \* the last version of each file
  present,  \* whether the file exists
  faults,   \* how many calls of the file system have failed
  wants,    \* the file a request is for
  state,    \* "new", "found" once it has looked at the file, "done"
  fi,       \* the version it found, 0 for none
  served    \* the version it was answered with, 0 for none

vars == <<version, present, faults, wants, state, fi, served>>

Init ==
  /\ version = [f \in Files |-> 1] /\ present = [f \in Files |-> TRUE]
  /\ faults = 0 /\ wants \in [Requests -> Files]
  /\ state = [r \in Requests |-> "new"]
  /\ fi = [r \in Requests |-> 0] /\ served = [r \in Requests |-> 0]

Find(r) ==
  /\ state[r] = "new" /\ present[wants[r]]
  /\ fi' = [fi EXCEPT ![r] = version[wants[r]]]
  /\ state' = [state EXCEPT ![r] = "found"]
  /\ UNCHANGED <<version, present, faults, wants, served>>

Answer(r) ==
  /\ state[r] = "found"
  /\ \E v \in fi[r]..version[wants[r]] : served' = [served EXCEPT ![r] = v]
  /\ state' = [state EXCEPT ![r] = "done"]
  /\ UNCHANGED <<version, present, faults, wants, fi>>

NotRead(r) ==
  /\ state[r] \in {"new", "found"}
  /\ \/ ~present[wants[r]] /\ UNCHANGED faults
     \/ faults < MaxFaults /\ faults' = faults + 1
  /\ state' = [state EXCEPT ![r] = "done"]
  /\ UNCHANGED <<version, present, wants, fi, served>>

Write(f) ==
  /\ version[f] < MaxVersion
  /\ version' = [version EXCEPT ![f] = @ + 1]
  /\ present' = [present EXCEPT ![f] = TRUE]
  /\ UNCHANGED <<faults, wants, state, fi, served>>

Remove(f) ==
  /\ present[f]
  /\ present' = [present EXCEPT ![f] = FALSE]
  /\ UNCHANGED <<version, faults, wants, state, fi, served>>

Next ==
  \/ \E r \in Requests : Find(r) \/ Answer(r) \/ NotRead(r)
  \/ \E f \in Files : Write(f) \/ Remove(f)

Spec == Init /\ [][Next]_vars
=============================================================================
