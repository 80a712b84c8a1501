----------------------------- MODULE MCDispatch -----------------------------
(* A small instance of Dispatch; requests, contexts and controllers are    *)
(* each interchangeable and no liveness is checked, so all are symmetric.  *)
EXTENDS Dispatch, TLC

Symmetry ==
  Permutations(Requests) \cup Permutations(Ctxs) \cup Permutations(Controllers)
=============================================================================
