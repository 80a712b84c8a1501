CONSTANTS
  Requests = {r1, r2, r3}
  Ctxs = {x1, x2}
  Controllers = {k1, k2}
  None = none
SPECIFICATION Spec
CHECK_DEADLOCK FALSE
SYMMETRY Symmetry
INVARIANTS
  SessionIsOwn
