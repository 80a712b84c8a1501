CONSTANTS
  Requests = {r1, r2}
  Ctxs = {x1, x2}
  Controllers = {k1}
  None = none
SPECIFICATION Spec
CHECK_DEADLOCK FALSE
SYMMETRY Symmetry
PROPERTIES
  NoActionAfterResponse
