SPECIFICATION Spec
CONSTANTS
  Clients = {c1}
  Requests = {r1, r2}
  Controllers = {k1}
  Items = {i1}
  Life = 0
  FixedKeys = FALSE
  EnableSetCookie = TRUE
  Excused = {"race", "late", "unsaved", "regenerated", "lost", "restart", "kept"}
  MaxTime = 1
  MaxKeys = 2
  None = None
  Gone = Gone
SYMMETRY Symmetry
CHECK_DEADLOCK FALSE
INVARIANTS
  PanicsOnlyAfterEnd
PROPERTIES
  Carried
  Expires
