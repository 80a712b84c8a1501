CONSTANTS
  MaxProcs = 2
  Conns = {c1}
  MaxSignals = 2
  TLS = FALSE
SPECIFICATION Spec
CHECK_DEADLOCK FALSE
INVARIANTS
  TypeOK
  AlwaysListening
  ParentIsTold
PROPERTIES
  CutOnlyByTimeout
  HandoverCompletes
  StopCompletes
