CONSTANTS
  Clients = {a, b}
  Inputs <- MCInputs
  EnableXSRF = TRUE
  MaxTokens = 2
  MaxMsgs = 2
  MaxOps = 2
  Half = 2
  WideHalf = 4
  InitMethods = {}
  InitLevel = 1
SYMMETRY MCSymmetry
SPECIFICATION Spec
CHECK_DEADLOCK FALSE
INVARIANTS
  TypeOK
  FlashRight
  ResponseSound
  PostHasOwnToken
  BoundRight
