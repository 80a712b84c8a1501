CONSTANTS
  Requests = {r1, r2}
  Files <- MCFiles
  Blocks = {"head", "foot"}
  Dir <- MCDir
  Pages <- MCPages
  MaxVersion <- MCMax
  Removable = {"part"}
  Text <- MCText
  None = None
SPECIFICATION Spec
CHECK_DEADLOCK FALSE
INVARIANTS
  TypeOK
  RenderedFresh
PROPERTIES
  RendersEnd
