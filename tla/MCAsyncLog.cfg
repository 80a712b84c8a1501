CONSTANTS
  w1 = w1
  w2 = w2
  Writers <- MCWriters
  Flushers = {w2}
  Main = main
  Logger = logger
  c1 = c1
  f1 = f1
  Adapters <- MCAdapters
  Default = c1
  NameOf <- MCNameOf
  MsgChanLen = 1
  MaxMsgs <- MCMaxMsgs
  Quiet = TRUE
  Nil = nil
SPECIFICATION Spec
CHECK_DEADLOCK FALSE
INVARIANTS
  TypeOK
  NoPanic
  FlushProtocol
PROPERTIES
  LogsInOrder
  QueuedIsWritten
  FlushReturns
