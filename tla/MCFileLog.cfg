CONSTANTS
  Msgs = {m1, m2}
  Confs <- MCConfs
  DayLen = 1
  MaxFiles = 1
  Sweeps = {1}
  MaxNow = 2
  MaxFaults = 1
  MaxRestarts = 1
SPECIFICATION Spec
CHECK_DEADLOCK FALSE
INVARIANTS
  TypeOK
  LinesKept
  WritesToCurrent
  CountersExact
PROPERTIES
  DeletesOnlyOld
  RotationHappens
