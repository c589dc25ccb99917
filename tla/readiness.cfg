SPECIFICATION Spec
CONSTANTS
  NaN = NaN
  Inf = Inf
  Unit = 2
  Stale = 3
  Delays = {1, 4, NaN, Inf}
  Back = 3
  Forth = 4
  MaxJumps = 1
  MaxTime = 7
  MaxFailures = 2
  None = None
INVARIANTS
  TypeOK
  ReportIsCoherent
  ReadinessIsTruthful
CHECK_DEADLOCK FALSE
