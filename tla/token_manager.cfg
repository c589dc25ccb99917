SPECIFICATION Spec
CONSTANTS
  t1 = t1
  t2 = t2
  t3 = t3
  k1 = k1
  k2 = k2
  None = None
  NaN = NaN
  Inf = Inf
  Threads <- Threads3
  Tokens <- Tokens2
  Expiries <- Lifetimes
  Forced = {TRUE, FALSE}
  Fallback = 3
  Margin = 2
  MinInterval = 2
  Retry = 2
  MaxTime = 4
  MaxFailures = 2
SYMMETRY Symmetric
INVARIANTS
  TypeOK
  LockDiscipline
  RecoveryReplacesOnlyRejected
  ScheduledRefreshSpacing
  BackoffHonoured
  ErrorFlagsAgree
PROPERTIES
  ImplementsContract
CHECK_DEADLOCK FALSE
