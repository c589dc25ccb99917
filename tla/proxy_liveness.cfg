SPECIFICATION FairSpec
CONSTANTS
  r1 = r1
  r2 = r2
  k1 = k1
  k2 = k2
  k3 = k3
  None = None
  NaN = NaN
  Inf = Inf
  Loop = loop
  Requests <- Requests1
  Tokens <- Tokens2
  Expiries = {3, 9}
  Fallback = 3
  Margin = 1
  MinInterval = 1
  Retry = 1
  Validation = TRUE
  SingleSession = TRUE
  Reissue = FALSE
  TimeoutMax = 3
  MaxTime = 2
PROPERTIES
  EveryRequestAnswered
  StopEndsLoop
CHECK_DEADLOCK FALSE
