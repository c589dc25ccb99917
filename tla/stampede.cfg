SPECIFICATION Spec
CONSTANTS
  r1 = r1
  r2 = r2
  k1 = k1
  k2 = k2
  k3 = k3
  None = None
  NaN = NaN
  Inf = Inf
  Loop = loop
  Requests <- Requests2
  Tokens <- Tokens2
  Expiries = {3}
  Fallback = 3
  Margin = 1
  MinInterval = 1
  Retry = 2
  Validation = FALSE
  SingleSession = TRUE
  Reissue = TRUE
  TimeoutMax = 9
  MaxTime = 3
INVARIANTS
  NoStampede
CHECK_DEADLOCK FALSE
