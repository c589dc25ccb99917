SPECIFICATION Spec
CONSTANTS
  Setups <- SomeSetups
  MaxResponse = 3
  None = None
  NaN = NaN
  Inf = Inf
  Huge = Huge
INVARIANTS
  TypeOK
  LookupFollowsRfc6901
  TokenIsWhole
  ValidatedTokensWork
  OtherFailuresAreCaused
CHECK_DEADLOCK FALSE
