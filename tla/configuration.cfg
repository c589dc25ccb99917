SPECIFICATION Spec
CONSTANTS
  Inputs <- SomeInputs
  Names <- Variables
  Rounds = 3
  Urls = {"https://api", "https://auth"}
  Placeholders = {"CHANGE_ME"}
  Pointers = {"/token", "/expires"}
  Loopback = {"127.0.0.1"}
  NaN = NaN
  Inf = Inf
  Refused = Refused
INVARIANTS
  TypeOK
  SubstitutionIsExpansion
  SettingsHaveTheirSource
  ServedIsSafe
CHECK_DEADLOCK FALSE
