SPECIFICATION FairSpec
CONSTANTS
  MaxSignals = 3
  MaxRequests = 2
  Poll = 1
  JoinTimeout = 5
  Grace = 15
INVARIANTS
  TypeOK
  StopNotLost
  OnlyEarlySignalsStick
  StopsWithinGrace
PROPERTIES
  StopTerminates
CHECK_DEADLOCK FALSE
