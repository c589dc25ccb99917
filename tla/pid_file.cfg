SPECIFICATION PidFileSpec
CONSTANTS
  s1 = s1
  s2 = s2
  s3 = s3
  s4 = s4
  p1 = p1
  p2 = p2
  p3 = p3
  p4 = p4
  Absent = Absent
  Empty = Empty
  Scripts <- Scripts4
  Pids <- Pids4
  MaxActive = 1
SYMMETRY Symmetric
INVARIANTS
  PidFileTypeOK
  Registered
  OneProxy
CHECK_DEADLOCK FALSE
