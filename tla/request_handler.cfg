SPECIFICATION Spec
CONSTANTS
  AllowedMethods = {"GET", "POST", "HEAD"}
  RoutePrefix <- SomePrefix
  AllowedPaths <- SomeAllowed
  AuthPath <- SomeAuthPath
  Segments <- SomeSegments
  Decoded <- SomeDecoded
  Targets <- SomeTargets
  KeyRequired = TRUE
  Lengths <- SomeLengths
  Junk = Junk
  MaxRequest = 2
  MaxResponse = 2
  Nothing = Nothing
INVARIANTS
  TypeOK
  OneReply
  RefusalsStayLocal
  UpstreamSeesOnlyPermitted
  ListedIsServed
CHECK_DEADLOCK FALSE
