SPECIFICATION Spec
CONSTANTS
  n1 = n1
  n2 = n2
  p1 = p1
  p2 = p2
  Notification = {n1, n2}
  Process = {p1, p2}
  Request <- AllRequests
  Profile <- AllProfiles
  NoRequest = NoRequest
  NoProfile = NoProfile
  NoZone = NoZone
  BatchLimit = 2
  Hour <- MCHour
  MaxFaults = 2
SYMMETRY Symmetry
CHECK_DEADLOCK FALSE
INVARIANTS
  TypeOK
  ExclusiveClaim
  PublishedAtMostOnce
  ConsentRespected
  DeferredUntilOpening
  StatusMatchesQueue
  IndInv
PROPERTY LifecycleHolds
