SPECIFICATION Spec
CONSTANTS
  n1 = n1
  n2 = n2
  p1 = p1
  p2 = p2
  Notification = {n1, n2}
  Process = {p1}
  Request <- Likes
  Profile <- AllProfiles
  NoRequest = NoRequest
  NoProfile = NoProfile
  NoZone = NoZone
  BatchLimit = 2
  Hour <- MCHour
  MaxFaults = 0
CHECK_DEADLOCK FALSE
PROPERTY EventuallyProcessed
