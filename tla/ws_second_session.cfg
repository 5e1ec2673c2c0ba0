SPECIFICATION Spec
CONSTANTS
  e1 = e1
  e2 = e2
  s1 = s1
  s2 = s2
  ann = ann
  bob = bob
  Event = {e1}
  User = {ann}
  Session = {s1, s2}
  Owner <- ForAnn
  None = None
  MaxFaults = 0
CHECK_DEADLOCK FALSE
INVARIANT ActiveSessionIsKnown
