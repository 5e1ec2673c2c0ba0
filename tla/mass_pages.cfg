SPECIFICATION Spec
CONSTANTS
  m1 = m1
  m2 = m2
  u1 = u1
  u2 = u2
  u3 = u3
  u4 = u4
  Mailing = {m1, m2}
  User = {u1, u2, u3, u4}
  Roster <- TwoPages
  PageSize = 2
  BatchLimit = 1
  Hour <- MCHour
  NoPage = NoPage
  MaxFaults = 0
  MaxMoves = 0
CHECK_DEADLOCK FALSE
PROPERTY MailingSent
