SPECIFICATION MCSpec
CONSTANTS
  None = None
  User = {ann}
  Session = {s1, s2}
  Request = {r1, r2}
  AccessLife = 1
  RefreshLife = 2
  MaxTime = 3
  MaxTasks = 2
  MaxFaults = 1
  Member = {carl, dora}
  FirstAdmins = {carl}
  Account = {yandex}
  Role = {anonymous, admin}
  Anonymous = anonymous
  Admin = admin
  Permission = {manage, watch}
  MayCrud = manage
  MayAssign = manage
  MaxTokens = 1
  MaxChanges = 3
  Client = {ann}
  RoleCode = {anonymous}
  Right = {"FREE_FILMS", "PAID_FILMS"}
  Handler = {h1, h2}
  AnswerLife = 1
  MaxAccTime = 3
  MaxAsks = 2
  MaxSets = 2
  MaxAccFaults = 1
SYMMETRY Symmetry
CHECK_DEADLOCK FALSE
INVARIANTS
  TypesOK
  RevokedIsRefused
  NoTokenAfterLogout
  OneUserPerName
  GrantsAgeOut
  RowsAgree
  AccountsAgree
