------------------------------- MODULE MCAuth -------------------------------
(* Instances of AuthSessions, AuthRoles and AuthAccounts for TLC. The first   *)
(* two share the clock; a behaviour follows one of them while the others rest. *)
EXTENDS AuthSessions, TLC

CONSTANTS
  Member, FirstAdmins,   \* the users of AuthRoles, and those of them with the role Admin
  Account, Role, Anonymous, Admin, Permission, MayCrud, MayAssign, MaxTokens, MaxChanges,
  Client, RoleCode, Right, Handler, AnswerLife, MaxAccTime, MaxAsks, MaxSets, MaxAccFaults

ASSUME RoleConstants ==
  /\ AccessLife \in Nat \ {0} /\ MaxTime \in Nat \ {0}
  /\ Anonymous \in Role /\ Admin \in Role /\ MaxTokens \in Nat /\ MaxChanges \in Nat

ASSUME AccConstants ==
  /\ Client \cap RoleCode = {} /\ "role:all" \notin Client \cup RoleCode
  /\ None \notin Nat /\ None \notin Handler
  /\ AnswerLife \in Nat \ {0}

VARIABLES focus, changes, roles, grants, role, links, roleTokens, roleReq, held, granted,
  accNow, asks, accFaults, exists, row, handler, told, unsaved, shown, sets, meant, past

ofSessions == <<users, rows, hist, owner, tokens, left, revocation, req, faults>>
ofRoles    == <<changes, roles, grants, role, links, roleTokens, roleReq, held, granted>>
ofAccounts == <<accNow, asks, accFaults, exists, row, handler, told, unsaved, shown, sets,
                meant, past>>

Roles == INSTANCE AuthRoles WITH
  User   <- Member,
  tokens <- roleTokens,
  req    <- roleReq

Accounts == INSTANCE AuthAccounts

\* Profiles and roles are looked at apart from each other.
Only(K) ==
  /\ \A h \in Handler : handler'[h].on \in K \cup {None}
  /\ \A k \in Accounts!Key \ K : sets'[k] = {}

\* Roles and accounts have no state in a behaviour that does not follow them.
MCInit ==
  /\ Init
  /\ focus \in {"sessions", "roles", "profiles", "codes"}
  /\ IF focus = "roles"
     THEN Roles!Init /\ role = [u \in Member |-> IF u \in FirstAdmins THEN Admin ELSE Anonymous]
     ELSE /\ changes = None /\ roles = None /\ grants = None /\ role = None /\ links = None
          /\ roleTokens = None /\ roleReq = None /\ held = None /\ granted = None
  /\ IF focus \in {"profiles", "codes"}
     THEN Accounts!Init /\ \A c \in RoleCode : row[c] = Accounts!NoRole
     ELSE /\ accNow = None /\ asks = None /\ accFaults = None /\ exists = None /\ row = None
          /\ handler = None /\ told = None /\ unsaved = None /\ shown = None /\ sets = None
          /\ meant = None /\ past = None

MCNext ==
  \/ focus = "sessions" /\ Next /\ UNCHANGED <<focus, ofRoles, ofAccounts>>
  \/ focus = "roles" /\ Roles!Next /\ UNCHANGED <<focus, ofSessions, ofAccounts>>
  \/ /\ focus \in {"profiles", "codes"} /\ Accounts!Next
     /\ Only(IF focus = "profiles" THEN Client ELSE RoleCode \cup {"role:all"})
     /\ UNCHANGED <<focus, vars, ofRoles>>

mcVars == <<focus, vars, ofRoles, ofAccounts>>

MCSpec == MCInit /\ [][MCNext]_mcVars

\* The variables of both modules have their types.
TypesOK == TypeOK /\ (focus = "roles" => Roles!TypeOK)

\* What was taken from a user is good for the life of an access token, no longer.
GrantsAgeOut == focus = "roles" => Roles!GrantsAgeOut

\* Racing changes leave users roles that exist, and accounts one user.
RowsAgree == focus = "roles" => Roles!RowsAgree

\* Columns, confirmations and answers are what was asked for, said and true.
AccountsAgree == focus \in {"profiles", "codes"} => Accounts!AccountsAgree

\* The properties are invariants that name no session, request or user.
Symmetry == Permutations(Session) \cup Permutations(Request)
=============================================================================
