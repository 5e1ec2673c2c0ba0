------------------------------ MODULE AuthRoles ------------------------------
(***************************************************************************)
(* auth-service: roles, their permissions, who has which role, and the      *)
(* accounts at an OAuth provider.                                           *)
(*                                                                          *)
(* A token carries the role and the permissions of the moment it was made,  *)
(* and nothing takes them back before it expires. Every handler looks rows  *)
(* up in one transaction and writes in another one.                         *)
(***************************************************************************)
EXTENDS Integers, FiniteSets

CONSTANTS
  User, Account,            \* accounts at one OAuth provider
  Role, Anonymous,          \* the role code that revoke_role sets
  Permission,
  MayCrud, MayAssign,       \* Permissions.CRUD_ROLE, ASSIGN_ROLE
  Request,                  \* requests at a time
  None,
  AccessLife,               \* access_token_lifetime_sec
  MaxTime,                  \* bound on the clock
  MaxTokens,                \* bound on the tokens that are valid at a time
  MaxChanges                \* bound on the changes of roles that are asked for

VARIABLES
  now, changes,
  roles,     \* the table dict_roles
  grants,    \* the table roles_permissions
  role,      \* user.role_code
  links,     \* the table social_account
  tokens,    \* access tokens that have not expired
  req,
  held,      \* when a user had a role last
  granted    \* when a role had a permission last

tables == <<roles, grants, role, links>>
vars   == <<now, changes, tables, tokens, req, held, granted>>

Token == [user : User, role : Role, perms : SUBSET Permission, exp : Nat]
Idle  == [op |-> "idle", user |-> None, arg |-> None, was |-> None, perms |-> {}, at |-> 0]

InitialGrants == [c \in Role |-> IF c = Anonymous THEN Permission \ {MayCrud, MayAssign}
                                 ELSE Permission]

Init ==
  /\ now     = 1 /\ changes = 0
  /\ roles   = Role
  /\ grants  = InitialGrants
  /\ role    \in [User -> Role]
  /\ links   = {}
  /\ tokens  = {}
  /\ req     = [r \in Request |-> Idle]
  /\ held    = [u \in User |-> [c \in Role |-> IF c = role[u] THEN 1 ELSE 0]]
  /\ granted = [c \in Role |-> [p \in Permission |-> IF p \in grants[c] THEN 1 ELSE 0]]

Begin(r, op, u, arg) ==
  /\ req[r] = Idle
  /\ req' = [req EXCEPT ![r] = [Idle EXCEPT !.op = op, !.user = u, !.arg = arg, !.at = now,
                                            !.was = IF op = "assign" THEN role[u] ELSE None]]
  /\ UNCHANGED <<now, tables, tokens, held, granted>>

Counted == changes < MaxChanges /\ changes' = changes + 1

Finish(r) == req' = [req EXCEPT ![r] = Idle]

-----------------------------------------------------------------------------
(* Tokens: login and refresh read the user, then the permissions.           *)

BeginToken(r, u) == Begin(r, "token", u, role[u]) /\ UNCHANGED changes

MakeToken(r) ==
  /\ req[r].op = "token" /\ Cardinality(tokens) < MaxTokens
  /\ tokens' = tokens \cup {[user |-> req[r].user, role |-> req[r].arg,
                             perms |-> grants[req[r].arg], exp |-> now + AccessLife]}
  /\ Finish(r)
  /\ UNCHANGED <<now, changes, tables, held, granted>>

\* compare_permissions of an access token that has not expired.
Allowed(p) == \E t \in tokens : p \in t.perms

-----------------------------------------------------------------------------
(* Roles.                                                                   *)

Grant(R, g) ==
  /\ roles' = R /\ grants' = g
  /\ granted' = [c \in Role |-> [p \in Permission |->
                   IF p \in g[c] THEN now ELSE granted[c][p]]]
  /\ UNCHANGED <<now, role, links, tokens, held>>

\* A request names one permission or more.
Asked == (SUBSET Permission) \ {{}}

CreateRole(c, P) ==
  /\ Allowed(MayCrud) /\ c \notin roles /\ Counted
  /\ Grant(roles \cup {c}, [grants EXCEPT ![c] = P])
  /\ UNCHANGED req

\* update_role reads the role with its permissions, and saves the difference to what
\* was asked for in a later transaction.
BeginUpdate(r, c, P) ==
  /\ Allowed(MayCrud) /\ c \in roles /\ req[r] = Idle /\ Counted
  /\ req' = [req EXCEPT ![r] = [Idle EXCEPT !.op = "update", !.arg = c, !.perms = P,
                                            !.at = now, !.was = grants[c]]]
  /\ UNCHANGED <<now, tables, tokens, held, granted>>

\* The rows that stay are written again, and must be there; the new ones must not.
Fits(r) == LET q == req[r] IN
  /\ q.arg \in roles
  /\ q.perms \cap q.was \subseteq grants[q.arg]
  /\ (q.perms \ q.was) \cap grants[q.arg] = {}

UpdateRole(r) ==
  /\ req[r].op = "update" /\ Fits(r) /\ UNCHANGED changes
  /\ LET q == req[r] IN Grant(roles, [grants EXCEPT ![q.arg] = (@ \ q.was) \cup q.perms])
  /\ Finish(r)

\* A refused attempt is repeated from the look-up on, which may find no role.
UpdateAgain(r) ==
  /\ req[r].op = "update" /\ ~Fits(r)
  /\ LET c == req[r].arg
     IN  req' = [req EXCEPT ![r] = IF c \in roles THEN [@ EXCEPT !.was = grants[c]] ELSE Idle]
  /\ UNCHANGED <<now, changes, tables, tokens, held, granted>>

InUse(c) == \E u \in User : role[u] = c

\* Mutation: roles that users have are deleted.
DestroyRole_any(c) ==
  /\ Allowed(MayCrud) /\ Counted
  /\ Grant(roles \ {c}, [grants EXCEPT ![c] = {}])
  /\ UNCHANGED req

\* The foreign key of user refuses for a role that a user has; the permissions of
\* the role go with it.
DestroyRole(c) ==
  /\ Allowed(MayCrud) /\ ~InUse(c) /\ Counted
  /\ Grant(roles \ {c}, [grants EXCEPT ![c] = {}])
  /\ UNCHANGED req

\* assign_role finds the role, and sets it in a later transaction.
BeginAssign(r, u, c) ==
  /\ Allowed(MayAssign) /\ c \in roles /\ Counted
  /\ Begin(r, "assign", u, c)

RevokeRole(r, u) == BeginAssign(r, u, Anonymous)

\* A role that the user had at the look-up is not written.
SetRole(r) ==
  /\ req[r].op = "assign"
  /\ role' = IF req[r].arg \in roles \ {req[r].was}
            THEN [role EXCEPT ![req[r].user] = req[r].arg] ELSE role
  /\ held' = [u \in User |-> [held[u] EXCEPT ![role'[u]] = now]]
  /\ Finish(r)
  /\ UNCHANGED <<now, changes, roles, grants, links, tokens, granted>>

-----------------------------------------------------------------------------
(* Accounts at the provider. A login with one that is not linked ends in an *)
(* error: the call of create_user_in_repository lacks two arguments.        *)

LinkedTo(a) == {u \in User : <<a, u>> \in links}

OAuthLogin(r, a) == \E u \in LinkedTo(a) : BeginToken(r, u)

\* connect_provider looks the account up, and adds it in a later transaction.
BeginConnect(r, u, a) ==
  /\ LinkedTo(a) = {}
  /\ Begin(r, "connect", u, a)
  /\ UNCHANGED changes

\* social_idx and user_social_idx.
MayLink(a, u) == LinkedTo(a) = {} /\ \A b \in Account : <<b, u>> \notin links

AddLink(r) ==
  /\ req[r].op = "connect"
  /\ links' = links \cup {x \in {<<req[r].arg, req[r].user>>} : MayLink(x[1], x[2])}
  /\ Finish(r)
  /\ UNCHANGED <<now, changes, roles, grants, role, tokens, held, granted>>

Disconnect(u, a) ==
  /\ <<a, u>> \in links
  /\ links' = links \ {<<a, u>>}
  /\ UNCHANGED <<now, changes, roles, grants, role, tokens, req, held, granted>>

-----------------------------------------------------------------------------
\* Mutation: expired tokens are still taken.
Expired_never(t) == FALSE

Expired(t) == t.exp <= now'

\* The unit is short against the life of a token; a request takes less than it.
Tick ==
  /\ now < MaxTime
  /\ \A r \in Request : req[r] = Idle \/ req[r].at = now
  /\ now' = now + 1
  /\ tokens' = {t \in tokens : ~Expired(t)}
  /\ held' = [u \in User |-> [held[u] EXCEPT ![role[u]] = now']]
  /\ granted' = [c \in Role |-> [p \in Permission |->
                   IF p \in grants[c] THEN now' ELSE granted[c][p]]]
  /\ UNCHANGED <<changes, tables, req>>

Next ==
  \/ \E r \in Request :
       \/ MakeToken(r) \/ SetRole(r) \/ UpdateRole(r) \/ UpdateAgain(r) \/ AddLink(r)
       \/ \E c \in Role, P \in Asked : BeginUpdate(r, c, P)
       \/ \E u \in User : BeginToken(r, u) \/ RevokeRole(r, u)
       \/ \E u \in User, c \in Role : BeginAssign(r, u, c)
       \/ \E u \in User, a \in Account : OAuthLogin(r, a) \/ BeginConnect(r, u, a)
  \/ \E c \in Role, P \in Asked : CreateRole(c, P)
  \/ \E c \in Role : DestroyRole(c)
  \/ \E u \in User, a \in Account : Disconnect(u, a)
  \/ Tick

Spec == Init /\ [][Next]_vars

-----------------------------------------------------------------------------
(* Properties.                                                              *)

TypeOK ==
  /\ now \in 1 .. MaxTime /\ changes \in 0 .. MaxChanges /\ roles \subseteq Role
  /\ grants \in [Role -> SUBSET Permission]
  /\ role \in [User -> Role]
  /\ links \subseteq Account \X User
  /\ tokens \subseteq Token
  /\ req \in [Request -> [op : {"idle", "token", "assign", "update", "connect"},
                          user : User \cup {None}, arg : Role \cup Account \cup {None},
                          was : Role \cup (SUBSET Permission) \cup {None},
                          perms : SUBSET Permission, at : Nat]]
  /\ held \in [User -> [Role -> 0 .. MaxTime]]
  /\ granted \in [Role -> [Permission -> 0 .. MaxTime]]

\* What was taken from a user, by another role or by an update of the role, is good
\* for the life of an access token and a unit of a request under way, no longer.
GrantsAgeOut ==
  \A t \in tokens :
    /\ now <= held[t.user][t.role] + AccessLife
    /\ \A p \in t.perms : now <= granted[t.role][p] + AccessLife

\* Racing assignments, deletions and connections leave every user a role that
\* exists, and every account at the provider one user, who has no other.
RowsAgree ==
  /\ \A u \in User : role[u] \in roles
  /\ \A c \in Role \ roles : grants[c] = {}
  /\ \A x, y \in links : x[1] = y[1] \/ x[2] = y[2] => x = y

=============================================================================
