----------------------------- MODULE Auth_proofs -----------------------------
(***************************************************************************)
(* What a role is good for and whose it is, and what the columns of a user, *)
(* the permissions of a role and the answers about them hold: for any       *)
(* users, roles, requests at a time and failures, and any lives of tokens   *)
(* and answers.                                                             *)
(***************************************************************************)
EXTENDS MCAuth, AuthSessions_proofs
-----------------------------------------------------------------------------
(* Roles and what they are good for.                                        *)

RoleReq == [op : {"idle", "token", "assign", "update", "connect"},
            user : Member \cup {None}, arg : Role \cup Account \cup {None},
            was : Role \cup (SUBSET Permission) \cup {None},
            perms : SUBSET Permission, at : Nat]

\* A request has the role that its user had when it began, less than a unit ago.
RoleReqInv ==
  \A r \in Request :
    LET q == roleReq[r]
    IN  /\ q.op # "idle" => q.at <= now /\ now <= q.at + 1
        /\ q.op = "token" => q.user \in Member /\ q.arg \in Role /\ q.at <= held[q.user][q.arg]
        /\ q.op = "assign" => q.user \in Member /\ q.arg \in Role
        /\ q.op = "update" => q.arg \in Role /\ q.was \in SUBSET Permission
        /\ q.op = "connect" => q.user \in Member /\ q.arg \in Account

\* What is had now is had until now.
NowInv ==
  /\ \A u \in Member : held[u][role[u]] = now /\ \A c \in Role : held[u][c] <= now
  /\ \A c \in Role, p \in Permission :
       granted[c][p] <= now /\ (p \in grants[c] => granted[c][p] = now)

\* A token ends a life after its role, and its permissions, were had last: a unit more for
\* the role, which was read when the request began.
RoleTokenInv ==
  \A t \in roleTokens :
    /\ t.exp > now /\ t.exp <= held[t.user][t.role] + AccessLife + 1
    /\ \A p \in t.perms : t.exp <= granted[t.role][p] + AccessLife

RoleInv == Roles!TypeOK /\ RoleReqInv /\ NowInv /\ RoleTokenInv /\ Roles!RowsAgree

rVars == <<now, ofRoles>>

LEMMA IdleRequest == Roles!Idle \in RoleReq /\ Roles!Idle.op = "idle"
BY DEF Roles!Idle, RoleReq

LEMMA RoleReqBecomes ==
  ASSUME roleReq \in [Request -> RoleReq], NEW r \in Request, NEW v \in RoleReq,
         roleReq' = [roleReq EXCEPT ![r] = v]
  PROVE  /\ roleReq' \in [Request -> RoleReq] /\ roleReq'[r] = v
         /\ \A q \in Request \ {r} : roleReq'[q] = roleReq[q]
OBVIOUS

\* The time of the last grant of every permission, after a step that grants g.
LEMMA GrantEffect ==
  ASSUME RoleConstants, Roles!TypeOK, NowInv, NEW R \in SUBSET Role,
         NEW g \in [Role -> SUBSET Permission], Roles!Grant(R, g)
  PROVE  /\ roles' = R /\ grants' = g /\ UNCHANGED <<now, role, links, roleTokens, held>>
         /\ granted' \in [Role -> [Permission -> 0 .. MaxTime]]
         /\ \A c \in Role, p \in Permission :
              /\ granted[c][p] <= granted'[c][p] /\ granted'[c][p] <= now
              /\ p \in g[c] => granted'[c][p] = now
<1>1. /\ roles' = R /\ grants' = g /\ UNCHANGED <<now, role, links, roleTokens, held>>
      /\ granted' = [c \in Role |-> [p \in Permission |->
                      IF p \in g[c] THEN now ELSE granted[c][p]]]
  BY DEF Roles!Grant
<1>2. now \in 0 .. MaxTime /\ \A c \in Role, p \in Permission : granted[c][p] \in 0 .. MaxTime
  BY DEF Roles!TypeOK
<1>3. granted' \in [Role -> [Permission -> 0 .. MaxTime]]
  BY <1>1, <1>2
<1>4. \A c \in Role, p \in Permission :
        granted'[c][p] = IF p \in g[c] THEN now ELSE granted[c][p]
  BY <1>1
<1> QED BY <1>1, <1>2, <1>3, <1>4 DEF NowInv

\* Every step that grants keeps what is said of the tables and the tokens.
LEMMA GrantStep ==
  ASSUME RoleConstants, Roles!TypeOK, NowInv, RoleTokenInv, Roles!RowsAgree,
         NEW R \in SUBSET Role, NEW g \in [Role -> SUBSET Permission], Roles!Grant(R, g),
         \A u \in Member : role[u] \in R, \A c \in Role \ R : g[c] = {}
  PROVE  NowInv' /\ RoleTokenInv' /\ Roles!RowsAgree'
<1>0. /\ roles' = R /\ grants' = g /\ UNCHANGED <<now, role, links, roleTokens, held>>
      /\ granted' \in [Role -> [Permission -> 0 .. MaxTime]]
      /\ \A c \in Role, p \in Permission :
           /\ granted[c][p] <= granted'[c][p] /\ granted'[c][p] <= now
           /\ p \in g[c] => granted'[c][p] = now
  BY GrantEffect
<1>1. NowInv'
  BY <1>0 DEF NowInv
<1>2. RoleTokenInv'
  <2> SUFFICES ASSUME NEW t \in roleTokens
               PROVE  /\ t.exp > now /\ t.exp <= held[t.user][t.role] + AccessLife + 1
                      /\ \A p \in t.perms : t.exp <= granted'[t.role][p] + AccessLife
    BY <1>0 DEF RoleTokenInv
  <2>1. t.role \in Role /\ t.perms \subseteq Permission /\ t.exp \in Nat
    BY DEF Roles!TypeOK, Roles!Token
  <2>2. ASSUME NEW p \in t.perms PROVE t.exp <= granted'[t.role][p] + AccessLife
    <3>1. granted[t.role][p] <= granted'[t.role][p]
      BY <1>0, <2>1
    <3>2. granted[t.role][p] \in Nat /\ granted'[t.role][p] \in Nat
      BY <1>0, <2>1 DEF Roles!TypeOK
    <3> QED BY <2>1, <3>1, <3>2 DEF RoleTokenInv, RoleConstants
  <2> QED BY <2>2 DEF RoleTokenInv
<1>3. Roles!RowsAgree'
  BY <1>0 DEF Roles!RowsAgree
<1> QED BY <1>1, <1>2, <1>3

\* What a step that writes no table and no token has to show.
LEMMA OnlyRequests ==
  ASSUME RoleConstants, RoleInv, UNCHANGED <<now, roles, grants, role, links, roleTokens, held, granted>>,
         changes' \in 0 .. MaxChanges, roleReq' \in [Request -> RoleReq], RoleReqInv'
  PROVE  RoleInv'
<1>1. Roles!TypeOK'
  BY DEF RoleInv, Roles!TypeOK, RoleReq
<1>2. NowInv' /\ RoleTokenInv' /\ Roles!RowsAgree'
  BY DEF RoleInv, NowInv, RoleTokenInv, Roles!RowsAgree
<1> QED BY <1>1, <1>2 DEF RoleInv

LEMMA RoleReqType ==
  ASSUME Roles!TypeOK
  PROVE  roleReq \in [Request -> RoleReq]
BY DEF Roles!TypeOK, RoleReq

LEMMA CountedType ==
  ASSUME RoleConstants, Roles!TypeOK, Roles!Counted \/ UNCHANGED changes
  PROVE  changes' \in 0 .. MaxChanges
BY DEF RoleConstants, Roles!TypeOK, Roles!Counted

\* A request that begins.
LEMMA RoleBegin ==
  ASSUME RoleConstants, RoleInv, NEW r \in Request, NEW u \in Member, NEW op, NEW arg,
         Roles!Begin(r, op, u, arg), Roles!Counted \/ UNCHANGED changes,
         \/ op = "token" /\ arg = role[u]
         \/ op = "assign" /\ arg \in Role
         \/ op = "connect" /\ arg \in Account
  PROVE  RoleInv'
<1> DEFINE v == [Roles!Idle EXCEPT !.op = op, !.user = u, !.arg = arg, !.at = now,
                                   !.was = IF op = "assign" THEN role[u] ELSE None]
<1>0. role[u] \in Role /\ now \in Nat /\ held[u][role[u]] = now
  BY DEF RoleInv, Roles!TypeOK, NowInv
<1>1. v \in RoleReq /\ v.op = op /\ v.user = u /\ v.arg = arg /\ v.at = now
  BY <1>0 DEF Roles!Idle, RoleReq
<1>2. roleReq' = [roleReq EXCEPT ![r] = v]
      /\ UNCHANGED <<now, roles, grants, role, links, roleTokens, held, granted>>
  BY DEF Roles!Begin, Roles!tables
<1> HIDE DEF v
<1>3. roleReq' \in [Request -> RoleReq] /\ roleReq'[r] = v
      /\ \A q \in Request \ {r} : roleReq'[q] = roleReq[q]
  BY <1>1, <1>2, RoleReqBecomes, RoleReqType DEF RoleInv
<1>4. RoleReqInv'
  <2>1. \A q \in Request \ {r} : roleReq'[q] = roleReq[q]
    BY <1>3
  <2> QED BY <1>0, <1>1, <1>2, <1>3, <2>1 DEF RoleInv, RoleReqInv
<1> QED BY <1>2, <1>3, <1>4, OnlyRequests, CountedType DEF RoleInv

\* A request that ends.
LEMMA RoleFinish ==
  ASSUME RoleConstants, RoleInv, NEW r \in Request, Roles!Finish(r), UNCHANGED now,
         \A u \in Member, c \in Role : held[u][c] <= held'[u][c],
         held' \in [Member -> [Role -> 0 .. MaxTime]]
  PROVE  roleReq' \in [Request -> RoleReq] /\ RoleReqInv'
<1>1. roleReq' = [roleReq EXCEPT ![r] = Roles!Idle]
  BY DEF Roles!Finish
<1>2. roleReq' \in [Request -> RoleReq] /\ roleReq'[r] = Roles!Idle
      /\ \A q \in Request \ {r} : roleReq'[q] = roleReq[q]
  BY <1>1, IdleRequest, RoleReqBecomes, RoleReqType DEF RoleInv
<1>3. RoleReqInv'
  <2> SUFFICES ASSUME NEW q \in Request
               PROVE  LET x == roleReq'[q]
                      IN  /\ x.op # "idle" => x.at <= now /\ now <= x.at + 1
                          /\ x.op = "token" => /\ x.user \in Member /\ x.arg \in Role
                                               /\ x.at <= held'[x.user][x.arg]
                          /\ x.op = "assign" => x.user \in Member /\ x.arg \in Role
                          /\ x.op = "update" => x.arg \in Role /\ x.was \in SUBSET Permission
                          /\ x.op = "connect" => x.user \in Member /\ x.arg \in Account
    BY DEF RoleReqInv
  <2>1. CASE q = r
    BY <1>2, <2>1, IdleRequest
  <2>2. CASE q # r
    <3>1. roleReq'[q] = roleReq[q] /\ roleReq[q].at \in Nat
      BY <1>2, <2>2, RoleReqType DEF RoleInv, RoleReq
    <3>2. ASSUME roleReq[q].op = "token"
          PROVE  roleReq[q].at <= held'[roleReq[q].user][roleReq[q].arg]
      <4>1. roleReq[q].user \in Member /\ roleReq[q].arg \in Role
            /\ roleReq[q].at <= held[roleReq[q].user][roleReq[q].arg]
        BY <3>2 DEF RoleInv, RoleReqInv
      <4>2. held[roleReq[q].user][roleReq[q].arg] \in Nat
            /\ held'[roleReq[q].user][roleReq[q].arg] \in Nat
            /\ held[roleReq[q].user][roleReq[q].arg] <= held'[roleReq[q].user][roleReq[q].arg]
        BY <4>1 DEF RoleInv, Roles!TypeOK
      <4> QED BY <3>1, <4>1, <4>2
    <3> QED BY <3>1, <3>2 DEF RoleInv, RoleReqInv
  <2> QED BY <2>1, <2>2
<1> QED BY <1>2, <1>3

LEMMA MakeTokenStep ==
  ASSUME RoleConstants, RoleInv, NEW r \in Request, Roles!MakeToken(r)
  PROVE  RoleInv'
<1> DEFINE t == [user |-> roleReq[r].user, role |-> roleReq[r].arg,
                 perms |-> grants[roleReq[r].arg], exp |-> now + AccessLife]
<1>1. /\ roleTokens' = roleTokens \cup {t} /\ Roles!Finish(r) /\ roleReq[r].op = "token"
      /\ UNCHANGED <<now, changes, roles, grants, role, links, held, granted>>
  BY DEF Roles!MakeToken, Roles!tables
<1>2. /\ roleReq[r].user \in Member /\ roleReq[r].arg \in Role
      /\ roleReq[r].at <= held[roleReq[r].user][roleReq[r].arg] /\ now <= roleReq[r].at + 1
      /\ roleReq[r].at \in Nat
  BY <1>1, RoleReqType DEF RoleInv, RoleReqInv, RoleReq
<1>3. now \in Nat /\ AccessLife \in Nat \ {0} /\ held[roleReq[r].user][roleReq[r].arg] \in Nat
      /\ grants[roleReq[r].arg] \subseteq Permission
  BY <1>2 DEF RoleInv, Roles!TypeOK, RoleConstants
<1>4. t \in Roles!Token
  BY <1>2, <1>3 DEF Roles!Token
<1>5. /\ t.exp > now /\ t.exp <= held[t.user][t.role] + AccessLife + 1
      /\ \A p \in t.perms : t.exp <= granted[t.role][p] + AccessLife
  <2>1. \A p \in t.perms : granted[t.role][p] = now
    BY <1>2, <1>3 DEF RoleInv, NowInv
  <2> QED BY <1>2, <1>3, <2>1
<1> HIDE DEF t
<1>6. roleReq' \in [Request -> RoleReq] /\ RoleReqInv'
  <2>1. \A u \in Member, c \in Role : held[u][c] <= held'[u][c]
    BY <1>1 DEF RoleInv, Roles!TypeOK
  <2>2. held' \in [Member -> [Role -> 0 .. MaxTime]]
    BY <1>1 DEF RoleInv, Roles!TypeOK
  <2> QED BY <1>1, <2>1, <2>2, RoleFinish
<1>7. Roles!TypeOK'
  BY <1>1, <1>4, <1>6 DEF RoleInv, Roles!TypeOK, RoleReq
<1>8. NowInv' /\ Roles!RowsAgree'
  BY <1>1 DEF RoleInv, NowInv, Roles!RowsAgree
<1>9. RoleTokenInv'
  BY <1>1, <1>5 DEF RoleInv, RoleTokenInv
<1> QED BY <1>6, <1>7, <1>8, <1>9 DEF RoleInv

\* A step that grants, and leaves the requests alone or ends one.
LEMMA WriteGrants ==
  ASSUME RoleConstants, RoleInv, NEW R \in SUBSET Role, NEW g \in [Role -> SUBSET Permission],
         Roles!Grant(R, g), \A u \in Member : role[u] \in R, \A c \in Role \ R : g[c] = {},
         Roles!Counted \/ UNCHANGED changes,
         UNCHANGED roleReq \/ \E r \in Request : Roles!Finish(r)
  PROVE  RoleInv'
<1>1. Roles!TypeOK /\ NowInv /\ RoleTokenInv /\ Roles!RowsAgree /\ RoleReqInv
  BY DEF RoleInv
<1>2. NowInv' /\ RoleTokenInv' /\ Roles!RowsAgree'
  BY <1>1, GrantStep
<1>3. /\ roles' = R /\ grants' = g /\ UNCHANGED <<now, role, links, roleTokens, held>>
      /\ granted' \in [Role -> [Permission -> 0 .. MaxTime]]
  BY <1>1, GrantEffect
<1>4. roleReq' \in [Request -> RoleReq] /\ RoleReqInv'
  <2>1. CASE UNCHANGED roleReq
    BY <1>1, <1>3, <2>1, RoleReqType DEF RoleReqInv
  <2>2. ASSUME NEW r \in Request, Roles!Finish(r)
        PROVE  roleReq' \in [Request -> RoleReq] /\ RoleReqInv'
    <3>1. \A u \in Member, c \in Role : held[u][c] <= held'[u][c]
      BY <1>1, <1>3 DEF Roles!TypeOK
    <3>2. held' \in [Member -> [Role -> 0 .. MaxTime]]
      BY <1>1, <1>3 DEF Roles!TypeOK
    <3> QED BY <1>3, <2>2, <3>1, <3>2, RoleFinish
  <2> QED BY <2>1, <2>2
<1>5. changes' \in 0 .. MaxChanges
  BY <1>1, CountedType
<1>6. Roles!TypeOK'
  BY <1>1, <1>3, <1>4, <1>5 DEF Roles!TypeOK, RoleReq
<1> QED BY <1>2, <1>4, <1>6 DEF RoleInv

LEMMA CreateRoleStep ==
  ASSUME RoleConstants, RoleInv, NEW c \in Role, NEW P \in Roles!Asked, Roles!CreateRole(c, P)
  PROVE  RoleInv'
<1> DEFINE g == [grants EXCEPT ![c] = P]
<1>1. /\ Roles!Grant(roles \cup {c}, g) /\ UNCHANGED roleReq /\ Roles!Counted
  BY DEF Roles!CreateRole
<1>2. g \in [Role -> SUBSET Permission] /\ (roles \cup {c}) \in SUBSET Role
  BY DEF RoleInv, Roles!TypeOK, Roles!Asked
<1>3. \A u \in Member : role[u] \in (roles \cup {c})
  BY DEF RoleInv, Roles!RowsAgree
<1>4. \A d \in Role \ (roles \cup {c}) : g[d] = {}
  BY DEF RoleInv, Roles!TypeOK, Roles!RowsAgree
<1> HIDE DEF g
<1> QED BY <1>1, <1>2, <1>3, <1>4, WriteGrants

LEMMA DestroyRoleStep ==
  ASSUME RoleConstants, RoleInv, NEW c \in Role, Roles!DestroyRole(c)
  PROVE  RoleInv'
<1> DEFINE g == [grants EXCEPT ![c] = {}]
<1>1. /\ Roles!Grant(roles \ {c}, g) /\ UNCHANGED roleReq /\ Roles!Counted
      /\ \A u \in Member : role[u] # c
  BY DEF Roles!DestroyRole, Roles!InUse
<1>2. g \in [Role -> SUBSET Permission] /\ (roles \ {c}) \in SUBSET Role
  BY DEF RoleInv, Roles!TypeOK
<1>3. \A u \in Member : role[u] \in (roles \ {c})
  BY <1>1 DEF RoleInv, Roles!RowsAgree
<1>4. \A d \in Role \ (roles \ {c}) : g[d] = {}
  BY DEF RoleInv, Roles!TypeOK, Roles!RowsAgree
<1> HIDE DEF g
<1> QED BY <1>1, <1>2, <1>3, <1>4, WriteGrants

LEMMA UpdateRoleStep ==
  ASSUME RoleConstants, RoleInv, NEW r \in Request, Roles!UpdateRole(r)
  PROVE  RoleInv'
<1> DEFINE q == roleReq[r]
           g == [grants EXCEPT ![q.arg] = (@ \ q.was) \cup q.perms]
<1>1. /\ Roles!Grant(roles, g) /\ Roles!Finish(r) /\ UNCHANGED changes /\ q.arg \in roles
  BY DEF Roles!UpdateRole, Roles!Fits
<1>2. q.perms \in SUBSET Permission
  BY RoleReqType DEF RoleInv, RoleReq
<1>3. g \in [Role -> SUBSET Permission] /\ roles \in SUBSET Role
  BY <1>2 DEF RoleInv, Roles!TypeOK
<1>4. \A u \in Member : role[u] \in roles
  BY DEF RoleInv, Roles!RowsAgree
<1>5. \A d \in Role \ roles : g[d] = {}
  BY <1>1 DEF RoleInv, Roles!TypeOK, Roles!RowsAgree
<1> HIDE DEF g
<1> QED BY <1>1, <1>3, <1>4, <1>5, WriteGrants

\* What a step that replaces a request by an update or by none has to show.
LEMMA OneRequest ==
  ASSUME RoleConstants, RoleInv, NEW r \in Request, NEW v \in RoleReq,
         roleReq' = [roleReq EXCEPT ![r] = v],
         UNCHANGED <<now, roles, grants, role, links, roleTokens, held, granted>>,
         Roles!Counted \/ UNCHANGED changes,
         \/ v.op = "idle"
         \/ /\ v.op = "update" /\ v.arg \in Role /\ v.was \in SUBSET Permission
            /\ v.at <= now /\ now <= v.at + 1
  PROVE  RoleInv'
<1>1. roleReq' \in [Request -> RoleReq] /\ roleReq'[r] = v
      /\ \A q \in Request \ {r} : roleReq'[q] = roleReq[q]
  BY RoleReqBecomes, RoleReqType DEF RoleInv
<1>2. \A q \in Request \ {r} : roleReq'[q] = roleReq[q]
  BY <1>1
<1>3. RoleReqInv'
  BY <1>1, <1>2 DEF RoleInv, RoleReqInv
<1> QED BY <1>1, <1>3, OnlyRequests, CountedType DEF RoleInv

LEMMA BeginUpdateStep ==
  ASSUME RoleConstants, RoleInv, NEW r \in Request, NEW c \in Role, NEW P \in Roles!Asked,
         Roles!BeginUpdate(r, c, P)
  PROVE  RoleInv'
<1> DEFINE v == [Roles!Idle EXCEPT !.op = "update", !.arg = c, !.perms = P, !.at = now,
                                   !.was = grants[c]]
<1>1. /\ roleReq' = [roleReq EXCEPT ![r] = v] /\ Roles!Counted
      /\ UNCHANGED <<now, roles, grants, role, links, roleTokens, held, granted>>
  BY DEF Roles!BeginUpdate, Roles!tables
<1>2. now \in Nat /\ grants[c] \in SUBSET Permission /\ P \in SUBSET Permission
  BY DEF RoleInv, Roles!TypeOK, Roles!Asked
<1>3. /\ v \in RoleReq /\ v.op = "update" /\ v.arg \in Role /\ v.was \in SUBSET Permission
      /\ v.at = now
  BY <1>2 DEF Roles!Idle, RoleReq
<1> HIDE DEF v
<1>4. v.at <= now /\ now <= v.at + 1
  BY <1>2, <1>3
<1> QED BY <1>1, <1>3, <1>4, OneRequest

LEMMA UpdateAgainStep ==
  ASSUME RoleConstants, RoleInv, NEW r \in Request, Roles!UpdateAgain(r)
  PROVE  RoleInv'
<1> DEFINE c == roleReq[r].arg
           v == IF c \in roles THEN [roleReq[r] EXCEPT !.was = grants[c]] ELSE Roles!Idle
<1>1. /\ roleReq' = [roleReq EXCEPT ![r] = v] /\ UNCHANGED changes /\ roleReq[r].op = "update"
      /\ UNCHANGED <<now, roles, grants, role, links, roleTokens, held, granted>>
  BY DEF Roles!UpdateAgain, Roles!tables
<1>2. /\ c \in Role /\ roleReq[r].at <= now /\ now <= roleReq[r].at + 1
      /\ roleReq[r] \in RoleReq /\ grants[c] \in SUBSET Permission
  BY <1>1, RoleReqType DEF RoleInv, RoleReqInv, Roles!TypeOK
<1>3. /\ v \in RoleReq
      /\ \/ v.op = "idle"
         \/ /\ v.op = "update" /\ v.arg \in Role /\ v.was \in SUBSET Permission
            /\ v.at <= now /\ now <= v.at + 1
  <2>1. CASE c \in roles
    <3>1. v = [roleReq[r] EXCEPT !.was = grants[c]]
      BY <2>1
    <3>2. v \in RoleReq /\ v.op = roleReq[r].op /\ v.arg = c /\ v.was = grants[c]
          /\ v.at = roleReq[r].at
      <4> HIDE DEF v
      <4> QED BY <1>2, <3>1 DEF RoleReq
    <3> HIDE DEF v
    <3> QED BY <1>1, <1>2, <3>2
  <2>2. CASE c \notin roles
    BY <2>2, IdleRequest
  <2> QED BY <2>1, <2>2
<1> HIDE DEF v
<1> QED BY <1>1, <1>3, OneRequest

LEMMA SetRoleStep ==
  ASSUME RoleConstants, RoleInv, NEW r \in Request, Roles!SetRole(r)
  PROVE  RoleInv'
<1> DEFINE q == roleReq[r]
<1>1. /\ Roles!TypeOK /\ NowInv /\ RoleTokenInv /\ Roles!RowsAgree /\ RoleReqInv
      /\ role \in [Member -> Role] /\ now \in Nat /\ now \in 0 .. MaxTime
      /\ held \in [Member -> [Role -> 0 .. MaxTime]]
  BY DEF RoleInv, Roles!TypeOK
<1>2. /\ role' = IF q.arg \in roles \ {q.was} THEN [role EXCEPT ![q.user] = q.arg] ELSE role
      /\ held' = [u \in Member |-> [held[u] EXCEPT ![role'[u]] = now]]
      /\ Roles!Finish(r) /\ q.user \in Member /\ q.arg \in Role
      /\ UNCHANGED <<now, changes, roles, grants, links, roleTokens, granted>>
  BY <1>1 DEF Roles!SetRole, RoleReqInv
<1>3. role' \in [Member -> Role] /\ \A u \in Member : role'[u] \in roles
  BY <1>1, <1>2 DEF Roles!RowsAgree
<1>4. /\ held' \in [Member -> [Role -> 0 .. MaxTime]]
      /\ \A u \in Member, c \in Role :
           held'[u][c] = IF c = role'[u] THEN now ELSE held[u][c]
  BY <1>1, <1>2, <1>3
<1>5. \A u \in Member, c \in Role :
        /\ held[u][c] <= held'[u][c] /\ held'[u][c] <= now /\ held'[u][role'[u]] = now
        /\ held[u][c] \in Nat /\ held'[u][c] \in Nat
  BY <1>1, <1>3, <1>4 DEF NowInv
<1>6. roleReq' \in [Request -> RoleReq] /\ RoleReqInv'
  BY <1>2, <1>4, <1>5, RoleFinish
<1>7. Roles!TypeOK'
  BY <1>1, <1>2, <1>3, <1>4, <1>6 DEF Roles!TypeOK, RoleReq
<1>8. NowInv'
  BY <1>1, <1>2, <1>3, <1>5 DEF NowInv
<1>9. Roles!RowsAgree'
  BY <1>1, <1>2, <1>3 DEF Roles!RowsAgree
<1>10. RoleTokenInv'
  <2> SUFFICES ASSUME NEW t \in roleTokens
               PROVE  /\ t.exp > now /\ t.exp <= held'[t.user][t.role] + AccessLife + 1
                      /\ \A p \in t.perms : t.exp <= granted[t.role][p] + AccessLife
    BY <1>2 DEF RoleTokenInv
  <2>1. t.user \in Member /\ t.role \in Role /\ t.exp \in Nat
    BY <1>1 DEF Roles!TypeOK, Roles!Token
  <2>2. /\ held[t.user][t.role] <= held'[t.user][t.role]
        /\ held[t.user][t.role] \in Nat /\ held'[t.user][t.role] \in Nat
    BY <1>5, <2>1
  <2> QED BY <1>1, <2>1, <2>2 DEF RoleTokenInv, RoleConstants
<1> QED BY <1>6, <1>7, <1>8, <1>9, <1>10 DEF RoleInv

LEMMA LinkStep ==
  ASSUME RoleConstants, RoleInv, links' \subseteq Account \X Member,
         \A x, y \in links' : (x[1] = y[1] \/ x[2] = y[2]) => x = y,
         UNCHANGED <<now, changes, roles, grants, role, roleTokens, held, granted>>,
         UNCHANGED roleReq \/ \E r \in Request : Roles!Finish(r)
  PROVE  RoleInv'
<1>1. Roles!TypeOK /\ NowInv /\ RoleTokenInv /\ Roles!RowsAgree /\ RoleReqInv
  BY DEF RoleInv
<1>2. roleReq' \in [Request -> RoleReq] /\ RoleReqInv'
  <2>1. CASE UNCHANGED roleReq
    BY <1>1, <2>1, RoleReqType DEF RoleReqInv
  <2>2. ASSUME NEW r \in Request, Roles!Finish(r)
        PROVE  roleReq' \in [Request -> RoleReq] /\ RoleReqInv'
    <3>1. \A u \in Member, c \in Role : held[u][c] <= held'[u][c]
      BY <1>1 DEF Roles!TypeOK
    <3>2. held' \in [Member -> [Role -> 0 .. MaxTime]]
      BY <1>1 DEF Roles!TypeOK
    <3> QED BY <2>2, <3>1, <3>2, RoleFinish
  <2> QED BY <2>1, <2>2
<1>3. Roles!TypeOK'
  BY <1>1, <1>2 DEF Roles!TypeOK, RoleReq
<1>4. NowInv' /\ RoleTokenInv'
  BY <1>1 DEF NowInv, RoleTokenInv
<1>5. Roles!RowsAgree'
  BY <1>1 DEF Roles!RowsAgree
<1> QED BY <1>2, <1>3, <1>4, <1>5 DEF RoleInv

LEMMA AddLinkStep ==
  ASSUME RoleConstants, RoleInv, NEW r \in Request, Roles!AddLink(r)
  PROVE  RoleInv'
<1> DEFINE a == roleReq[r].arg
           u == roleReq[r].user
<1>1. /\ links' = links \cup {x \in {<<a, u>>} : Roles!MayLink(x[1], x[2])}
      /\ Roles!Finish(r) /\ u \in Member /\ a \in Account
      /\ UNCHANGED <<now, changes, roles, grants, role, roleTokens, held, granted>>
  BY DEF Roles!AddLink, RoleInv, RoleReqInv
<1>2. /\ links \subseteq Account \X Member
      /\ \A x, y \in links : (x[1] = y[1] \/ x[2] = y[2]) => x = y
  BY DEF RoleInv, Roles!TypeOK, Roles!RowsAgree
<1> HIDE DEF a, u
<1>3. links' = links \/ (links' = links \cup {<<a, u>>} /\ Roles!MayLink(a, u))
  <2>1. <<a, u>>[1] = a /\ <<a, u>>[2] = u
    OBVIOUS
  <2> QED BY <1>1, <2>1
<1>4. ASSUME Roles!MayLink(a, u), NEW x \in links
      PROVE  x[1] # a /\ x[2] # u
  <2>1. x \in Account \X Member
    BY <1>2
  <2>2. PICK b \in Account, w \in Member : x = <<b, w>>
    BY <2>1
  <2>3. <<b, w>> \in links
    BY <2>2
  <2>4. b # a
    BY <1>4, <2>3 DEF Roles!MayLink, Roles!LinkedTo
  <2>5. w # u
    BY <1>4, <2>3 DEF Roles!MayLink
  <2> QED BY <2>2, <2>4, <2>5
<1>5. \A x, y \in links' : (x[1] = y[1] \/ x[2] = y[2]) => x = y
  <2> SUFFICES ASSUME NEW x \in links', NEW y \in links', x[1] = y[1] \/ x[2] = y[2]
               PROVE  x = y
    OBVIOUS
  <2>1. CASE links' = links
    BY <1>2, <2>1
  <2>2. CASE links' = links \cup {<<a, u>>} /\ Roles!MayLink(a, u)
    <3>1. \A z \in links : z[1] # a /\ z[2] # u
      BY <1>4, <2>2
    <3>2. <<a, u>>[1] = a /\ <<a, u>>[2] = u
      OBVIOUS
    <3>3. (x \in links \/ x = <<a, u>>) /\ (y \in links \/ y = <<a, u>>)
      BY <2>2
    <3> QED BY <1>2, <3>1, <3>2, <3>3
  <2> QED BY <1>3, <2>1, <2>2
<1>6. links' \subseteq Account \X Member
  BY <1>1, <1>2, <1>3
<1> QED BY <1>1, <1>5, <1>6, LinkStep

LEMMA DisconnectStep ==
  ASSUME RoleConstants, RoleInv, NEW u \in Member, NEW a \in Account, Roles!Disconnect(u, a)
  PROVE  RoleInv'
<1>1. /\ links' \subseteq links /\ UNCHANGED roleReq
      /\ UNCHANGED <<now, changes, roles, grants, role, roleTokens, held, granted>>
  BY DEF Roles!Disconnect
<1>2. /\ links \subseteq Account \X Member
      /\ \A x, y \in links : (x[1] = y[1] \/ x[2] = y[2]) => x = y
  BY DEF RoleInv, Roles!TypeOK, Roles!RowsAgree
<1>3. links' \subseteq Account \X Member
  BY <1>1, <1>2
<1>4. \A x, y \in links' : (x[1] = y[1] \/ x[2] = y[2]) => x = y
  BY <1>1, <1>2
<1> QED BY <1>1, <1>3, <1>4, LinkStep

LEMMA RoleTickStep ==
  ASSUME RoleConstants, RoleInv, Roles!Tick
  PROVE  RoleInv'
<1>1. /\ Roles!TypeOK /\ NowInv /\ RoleTokenInv /\ Roles!RowsAgree /\ RoleReqInv
      /\ role \in [Member -> Role] /\ now \in 1 .. MaxTime /\ now < MaxTime
      /\ held \in [Member -> [Role -> 0 .. MaxTime]]
      /\ granted \in [Role -> [Permission -> 0 .. MaxTime]]
  BY DEF RoleInv, Roles!TypeOK, Roles!Tick
<1>2. /\ now' = now + 1
      /\ roleTokens' = {t \in roleTokens : ~(t.exp <= now')}
      /\ held' = [u \in Member |-> [held[u] EXCEPT ![role[u]] = now']]
      /\ granted' = [c \in Role |-> [p \in Permission |->
                       IF p \in grants[c] THEN now' ELSE granted[c][p]]]
      /\ UNCHANGED <<changes, roles, grants, role, links, roleReq>>
  BY DEF Roles!Tick, Roles!tables, Roles!Expired
<1>3. now' \in 1 .. MaxTime /\ now' \in 0 .. MaxTime /\ now \in Nat /\ now' \in Nat
  BY <1>1, <1>2 DEF RoleConstants
<1>4. /\ held' \in [Member -> [Role -> 0 .. MaxTime]]
      /\ \A u \in Member, c \in Role :
           held'[u][c] = IF c = role[u] THEN now' ELSE held[u][c]
  BY <1>1, <1>2, <1>3
<1>5. /\ granted' \in [Role -> [Permission -> 0 .. MaxTime]]
      /\ \A c \in Role, p \in Permission :
           granted'[c][p] = IF p \in grants[c] THEN now' ELSE granted[c][p]
  BY <1>1, <1>2, <1>3
<1>6. \A u \in Member, c \in Role :
        /\ held[u][c] <= held'[u][c] /\ held'[u][c] <= now' /\ held'[u][role[u]] = now'
        /\ held[u][c] \in Nat /\ held'[u][c] \in Nat
  BY <1>1, <1>2, <1>3, <1>4 DEF NowInv
<1>7. \A c \in Role, p \in Permission :
        /\ granted[c][p] <= granted'[c][p] /\ granted'[c][p] <= now'
        /\ granted[c][p] \in Nat /\ granted'[c][p] \in Nat
        /\ p \in grants[c] => granted'[c][p] = now'
  BY <1>1, <1>2, <1>3, <1>5 DEF NowInv
<1>8. Roles!TypeOK'
  BY <1>1, <1>2, <1>3, <1>4, <1>5 DEF Roles!TypeOK
<1>9. NowInv'
  <2>1. \A u \in Member : held'[u][role'[u]] = now'
    <3>1. \A u \in Member : role[u] \in Role /\ role'[u] = role[u]
      BY <1>1, <1>2
    <3> QED BY <1>6, <3>1
  <2>2. \A u \in Member, c \in Role : held'[u][c] <= now'
    BY <1>6
  <2>3. \A c \in Role, p \in Permission :
          granted'[c][p] <= now' /\ (p \in grants'[c] => granted'[c][p] = now')
    BY <1>2, <1>7
  <2> QED BY <2>1, <2>2, <2>3 DEF NowInv
<1>10. Roles!RowsAgree'
  BY <1>1, <1>2 DEF Roles!RowsAgree
<1>11. RoleTokenInv'
  <2> SUFFICES ASSUME NEW t \in roleTokens, ~(t.exp <= now')
               PROVE  /\ t.exp > now' /\ t.exp <= held'[t.user][t.role] + AccessLife + 1
                      /\ \A p \in t.perms : t.exp <= granted'[t.role][p] + AccessLife
    BY <1>2 DEF RoleTokenInv
  <2>1. t.user \in Member /\ t.role \in Role /\ t.exp \in Nat /\ t.perms \subseteq Permission
    BY <1>1 DEF Roles!TypeOK, Roles!Token
  <2>2. /\ held[t.user][t.role] <= held'[t.user][t.role]
        /\ held[t.user][t.role] \in Nat /\ held'[t.user][t.role] \in Nat
    BY <1>6, <2>1
  <2>3. ASSUME NEW p \in t.perms
        PROVE  /\ granted[t.role][p] <= granted'[t.role][p]
               /\ granted[t.role][p] \in Nat /\ granted'[t.role][p] \in Nat
               /\ t.exp <= granted[t.role][p] + AccessLife
    BY <1>1, <1>7, <2>1 DEF RoleTokenInv
  <2>4. t.exp <= held[t.user][t.role] + AccessLife + 1 /\ AccessLife \in Nat
    BY <1>1 DEF RoleTokenInv, RoleConstants
  <2>5. t.exp <= held'[t.user][t.role] + AccessLife + 1
    BY <2>1, <2>2, <2>4
  <2>6. ASSUME NEW p \in t.perms PROVE t.exp <= granted'[t.role][p] + AccessLife
    BY <2>1, <2>3, <2>4
  <2>7. t.exp > now'
    BY <1>3, <2>1
  <2> QED BY <2>5, <2>6, <2>7
<1>12. RoleReqInv'
  <2> SUFFICES ASSUME NEW r \in Request
               PROVE  LET x == roleReq[r]
                      IN  /\ x.op # "idle" => x.at <= now' /\ now' <= x.at + 1
                          /\ x.op = "token" => /\ x.user \in Member /\ x.arg \in Role
                                               /\ x.at <= held'[x.user][x.arg]
                          /\ x.op = "assign" => x.user \in Member /\ x.arg \in Role
                          /\ x.op = "update" => x.arg \in Role /\ x.was \in SUBSET Permission
                          /\ x.op = "connect" => x.user \in Member /\ x.arg \in Account
    BY <1>2 DEF RoleReqInv
  <2>1. roleReq[r].at \in Nat
    BY <1>1, RoleReqType DEF RoleReq
  <2>2. ASSUME roleReq[r].op # "idle"
        PROVE  roleReq[r].at = now
    BY <2>2, IdleRequest DEF Roles!Tick
  <2>3. ASSUME roleReq[r].op = "token"
        PROVE  roleReq[r].at <= held'[roleReq[r].user][roleReq[r].arg]
    <3>1. roleReq[r].user \in Member /\ roleReq[r].arg \in Role
          /\ roleReq[r].at <= held[roleReq[r].user][roleReq[r].arg]
      BY <1>1, <2>3 DEF RoleReqInv
    <3>2. /\ held[roleReq[r].user][roleReq[r].arg] <= held'[roleReq[r].user][roleReq[r].arg]
          /\ held[roleReq[r].user][roleReq[r].arg] \in Nat
          /\ held'[roleReq[r].user][roleReq[r].arg] \in Nat
      BY <1>6, <3>1
    <3> QED BY <2>1, <3>1, <3>2
  <2> QED BY <1>1, <1>2, <1>3, <2>1, <2>2, <2>3 DEF RoleReqInv
<1> QED BY <1>8, <1>9, <1>10, <1>11, <1>12 DEF RoleInv

LEMMA RoleInit ==
  ASSUME RoleConstants, MCInit, focus = "roles"
  PROVE  RoleInv
<1>1. /\ now = 1 /\ changes = 0 /\ roles = Role /\ grants = Roles!InitialGrants
      /\ role \in [Member -> Role] /\ links = {} /\ roleTokens = {}
      /\ roleReq = [r \in Request |-> Roles!Idle]
      /\ held = [u \in Member |-> [c \in Role |-> IF c = role[u] THEN 1 ELSE 0]]
      /\ granted = [c \in Role |-> [p \in Permission |-> IF p \in grants[c] THEN 1 ELSE 0]]
  BY DEF MCInit, Roles!Init
<1>2. grants \in [Role -> SUBSET Permission]
  BY <1>1 DEF Roles!InitialGrants
<1>3. roleReq \in [Request -> RoleReq] /\ \A r \in Request : roleReq[r].op = "idle"
  BY <1>1, IdleRequest
<1>4. /\ 0 \in 0 .. MaxTime /\ 1 \in 0 .. MaxTime /\ 1 \in 1 .. MaxTime /\ 0 \in 0 .. MaxChanges
  BY DEF RoleConstants
<1>5. held \in [Member -> [Role -> 0 .. MaxTime]]
  BY <1>1, <1>4
<1>6. granted \in [Role -> [Permission -> 0 .. MaxTime]]
  BY <1>1, <1>4
<1>7. Roles!TypeOK
  BY <1>1, <1>2, <1>3, <1>4, <1>5, <1>6 DEF Roles!TypeOK, RoleReq
<1>8. RoleReqInv
  BY <1>3 DEF RoleReqInv
<1>9. NowInv /\ RoleTokenInv /\ Roles!RowsAgree
  BY <1>1, <1>2 DEF NowInv, RoleTokenInv, Roles!RowsAgree
<1> QED BY <1>7, <1>8, <1>9 DEF RoleInv

LEMMA RolesStep ==
  ASSUME RoleConstants, RoleInv, [Roles!Next]_rVars
  PROVE  RoleInv'
<1>1. ASSUME NEW r \in Request, NEW u \in Member, Roles!BeginToken(r, u)
      PROVE  RoleInv'
  BY <1>1, RoleBegin DEF Roles!BeginToken
<1>2. ASSUME NEW r \in Request, NEW u \in Member, NEW c \in Role, Roles!BeginAssign(r, u, c)
      PROVE  RoleInv'
  BY <1>2, RoleBegin DEF Roles!BeginAssign
<1>3. ASSUME NEW r \in Request, NEW u \in Member, Roles!RevokeRole(r, u)
      PROVE  RoleInv'
  BY <1>2, <1>3 DEF Roles!RevokeRole, RoleConstants
<1>4. ASSUME NEW r \in Request, NEW u \in Member, NEW a \in Account,
             Roles!OAuthLogin(r, a) \/ Roles!BeginConnect(r, u, a)
      PROVE  RoleInv'
  <2>1. CASE Roles!OAuthLogin(r, a)
    <3>1. PICK w \in Roles!LinkedTo(a) : Roles!BeginToken(r, w)
      BY <2>1 DEF Roles!OAuthLogin
    <3>2. w \in Member
      BY <3>1 DEF Roles!LinkedTo
    <3> QED BY <1>1, <3>1, <3>2
  <2>2. CASE Roles!BeginConnect(r, u, a)
    BY <2>2, RoleBegin DEF Roles!BeginConnect
  <2> QED BY <1>4, <2>1, <2>2
<1>5. CASE UNCHANGED rVars
  BY <1>5 DEF rVars, ofRoles, RoleInv, Roles!TypeOK, RoleReqInv, NowInv, RoleTokenInv,
              Roles!RowsAgree
<1>6. CASE Roles!Tick
  BY <1>6, RoleTickStep
<1>7. ASSUME NEW r \in Request,
             \/ Roles!MakeToken(r) \/ Roles!SetRole(r) \/ Roles!UpdateRole(r)
             \/ Roles!UpdateAgain(r) \/ Roles!AddLink(r)
      PROVE  RoleInv'
  BY <1>7, MakeTokenStep, SetRoleStep, UpdateRoleStep, UpdateAgainStep, AddLinkStep
<1>8. ASSUME NEW r \in Request, NEW c \in Role, NEW P \in Roles!Asked,
             Roles!BeginUpdate(r, c, P)
      PROVE  RoleInv'
  BY <1>8, BeginUpdateStep
<1>9. ASSUME NEW c \in Role, NEW P \in Roles!Asked, Roles!CreateRole(c, P)
      PROVE  RoleInv'
  BY <1>9, CreateRoleStep
<1>10. ASSUME NEW c \in Role, Roles!DestroyRole(c) PROVE RoleInv'
  BY <1>10, DestroyRoleStep
<1>11. ASSUME NEW u \in Member, NEW a \in Account, Roles!Disconnect(u, a) PROVE RoleInv'
  BY <1>11, DisconnectStep
<1> QED BY <1>1, <1>2, <1>3, <1>4, <1>5, <1>6, <1>7, <1>8, <1>9, <1>10, <1>11 DEF Roles!Next

-----------------------------------------------------------------------------
(* Rows under requests that overlap, and the answers about them.            *)

Object == Client \cup RoleCode

AccTypes ==
  /\ accNow \in Nat /\ exists \subseteq RoleCode
  /\ DOMAIN row = Object /\ \A o \in Object : row[o] \in [Accounts!Column(o) -> Nat]
  /\ DOMAIN meant = Object /\ \A o \in Object : DOMAIN meant[o] = Accounts!Column(o)
  /\ DOMAIN handler = Handler
  /\ DOMAIN shown = Accounts!Key /\ DOMAIN sets = Accounts!Key /\ DOMAIN past = Accounts!Key

IsAsk(q) ==
  q \in [do : {q.do}, on : {q.on}, ask : {q.ask}, was : {q.was}, met : {q.met},
         failed : {q.failed}, at : {q.at}]

\* A column that a request asks to keep as it has read it still is what it has read, or
\* was written by somebody it has met.
Followed(q, ro) ==
  \A c \in DOMAIN q.ask : q.ask[c] = q.was[c] =>
    ro[q.on][c] = q.was[c] \/ ro[q.on][c] \in q.met[c]

\* The first attempt to confirm writes the mark; after a failure it is written, or known
\* to be in doubt.
Confirms(q, ro, un) ==
  IF q.failed
  THEN DOMAIN q.ask = {} /\ (q.on \in un \/ ro[q.on]["is_verified_email"] = 1)
  ELSE q.ask = [c \in {"is_verified_email"} |-> 1] /\ q.was["is_verified_email"] = 0

AskOK(q, ro, un) ==
  /\ IsAsk(q) /\ q.do \in {"none", "user", "confirm", "role"}
  /\ q.do # "none" =>
       /\ q.on \in Object
       /\ DOMAIN q.ask \subseteq Accounts!Column(q.on) /\ DOMAIN q.ask \subseteq DOMAIN q.met
       /\ \A c \in DOMAIN q.ask : q.ask[c] \in Nat
       /\ Followed(q, ro)
  /\ q.do = "role" => q.on \in RoleCode /\ q.ask \in [Right -> Nat]
  /\ q.do \in {"user", "confirm"} => q.on \in Client
  /\ q.do = "user" => "is_verified_email" \notin DOMAIN q.ask
  /\ q.do = "confirm" => Confirms(q, ro, un)

AskInv == \A h \in Handler : AskOK(handler[h], row, unsaved)

\* An answer is true, or was when it was looked up.
Recent(val, t, truth, old) == val = truth \/ \E x \in old : x.val = val /\ x.till >= t

Truth(k) == Accounts!Truth(exists, row, k)

TaskInv ==
  \A k \in Accounts!Key : \A s \in sets[k] :
    /\ s.at \in Nat /\ s.at <= accNow /\ accNow <= s.at + 1
    /\ ~s.raced /\ s.val # None => Recent(s.val, s.at, Truth(k), past[k])

ShownInv ==
  \A k \in Accounts!Key :
    /\ shown[k].end \in Nat /\ shown[k].end <= accNow + AnswerLife
    /\ shown[k].end > accNow /\ ~shown[k].raced =>
         Recent(shown[k].val, shown[k].end - AnswerLife - 1, Truth(k), past[k])

PastInv == \A k \in Accounts!Key : \A x \in past[k] : x.till \in Nat

AccInv ==
  /\ AccTypes /\ AskInv /\ TaskInv /\ ShownInv /\ PastInv
  /\ told \subseteq Client /\ Accounts!AsAsked /\ Accounts!ConfirmedIsSaved

LEMMA NoHandlerOK ==
  ASSUME NEW ro, NEW un
  PROVE  AskOK(Accounts!NoHandler, ro, un)
BY DEF Accounts!NoHandler, AskOK, IsAsk

\* The other requests after a write of v to o.
LEMMA Met ==
  ASSUME AskInv, NEW h, NEW o, NEW v, NEW next, Accounts!Meet(h, o, v, next), NEW g \in Handler
  PROVE  /\ g = h => handler'[g] = next
         /\ g # h =>
              /\ IsAsk(handler'[g])
              /\ handler'[g].do = handler[g].do /\ handler'[g].on = handler[g].on
              /\ handler'[g].ask = handler[g].ask /\ handler'[g].was = handler[g].was
              /\ handler'[g].failed = handler[g].failed /\ handler'[g].at = handler[g].at
              /\ DOMAIN handler'[g].met = DOMAIN handler[g].met
              /\ \A c \in DOMAIN handler[g].met : handler[g].met[c] \subseteq handler'[g].met[c]
              /\ handler[g].do # "none" /\ handler[g].on = o =>
                   \A c \in DOMAIN handler[g].met : c \in DOMAIN v => v[c] \in handler'[g].met[c]
<1>1. CASE g = h
  BY <1>1 DEF Accounts!Meet
<1>2. CASE g # h /\ (handler[g].do = "none" \/ handler[g].on # o)
  <2>1. handler'[g] = handler[g]
    BY <1>2 DEF Accounts!Meet
  <2>2. IsAsk(handler[g])
    BY DEF AskInv, AskOK
  <2> QED BY <1>2, <2>1, <2>2
<1>3. CASE g # h /\ handler[g].do # "none" /\ handler[g].on = o
  <2> DEFINE m == [c \in DOMAIN handler[g].met |->
                     IF c \in DOMAIN v THEN handler[g].met[c] \cup {v[c]} ELSE handler[g].met[c]]
  <2>1. handler'[g] = [handler[g] EXCEPT !.met = m]
    BY <1>3 DEF Accounts!Meet
  <2>2. IsAsk(handler[g])
    BY DEF AskInv, AskOK
  <2>3. DOMAIN m = DOMAIN handler[g].met
    OBVIOUS
  <2>4. \A c \in DOMAIN handler[g].met :
          handler[g].met[c] \subseteq m[c] /\ (c \in DOMAIN v => v[c] \in m[c])
    OBVIOUS
  <2> HIDE DEF m
  <2>5. /\ IsAsk(handler'[g]) /\ handler'[g].met = m
        /\ handler'[g].do = handler[g].do /\ handler'[g].on = handler[g].on
        /\ handler'[g].ask = handler[g].ask /\ handler'[g].was = handler[g].was
        /\ handler'[g].failed = handler[g].failed /\ handler'[g].at = handler[g].at
    BY <2>1, <2>2 DEF IsAsk
  <2> QED BY <1>3, <2>3, <2>4, <2>5
<1> QED BY <1>1, <1>2, <1>3

\* A step that writes v to o leaves all that is said of the requests.
LEMMA MeetStep ==
  ASSUME AskInv, NEW h, NEW o \in Object, NEW v, NEW next, Accounts!Meet(h, o, v, next),
         unsaved \subseteq unsaved',
         \A x \in Object : \A c \in Accounts!Column(x) :
           row'[x][c] = row[x][c] \/ (x = o /\ c \in DOMAIN v /\ row'[x][c] = v[c]),
         \A x \in Client : row[x]["is_verified_email"] = 1 => row'[x]["is_verified_email"] = 1,
         AskOK(next, row', unsaved') \/ h \notin Handler
  PROVE  AskInv' /\ DOMAIN handler' = Handler
<1>1. DOMAIN handler' = Handler
  BY DEF Accounts!Meet
<1>2. ASSUME NEW g \in Handler, g # h PROVE AskOK(handler'[g], row', unsaved')
  <2> DEFINE q == handler[g]
             n == handler'[g]
  <2>1. AskOK(q, row, unsaved)
    BY DEF AskInv
  <2>2. /\ IsAsk(n) /\ n.do = q.do /\ n.on = q.on /\ n.ask = q.ask /\ n.was = q.was
        /\ n.failed = q.failed /\ DOMAIN n.met = DOMAIN q.met
        /\ \A c \in DOMAIN q.met : q.met[c] \subseteq n.met[c]
        /\ q.do # "none" /\ q.on = o =>
             \A c \in DOMAIN q.met : c \in DOMAIN v => v[c] \in n.met[c]
    BY <1>2, Met
  <2> HIDE DEF q, n
  <2>3. ASSUME q.do # "none" PROVE Followed(n, row')
    <3> SUFFICES ASSUME NEW c \in DOMAIN q.ask, q.ask[c] = q.was[c]
                 PROVE  row'[q.on][c] = q.was[c] \/ row'[q.on][c] \in n.met[c]
      BY <2>2 DEF Followed
    <3>1. /\ q.on \in Object /\ c \in Accounts!Column(q.on) /\ c \in DOMAIN q.met
          /\ row[q.on][c] = q.was[c] \/ row[q.on][c] \in q.met[c]
      BY <2>1, <2>3 DEF AskOK, Followed
    <3>2. CASE row'[q.on][c] = row[q.on][c]
      BY <2>2, <3>1, <3>2
    <3>3. CASE q.on = o /\ c \in DOMAIN v /\ row'[q.on][c] = v[c]
      BY <2>2, <2>3, <3>1, <3>3
    <3> QED BY <3>1, <3>2, <3>3
  <2>4. ASSUME q.do = "confirm" PROVE Confirms(n, row', unsaved')
    <3>1. Confirms(q, row, unsaved) /\ q.on \in Client
      BY <2>1, <2>4 DEF AskOK
    <3>2. CASE q.failed
      <4>1. DOMAIN q.ask = {} /\ (q.on \in unsaved \/ row[q.on]["is_verified_email"] = 1)
        BY <3>1, <3>2 DEF Confirms
      <4>2. q.on \in unsaved' \/ row'[q.on]["is_verified_email"] = 1
        BY <3>1, <4>1
      <4> QED BY <2>2, <3>2, <4>1, <4>2 DEF Confirms
    <3>3. CASE ~q.failed
      <4>1. /\ q.ask = [c \in {"is_verified_email"} |-> 1]
            /\ q.was["is_verified_email"] = 0
        BY <3>1, <3>3, Zenon DEF Confirms
      <4>2. ~n.failed
        BY <2>2, <3>3
      <4>3. n.ask = [c \in {"is_verified_email"} |-> 1] /\ n.was["is_verified_email"] = 0
        BY <2>2, <4>1, Zenon
      <4> QED BY <4>2, <4>3, Zenon DEF Confirms
    <3> QED BY <3>2, <3>3
  <2>5. ASSUME q.do # "none"
        PROVE  /\ n.on \in Object
               /\ DOMAIN n.ask \subseteq Accounts!Column(n.on) /\ DOMAIN n.ask \subseteq DOMAIN n.met
               /\ \A c \in DOMAIN n.ask : n.ask[c] \in Nat
    <3>1. /\ q.on \in Object /\ DOMAIN q.ask \subseteq Accounts!Column(q.on)
          /\ DOMAIN q.ask \subseteq DOMAIN q.met /\ \A c \in DOMAIN q.ask : q.ask[c] \in Nat
      BY <2>1, <2>5 DEF AskOK
    <3> QED BY <2>2, <3>1
  <2>6. n.do = "role" => n.on \in RoleCode /\ n.ask \in [Right -> Nat]
    BY <2>1, <2>2 DEF AskOK
  <2>7. /\ n.do \in {"user", "confirm"} => n.on \in Client
        /\ n.do = "user" => "is_verified_email" \notin DOMAIN n.ask
        /\ n.do \in {"none", "user", "confirm", "role"}
    BY <2>1, <2>2 DEF AskOK
  <2>8. ASSUME n.do # "none"
        PROVE  /\ n.on \in Object
               /\ DOMAIN n.ask \subseteq Accounts!Column(n.on) /\ DOMAIN n.ask \subseteq DOMAIN n.met
               /\ \A c \in DOMAIN n.ask : n.ask[c] \in Nat
               /\ Followed(n, row')
    <3>1. q.do # "none"
      BY <2>2, <2>8
    <3> QED BY <2>3, <2>5, <3>1
  <2>9. n.do = "confirm" => Confirms(n, row', unsaved')
    BY <2>2, <2>4
  <2>10. IsAsk(n)
    BY <2>2
  <2>11. AskOK(n, row', unsaved')
    BY <2>6, <2>7, <2>8, <2>9, <2>10, Zenon DEF AskOK
  <2> QED BY <2>11 DEF n
<1>3. ASSUME NEW g \in Handler, g = h PROVE AskOK(handler'[g], row', unsaved')
  <2>1. handler'[g] = next
    BY <1>3 DEF Accounts!Meet
  <2> QED BY <1>3, <2>1
<1> QED BY <1>1, <1>2, <1>3 DEF AskInv

LEMMA WriteStep ==
  ASSUME AccInv, NEW o \in Object, NEW w \in [Accounts!Column(o) -> Nat],
         NEW ex \in SUBSET RoleCode, Accounts!Write(ex, [row EXCEPT ![o] = w])
  PROVE  /\ exists' = ex
         /\ DOMAIN row' = Object /\ \A x \in Object : row'[x] \in [Accounts!Column(x) -> Nat]
         /\ row'[o] = w /\ \A x \in Object : x # o => row'[x] = row[x]
         /\ DOMAIN past' = Accounts!Key /\ PastInv'
         /\ \A k \in Accounts!Key, t \in Int : \A val :
              t <= accNow /\ Recent(val, t, Truth(k), past[k])
                => Recent(val, t, Truth(k)', past'[k])
<1> DEFINE ro == [row EXCEPT ![o] = w]
<1>1. /\ exists' = ex /\ row' = ro
      /\ past' = [k \in Accounts!Key |->
           IF Accounts!Truth(ex, ro, k) = Truth(k) THEN past[k]
           ELSE past[k] \cup {[val |-> Truth(k), till |-> accNow]}]
  BY DEF Accounts!Write, Truth
<1>2. /\ DOMAIN row = Object /\ \A x \in Object : row[x] \in [Accounts!Column(x) -> Nat]
      /\ accNow \in Nat /\ PastInv
  BY DEF AccInv, AccTypes
<1>3. /\ DOMAIN ro = Object /\ ro[o] = w /\ \A x \in Object : x # o => ro[x] = row[x]
  BY <1>2
<1>4. \A x \in Object : ro[x] \in [Accounts!Column(x) -> Nat]
  BY <1>2, <1>3
<1> HIDE DEF ro
<1>5. \A k \in Accounts!Key : Truth(k)' = Accounts!Truth(ex, ro, k)
  BY <1>1 DEF Truth, Accounts!Truth, Accounts!Profile
<1>6. PastInv' /\ DOMAIN past' = Accounts!Key
  <2> SUFFICES ASSUME NEW k \in Accounts!Key, NEW x \in past'[k] PROVE x.till \in Nat
    BY <1>1 DEF PastInv
  <2>1. x \in past[k] \/ x = [val |-> Truth(k), till |-> accNow]
    BY <1>1
  <2> QED BY <1>2, <2>1 DEF PastInv
<1>7. ASSUME NEW k \in Accounts!Key, NEW t \in Int, NEW val,
             t <= accNow, Recent(val, t, Truth(k), past[k])
      PROVE  Recent(val, t, Truth(k)', past'[k])
  <2> DEFINE n == [val |-> Truth(k), till |-> accNow]
  <2>1. CASE Accounts!Truth(ex, ro, k) = Truth(k)
    <3>1. past'[k] = past[k] /\ Truth(k)' = Truth(k)
      BY <1>1, <1>5, <2>1
    <3> QED BY <1>7, <3>1
  <2>2. CASE Accounts!Truth(ex, ro, k) # Truth(k)
    <3>1. past'[k] = past[k] \cup {n}
      BY <1>1, <2>2
    <3>2. n.val = Truth(k) /\ n.till = accNow
      OBVIOUS
    <3>3. n.till >= t
      BY <1>2, <1>7, <3>2
    <3> HIDE DEF n
    <3> QED BY <1>7, <3>1, <3>2, <3>3 DEF Recent
  <2> QED BY <2>1, <2>2
<1> QED BY <1>1, <1>3, <1>4, <1>6, <1>7

LEMMA AskedStep ==
  ASSUME AccInv, NEW h, NEW o \in Object, NEW v, Accounts!Asked(h, o, v)
  PROVE  /\ DOMAIN meant' = Object /\ \A x \in Object : DOMAIN meant'[x] = Accounts!Column(x)
         /\ \A x \in Object : x # o => meant'[x] = meant[x]
         /\ \A c \in Accounts!Column(o) :
              /\ c \notin DOMAIN v => meant'[o][c] = meant[o][c]
              /\ c \in DOMAIN v => v[c] \in meant'[o][c]
              /\ c \in DOMAIN v /\ h # None => handler[h].met[c] \subseteq meant'[o][c]
<1> DEFINE m == [c \in Accounts!Column(o) |->
                   IF c \notin DOMAIN v THEN meant[o][c]
                   ELSE {v[c]} \cup IF h = None THEN {} ELSE handler[h].met[c]]
<1>1. meant' = [meant EXCEPT ![o] = m]
  BY DEF Accounts!Asked
<1>2. DOMAIN m = Accounts!Column(o)
  OBVIOUS
<1>3. \A c \in Accounts!Column(o) :
        /\ c \notin DOMAIN v => m[c] = meant[o][c]
        /\ c \in DOMAIN v => v[c] \in m[c]
        /\ c \in DOMAIN v /\ h # None => handler[h].met[c] \subseteq m[c]
  OBVIOUS
<1> HIDE DEF m
<1>4. DOMAIN meant = Object /\ \A x \in Object : DOMAIN meant[x] = Accounts!Column(x)
  BY DEF AccInv, AccTypes
<1>5. DOMAIN meant' = Object /\ meant'[o] = m /\ \A x \in Object : x # o => meant'[x] = meant[x]
  BY <1>1, <1>4
<1> QED BY <1>2, <1>3, <1>4, <1>5

\* What is said of the answers, after a step that takes the tasks up that it starts.
LEMMA AnswersStep ==
  ASSUME AccConstants, AccInv, UNCHANGED <<accNow, shown>>,
         \A k \in Accounts!Key, t \in Int : \A val :
           t <= accNow /\ Recent(val, t, Truth(k), past[k])
             => Recent(val, t, Truth(k)', past'[k]),
         \A k \in Accounts!Key : \A s \in sets'[k] :
           \/ s \in sets[k]
           \/ s.at = accNow /\ (s.raced \/ s.val = None \/ s.val = Truth(k)')
  PROVE  TaskInv' /\ ShownInv'
<1>1. accNow \in Nat /\ TaskInv /\ ShownInv /\ AnswerLife \in Nat
  BY DEF AccInv, AccTypes, AccConstants
<1>2. ASSUME NEW k \in Accounts!Key, NEW s \in sets'[k]
      PROVE  /\ s.at \in Nat /\ s.at <= accNow /\ accNow <= s.at + 1
             /\ ~s.raced /\ s.val # None => Recent(s.val, s.at, Truth(k)', past'[k])
  <2>1. CASE s \in sets[k]
    <3>1. /\ s.at \in Nat /\ s.at <= accNow /\ accNow <= s.at + 1
          /\ ~s.raced /\ s.val # None => Recent(s.val, s.at, Truth(k), past[k])
      BY <1>1, <2>1 DEF TaskInv
    <3>2. s.at \in Int
      BY <3>1
    <3> QED BY <3>1, <3>2
  <2>2. CASE s.at = accNow /\ (s.raced \/ s.val = None \/ s.val = Truth(k)')
    BY <1>1, <2>2 DEF Recent
  <2> QED BY <1>2, <2>1, <2>2
<1>3. ASSUME NEW k \in Accounts!Key, shown[k].end > accNow, ~shown[k].raced
      PROVE  Recent(shown[k].val, shown[k].end - AnswerLife - 1, Truth(k)', past'[k])
  <2>1. /\ shown[k].end \in Nat /\ shown[k].end <= accNow + AnswerLife
        /\ Recent(shown[k].val, shown[k].end - AnswerLife - 1, Truth(k), past[k])
    BY <1>1, <1>3 DEF ShownInv
  <2>2. /\ shown[k].end - AnswerLife - 1 \in Int
        /\ shown[k].end - AnswerLife - 1 <= accNow
    BY <1>1, <2>1
  <2> QED BY <2>1, <2>2
<1>4. TaskInv'
  BY <1>2 DEF TaskInv
<1>5. ShownInv'
  BY <1>1, <1>3 DEF ShownInv
<1> QED BY <1>4, <1>5

LEMMA SavedIs ==
  ASSUME AccConstants, AccInv, NEW h \in Handler, handler[h].do # "none"
  PROVE  /\ handler[h].on \in Object
         /\ Accounts!Saved(h) \in [Accounts!Column(handler[h].on) -> Nat]
         /\ \A c \in Accounts!Column(handler[h].on) :
              \/ /\ c \in DOMAIN handler[h].ask /\ handler[h].ask[c] # handler[h].was[c]
                 /\ Accounts!Saved(h)[c] = handler[h].ask[c]
              \/ /\ c \notin DOMAIN handler[h].ask \/ handler[h].ask[c] = handler[h].was[c]
                 /\ Accounts!Saved(h)[c] = row[handler[h].on][c]
<1> DEFINE q == handler[h]
<1>1. /\ q.on \in Object /\ \A c \in DOMAIN q.ask : q.ask[c] \in Nat
      /\ row[q.on] \in [Accounts!Column(q.on) -> Nat]
  BY DEF AccInv, AskInv, AskOK, AccTypes
<1>2. Accounts!Saved(h) = [c \in Accounts!Column(q.on) |->
        IF c \in DOMAIN q.ask /\ q.ask[c] # q.was[c] THEN q.ask[c] ELSE row[q.on][c]]
  BY DEF Accounts!Saved
<1> HIDE DEF q
<1>3. \A c \in Accounts!Column(q.on) :
        /\ Accounts!Saved(h)[c] = IF c \in DOMAIN q.ask /\ q.ask[c] # q.was[c]
                                  THEN q.ask[c] ELSE row[q.on][c]
        /\ Accounts!Saved(h)[c] \in Nat
  BY <1>1, <1>2
<1>4. Accounts!Saved(h) \in [Accounts!Column(q.on) -> Nat]
  BY <1>2, <1>3
<1>5. \A c \in Accounts!Column(q.on) :
        \/ c \in DOMAIN q.ask /\ q.ask[c] # q.was[c] /\ Accounts!Saved(h)[c] = q.ask[c]
        \/ /\ c \notin DOMAIN q.ask \/ q.ask[c] = q.was[c]
           /\ Accounts!Saved(h)[c] = row[q.on][c]
  BY <1>3
<1> QED BY <1>1, <1>4, <1>5 DEF q

Verified(u) == row[u]["is_verified_email"]

LEMMA VerifiedColumn ==
  ASSUME NEW u \in Client
  PROVE  u \in Object /\ "is_verified_email" \in Accounts!Column(u)
BY DEF Object, Accounts!Column, Accounts!UserColumn

LEMMA ConfirmIsSaved ==
  ASSUME AccConstants, AccInv, NEW h \in Handler, handler[h].do # "none",
         handler[h].on \in Client
  PROVE  LET w == Accounts!Saved(h)["is_verified_email"]
             u == handler[h].on
         IN  /\ Verified(u) = 1 => w = 1
             /\ handler[h].do = "confirm" => u \in unsaved \/ w = 1
<1> DEFINE q == handler[h]
           w == Accounts!Saved(h)["is_verified_email"]
<1>1. AskOK(q, row, unsaved)
  BY DEF AccInv, AskInv
<1>2. \/ /\ "is_verified_email" \in DOMAIN q.ask
         /\ q.ask["is_verified_email"] # q.was["is_verified_email"]
         /\ w = q.ask["is_verified_email"]
      \/ /\ \/ "is_verified_email" \notin DOMAIN q.ask
            \/ q.ask["is_verified_email"] = q.was["is_verified_email"]
         /\ w = row[q.on]["is_verified_email"]
  BY SavedIs, VerifiedColumn
<1> HIDE DEF q, w
<1>3. q.do \in {"user", "confirm"} /\ q.on \in Client
  <2>1. q.do # "role"
    BY <1>1 DEF AskOK, AccConstants, q
  <2> QED BY <1>1, <2>1 DEF AskOK, q
<1>4. CASE q.do = "user"
  <2>1. "is_verified_email" \notin DOMAIN q.ask
    BY <1>1, <1>4 DEF AskOK
  <2>2. w = row[q.on]["is_verified_email"]
    BY <1>2, <2>1
  <2> QED BY <1>4, <2>2 DEF Verified, q, w
<1>5. CASE q.do = "confirm"
  <2>1. Confirms(q, row, unsaved)
    BY <1>1, <1>5 DEF AskOK
  <2>2. CASE q.failed
    <3>1. DOMAIN q.ask = {} /\ (q.on \in unsaved \/ row[q.on]["is_verified_email"] = 1)
      BY <2>1, <2>2 DEF Confirms
    <3>2. w = row[q.on]["is_verified_email"]
      BY <1>2, <3>1
    <3> QED BY <3>1, <3>2 DEF Verified, q, w
  <2>3. CASE ~q.failed
    <3>1. /\ q.ask = [c \in {"is_verified_email"} |-> 1]
          /\ q.was["is_verified_email"] = 0
      BY <2>1, <2>3, Zenon DEF Confirms
    <3>2. w = 1
      BY <1>2, <3>1
    <3> QED BY <3>2 DEF w
  <2> QED BY <2>2, <2>3
<1> QED BY <1>3, <1>4, <1>5

\* A request that saves, with what is left of it.
LEMMA SaveRows ==
  ASSUME AccConstants, AccInv, NEW h \in Handler, handler[h].do # "none", NEW next,
         Accounts!Write(exists, [row EXCEPT ![handler[h].on] = Accounts!Saved(h)]),
         Accounts!Asked(h, handler[h].on, handler[h].ask),
         Accounts!Meet(h, handler[h].on, handler[h].ask, next),
         AskOK(next, row', unsaved'), UNCHANGED unsaved,
         \/ told' = told
         \/ told' = told \cup {handler[h].on} /\ handler[h].do = "confirm"
  PROVE  /\ AskInv' /\ told' \subseteq Client /\ Accounts!AsAsked' /\ Accounts!ConfirmedIsSaved'
         /\ DOMAIN handler' = Handler
         /\ DOMAIN meant' = Object /\ \A x \in Object : DOMAIN meant'[x] = Accounts!Column(x)
<1> DEFINE q == handler[h]
           o == handler[h].on
           w == Accounts!Saved(h)
<1>1. o \in Object /\ w \in [Accounts!Column(o) -> Nat] /\ exists \in SUBSET RoleCode
      /\ \A c \in Accounts!Column(o) :
           \/ c \in DOMAIN q.ask /\ q.ask[c] # q.was[c] /\ w[c] = q.ask[c]
           \/ /\ c \notin DOMAIN q.ask \/ q.ask[c] = q.was[c]
              /\ w[c] = row[o][c]
  BY SavedIs DEF AccInv, AccTypes
<1>2. row'[o] = w /\ \A x \in Object : x # o => row'[x] = row[x]
  BY <1>1, WriteStep
<1>3. /\ DOMAIN meant' = Object /\ \A x \in Object : DOMAIN meant'[x] = Accounts!Column(x)
      /\ \A x \in Object : x # o => meant'[x] = meant[x]
      /\ \A c \in Accounts!Column(o) :
           /\ c \notin DOMAIN q.ask => meant'[o][c] = meant[o][c]
           /\ c \in DOMAIN q.ask => q.ask[c] \in meant'[o][c]
           /\ c \in DOMAIN q.ask /\ h # None => q.met[c] \subseteq meant'[o][c]
  BY <1>1, AskedStep
<1>4. h # None
  BY DEF AccConstants
<1>5. o \in Client => /\ Verified(o) = 1 => w["is_verified_email"] = 1
                      /\ q.do = "confirm" => o \in unsaved \/ w["is_verified_email"] = 1
  BY ConfirmIsSaved
<1>6. q.do = "confirm" => o \in Client
  BY DEF AccInv, AskInv, AskOK
<1>7. Followed(q, row)
  BY DEF AccInv, AskInv, AskOK
<1>8. Accounts!Meet(h, o, q.ask, next)
  OBVIOUS
<1> HIDE DEF q, o, w
<1>9. \A x \in Object : \A c \in Accounts!Column(x) :
        row'[x][c] = row[x][c] \/ (x = o /\ c \in DOMAIN q.ask /\ row'[x][c] = q.ask[c])
  BY <1>1, <1>2
<1>10. \A x \in Client : Verified(x) = 1 => row'[x]["is_verified_email"] = 1
  <2> TAKE x \in Client
  <2>1. x \in Object
    BY DEF Object
  <2> QED BY <1>2, <1>5, <2>1 DEF Verified
<1>11. AskInv' /\ DOMAIN handler' = Handler
  BY <1>1, <1>8, <1>9, <1>10, MeetStep DEF AccInv, Verified
<1>12. Accounts!AsAsked'
  <2> SUFFICES ASSUME NEW x \in Object, NEW c \in Accounts!Column(x)
               PROVE  row'[x][c] \in meant'[x][c]
    BY DEF Accounts!AsAsked, Object
  <2>1. row[x][c] \in meant[x][c]
    BY DEF AccInv, Accounts!AsAsked, Object
  <2>2. CASE x # o
    BY <1>2, <1>3, <2>1, <2>2
  <2>3. CASE x = o /\ c \in DOMAIN q.ask /\ q.ask[c] # q.was[c]
    BY <1>1, <1>2, <1>3, <2>3
  <2>4. CASE x = o /\ c \notin DOMAIN q.ask
    BY <1>1, <1>2, <1>3, <2>1, <2>4
  <2>5. CASE x = o /\ c \in DOMAIN q.ask /\ q.ask[c] = q.was[c]
    <3>1. row'[o][c] = row[o][c]
      BY <1>1, <1>2, <2>5
    <3>2. row[o][c] = q.ask[c] \/ row[o][c] \in q.met[c]
      BY <1>7, <2>5 DEF Followed, q, o
    <3> QED BY <1>3, <1>4, <2>5, <3>1, <3>2
  <2> QED BY <2>2, <2>3, <2>4, <2>5
<1>13. told' \subseteq Client
  BY <1>6 DEF AccInv, q, o
<1>14. Accounts!ConfirmedIsSaved'
  <2> SUFFICES ASSUME NEW u \in told', u \notin unsaved PROVE row'[u]["is_verified_email"] = 1
    BY DEF Accounts!ConfirmedIsSaved
  <2>1. CASE u \in told
    BY <1>10, <2>1 DEF AccInv, Accounts!ConfirmedIsSaved, Verified
  <2>2. CASE u = o /\ q.do = "confirm"
    BY <1>2, <1>5, <1>6, <2>2
  <2> QED BY <2>1, <2>2 DEF q, o
<1> QED BY <1>3, <1>11, <1>12, <1>13, <1>14

LEMMA TruthOfRole ==
  ASSUME AccConstants, NEW ex \in SUBSET RoleCode, NEW c \in ex, NEW ro
  PROVE  Accounts!Truth(ex, ro, c) = ro[c]
BY DEF AccConstants, Accounts!Truth

LEMMA TaskAdded ==
  ASSUME AccInv, NEW k \in Accounts!Key, NEW v, NEW raced, Accounts!BackgroundSet(k, v, raced)
  PROVE  /\ DOMAIN sets' = Accounts!Key
         /\ \A j \in Accounts!Key : \A s \in sets'[j] :
              s \in sets[j] \/ (j = k /\ s = [val |-> v, raced |-> raced, at |-> accNow])
<1>1. /\ DOMAIN sets = Accounts!Key
      /\ sets' = [sets EXCEPT ![k] = @ \cup {[val |-> v, raced |-> raced, at |-> accNow]}]
  BY DEF AccInv, AccTypes, Accounts!BackgroundSet, Accounts!Task
<1> DEFINE n == [val |-> v, raced |-> raced, at |-> accNow]
<1>2. sets' = [sets EXCEPT ![k] = @ \cup {n}]
  BY <1>1
<1> HIDE DEF n
<1>3. DOMAIN sets' = Accounts!Key
  BY <1>1, <1>2
<1>4. sets'[k] = sets[k] \cup {n} /\ \A j \in Accounts!Key : j # k => sets'[j] = sets[j]
  BY <1>1, <1>2
<1>5. \A j \in Accounts!Key : \A s \in sets'[j] : s \in sets[j] \/ (j = k /\ s = n)
  BY <1>4
<1> QED BY <1>3, <1>5 DEF n

\* What a step that writes a row has to show besides.
LEMMA RowsAndAnswers ==
  ASSUME AccConstants, AccInv, NEW o \in Object, NEW w \in [Accounts!Column(o) -> Nat],
         NEW ex \in SUBSET RoleCode, Accounts!Write(ex, [row EXCEPT ![o] = w]),
         UNCHANGED <<accNow, shown>>,
         AskInv', told' \subseteq Client, Accounts!AsAsked', Accounts!ConfirmedIsSaved',
         DOMAIN handler' = Handler,
         DOMAIN meant' = Object, \A x \in Object : DOMAIN meant'[x] = Accounts!Column(x),
         DOMAIN sets' = Accounts!Key,
         \A k \in Accounts!Key : \A s \in sets'[k] :
           \/ s \in sets[k]
           \/ s.at = accNow /\ (s.raced \/ s.val = None \/ s.val = Truth(k)')
  PROVE  AccInv'
<1>1. /\ exists' = ex
      /\ DOMAIN row' = Object /\ \A x \in Object : row'[x] \in [Accounts!Column(x) -> Nat]
      /\ DOMAIN past' = Accounts!Key /\ PastInv'
      /\ \A k \in Accounts!Key, t \in Int : \A val :
           t <= accNow /\ Recent(val, t, Truth(k), past[k])
             => Recent(val, t, Truth(k)', past'[k])
  BY WriteStep
<1>2. TaskInv' /\ ShownInv'
  BY <1>1, AnswersStep
<1>3. AccTypes'
  BY <1>1 DEF AccInv, AccTypes
<1> QED BY <1>1, <1>2, <1>3 DEF AccInv

LEMMA RequestSaves ==
  ASSUME AccConstants, AccInv, NEW h \in Handler, Accounts!Save(h)
  PROVE  AccInv'
<1> DEFINE q == handler[h]
           o == handler[h].on
           w == Accounts!Saved(h)
<1>1. /\ q.do # "none" /\ Accounts!MaySave(h)
      /\ Accounts!Write(exists, [row EXCEPT ![o] = w])
      /\ Accounts!Asked(h, o, q.ask)
      /\ Accounts!Meet(h, o, q.ask, Accounts!NoHandler)
      /\ told' = IF q.do = "confirm" THEN told \cup {o} ELSE told
      /\ IF q.do = "role"
         THEN Accounts!BackgroundSet(o, q.ask, \E p \in Right : q.met[p] # {})
         ELSE UNCHANGED sets
      /\ UNCHANGED <<accNow, asks, accFaults, unsaved, shown>>
  BY DEF Accounts!Save
<1>2. /\ o \in Object /\ w \in [Accounts!Column(o) -> Nat] /\ exists \in SUBSET RoleCode
      /\ \A c \in Accounts!Column(o) :
           \/ c \in DOMAIN q.ask /\ q.ask[c] # q.was[c] /\ w[c] = q.ask[c]
           \/ /\ c \notin DOMAIN q.ask \/ q.ask[c] = q.was[c]
              /\ w[c] = row[o][c]
  BY <1>1, SavedIs DEF AccInv, AccTypes
<1>3. AskOK(Accounts!NoHandler, row', unsaved')
  BY NoHandlerOK
<1>4. told' = told \/ (told' = told \cup {o} /\ q.do = "confirm")
  BY <1>1
<1>5. /\ AskInv' /\ told' \subseteq Client /\ Accounts!AsAsked' /\ Accounts!ConfirmedIsSaved'
      /\ DOMAIN handler' = Handler
      /\ DOMAIN meant' = Object /\ \A x \in Object : DOMAIN meant'[x] = Accounts!Column(x)
  <2>1. UNCHANGED unsaved
    BY <1>1
  <2> QED BY <1>1, <1>3, <1>4, <2>1, SaveRows
<1>6. /\ DOMAIN sets' = Accounts!Key
      /\ \A k \in Accounts!Key : \A s \in sets'[k] :
           \/ s \in sets[k]
           \/ s.at = accNow /\ (s.raced \/ s.val = None \/ s.val = Truth(k)')
  <2>1. CASE q.do # "role"
    BY <1>1, <2>1 DEF AccInv, AccTypes
  <2>2. CASE q.do = "role"
    <3> DEFINE raced == \E p \in Right : q.met[p] # {}
    <3>1. /\ o \in RoleCode /\ q.ask \in [Right -> Nat] /\ o \in exists
          /\ o \in Accounts!Key /\ o \notin Client /\ Followed(q, row)
      BY <1>1, <2>2 DEF AccInv, AskInv, AskOK, Accounts!MaySave, Accounts!Key, AccConstants
    <3>2. ASSUME ~raced PROVE q.ask = Accounts!Truth(exists', row', o)
      <4>1. Accounts!Column(o) = Right
        BY <3>1 DEF Accounts!Column
      <4>2. \A c \in Right : w[c] = q.ask[c]
        <5> TAKE c \in Right
        <5>1. CASE q.ask[c] # q.was[c]
          BY <1>2, <3>1, <4>1, <5>1
        <5>2. CASE q.ask[c] = q.was[c]
          <6>1. w[c] = row[o][c]
            BY <1>2, <3>1, <4>1, <5>2
          <6>2. q.met[c] = {}
            BY <3>2
          <6>3. row[o][c] = q.was[c]
            BY <3>1, <5>2, <6>2 DEF Followed
          <6> QED BY <5>2, <6>1, <6>3
        <5> QED BY <5>1, <5>2
      <4>3. w = q.ask
        BY <1>2, <3>1, <4>1, <4>2
      <4>4. row'[o] = w /\ exists' = exists
        BY <1>1, <1>2, WriteStep
      <4>5. Accounts!Truth(exists', row', o) = row'[o]
        BY <1>2, <3>1, <4>4, TruthOfRole
      <4> QED BY <4>3, <4>4, <4>5
    <3>3. Accounts!BackgroundSet(o, q.ask, raced)
      BY <1>1, <2>2
    <3> HIDE DEF q, o, w, raced
    <3>4. /\ DOMAIN sets' = Accounts!Key
          /\ \A k \in Accounts!Key : \A s \in sets'[k] :
               s \in sets[k] \/ (k = o /\ s = [val |-> q.ask, raced |-> raced, at |-> accNow])
      BY <3>1, <3>3, TaskAdded
    <3> QED
      <4> SUFFICES ASSUME NEW k \in Accounts!Key, NEW s \in sets'[k], s \notin sets[k]
                   PROVE  s.at = accNow /\ (s.raced \/ s.val = None \/ s.val = Truth(k)')
        BY <3>4
      <4>1. k = o /\ s.val = q.ask /\ s.raced = raced /\ s.at = accNow
        BY <3>4
      <4>2. CASE raced
        BY <4>1, <4>2
      <4>3. CASE ~raced
        <5>1. Truth(k)' = Accounts!Truth(exists', row', k)
          BY DEF Truth
        <5> QED BY <3>2, <4>1, <4>3, <5>1
      <4> QED BY <4>2, <4>3
  <2> QED BY <2>1, <2>2
<1>7. UNCHANGED <<accNow, shown>>
  BY <1>1
<1> HIDE DEF q, o, w
<1> QED BY <1>1, <1>2, <1>5, <1>6, <1>7, RowsAndAnswers

LEMMA RepeatedOK ==
  ASSUME AccConstants, NEW q, NEW r0, NEW u0, AskOK(q, r0, u0), q.do # "none", NEW ro, NEW un,
         q.do = "confirm" => q.on \in un \/ ro[q.on]["is_verified_email"] = 1
  PROVE  AskOK(Accounts!Repeated(q, ro), ro, un)
<1> DEFINE n == Accounts!Repeated(q, ro)
<1>1. /\ IsAsk(q) /\ q.on \in Object /\ DOMAIN q.ask \subseteq Accounts!Column(q.on)
      /\ DOMAIN q.ask \subseteq DOMAIN q.met /\ \A c \in DOMAIN q.ask : q.ask[c] \in Nat
  BY DEF AskOK
<1>2. /\ q.do = "role" => q.on \in RoleCode /\ q.ask \in [Right -> Nat]
      /\ q.do \in {"user", "confirm"} => q.on \in Client
      /\ q.do = "user" => "is_verified_email" \notin DOMAIN q.ask
      /\ q.do \in {"user", "confirm", "role"}
  BY DEF AskOK
<1> DEFINE e == IF q.do = "confirm" THEN [c \in {} |-> 0] ELSE q.ask
           w == IF q.do = "role" THEN ro[q.on] ELSE [c \in Accounts!UserColumn |-> None]
<1>3. n = [q EXCEPT !.failed = TRUE, !.ask = e, !.was = w]
  BY DEF Accounts!Repeated
<1> HIDE DEF n, e, w
<1>4. /\ IsAsk(n) /\ n.do = q.do /\ n.on = q.on /\ n.met = q.met /\ n.failed = TRUE
      /\ n.ask = e /\ n.was = w
  BY <1>1, <1>3 DEF IsAsk
<1>5. CASE q.do = "role"
  <2>1. n.ask = q.ask /\ n.was = ro[q.on]
    BY <1>4, <1>5 DEF e, w
  <2>2. Followed(n, ro)
    BY <1>4, <2>1 DEF Followed
  <2>3. n.do # "confirm" /\ n.do # "user" /\ n.do = "role"
    BY <1>4, <1>5
  <2> QED BY <1>1, <1>2, <1>4, <1>5, <2>1, <2>2, <2>3 DEF AskOK, n
<1>6. CASE q.do = "user"
  <2>1. n.ask = q.ask /\ n.was = [c \in Accounts!UserColumn |-> None]
    BY <1>4, <1>6 DEF e, w
  <2>2. Accounts!Column(q.on) = Accounts!UserColumn
    BY <1>2, <1>6 DEF Accounts!Column
  <2>3. Followed(n, ro)
    <3> SUFFICES ASSUME NEW c \in DOMAIN n.ask, n.ask[c] = n.was[c] PROVE FALSE
      BY DEF Followed
    <3>1. c \in Accounts!UserColumn /\ n.ask[c] \in Nat
      BY <1>1, <2>1, <2>2
    <3>2. n.was[c] = None
      BY <2>1, <3>1
    <3> QED BY <3>1, <3>2 DEF AccConstants
  <2>4. n.do # "confirm" /\ n.do # "role" /\ n.do = "user"
    BY <1>4, <1>6
  <2> QED BY <1>1, <1>2, <1>4, <1>6, <2>1, <2>3, <2>4 DEF AskOK, n
<1>7. CASE q.do = "confirm"
  <2>1. n.ask = [c \in {} |-> 0]
    BY <1>4, <1>7 DEF e
  <2>2. DOMAIN n.ask = {}
    BY <2>1
  <2>3. Followed(n, ro)
    BY <2>2 DEF Followed
  <2>4. Confirms(n, ro, un)
    BY <1>4, <1>7, <2>2 DEF Confirms
  <2>5. n.do # "user" /\ n.do # "role" /\ n.do = "confirm"
    BY <1>4, <1>7
  <2> QED BY <1>1, <1>2, <1>4, <1>7, <2>2, <2>3, <2>4, <2>5 DEF AskOK, n
<1> QED BY <1>2, <1>5, <1>6, <1>7

LEMMA SaveLostStep ==
  ASSUME AccConstants, AccInv, NEW h \in Handler, Accounts!SaveLost(h)
  PROVE  AccInv'
<1> DEFINE q == handler[h]
           o == handler[h].on
           w == Accounts!Saved(h)
           ro == [row EXCEPT ![o] = w]
<1>1. /\ q.do # "none" /\ Accounts!Write(exists, ro) /\ Accounts!Asked(h, o, q.ask)
      /\ Accounts!Meet(h, o, q.ask, Accounts!Repeated(q, ro))
      /\ UNCHANGED <<accNow, told, unsaved, shown, sets>>
  BY DEF Accounts!SaveLost
<1>2. /\ o \in Object /\ w \in [Accounts!Column(o) -> Nat] /\ exists \in SUBSET RoleCode
  BY <1>1, SavedIs DEF AccInv, AccTypes
<1>3. row' = ro /\ row'[o] = w
  BY <1>1, <1>2, WriteStep DEF Accounts!Write
<1>4. AskOK(q, row, unsaved)
  BY DEF AccInv, AskInv
<1>5. ASSUME q.do = "confirm" PROVE o \in unsaved' \/ row'[o]["is_verified_email"] = 1
  <2>1. o \in Client
    BY <1>4, <1>5 DEF AskOK
  <2> QED BY <1>1, <1>3, <1>5, <2>1, ConfirmIsSaved
<1>6. AskOK(Accounts!Repeated(q, ro), row', unsaved')
  <2>1. AskOK(Accounts!Repeated(q, row'), row', unsaved')
    <3> HIDE DEF q
    <3>1. q.on = o
      BY DEF q
    <3> HIDE DEF o
    <3> QED BY <1>1, <1>4, <1>5, <3>1, RepeatedOK
  <2> HIDE DEF ro
  <2> QED BY <1>3, <2>1
<1>7. /\ AskInv' /\ told' \subseteq Client /\ Accounts!AsAsked' /\ Accounts!ConfirmedIsSaved'
      /\ DOMAIN handler' = Handler
      /\ DOMAIN meant' = Object /\ \A x \in Object : DOMAIN meant'[x] = Accounts!Column(x)
  <2>1. UNCHANGED unsaved /\ told' = told
    BY <1>1
  <2>2. Accounts!Write(exists, [row EXCEPT ![handler[h].on] = Accounts!Saved(h)])
    BY <1>1
  <2>3. Accounts!Meet(h, handler[h].on, handler[h].ask, Accounts!Repeated(q, ro))
    BY <1>1
  <2> HIDE DEF ro
  <2> QED BY <1>1, <1>6, <2>1, <2>2, <2>3, SaveRows
<1>8. DOMAIN sets' = Accounts!Key /\ \A k \in Accounts!Key : sets'[k] = sets[k]
  BY <1>1 DEF AccInv, AccTypes
<1>9. UNCHANGED <<accNow, shown>> /\ Accounts!Write(exists, [row EXCEPT ![o] = w])
  BY <1>1
<1> HIDE DEF q, o, w
<1> QED BY <1>2, <1>7, <1>8, <1>9, RowsAndAnswers

-----------------------------------------------------------------------------
(* Steps that write no row.                                                 *)

LEMMA NoRowStep ==
  ASSUME AccConstants, AccInv, UNCHANGED <<accNow, exists, row, meant, past, told, shown>>,
         unsaved \subseteq unsaved', AskInv', DOMAIN handler' = Handler,
         DOMAIN sets' = Accounts!Key,
         \A k \in Accounts!Key : \A s \in sets'[k] :
           s \in sets[k] \/ (s.at = accNow /\ s.val = Truth(k))
  PROVE  AccInv'
<1>1. \A k \in Accounts!Key : Truth(k)' = Truth(k) /\ past'[k] = past[k]
  BY DEF Truth, Accounts!Truth, Accounts!Profile
<1>2. TaskInv' /\ ShownInv'
  <2>1. \A k \in Accounts!Key, t \in Int : \A val :
           t <= accNow /\ Recent(val, t, Truth(k), past[k])
             => Recent(val, t, Truth(k)', past'[k])
    BY <1>1
  <2>2. \A k \in Accounts!Key : \A s \in sets'[k] :
           \/ s \in sets[k]
           \/ s.at = accNow /\ (s.raced \/ s.val = None \/ s.val = Truth(k)')
    BY <1>1
  <2> QED BY <2>1, <2>2, AnswersStep
<1>3. AccTypes' /\ PastInv' /\ told' \subseteq Client
  BY DEF AccInv, AccTypes, PastInv
<1>4. Accounts!AsAsked' /\ Accounts!ConfirmedIsSaved'
  BY DEF AccInv, Accounts!AsAsked, Accounts!ConfirmedIsSaved
<1> QED BY <1>2, <1>3, <1>4 DEF AccInv

LEMMA MeetNobody ==
  ASSUME AccConstants, AccInv, NEW h \in Handler, NEW o \in Object, NEW next,
         Accounts!Meet(h, o, [c \in {} |-> 0], next),
         UNCHANGED <<accNow, exists, row, meant, past, told, shown, sets>>,
         unsaved \subseteq unsaved', AskOK(next, row', unsaved')
  PROVE  AccInv'
<1>1. AskInv' /\ DOMAIN handler' = Handler
  BY MeetStep DEF AccInv
<1>2. DOMAIN sets' = Accounts!Key /\ \A k \in Accounts!Key : sets'[k] = sets[k]
  BY DEF AccInv, AccTypes
<1> QED BY <1>1, <1>2, NoRowStep

LEMMA SaveFailsStep ==
  ASSUME AccConstants, AccInv, NEW h \in Handler, Accounts!SaveFails(h)
  PROVE  AccInv'
<1> DEFINE q == handler[h]
<1>1. /\ q.do # "none"
      /\ Accounts!Meet(h, q.on, [c \in {} |-> 0], Accounts!Repeated(q, row))
      /\ unsaved' = IF q.do = "confirm" THEN unsaved \cup {q.on} ELSE unsaved
      /\ UNCHANGED <<accNow, exists, row, meant, past, told, shown, sets>>
  BY DEF Accounts!SaveFails, Accounts!rowVars
<1>2. AskOK(q, row, unsaved) /\ q.on \in Object
  BY <1>1 DEF AccInv, AskInv, AskOK
<1> HIDE DEF q
<1>3. unsaved \subseteq unsaved' /\ (q.do = "confirm" => q.on \in unsaved')
  BY <1>1
<1>4. AskOK(Accounts!Repeated(q, row), row, unsaved')
  BY <1>1, <1>2, <1>3, RepeatedOK
<1>5. AskOK(Accounts!Repeated(q, row), row', unsaved')
  BY <1>1, <1>4
<1> QED BY <1>1, <1>2, <1>3, <1>5, MeetNobody

LEMMA SaveRefusedStep ==
  ASSUME AccConstants, AccInv, NEW h \in Handler, Accounts!SaveRefused(h)
  PROVE  AccInv'
<1> DEFINE q == handler[h]
           n == IF q.on \in RoleCode \ exists THEN Accounts!NoHandler
                ELSE Accounts!Repeated(q, row)
<1>1. /\ q.do # "none" /\ ~Accounts!MaySave(h)
      /\ Accounts!Meet(h, q.on, [c \in {} |-> 0], n)
      /\ UNCHANGED <<accNow, exists, row, meant, past, told, unsaved, shown, sets>>
  BY DEF Accounts!SaveRefused, Accounts!rowVars
<1>2. AskOK(q, row, unsaved) /\ q.on \in Object
  BY <1>1 DEF AccInv, AskInv, AskOK
<1>3. q.do # "confirm"
  <2> SUFFICES ASSUME q.do = "confirm" PROVE FALSE
    OBVIOUS
  <2>1. Confirms(q, row, unsaved)
    BY <1>2 DEF AskOK
  <2>2. DOMAIN q.ask \subseteq {"is_verified_email"}
    <3>1. CASE q.failed
      BY <2>1, <3>1 DEF Confirms
    <3>2. CASE ~q.failed
      <4>1. q.ask = [c \in {"is_verified_email"} |-> 1]
        BY <2>1, <3>2, Zenon DEF Confirms
      <4> QED BY <4>1
    <3> QED BY <3>1, <3>2
  <2>3. "username" \notin DOMAIN q.ask
    BY <2>2
  <2> QED BY <1>1, <2>3 DEF Accounts!MaySave
<1>4. AskOK(n, row', unsaved')
  <2>1. AskOK(Accounts!NoHandler, row', unsaved')
    BY NoHandlerOK
  <2>2. AskOK(Accounts!Repeated(q, row), row, unsaved)
    <3> HIDE DEF q
    <3> QED BY <1>1, <1>2, <1>3, RepeatedOK
  <2>3. AskOK(Accounts!Repeated(q, row), row', unsaved')
    BY <1>1, <2>2
  <2> QED BY <2>1, <2>3
<1> HIDE DEF q, n
<1>5. unsaved \subseteq unsaved'
  BY <1>1
<1> QED BY <1>1, <1>2, <1>4, <1>5, MeetNobody

LEMMA ReplaceRequest ==
  ASSUME AccConstants, AccInv, NEW h \in Handler, NEW next, AskOK(next, row, unsaved),
         handler' = [handler EXCEPT ![h] = next],
         UNCHANGED <<accNow, exists, row, meant, past, told, unsaved, shown, sets>>
  PROVE  AccInv'
<1>1. DOMAIN handler = Handler /\ AskInv
  BY DEF AccInv, AccTypes
<1>2. DOMAIN handler' = Handler /\ handler'[h] = next
      /\ \A g \in Handler : g # h => handler'[g] = handler[g]
  BY <1>1
<1>3. \A g \in Handler : AskOK(handler'[g], row, unsaved)
  BY <1>1, <1>2 DEF AskInv
<1>4. AskInv'
  BY <1>3 DEF AskInv
<1>5. DOMAIN sets' = Accounts!Key /\ \A k \in Accounts!Key : sets'[k] = sets[k]
  BY DEF AccInv, AccTypes
<1> QED BY <1>2, <1>4, <1>5, NoRowStep

LEMMA GiveUpStep ==
  ASSUME AccConstants, AccInv, NEW h \in Handler, Accounts!GiveUp(h)
  PROVE  AccInv'
<1>1. /\ handler' = [handler EXCEPT ![h] = Accounts!NoHandler]
      /\ UNCHANGED <<accNow, exists, row, meant, past, told, unsaved, shown, sets>>
  BY DEF Accounts!GiveUp, Accounts!rowVars
<1> QED BY <1>1, NoHandlerOK, ReplaceRequest

LEMMA FindOneStep ==
  ASSUME AccConstants, AccInv, NEW h \in Handler, NEW do, NEW o \in Object, NEW ask,
         Accounts!FindOne(h, do, o, ask),
         DOMAIN ask \subseteq Accounts!Column(o), \A c \in DOMAIN ask : ask[c] \in Nat,
         \/ do = "user" /\ o \in Client /\ "is_verified_email" \notin DOMAIN ask
         \/ /\ do = "confirm" /\ o \in Client /\ row[o]["is_verified_email"] = 0
            /\ ask = [c \in {"is_verified_email"} |-> 1]
         \/ do = "role" /\ o \in RoleCode /\ ask \in [Right -> Nat]
  PROVE  AccInv'
<1> DEFINE n == [do |-> do, on |-> o, ask |-> ask, was |-> row[o],
                 met |-> [c \in DOMAIN ask |-> {}], failed |-> FALSE, at |-> accNow]
<1>1. /\ handler' = [handler EXCEPT ![h] = n]
      /\ UNCHANGED <<accNow, exists, row, meant, past, told, unsaved, shown, sets>>
  BY DEF Accounts!FindOne, Accounts!rowVars
<1>2. /\ IsAsk(n) /\ n.do = do /\ n.on = o /\ n.ask = ask /\ n.was = row[o]
      /\ n.failed = FALSE /\ DOMAIN n.met = DOMAIN ask
  BY DEF IsAsk
<1> HIDE DEF n
<1>3. Followed(n, row)
  BY <1>2 DEF Followed
<1>4. do = "confirm" => Confirms(n, row, unsaved)
  <2> SUFFICES ASSUME do = "confirm" PROVE Confirms(n, row, unsaved)
    OBVIOUS
  <2>1. ask = [c \in {"is_verified_email"} |-> 1] /\ row[o]["is_verified_email"] = 0
    OBVIOUS
  <2>2. /\ n.ask = [c \in {"is_verified_email"} |-> 1]
        /\ n.was["is_verified_email"] = 0 /\ ~n.failed
    BY <1>2, <2>1
  <2> QED BY <2>2, Zenon DEF Confirms
<1>5. AskOK(n, row, unsaved)
  <2>1. do \in {"user", "confirm", "role"}
    OBVIOUS
  <2>2. /\ n.on \in Object
        /\ DOMAIN n.ask \subseteq Accounts!Column(n.on) /\ DOMAIN n.ask \subseteq DOMAIN n.met
        /\ \A c \in DOMAIN n.ask : n.ask[c] \in Nat
    BY <1>2
  <2>3. n.do = "role" => n.on \in RoleCode /\ n.ask \in [Right -> Nat]
    BY <1>2
  <2>4. /\ n.do \in {"user", "confirm"} => n.on \in Client
        /\ n.do = "user" => "is_verified_email" \notin DOMAIN n.ask
    BY <1>2
  <2> QED BY <1>2, <1>3, <1>4, <2>1, <2>2, <2>3, <2>4 DEF AskOK
<1> QED BY <1>1, <1>5, ReplaceRequest

LEMMA UserAsks ==
  ASSUME AccConstants, AccInv, NEW h \in Handler, NEW u \in Client, NEW n \in {1, 2},
         \/ Accounts!ChangeUsername(h, u, n) \/ Accounts!ChangePassword(h, u, n)
         \/ Accounts!AssignRole(h, u, n)
  PROVE  AccInv'
<1>1. u \in Object /\ Accounts!Column(u) = Accounts!UserColumn
  BY DEF Object, Accounts!Column
<1>2. ASSUME NEW c \in {"username", "password", "role_code"},
             Accounts!FindOne(h, "user", u, [x \in {c} |-> n])
      PROVE  AccInv'
  <2> DEFINE ask == [x \in {c} |-> n]
  <2>1. /\ DOMAIN ask \subseteq Accounts!Column(u) /\ \A x \in DOMAIN ask : ask[x] \in Nat
        /\ "is_verified_email" \notin DOMAIN ask
    BY <1>1 DEF Accounts!UserColumn
  <2>2. Accounts!FindOne(h, "user", u, ask)
    BY <1>2
  <2> HIDE DEF ask
  <2> QED BY <1>1, <2>1, <2>2, FindOneStep
<1>3. CASE Accounts!ChangeUsername(h, u, n)
  BY <1>2, <1>3 DEF Accounts!ChangeUsername
<1>4. CASE Accounts!ChangePassword(h, u, n)
  BY <1>2, <1>4 DEF Accounts!ChangePassword
<1>5. CASE Accounts!AssignRole(h, u, n)
  BY <1>2, <1>5 DEF Accounts!AssignRole
<1> QED BY <1>3, <1>4, <1>5

LEMMA ConfirmEmailStep ==
  ASSUME AccConstants, AccInv, NEW h \in Handler, NEW u \in Client,
         Accounts!ConfirmEmail(h, u)
  PROVE  AccInv'
<1> DEFINE ask == [c \in {"is_verified_email"} |-> 1]
<1>1. Accounts!FindOne(h, "confirm", u, ask) /\ row[u]["is_verified_email"] = 0
  BY DEF Accounts!ConfirmEmail
<1>2. /\ DOMAIN ask \subseteq Accounts!Column(u) /\ \A x \in DOMAIN ask : ask[x] \in Nat
      /\ u \in Object
  BY DEF Object, Accounts!Column, Accounts!UserColumn
<1>3. ask = [c \in {"is_verified_email"} |-> 1]
  OBVIOUS
<1> HIDE DEF ask
<1> QED BY <1>1, <1>2, <1>3, FindOneStep

LEMMA HoldsType ==
  ASSUME NEW P
  PROVE  Accounts!Holds(P) \in [Right -> Nat] /\ DOMAIN Accounts!Holds(P) = Right
BY DEF Accounts!Holds

LEMMA RoleColumn ==
  ASSUME AccConstants, NEW c \in RoleCode
  PROVE  c \in Object /\ Accounts!Column(c) = Right /\ c \in Accounts!Key /\ c \notin Client
BY DEF AccConstants, Object, Accounts!Column, Accounts!Key

LEMMA AskPermissions ==
  ASSUME AccConstants, AccInv, NEW h \in Handler, NEW c \in RoleCode, NEW P,
         Accounts!BeginUpdate(h, c, P)
  PROVE  AccInv'
<1> DEFINE ask == Accounts!Holds(P)
<1>1. Accounts!FindOne(h, "role", c, ask)
  BY DEF Accounts!BeginUpdate
<1>2. ask \in [Right -> Nat] /\ DOMAIN ask = Right
  BY HoldsType
<1>3. c \in Object /\ Accounts!Column(c) = Right
  BY RoleColumn
<1> HIDE DEF ask
<1>4. DOMAIN ask \subseteq Accounts!Column(c) /\ \A x \in DOMAIN ask : ask[x] \in Nat
  BY <1>2, <1>3
<1> QED BY <1>1, <1>2, <1>3, <1>4, FindOneStep

-----------------------------------------------------------------------------
(* Answers and their tasks.                                                 *)

LEMMA LookStep ==
  ASSUME AccConstants, AccInv, NEW k \in Accounts!Key, Accounts!Look(k)
  PROVE  AccInv'
<1>1. /\ Accounts!BackgroundSet(k, Truth(k), FALSE)
      /\ UNCHANGED <<accNow, exists, row, meant, past, handler, told, unsaved, shown>>
  BY DEF Accounts!Look, Accounts!rowVars, Truth
<1>2. /\ DOMAIN sets' = Accounts!Key
      /\ \A j \in Accounts!Key : \A s \in sets'[j] :
           s \in sets[j] \/ (j = k /\ s = [val |-> Truth(k), raced |-> FALSE, at |-> accNow])
  BY <1>1, TaskAdded
<1>3. \A j \in Accounts!Key : \A s \in sets'[j] :
        s \in sets[j] \/ (s.at = accNow /\ s.val = Truth(j))
  BY <1>2
<1>4. AskInv' /\ DOMAIN handler' = Handler
  BY <1>1 DEF AccInv, AskInv, AccTypes
<1>5. unsaved \subseteq unsaved'
  BY <1>1
<1> QED BY <1>1, <1>2, <1>3, <1>4, <1>5, NoRowStep

LEMMA RunStep ==
  ASSUME AccConstants, AccInv, NEW k \in Accounts!Key, NEW s \in sets[k],
         Accounts!RunSet(k, s) \/ Accounts!SetFails(k, s)
  PROVE  AccInv'
<1>1. /\ \/ shown' = [shown EXCEPT ![k] = Accounts!Answer(s)]
         \/ shown' = shown
         \/ shown' = [shown EXCEPT ![k] = Accounts!NotShown]
      /\ sets' = [sets EXCEPT ![k] = @ \ {s}]
      /\ UNCHANGED <<accNow, exists, row, meant, past, handler, told, unsaved>>
  BY DEF Accounts!RunSet, Accounts!SetFails, Accounts!Run, Accounts!rowVars
<1>2. /\ AccTypes /\ AskInv /\ TaskInv /\ ShownInv /\ PastInv /\ accNow \in Nat
      /\ AnswerLife \in Nat
  BY DEF AccInv, AccTypes, AccConstants
<1>3. /\ DOMAIN sets' = Accounts!Key
      /\ \A j \in Accounts!Key : sets'[j] \subseteq sets[j]
  BY <1>1, <1>2 DEF AccTypes
<1>4. \A j \in Accounts!Key : Truth(j)' = Truth(j) /\ past'[j] = past[j]
  BY <1>1 DEF Truth, Accounts!Truth, Accounts!Profile
<1>5. TaskInv'
  BY <1>1, <1>2, <1>3, <1>4 DEF TaskInv
<1>6. /\ DOMAIN shown' = Accounts!Key /\ \A j \in Accounts!Key : j # k => shown'[j] = shown[j]
      /\ \/ shown'[k] = shown[k] \/ shown'[k] = Accounts!NotShown
         \/ /\ shown'[k] = [val |-> s.val, raced |-> s.raced, end |-> accNow + AnswerLife]
            /\ s.val # None
  BY <1>1, <1>2 DEF AccTypes, Accounts!Answer
<1>7. ASSUME NEW j \in Accounts!Key
      PROVE  /\ shown'[j].end \in Nat /\ shown'[j].end <= accNow + AnswerLife
             /\ shown'[j].end > accNow /\ ~shown'[j].raced =>
                  Recent(shown'[j].val, shown'[j].end - AnswerLife - 1, Truth(j), past[j])
  <2>1. CASE shown'[j] = shown[j]
    BY <1>2, <2>1 DEF ShownInv
  <2>2. CASE j = k /\ shown'[k] = Accounts!NotShown
    BY <1>2, <2>2 DEF Accounts!NotShown
  <2>3. CASE /\ j = k /\ s.val # None
             /\ shown'[k] = [val |-> s.val, raced |-> s.raced, end |-> accNow + AnswerLife]
    <3>1. /\ shown'[k].val = s.val /\ shown'[k].end = accNow + AnswerLife
          /\ shown'[k].raced = s.raced
      BY <2>3
    <3>2. /\ s.at \in Nat /\ accNow <= s.at + 1
          /\ ~s.raced => Recent(s.val, s.at, Truth(k), past[k])
      BY <1>2, <2>3 DEF TaskInv
    <3>3. ASSUME ~s.raced PROVE Recent(s.val, accNow + AnswerLife - AnswerLife - 1, Truth(k), past[k])
      <4>1. \A x \in past[k] : x.till \in Nat
        BY <1>2 DEF PastInv
      <4>2. accNow + AnswerLife - AnswerLife - 1 <= s.at
            /\ accNow + AnswerLife - AnswerLife - 1 \in Int
        BY <1>2, <3>2
      <4>3. Recent(s.val, s.at, Truth(k), past[k])
        BY <3>2, <3>3
      <4> QED BY <3>2, <4>1, <4>2, <4>3 DEF Recent
    <3>4. accNow + AnswerLife \in Nat
      BY <1>2
    <3>5. ASSUME ~shown'[k].raced
          PROVE  Recent(shown'[k].val, shown'[k].end - AnswerLife - 1, Truth(k), past[k])
      <4>1. ~s.raced
        BY <3>1, <3>5
      <4>2. Recent(s.val, accNow + AnswerLife - AnswerLife - 1, Truth(k), past[k])
        BY <3>3, <4>1
      <4>3. shown'[k].end - AnswerLife - 1 = accNow + AnswerLife - AnswerLife - 1
        <5>1. shown'[k].end = accNow + AnswerLife
          BY <2>3
        <5> QED BY <1>2, <5>1
      <4>4. shown'[k].val = s.val
        BY <3>1
      <4> QED BY <4>2, <4>3, <4>4 DEF Recent
    <3> QED BY <1>2, <2>3, <3>1, <3>4, <3>5
  <2> QED BY <1>6, <2>1, <2>2, <2>3
<1>8. ShownInv'
  BY <1>1, <1>4, <1>7 DEF ShownInv
<1>9. AccTypes' /\ AskInv' /\ PastInv'
  BY <1>1, <1>2, <1>3, <1>6 DEF AccTypes, AskInv, PastInv
<1>10. Accounts!AsAsked' /\ Accounts!ConfirmedIsSaved' /\ told' \subseteq Client
  BY <1>1 DEF AccInv, Accounts!AsAsked, Accounts!ConfirmedIsSaved
<1> QED BY <1>5, <1>8, <1>9, <1>10 DEF AccInv

-----------------------------------------------------------------------------
(* Roles that are created and deleted, and the clock.                       *)

LEMMA ChangeStep ==
  ASSUME AccConstants, AccInv, NEW c \in RoleCode, NEW ex \in SUBSET RoleCode,
         NEW v \in [Right -> Nat], Accounts!Change(c, ex, v), DOMAIN sets' = Accounts!Key,
         \A k \in Accounts!Key : \A s \in sets'[k] :
           \/ s \in sets[k]
           \/ s.at = accNow /\ (s.val = None \/ s.val = Truth(k)')
  PROVE  AccInv'
<1>1. /\ Accounts!Write(ex, [row EXCEPT ![c] = v]) /\ Accounts!Asked(None, c, v)
      /\ Accounts!Meet(None, c, v, Accounts!NoHandler)
      /\ UNCHANGED <<accNow, told, unsaved, shown>>
  BY DEF Accounts!Change
<1>2. /\ c \in Object /\ Accounts!Column(c) = Right /\ c \notin Client /\ DOMAIN v = Right
      /\ v \in [Accounts!Column(c) -> Nat]
  BY RoleColumn
<1>3. row'[c] = v /\ \A x \in Object : x # c => row'[x] = row[x]
  BY <1>1, <1>2, WriteStep
<1>4. /\ DOMAIN meant' = Object /\ \A x \in Object : DOMAIN meant'[x] = Accounts!Column(x)
      /\ \A x \in Object : x # c => meant'[x] = meant[x]
      /\ \A p \in Right : v[p] \in meant'[c][p]
  BY <1>1, <1>2, AskedStep
<1>5. \A x \in Object : \A p \in Accounts!Column(x) :
        row'[x][p] = row[x][p] \/ (x = c /\ p \in DOMAIN v /\ row'[x][p] = v[p])
  BY <1>2, <1>3
<1>6. \A x \in Client : x \in Object /\ row'[x] = row[x]
  BY <1>2, <1>3 DEF Object
<1>7. AskInv' /\ DOMAIN handler' = Handler
  <2>1. None \notin Handler /\ unsaved \subseteq unsaved'
    BY <1>1 DEF AccConstants
  <2>2. \A x \in Client :
          row[x]["is_verified_email"] = 1 => row'[x]["is_verified_email"] = 1
    BY <1>6
  <2> QED BY <1>1, <1>2, <1>5, <2>1, <2>2, MeetStep DEF AccInv
<1>8. Accounts!AsAsked'
  <2> SUFFICES ASSUME NEW x \in Object, NEW p \in Accounts!Column(x)
               PROVE  row'[x][p] \in meant'[x][p]
    BY DEF Accounts!AsAsked, Object
  <2>1. CASE x = c
    BY <1>2, <1>3, <1>4, <2>1
  <2>2. CASE x # c
    BY <1>3, <1>4, <2>2 DEF AccInv, Accounts!AsAsked, Object
  <2> QED BY <2>1, <2>2
<1>9. told' \subseteq Client /\ Accounts!ConfirmedIsSaved'
  BY <1>1, <1>6 DEF AccInv, Accounts!ConfirmedIsSaved
<1>10. \A k \in Accounts!Key : \A s \in sets'[k] :
         \/ s \in sets[k]
         \/ s.at = accNow /\ (s.raced \/ s.val = None \/ s.val = Truth(k)')
  OBVIOUS
<1>11. UNCHANGED <<accNow, shown>>
  BY <1>1
<1> QED BY <1>1, <1>2, <1>4, <1>7, <1>8, <1>9, <1>10, <1>11, RowsAndAnswers

LEMMA AccCreateRole ==
  ASSUME AccConstants, AccInv, NEW c \in RoleCode, NEW P, Accounts!CreateRole(c, P)
  PROVE  AccInv'
<1> DEFINE v == Accounts!Holds(P)
           ex == exists \cup {c}
<1>1. Accounts!Change(c, ex, v) /\ Accounts!BackgroundSet(c, v, FALSE)
  BY DEF Accounts!CreateRole
<1>2. v \in [Right -> Nat]
  BY HoldsType
<1>3. ex \in SUBSET RoleCode /\ c \in ex
  BY DEF AccInv, AccTypes
<1>4. c \in Object /\ Accounts!Column(c) = Right /\ c \in Accounts!Key
  BY RoleColumn
<1> HIDE DEF v, ex
<1>5. Accounts!Write(ex, [row EXCEPT ![c] = v])
  BY <1>1 DEF Accounts!Change
<1>6. exists' = ex /\ row'[c] = v
  BY <1>2, <1>3, <1>4, <1>5, WriteStep
<1>7. Truth(c)' = v
  <2>1. Accounts!Truth(exists', row', c) = row'[c]
    BY <1>3, <1>6, TruthOfRole
  <2>2. Truth(c)' = Accounts!Truth(exists', row', c)
    BY DEF Truth
  <2> QED BY <1>6, <2>1, <2>2
<1>8. /\ DOMAIN sets' = Accounts!Key
      /\ \A j \in Accounts!Key : \A s \in sets'[j] :
           s \in sets[j] \/ (j = c /\ s = [val |-> v, raced |-> FALSE, at |-> accNow])
  BY <1>1, <1>4, TaskAdded
<1>9. \A j \in Accounts!Key : \A s \in sets'[j] :
        \/ s \in sets[j]
        \/ s.at = accNow /\ (s.val = None \/ s.val = Truth(j)')
  <2> SUFFICES ASSUME NEW j \in Accounts!Key, NEW s \in sets'[j], s \notin sets[j]
               PROVE  s.at = accNow /\ s.val = Truth(j)'
    OBVIOUS
  <2>1. j = c /\ s.at = accNow /\ s.val = v
    BY <1>8
  <2> QED BY <1>7, <2>1
<1> QED BY <1>1, <1>2, <1>3, <1>8, <1>9, ChangeStep

LEMMA AccDestroyRole ==
  ASSUME AccConstants, AccInv, NEW c \in RoleCode, Accounts!DestroyRole(c)
  PROVE  AccInv'
<1> DEFINE n == [val |-> None, raced |-> FALSE, at |-> accNow]
<1>1. /\ Accounts!Change(c, exists \ {c}, Accounts!NoRole)
      /\ sets' = [sets EXCEPT ![c] = @ \cup {n}, !["role:all"] = @ \cup {n}]
  BY DEF Accounts!DestroyRole, Accounts!Task
<1>2. n.val = None /\ n.at = accNow
  OBVIOUS
<1> HIDE DEF n
<1>3. DOMAIN sets = Accounts!Key /\ (exists \ {c}) \in SUBSET RoleCode
  BY DEF AccInv, AccTypes
<1>4. Accounts!NoRole \in [Right -> Nat]
  BY DEF Accounts!NoRole
<1>5. DOMAIN sets' = Accounts!Key
  BY <1>1, <1>3
<1>6. \A j \in Accounts!Key : sets'[j] \subseteq sets[j] \cup {n}
  BY <1>1, <1>3
<1>7. \A j \in Accounts!Key : \A s \in sets'[j] :
        \/ s \in sets[j]
        \/ s.at = accNow /\ (s.val = None \/ s.val = Truth(j)')
  BY <1>2, <1>6
<1> QED BY <1>1, <1>3, <1>4, <1>5, <1>7, ChangeStep

LEMMA AccTickStep ==
  ASSUME AccConstants, AccInv, Accounts!AccTick
  PROVE  AccInv'
<1>1. /\ accNow' = accNow + 1
      /\ \A k \in Accounts!Key : \A s \in sets[k] : s.at = accNow
      /\ shown' = [k \in Accounts!Key |->
                     IF shown[k].end > accNow' THEN shown[k] ELSE Accounts!NotShown]
      /\ past' = [k \in Accounts!Key |-> {x \in past[k] : x.till + AnswerLife >= accNow'}]
      /\ UNCHANGED <<exists, row, meant, handler, told, unsaved, sets>>
  BY DEF Accounts!AccTick
<1>2. /\ AccTypes /\ AskInv /\ TaskInv /\ ShownInv /\ PastInv /\ accNow \in Nat
      /\ AnswerLife \in Nat /\ AnswerLife >= 1
  BY DEF AccInv, AccTypes, AccConstants
<1>3. accNow' \in Nat /\ accNow' = accNow + 1
  BY <1>1, <1>2
<1>4. \A k \in Accounts!Key : Truth(k)' = Truth(k)
  BY <1>1 DEF Truth, Accounts!Truth, Accounts!Profile
<1>5. \A k \in Accounts!Key :
        past'[k] \subseteq past[k]
        /\ \A x \in past[k] : x.till + AnswerLife >= accNow + 1 => x \in past'[k]
  BY <1>1
<1>6. PastInv'
  BY <1>2, <1>5 DEF PastInv
\* What is behind the new time by less than a life stays in the past.
<1>7. ASSUME NEW k \in Accounts!Key, NEW t \in Int, NEW val, t + AnswerLife >= accNow + 1,
             Recent(val, t, Truth(k), past[k])
      PROVE  Recent(val, t, Truth(k)', past'[k])
  <2>1. CASE val = Truth(k)
    BY <1>4, <2>1 DEF Recent
  <2>2. CASE \E x \in past[k] : x.val = val /\ x.till >= t
    <3>1. PICK x \in past[k] : x.val = val /\ x.till >= t
      BY <2>2
    <3>2. x.till \in Nat
      BY <1>2 DEF PastInv
    <3>3. x.till + AnswerLife >= accNow + 1
      BY <1>2, <1>7, <3>1, <3>2
    <3>4. x \in past'[k]
      BY <1>5, <3>3
    <3> QED BY <3>1, <3>4 DEF Recent
  <2> QED BY <1>7, <2>1, <2>2 DEF Recent
<1>8. TaskInv'
  <2> SUFFICES ASSUME NEW k \in Accounts!Key, NEW s \in sets[k]
               PROVE  /\ s.at \in Nat /\ s.at <= accNow' /\ accNow' <= s.at + 1
                      /\ ~s.raced /\ s.val # None =>
                           Recent(s.val, s.at, Truth(k)', past'[k])
    BY <1>1 DEF TaskInv
  <2>1. s.at = accNow /\ s.at \in Nat /\ s.at \in Int
    BY <1>1, <1>2
  <2>2. ASSUME ~s.raced, s.val # None PROVE Recent(s.val, s.at, Truth(k)', past'[k])
    <3>1. Recent(s.val, s.at, Truth(k), past[k])
      BY <1>2, <2>2 DEF TaskInv
    <3>2. s.at + AnswerLife >= accNow + 1
      BY <1>2, <2>1
    <3> QED BY <1>7, <2>1, <3>1, <3>2
  <2> QED BY <1>2, <1>3, <2>1, <2>2
<1>9. ShownInv'
  <2> SUFFICES ASSUME NEW k \in Accounts!Key
               PROVE  /\ shown'[k].end \in Nat /\ shown'[k].end <= accNow' + AnswerLife
                      /\ shown'[k].end > accNow' /\ ~shown'[k].raced =>
                           Recent(shown'[k].val, shown'[k].end - AnswerLife - 1, Truth(k)', past'[k])
    BY DEF ShownInv
  <2>1. CASE shown[k].end > accNow'
    <3>1. shown'[k] = shown[k]
      BY <1>1, <2>1
    <3>2. /\ shown[k].end \in Nat /\ shown[k].end <= accNow + AnswerLife
          /\ shown[k].end > accNow /\ ~shown[k].raced =>
               Recent(shown[k].val, shown[k].end - AnswerLife - 1, Truth(k), past[k])
      BY <1>2 DEF ShownInv
    <3>3. /\ shown[k].end - AnswerLife - 1 \in Int
          /\ shown[k].end - AnswerLife - 1 + AnswerLife >= accNow + 1
          /\ shown[k].end > accNow
      BY <1>2, <1>3, <2>1, <3>2
    <3>4. ASSUME ~shown[k].raced
          PROVE  Recent(shown[k].val, shown[k].end - AnswerLife - 1, Truth(k)', past'[k])
      BY <1>7, <3>2, <3>3, <3>4
    <3>5. shown[k].end <= accNow' + AnswerLife
      BY <1>2, <1>3, <3>2
    <3> QED BY <3>1, <3>2, <3>4, <3>5
  <2>2. CASE ~(shown[k].end > accNow')
    <3>1. shown'[k] = Accounts!NotShown
      BY <1>1, <2>2
    <3>2. shown'[k].end = 0
      BY <3>1 DEF Accounts!NotShown
    <3> QED BY <1>2, <1>3, <3>2
  <2> QED BY <2>1, <2>2
<1>10. AccTypes'
  BY <1>1, <1>2, <1>3 DEF AccTypes
<1>11. AskInv'
  BY <1>1, <1>2 DEF AskInv
<1>12. Accounts!AsAsked' /\ Accounts!ConfirmedIsSaved' /\ told' \subseteq Client
  BY <1>1 DEF AccInv, Accounts!AsAsked, Accounts!ConfirmedIsSaved
<1> QED BY <1>6, <1>8, <1>9, <1>10, <1>11, <1>12 DEF AccInv

LEMMA AccStep ==
  ASSUME AccConstants, AccInv, [Accounts!Next]_ofAccounts
  PROVE  AccInv'
<1>1. ASSUME NEW k \in Accounts!Key, NEW s \in sets[k],
             Accounts!RunSet(k, s) \/ Accounts!SetFails(k, s)
      PROVE  AccInv'
  BY <1>1, RunStep
<1>2. ASSUME NEW u \in Client, Accounts!FetchUserProfile(u) PROVE AccInv'
  BY <1>2, LookStep DEF Accounts!FetchUserProfile, Accounts!Key
<1>3. ASSUME NEW c \in RoleCode, Accounts!GetRole(c) \/ Accounts!DestroyRole(c) PROVE AccInv'
  BY <1>3, LookStep, AccDestroyRole DEF Accounts!GetRole, Accounts!Key
<1>4. ASSUME Accounts!GetRoles PROVE AccInv'
  BY <1>4, LookStep DEF Accounts!GetRoles, Accounts!Key
<1>5. ASSUME NEW h \in Handler, NEW u \in Client, NEW n \in {1, 2},
             \/ Accounts!ChangeUsername(h, u, n) \/ Accounts!ChangePassword(h, u, n)
             \/ Accounts!AssignRole(h, u, n)
      PROVE  AccInv'
  BY <1>5, UserAsks
<1>6. ASSUME NEW h \in Handler, NEW u \in Client, Accounts!ConfirmEmail(h, u) PROVE AccInv'
  BY <1>6, ConfirmEmailStep
<1>7. ASSUME NEW c \in RoleCode, NEW P \in (SUBSET Right) \ {{}},
             Accounts!CreateRole(c, P) \/ \E h \in Handler : Accounts!BeginUpdate(h, c, P)
      PROVE  AccInv'
  BY <1>7, AccCreateRole, AskPermissions
<1>8. ASSUME NEW h \in Handler,
             \/ Accounts!Save(h) \/ Accounts!SaveFails(h) \/ Accounts!SaveLost(h)
             \/ Accounts!SaveRefused(h) \/ Accounts!GiveUp(h)
      PROVE  AccInv'
  BY <1>8, RequestSaves, SaveFailsStep, SaveLostStep, SaveRefusedStep, GiveUpStep
<1>9. CASE Accounts!AccTick
  BY <1>9, AccTickStep
<1>10. CASE UNCHANGED ofAccounts
  <2>1. /\ UNCHANGED <<accNow, exists, row, meant, past, handler, told, unsaved, shown, sets>>
        /\ AskInv' /\ DOMAIN handler' = Handler /\ DOMAIN sets' = Accounts!Key
        /\ \A k \in Accounts!Key : sets'[k] = sets[k]
    BY <1>10 DEF ofAccounts, AccInv, AccTypes, AskInv
  <2>2. unsaved \subseteq unsaved'
    BY <2>1
  <2> QED BY <2>1, <2>2, NoRowStep
<1> QED BY <1>1, <1>2, <1>3, <1>4, <1>5, <1>6, <1>7, <1>8, <1>9, <1>10 DEF Accounts!Next

LEMMA AccInit ==
  ASSUME AccConstants, Accounts!Init
  PROVE  AccInv
<1>1. /\ accNow = 1 /\ exists = RoleCode /\ told = {}
      /\ handler = [h \in Handler |-> Accounts!NoHandler]
      /\ shown = [k \in Accounts!Key |-> Accounts!NotShown]
      /\ sets = [k \in Accounts!Key |-> {}] /\ past = [k \in Accounts!Key |-> {}]
      /\ meant = [o \in Object |-> [c \in Accounts!Column(o) |-> {row[o][c]}]]
  BY DEF Accounts!Init, Object
<1>2. PICK P \in [RoleCode -> SUBSET Right] :
        row = [o \in Object |-> IF o \in Client THEN Accounts!NewUser ELSE Accounts!Holds(P[o])]
  BY DEF Accounts!Init, Object
<1>3. DOMAIN row = Object /\ \A o \in Object : row[o] \in [Accounts!Column(o) -> Nat]
  <2>1. ASSUME NEW o \in Object, o \in Client PROVE row[o] \in [Accounts!Column(o) -> Nat]
    BY <1>2, <2>1 DEF Accounts!NewUser, Accounts!Column
  <2>2. ASSUME NEW o \in Object, o \notin Client PROVE row[o] \in [Accounts!Column(o) -> Nat]
    BY <1>2, <2>2, HoldsType DEF Accounts!Column
  <2> QED BY <1>2, <2>1, <2>2
<1>4. AccTypes
  BY <1>1, <1>3 DEF AccTypes
<1>5. AskInv
  BY <1>1, NoHandlerOK DEF AskInv
<1>6. TaskInv /\ PastInv
  BY <1>1 DEF TaskInv, PastInv
<1>7. ShownInv
  BY <1>1 DEF ShownInv, Accounts!NotShown, AccConstants
<1>8. Accounts!AsAsked
  BY <1>1 DEF Accounts!AsAsked, Object
<1>9. Accounts!ConfirmedIsSaved /\ told \subseteq Client
  BY <1>1 DEF Accounts!ConfirmedIsSaved
<1> QED BY <1>4, <1>5, <1>6, <1>7, <1>8, <1>9 DEF AccInv

LEMMA AccAgree ==
  ASSUME AccInv
  PROVE  Accounts!AccountsAgree
<1>1. Accounts!AnswersWereTrue
  <2> SUFFICES ASSUME NEW k \in Accounts!Key, shown[k].end > accNow, ~shown[k].raced
               PROVE  \/ shown[k].val = Accounts!Truth(exists, row, k)
                      \/ \E x \in past[k] : shown[k].val = x.val
    BY DEF Accounts!AnswersWereTrue
  <2>1. Recent(shown[k].val, shown[k].end - AnswerLife - 1, Truth(k), past[k])
    BY DEF AccInv, ShownInv
  <2> QED BY <2>1 DEF Recent, Truth
<1> QED BY <1>1 DEF AccInv, Accounts!AccountsAgree

-----------------------------------------------------------------------------
(* A behaviour follows one of the modules.                                  *)

FollowedInv ==
  /\ focus = "sessions" => AuthInv
  /\ focus # "sessions" => TypeOK
  /\ focus = "roles" => RoleInv
  /\ focus \in {"profiles", "codes"} => AccInv

LEMMA FollowedInit ==
  ASSUME RoleConstants, AccConstants, MCInit
  PROVE  FollowedInv
<1>1. AuthInv
  BY AuthInvInit, AuthAssumption DEF MCInit
<1>2. focus \in {"profiles", "codes"} => AccInv
  BY AccInit DEF MCInit
<1> QED BY <1>1, <1>2, RoleInit DEF FollowedInv, AuthInv

LEMMA FollowedStep ==
  ASSUME RoleConstants, AccConstants, FollowedInv, [MCNext]_mcVars
  PROVE  FollowedInv'
<1>1. CASE focus = "sessions" /\ Next /\ UNCHANGED <<focus, ofRoles, ofAccounts>>
  <2>1. AuthInv
    BY <1>1 DEF FollowedInv
  <2>2. AuthInv'
    BY <1>1, <2>1, AuthAssumption, AuthInvStep
  <2> QED BY <1>1, <2>2 DEF FollowedInv
<1>2. CASE focus = "roles" /\ Roles!Next /\ UNCHANGED <<focus, ofSessions, ofAccounts>>
  <2>1. RoleInv /\ TypeOK
    BY <1>2 DEF FollowedInv
  <2>2. RoleInv'
    BY <1>2, <2>1, RolesStep
  <2>3. now' \in Nat
    BY <2>2 DEF RoleInv, Roles!TypeOK
  <2>4. TypeOK'
    BY <1>2, <2>1, <2>3 DEF TypeOK, ofSessions, revocation
  <2> QED BY <1>2, <2>2, <2>4 DEF FollowedInv
<1>3. CASE /\ focus \in {"profiles", "codes"} /\ Accounts!Next
           /\ UNCHANGED <<focus, vars, ofRoles>>
  <2>1. TypeOK /\ UNCHANGED vars /\ focus' = focus /\ AccInv
    BY <1>3 DEF FollowedInv
  <2>2. TypeOK'
    BY <2>1 DEF TypeOK, vars, revocation
  <2>3. AccInv'
    BY <1>3, <2>1, AccStep
  <2> QED BY <1>3, <2>1, <2>2, <2>3 DEF FollowedInv
<1>4. CASE UNCHANGED mcVars
  <2>1. focus' = focus /\ UNCHANGED vars /\ UNCHANGED rVars
    BY <1>4 DEF mcVars, vars, rVars
  <2>2. focus = "sessions" => AuthInv'
    BY <2>1, AuthAssumption, AuthInvStep DEF FollowedInv
  <2>3. focus = "roles" => RoleInv'
    BY <2>1, RolesStep DEF FollowedInv
  <2>4. focus # "sessions" => TypeOK'
    BY <2>1 DEF FollowedInv, TypeOK, vars, revocation
  <2>5. UNCHANGED ofAccounts
    BY <1>4 DEF mcVars
  <2>6. focus \in {"profiles", "codes"} => AccInv'
    BY <2>5, AccStep DEF FollowedInv
  <2> QED BY <2>1, <2>2, <2>3, <2>4, <2>6 DEF FollowedInv
<1> QED BY <1>1, <1>2, <1>3, <1>4 DEF MCNext

LEMMA FollowedHolds == MCSpec => []FollowedInv
<1> USE RoleConstants, AccConstants
<1>1. MCInit => FollowedInv
  BY FollowedInit
<1>2. FollowedInv /\ [MCNext]_mcVars => FollowedInv'
  BY FollowedStep
<1> QED BY <1>1, <1>2, PTL DEF MCSpec

\* Every variable of the sessions and of the roles keeps its type, whatever is followed.
THEOREM TypesAlways == MCSpec => []TypesOK
<1> USE RoleConstants
<1>1. FollowedInv => TypesOK
  BY DEF FollowedInv, TypesOK, RoleInv, AuthInv
<1> QED BY <1>1, FollowedHolds, PTL

\* However assignments, updates and deletions of roles meet logins, what a user has lost is
\* good for the life of a token that was made before, and a unit for the role that a login
\* had read: nothing takes a token back, and no token is made of rows that are older.
THEOREM GrantsAgeOutAlways == MCSpec => []GrantsAgeOut
<1> USE RoleConstants
<1>1. ASSUME FollowedInv PROVE GrantsAgeOut
  <2>1. ASSUME focus = "roles" PROVE Roles!GrantsAgeOut
    <3>1. RoleInv
      BY <1>1, <2>1 DEF FollowedInv
    <3> SUFFICES ASSUME NEW t \in roleTokens
                 PROVE  /\ now <= held[t.user][t.role] + AccessLife
                        /\ \A p \in t.perms : now <= granted[t.role][p] + AccessLife
      BY DEF Roles!GrantsAgeOut
    <3>2. t.user \in Member /\ t.role \in Role /\ t.exp \in Nat /\ t.perms \subseteq Permission
      BY <3>1 DEF RoleInv, Roles!TypeOK, Roles!Token
    <3>3. now \in Nat /\ held[t.user][t.role] \in Nat /\ AccessLife \in Nat
          /\ \A p \in t.perms : granted[t.role][p] \in Nat
      BY <3>1, <3>2 DEF RoleInv, Roles!TypeOK, RoleConstants
    <3>4. t.exp > now /\ t.exp <= held[t.user][t.role] + AccessLife + 1
          /\ \A p \in t.perms : t.exp <= granted[t.role][p] + AccessLife
      BY <3>1 DEF RoleInv, RoleTokenInv
    <3>5. now <= held[t.user][t.role] + AccessLife
      BY <3>2, <3>3, <3>4
    <3>6. ASSUME NEW p \in t.perms PROVE now <= granted[t.role][p] + AccessLife
      <4>1. granted[t.role][p] \in Nat /\ t.exp <= granted[t.role][p] + AccessLife
        BY <3>3, <3>4
      <4> QED BY <3>2, <3>3, <3>4, <4>1
    <3> QED BY <3>5, <3>6
  <2> QED BY <2>1 DEF GrantsAgeOut
<1> QED BY <1>1, FollowedHolds, PTL

\* However requests meet that found a role, an account or a link, and write later, users
\* keep roles that exist, deleted roles leave no permissions, and links are one to one.
THEOREM RowsAgreeAlways == MCSpec => []RowsAgree
<1> USE RoleConstants
<1>1. FollowedInv => RowsAgree
  BY DEF FollowedInv, RowsAgree, RoleInv
<1> QED BY <1>1, FollowedHolds, PTL

\* However requests overlap that read a row and save it later, and whatever commits are
\* lost, no column is undone by a request for another one, an address that was confirmed is
\* marked unless an attempt failed, and an answer from Redis was true within its life.
THEOREM AccountsAgreeAlways == MCSpec => []AccountsAgree
<1>1. FollowedInv => AccountsAgree
  BY AccAgree DEF FollowedInv, AccountsAgree
<1> QED BY <1>1, FollowedHolds, PTL
=============================================================================
