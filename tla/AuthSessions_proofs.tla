-------------------------- MODULE AuthSessions_proofs --------------------------
(***************************************************************************)
(* The end of a session is the end of its tokens: for any users, sessions   *)
(* and requests at a time, any lives of the tokens and any number of        *)
(* failures.                                                                *)
(***************************************************************************)
EXTENDS AuthSessions, TLAPS

-----------------------------------------------------------------------------
(* The inductive invariant.                                                 *)

Life(kind) == IF kind = "access" THEN AccessLife ELSE RefreshLife

\* A request that has begun has a session, and looked at the clock before. The tokens of
\* a registration were made before its session could end.
HeldInv ==
  \A r \in Request :
    /\ req[r].step # "none" => req[r].session \in Session
    /\ req[r].step = "row" => req[r].op = "refresh"
    /\ req[r].at <= now
    /\ req[r].step = "notify" /\ left[req[r].session] > 0 =>
         req[r].at <= left[req[r].session]

\* Nobody knows an id that was not drawn.
UnusedInv ==
  \A s \in Session : Unused(s) =>
    /\ s \notin rows /\ left[s] = 0
    /\ \A t \in tokens : t.session # s
    /\ \A r \in Request : req[r].session # s

\* An id that was drawn and not saved is known to the request that has drawn it alone.
Fresh(r) == req[r].op \in {"login", "register"} /\ req[r].step \in {"tokens", "save"}

FreshInv ==
  \A r \in Request : Fresh(r) =>
    /\ req[r].session \notin rows /\ left[req[r].session] = 0
    /\ \A t \in tokens : t.session # req[r].session
    /\ \A q \in Request : q # r => req[q].session # req[r].session

TokenInv == \A t \in tokens : t.exp > now /\ t.exp <= now + Life(t.kind)

\* A session that has ended is not in the table again.
LeftInv ==
  \A s \in Session : left[s] <= now /\ (s \in rows => left[s] = 0)

\* Without failures the key outlives the tokens, or a task is under way that will set it.
DeniedInv ==
  faults = 0 => \A s \in Session : left[s] > 0 =>
    pending[s] > 0 \/ clearing[s] > 0 \/ denied[s] >= left[s] + RefreshLife

AuthInv ==
  /\ TypeOK /\ HeldInv /\ UnusedInv /\ FreshInv /\ TokenInv /\ LeftInv
  /\ NoTokenAfterLogout /\ DeniedInv /\ OneUserPerName

-----------------------------------------------------------------------------
(* What the actions do to requests and tokens.                              *)

Asked == [op : Op, step : Step, session : Session \cup {None}, user : User \cup {None},
          at : Nat]

LEMMA IdleType == Idle \in Asked
BY DEF Idle, Asked, Op, Step

LEMMA ReqBecomes ==
  ASSUME TypeOK, NEW r \in Request, NEW v \in Asked, req' = [req EXCEPT ![r] = v]
  PROVE  /\ req' \in [Request -> Asked] /\ req'[r] = v
         /\ \A q \in Request : q # r => req'[q] = req[q]
BY DEF TypeOK, Asked

LEMMA Finishes ==
  ASSUME TypeOK, NEW r \in Request, Finish(r)
  PROVE  /\ req' \in [Request -> Asked]
         /\ req'[r] = Idle /\ ~ Fresh(r)'
         /\ req'[r].step = "none" /\ req'[r].session = None /\ req'[r].at = 0
         /\ \A q \in Request : q # r => req'[q] = req[q]
<1>1. /\ req' \in [Request -> Asked] /\ req'[r] = Idle
      /\ \A q \in Request : q # r => req'[q] = req[q]
  BY ReqBecomes, IdleType DEF Finish
<1> QED BY <1>1 DEF Idle, Fresh

\* Registration and login draw an id.
LEMMA Draws ==
  ASSUME AuthAssumption, TypeOK, NEW r \in Request, NEW u \in User, NEW s \in Session,
         BeginRegister(r, u, s) \/ BeginLogin(r, u, s)
  PROVE  /\ req' \in [Request -> Asked]
         /\ req'[r].step = "tokens" /\ req'[r].session = s /\ req'[r].at = now
         /\ \A q \in Request : q # r => req'[q] = req[q]
         /\ Unused(s) /\ owner' \in [Session -> User \cup {None}]
         /\ \A z \in Session : Unused(z)' => Unused(z) /\ z # s
         /\ UNCHANGED <<now, users, rows, hist, tokens, left, revocation, faults>>
<1>1. PICK op \in {"register", "login"} : Draw(r, op, u, s)
  BY DEF BeginRegister, BeginLogin
<1> DEFINE v == [op |-> op, step |-> "tokens", session |-> s, user |-> u, at |-> now]
<1>2. v \in Asked
  BY DEF Asked, Op, Step, TypeOK
<1>3. req' = [req EXCEPT ![r] = v]
  BY <1>1 DEF Draw
<1>4. /\ req' \in [Request -> Asked] /\ req'[r] = v
      /\ \A q \in Request : q # r => req'[q] = req[q]
  BY <1>2, <1>3, ReqBecomes
<1>5. /\ Unused(s) /\ owner' = [owner EXCEPT ![s] = u]
      /\ UNCHANGED <<now, users, rows, hist, tokens, left, revocation, faults>>
  BY DEF BeginRegister, BeginLogin
<1>6. owner' \in [Session -> User \cup {None}]
  BY <1>5 DEF TypeOK
<1>7. \A z \in Session : Unused(z)' => Unused(z) /\ z # s
  BY <1>5 DEF Unused, TypeOK, AuthAssumption
<1> QED BY <1>4, <1>5, <1>6, <1>7

\* Refresh and logout take the id from a token.
LEMMA Takes ==
  ASSUME TypeOK, NEW r \in Request, NEW t \in tokens,
         \/ BeginRefresh(r, t)
         \/ BeginLogout(r, t, "logout") \/ BeginLogout(r, t, "logout_all")
  PROVE  /\ req' \in [Request -> Asked] /\ ~ Fresh(r)'
         /\ req'[r].session = t.session /\ t.session \in Session /\ req'[r].at = now
         /\ req'[r].step \in {"row", "drop"} /\ (req'[r].step = "row" => req'[r].op = "refresh")
         /\ \A q \in Request : q # r => req'[q] = req[q]
         /\ UNCHANGED <<now, users, clients, revocation, faults>>
<1>1. PICK op \in {"refresh", "logout", "logout_all"}, step \in {"row", "drop"} :
        /\ Take(r, op, step, t)
        /\ step = "row" => op = "refresh"
        /\ UNCHANGED <<now, users, clients, revocation, faults>>
  BY DEF BeginRefresh, BeginLogout
<1> DEFINE v == [op |-> op, step |-> step, session |-> t.session, user |-> None, at |-> now]
<1>2. t.session \in Session
  BY DEF TypeOK, Token
<1>3. v \in Asked
  BY <1>2 DEF Asked, Op, Step, TypeOK
<1>4. req' = [req EXCEPT ![r] = v]
  BY <1>1 DEF Take
<1>5. /\ req' \in [Request -> Asked] /\ req'[r] = v
      /\ \A q \in Request : q # r => req'[q] = req[q]
  BY <1>3, <1>4, ReqBecomes
<1> QED BY <1>1, <1>2, <1>5 DEF Fresh

\* The other steps keep the session of the request.
LEMMA Makes ==
  ASSUME TypeOK, NEW r \in Request, MakeTokens(r)
  PROVE  /\ req' \in [Request -> Asked] /\ (Fresh(r)' => Fresh(r))
         /\ req'[r].session = req[r].session /\ req'[r].at = now /\ req'[r].step = "save"
         /\ req[r].step # "none"
         /\ \A q \in Request : q # r => req'[q] = req[q]
<1> DEFINE v == [req[r] EXCEPT !.step = "save", !.at = now]
<1>1. req[r] \in Asked
  BY DEF TypeOK, Asked
<1>2. v \in Asked /\ v.session = req[r].session /\ v.at = now /\ v.step = "save"
      /\ v.op = req[r].op
  BY <1>1 DEF Asked, Step, TypeOK
<1>3. req' = [req EXCEPT ![r] = v]
  BY DEF MakeTokens, TypeOK
<1>4. /\ req' \in [Request -> Asked] /\ req'[r] = v
      /\ \A q \in Request : q # r => req'[q] = req[q]
  BY <1>2, <1>3, ReqBecomes
<1> QED BY <1>2, <1>4 DEF Fresh, MakeTokens

LEMMA Reads ==
  ASSUME TypeOK, HeldInv, NEW r \in Request, ReadSession(r)
  PROVE  /\ req' \in [Request -> Asked] /\ ~ Fresh(r)'
         /\ req'[r].session = req[r].session /\ req'[r].at = now /\ req'[r].step = "tokens"
         /\ req[r].step # "none"
         /\ \A q \in Request : q # r => req'[q] = req[q]
<1> DEFINE v == [req[r] EXCEPT !.step = "tokens", !.user = owner[req[r].session], !.at = now]
<1>1. req[r] \in Asked /\ req[r].session \in Session /\ req[r].op = "refresh"
  BY DEF TypeOK, Asked, ReadSession, HeldInv
<1>2. v \in Asked /\ v.session = req[r].session /\ v.at = now /\ v.step = "tokens"
      /\ v.op = req[r].op
  BY <1>1 DEF Asked, Step, TypeOK
<1>3. req' = [req EXCEPT ![r] = v]
  BY DEF ReadSession, TypeOK
<1>4. /\ req' \in [Request -> Asked] /\ req'[r] = v
      /\ \A q \in Request : q # r => req'[q] = req[q]
  BY <1>2, <1>3, ReqBecomes
<1> QED BY <1>1, <1>2, <1>4 DEF Fresh, ReadSession

LEMMA Continues ==
  ASSUME TypeOK, NEW r \in Request, Continue(r, "notify")
  PROVE  /\ req' \in [Request -> Asked] /\ ~ Fresh(r)'
         /\ req'[r].session = req[r].session /\ req'[r].at = req[r].at
         /\ req'[r].step = "notify"
         /\ \A q \in Request : q # r => req'[q] = req[q]
<1> DEFINE v == [req[r] EXCEPT !.step = "notify"]
<1>1. req[r] \in Asked
  BY DEF TypeOK, Asked
<1>2. v \in Asked /\ v.session = req[r].session /\ v.at = req[r].at /\ v.step = "notify"
  BY <1>1 DEF Asked, Step, TypeOK
<1>3. req' = [req EXCEPT ![r] = v]
  BY DEF Continue, TypeOK
<1>4. /\ req' \in [Request -> Asked] /\ req'[r] = v
      /\ \A q \in Request : q # r => req'[q] = req[q]
  BY <1>2, <1>3, ReqBecomes
<1> QED BY <1>2, <1>4 DEF Fresh

\* What a client is handed was made when the request looked at the clock.
LEMMA Hands ==
  ASSUME AuthAssumption, TypeOK, HeldInv, TokenInv, now' = now, NEW r \in Request,
         req[r].step # "none", Hand(req[r])
  PROVE  /\ tokens' \subseteq Token /\ tokens \subseteq tokens' /\ req[r].session \in Session
         /\ \A t \in tokens' : t \notin tokens =>
              t.session = req[r].session /\ t.exp = req[r].at + Life(t.kind)
         /\ TokenInv'
<1> DEFINE q == req[r]
           a == [kind |-> "access",  session |-> q.session, exp |-> q.at + AccessLife]
           b == [kind |-> "refresh", session |-> q.session, exp |-> q.at + RefreshLife]
<1>1. q.session \in Session /\ q.at \in Nat /\ q.at <= now /\ now \in Nat
  BY DEF TypeOK, HeldInv
<1>2. AccessLife \in Nat /\ RefreshLife \in Nat
  BY DEF AuthAssumption
<1>3. a \in Token /\ b \in Token
  BY <1>1, <1>2 DEF Token
<1>4. /\ a.session = q.session /\ a.exp = q.at + Life(a.kind)
      /\ b.session = q.session /\ b.exp = q.at + Life(b.kind)
  BY DEF Life
<1>5. tokens' = tokens \cup {t \in {a, b} : t.exp > now}
  BY DEF Hand, Issued
<1>6. ASSUME NEW t \in tokens' PROVE t.exp > now /\ t.exp <= now + Life(t.kind)
  <2>1. CASE t \in tokens
    BY <2>1 DEF TokenInv
  <2>2. CASE t \in {a, b} /\ t.exp > now
    BY <1>1, <1>2, <1>4, <2>2 DEF Life
  <2> QED BY <1>5, <2>1, <2>2
<1> QED BY <1>1, <1>3, <1>4, <1>5, <1>6 DEF TypeOK, TokenInv, Life

-----------------------------------------------------------------------------
(* Types.                                                                   *)

LEMMA FaultType ==
  ASSUME AuthAssumption, TypeOK, Fault
  PROVE  faults' \in 0 .. MaxFaults /\ faults' # 0
BY DEF AuthAssumption, TypeOK, Fault

LEMMA DropTypes ==
  ASSUME TypeOK, NEW S, Delete(S)
  PROVE  /\ rows' \subseteq Session /\ left' \in [Session -> Nat]
         /\ \A s \in Session : s \in rows' <=> s \in rows /\ s \notin S
         /\ \A s \in Session : left'[s] = IF s \in S /\ s \in rows THEN now ELSE left[s]
BY DEF TypeOK, Delete

LEMMA BackgroundType ==
  ASSUME TypeOK, NEW S, Background(S)
  PROVE  /\ pending' \in [Session -> Nat]
         /\ \A s \in Session : pending'[s] = pending[s] + IF s \in S THEN 1 ELSE 0
BY DEF TypeOK, Background

LEMMA UserSaved ==
  ASSUME TypeOK, NEW r \in Request, users' = [users EXCEPT ![req[r].user] = @ + 1]
  PROVE  users' \in [User -> Nat]
<1> DEFINE m == req[r].user
<1>1. CASE m \in User
  BY <1>1 DEF TypeOK
<1>2. CASE m \notin User
  <2>1. users' = [u \in User |-> users[u]]
    BY <1>2 DEF TypeOK
  <2> QED BY <2>1 DEF TypeOK
<1> QED BY <1>1, <1>2

LEMMA TypeStep ==
  ASSUME AuthAssumption, TypeOK, HeldInv, TokenInv, [Next]_vars
  PROVE  TypeOK'
<1> USE DEF clients, revocation
<1>1. ASSUME NEW r \in Request, NEW u \in User, NEW s \in Session,
             BeginRegister(r, u, s) \/ BeginLogin(r, u, s)
      PROVE  TypeOK'
  <2>1. /\ req' \in [Request -> Asked] /\ owner' \in [Session -> User \cup {None}]
        /\ UNCHANGED <<now, users, rows, hist, tokens, left, revocation, faults>>
    BY <1>1, Draws
  <2> QED BY <2>1 DEF TypeOK, Asked
<1>2. ASSUME NEW r \in Request, NEW t \in tokens,
             \/ BeginRefresh(r, t)
             \/ BeginLogout(r, t, "logout") \/ BeginLogout(r, t, "logout_all")
      PROVE  TypeOK'
  <2>1. req' \in [Request -> Asked] /\ UNCHANGED <<now, users, clients, revocation, faults>>
    BY <1>2, Takes
  <2> QED BY <2>1 DEF TypeOK, Asked
<1>3. ASSUME NEW r \in Request, MakeTokens(r) \/ ReadSession(r) PROVE TypeOK'
  <2>1. req' \in [Request -> Asked] /\ UNCHANGED <<now, users, clients, revocation, faults>>
    <3>1. req' \in [Request -> Asked]
      BY <1>3, Makes, Reads
    <3> QED BY <1>3, <3>1 DEF MakeTokens, ReadSession
  <2> QED BY <2>1 DEF TypeOK, Asked
<1>4. ASSUME NEW r \in Request, SaveSession(r) PROVE TypeOK'
  <2>1. /\ req[r].step # "none" /\ Hand(req[r]) /\ Finish(r) /\ Store(req[r].session)
        /\ UNCHANGED <<now, users, owner, left, revocation, faults>>
    BY <1>4 DEF SaveSession
  <2>2. req' \in [Request -> Asked] /\ tokens' \subseteq Token /\ req[r].session \in Session
    BY <2>1, Finishes, Hands
  <2> QED BY <2>1, <2>2 DEF TypeOK, Asked, Store
<1>5. ASSUME NEW r \in Request, SaveLost(r) PROVE TypeOK'
  <2>1. /\ req[r].session \in Session /\ Finish(r) /\ Store(req[r].session) /\ Fault
        /\ UNCHANGED <<now, users, owner, tokens, left, revocation>>
    BY <1>5 DEF SaveLost, HeldInv
  <2>2. req' \in [Request -> Asked] /\ faults' \in 0 .. MaxFaults
    BY <2>1, Finishes, FaultType
  <2> QED BY <2>1, <2>2 DEF TypeOK, Asked, Store
<1>6. ASSUME NEW r \in Request, SaveUser(r) PROVE TypeOK'
  <2>1. /\ req[r].session \in Session /\ Continue(r, "notify") /\ Store(req[r].session)
        /\ users' = [users EXCEPT ![req[r].user] = @ + 1]
        /\ UNCHANGED <<now, owner, tokens, left, revocation, faults>>
    BY <1>6 DEF SaveUser, HeldInv
  <2>2. req' \in [Request -> Asked] /\ users' \in [User -> Nat]
    BY <2>1, Continues, UserSaved
  <2> QED BY <2>1, <2>2 DEF TypeOK, Asked, Store
<1>7. ASSUME NEW r \in Request, SaveUserLost(r) PROVE TypeOK'
  <2>1. /\ req[r].session \in Session /\ Finish(r) /\ Store(req[r].session) /\ Fault
        /\ users' = [users EXCEPT ![req[r].user] = @ + 1]
        /\ UNCHANGED <<now, owner, tokens, left, revocation>>
    BY <1>7 DEF SaveUserLost, HeldInv
  <2>2. /\ req' \in [Request -> Asked] /\ faults' \in 0 .. MaxFaults
        /\ users' \in [User -> Nat]
    BY <2>1, Finishes, FaultType, UserSaved
  <2> QED BY <2>1, <2>2 DEF TypeOK, Asked, Store
<1>8. ASSUME NEW r \in Request, NotifyRegistered(r) \/ UpdateSession(r) PROVE TypeOK'
  <2>1. /\ req[r].step # "none" /\ Hand(req[r]) /\ Finish(r)
        /\ UNCHANGED <<now, users, rows, hist, owner, left, revocation, faults>>
    BY <1>8 DEF NotifyRegistered, UpdateSession
  <2>2. req' \in [Request -> Asked] /\ tokens' \subseteq Token
    BY <2>1, Finishes, Hands
  <2> QED BY <2>1, <2>2 DEF TypeOK, Asked
<1>9. ASSUME NEW r \in Request, SaveUserRefused(r) \/ NoSession(r) \/ UpdateRaises(r)
                                \/ RequestFails(r)
      PROVE  TypeOK'
  <2>1. /\ Finish(r) /\ UNCHANGED <<now, users, clients, revocation>>
        /\ Fault \/ faults' = faults
    BY <1>9 DEF SaveUserRefused, NoSession, UpdateRaises, RequestFails
  <2>2. req' \in [Request -> Asked] /\ faults' \in 0 .. MaxFaults
    <3>1. req' \in [Request -> Asked]
      BY <2>1, Finishes
    <3> QED BY <2>1, <3>1, FaultType DEF TypeOK
  <2> QED BY <2>1, <2>2 DEF TypeOK, Asked
<1>10. ASSUME NEW r \in Request, DropSession(r) \/ DropOthers(r) \/ DropOthersLost(r)
       PROVE  TypeOK'
  <2>1. PICK S : /\ Delete(S) /\ Finish(r)
                 /\ \/ Background(S) /\ faults' = faults
                    \/ pending' = pending /\ Fault
                 /\ UNCHANGED <<now, users, hist, owner, tokens, denied, clearing>>
    <3>1. CASE DropSession(r)
      BY <3>1 DEF DropSession
    <3>2. CASE DropOthers(r)
      BY <3>2 DEF DropOthers
    <3>3. CASE DropOthersLost(r)
      BY <3>3 DEF DropOthersLost
    <3> QED BY <1>10, <3>1, <3>2, <3>3
  <2>2. rows' \subseteq Session /\ left' \in [Session -> Nat]
    BY <2>1, DropTypes
  <2>3. req' \in [Request -> Asked]
    BY <2>1, Finishes
  <2>4. pending' \in [Session -> Nat] /\ faults' \in 0 .. MaxFaults
    BY <2>1, BackgroundType, FaultType DEF TypeOK
  <2> QED BY <2>1, <2>2, <2>3, <2>4 DEF TypeOK, Asked
<1>11. ASSUME NEW s \in Session, ClearKey(s) \/ SetKey(s) PROVE TypeOK'
  <2>1. now + RefreshLife \in Nat
    BY DEF TypeOK, AuthAssumption
  <2> QED BY <1>11, <2>1 DEF TypeOK, ClearKey, SetKey
<1>12. ASSUME NEW s \in Session, ClearKeyFails(s) \/ SetKeyFails(s) PROVE TypeOK'
  <2>1. faults' \in 0 .. MaxFaults
    BY <1>12, FaultType DEF ClearKeyFails, SetKeyFails
  <2> QED BY <1>12, <2>1 DEF TypeOK, ClearKeyFails, SetKeyFails
<1>13. CASE Tick
  BY <1>13 DEF TypeOK, Tick
<1>14. CASE Restart
  <2>1. faults' \in 0 .. MaxFaults /\ req' \in [Request -> Asked]
    BY <1>14, FaultType, IdleType DEF Restart
  <2> QED BY <1>14, <2>1 DEF TypeOK, Asked, Restart
<1>15. CASE UNCHANGED vars
  BY <1>15 DEF TypeOK, vars
<1> QED
  BY <1>1, <1>2, <1>3, <1>4, <1>5, <1>6, <1>7, <1>8, <1>9, <1>10, <1>11, <1>12, <1>13, <1>14,
     <1>15 DEF Next, Arrive, Serve

-----------------------------------------------------------------------------
(* Sessions and their tokens: one lemma per kind of step.                   *)

SessionInv == HeldInv /\ UnusedInv /\ FreshInv /\ TokenInv /\ LeftInv /\ NoTokenAfterLogout

\* Requests end, or go on as they are.
LEMMA EndStep ==
  ASSUME AuthAssumption, TypeOK, SessionInv, UNCHANGED <<now, clients>>,
         \A q \in Request : req'[q] = req[q] \/ req'[q] = Idle
  PROVE  SessionInv'
<1> USE DEF SessionInv, clients
<1>1. Idle.step = "none" /\ Idle.session = None /\ Idle.at = 0 /\ Idle.op = "idle"
  BY DEF Idle
<1>2. None \notin Session /\ now \in Nat
  BY DEF AuthAssumption, TypeOK
<1>3. HeldInv'
  BY <1>1, <1>2 DEF HeldInv
<1>4. UnusedInv'
  BY <1>1, <1>2 DEF UnusedInv, Unused
<1>5. \A q \in Request : Fresh(q)' => Fresh(q) /\ req'[q] = req[q]
  BY <1>1 DEF Fresh
<1>6. FreshInv'
  <2>1. ASSUME NEW r \in Request, Fresh(r)', NEW q \in Request, q # r
        PROVE  req'[q].session # req'[r].session
    <3>1. Fresh(r) /\ req'[r] = req[r] /\ req[q].session # req[r].session
      BY <1>5, <2>1 DEF FreshInv
    <3>2. req[r].session \in Session
      BY <3>1 DEF Fresh, HeldInv
    <3> QED BY <1>1, <1>2, <3>1, <3>2
  <2> QED BY <1>5, <2>1 DEF FreshInv
<1>7. TokenInv' /\ LeftInv' /\ NoTokenAfterLogout'
  BY DEF TokenInv, LeftInv, NoTokenAfterLogout
<1> QED BY <1>3, <1>4, <1>6, <1>7

\* A request goes on with the session that it has, or ends, and others do nothing.
LEMMA GoOnStep ==
  ASSUME AuthAssumption, TypeOK, SessionInv, UNCHANGED <<now, clients>>, NEW r \in Request,
         req[r].step # "none", req'[r].session = req[r].session, req'[r].at = now,
         req'[r].step \in {"save", "tokens"}, Fresh(r)' => Fresh(r),
         \A q \in Request : q # r => req'[q] = req[q]
  PROVE  SessionInv'
<1> USE DEF SessionInv, clients
<1>1. now \in Nat
  BY DEF TypeOK
<1>2. HeldInv'
  BY <1>1 DEF HeldInv
<1>3. UnusedInv'
  BY DEF UnusedInv, Unused
<1>4. \A q \in Request : req'[q].session = req[q].session
  OBVIOUS
<1>5. \A q \in Request : Fresh(q)' => Fresh(q)
  BY DEF Fresh
<1>6. FreshInv'
  BY <1>4, <1>5 DEF FreshInv
<1>7. TokenInv' /\ LeftInv' /\ NoTokenAfterLogout'
  BY DEF TokenInv, LeftInv, NoTokenAfterLogout
<1> QED BY <1>2, <1>3, <1>6, <1>7

LEMMA DrawStep ==
  ASSUME AuthAssumption, TypeOK, SessionInv, NEW r \in Request, NEW u \in User,
         NEW s \in Session, BeginRegister(r, u, s) \/ BeginLogin(r, u, s)
  PROVE  SessionInv'
<1> USE DEF SessionInv
<1>1. /\ req'[r].step = "tokens" /\ req'[r].session = s /\ req'[r].at = now
      /\ \A q \in Request : q # r => req'[q] = req[q]
      /\ Unused(s) /\ \A z \in Session : Unused(z)' => Unused(z) /\ z # s
      /\ UNCHANGED <<now, users, rows, hist, tokens, left, revocation, faults>>
  BY Draws
<1>2. now \in Nat
  BY DEF TypeOK
<1>3. HeldInv'
  BY <1>1, <1>2 DEF HeldInv
<1>4. UnusedInv'
  BY <1>1 DEF UnusedInv
<1>5. \A q \in Request : q # r => (Fresh(q)' => Fresh(q)) /\ req'[q].session = req[q].session
  BY <1>1 DEF Fresh
<1>6. FreshInv'
  <2>1. /\ s \notin rows /\ left[s] = 0 /\ \A t \in tokens : t.session # s
        /\ \A q \in Request : req[q].session # s
    BY <1>1 DEF UnusedInv
  <2> QED BY <1>1, <1>5, <2>1 DEF FreshInv
<1>7. TokenInv' /\ LeftInv' /\ NoTokenAfterLogout'
  BY <1>1 DEF TokenInv, LeftInv, NoTokenAfterLogout
<1> QED BY <1>3, <1>4, <1>6, <1>7

LEMMA TakeStep ==
  ASSUME AuthAssumption, TypeOK, SessionInv, NEW r \in Request, NEW t \in tokens,
         \/ BeginRefresh(r, t)
         \/ BeginLogout(r, t, "logout") \/ BeginLogout(r, t, "logout_all")
  PROVE  SessionInv'
<1> USE DEF SessionInv
<1>1. /\ ~ Fresh(r)'
      /\ req'[r].session = t.session /\ t.session \in Session /\ req'[r].at = now
      /\ req'[r].step \in {"row", "drop"} /\ (req'[r].step = "row" => req'[r].op = "refresh")
      /\ \A q \in Request : q # r => req'[q] = req[q]
      /\ UNCHANGED <<now, users, clients, revocation, faults>>
  BY Takes
<1>2. now \in Nat /\ UNCHANGED <<rows, owner, tokens, left>>
  BY <1>1 DEF TypeOK, clients
<1>3. HeldInv'
  BY <1>1, <1>2 DEF HeldInv
<1>4. UnusedInv'
  BY <1>1, <1>2 DEF UnusedInv, Unused
<1>5. \A q \in Request : q # r => (Fresh(q)' => Fresh(q)) /\ req'[q].session = req[q].session
  BY <1>1 DEF Fresh
<1>6. FreshInv'
  BY <1>1, <1>2, <1>5 DEF FreshInv
<1>7. TokenInv' /\ LeftInv' /\ NoTokenAfterLogout'
  BY <1>1, <1>2 DEF TokenInv, LeftInv, NoTokenAfterLogout
<1> QED BY <1>3, <1>4, <1>6, <1>7

\* A session that was drawn by one request is saved by it, once.
LEMMA StoreStep ==
  ASSUME AuthAssumption, TypeOK, SessionInv, NEW r \in Request, Fresh(r),
         Store(req[r].session), UNCHANGED <<now, owner, left>>,
         \A t \in tokens' : t \in tokens \/ t.session = req[r].session, TokenInv',
         \/ req'[r].step = "none" /\ req'[r].session = None /\ req'[r].at = 0
         \/ /\ req'[r].step = "notify" /\ req'[r].session = req[r].session
            /\ req'[r].at = req[r].at,
         \A q \in Request : q # r => req'[q] = req[q]
  PROVE  SessionInv'
<1> USE DEF SessionInv
<1> DEFINE s == req[r].session
<1>1. s \in Session /\ left[s] = 0 /\ rows' = rows \cup {s} /\ now \in Nat
      /\ None \notin Session
  BY DEF Fresh, HeldInv, FreshInv, Store, TypeOK, AuthAssumption
<1>2. \A q \in Request : Fresh(q)' =>
        q # r /\ Fresh(q) /\ req'[q] = req[q] /\ req[q].session # s
  BY DEF Fresh, FreshInv
<1>3. HeldInv'
  BY <1>1 DEF HeldInv
<1>4. UnusedInv'
  BY <1>1 DEF UnusedInv, Unused
<1>5. FreshInv'
  <2>1. ASSUME NEW q \in Request, Fresh(q)'
        PROVE  /\ req'[q].session \notin rows' /\ left'[req'[q].session] = 0
               /\ \A t \in tokens' : t.session # req'[q].session
    BY <1>1, <1>2, <2>1 DEF FreshInv
  <2>2. ASSUME NEW q \in Request, Fresh(q)', NEW p \in Request, p # q
        PROVE  req'[p].session # req'[q].session
    <3>1. req'[q] = req[q] /\ Fresh(q) /\ req[q].session # s /\ req[q].session \in Session
          /\ req[p].session # req[q].session
      BY <1>2, <2>2 DEF Fresh, HeldInv, FreshInv
    <3> QED BY <1>1, <3>1
  <2> QED BY <2>1, <2>2 DEF FreshInv
<1>6. LeftInv'
  BY <1>1 DEF LeftInv
<1>7. NoTokenAfterLogout'
  BY <1>1 DEF NoTokenAfterLogout
<1> QED BY <1>3, <1>4, <1>5, <1>6, <1>7

SaveEnds(r) == SaveSession(r) \/ SaveLost(r) \/ SaveUserLost(r)

LEMMA SaveStep ==
  ASSUME AuthAssumption, TypeOK, SessionInv, NEW r \in Request, SaveEnds(r) \/ SaveUser(r)
  PROVE  SessionInv'
<1>1. /\ Fresh(r) /\ req[r].step # "none" /\ Store(req[r].session)
      /\ UNCHANGED <<now, owner, left>>
  BY DEF SaveEnds, SaveSession, SaveLost, SaveUserLost, SaveUser, Fresh
<1>2. TokenInv' /\ \A t \in tokens' : t \in tokens \/ t.session = req[r].session
  <2>1. CASE SaveSession(r)
    <3>1. Hand(req[r])
      BY <2>1 DEF SaveSession
    <3> QED BY <1>1, <3>1, Hands DEF SessionInv
  <2>2. CASE tokens' = tokens
    BY <1>1, <2>2 DEF SessionInv, TokenInv
  <2>3. SaveSession(r) \/ tokens' = tokens
    BY DEF SaveEnds, SaveLost, SaveUserLost, SaveUser
  <2> QED BY <2>1, <2>2, <2>3
<1>3. CASE SaveEnds(r)
  <2>1. Finish(r)
    BY <1>3 DEF SaveEnds, SaveSession, SaveLost, SaveUserLost
  <2>2. /\ req'[r].step = "none" /\ req'[r].session = None /\ req'[r].at = 0
        /\ \A q \in Request : q # r => req'[q] = req[q]
    BY <2>1, Finishes
  <2> QED BY <1>1, <1>2, <2>2, StoreStep
<1>4. CASE SaveUser(r)
  <2>1. Continue(r, "notify")
    BY <1>4 DEF SaveUser
  <2>2. /\ req'[r].step = "notify" /\ req'[r].session = req[r].session
        /\ req'[r].at = req[r].at
        /\ \A q \in Request : q # r => req'[q] = req[q]
    BY <2>1, Continues
  <2> QED BY <1>1, <1>2, <2>2, StoreStep
<1> QED BY <1>3, <1>4

\* Tokens go to a client that has registered before its session ended, or whose session
\* has not ended.
LEMMA HandStep ==
  ASSUME AuthAssumption, TypeOK, SessionInv, NEW r \in Request,
         NotifyRegistered(r) \/ UpdateSession(r)
  PROVE  SessionInv'
<1> USE DEF SessionInv
<1> DEFINE s == req[r].session
<1>1. /\ req[r].step # "none" /\ Hand(req[r]) /\ Finish(r)
      /\ UNCHANGED <<now, rows, owner, left>>
  BY DEF NotifyRegistered, UpdateSession
<1>2. /\ TokenInv' /\ s \in Session
      /\ \A t \in tokens' : t \in tokens \/ (t.session = s /\ t.exp = req[r].at + Life(t.kind))
  BY <1>1, Hands
<1>3. left[s] = 0 \/ (left[s] > 0 /\ req[r].at <= left[s])
  <2>1. left[s] \in Nat
    BY <1>2 DEF TypeOK
  <2>2. CASE NotifyRegistered(r)
    BY <2>1, <2>2 DEF NotifyRegistered, HeldInv
  <2>3. CASE UpdateSession(r)
    BY <1>2, <2>3 DEF UpdateSession, RecordedSession, LeftInv
  <2> QED BY <2>2, <2>3
<1>4. /\ req'[r].step = "none" /\ req'[r].session = None /\ req'[r].at = 0 /\ ~ Fresh(r)'
      /\ \A q \in Request : q # r => req'[q] = req[q]
  BY <1>1, Finishes
<1>5. now \in Nat /\ None \notin Session
  BY DEF TypeOK, AuthAssumption
<1>6. \A q \in Request : Fresh(q)' =>
        /\ q # r /\ Fresh(q) /\ req'[q] = req[q] /\ req[q].session # s
        /\ req[q].session \in Session
  BY <1>4 DEF Fresh, FreshInv, HeldInv
<1>7. HeldInv'
  BY <1>1, <1>4, <1>5 DEF HeldInv
<1>8. UnusedInv'
  BY <1>1, <1>2, <1>4, <1>5 DEF UnusedInv, Unused
<1>9. FreshInv'
  <2>1. ASSUME NEW q \in Request, Fresh(q)'
        PROVE  /\ req'[q].session \notin rows' /\ left'[req'[q].session] = 0
               /\ \A t \in tokens' : t.session # req'[q].session
    BY <1>1, <1>2, <1>6, <2>1 DEF FreshInv
  <2>2. ASSUME NEW q \in Request, Fresh(q)', NEW p \in Request, p # q
        PROVE  req'[p].session # req'[q].session
    BY <1>4, <1>5, <1>6, <2>2 DEF FreshInv
  <2> QED BY <2>1, <2>2 DEF FreshInv
<1>10. LeftInv'
  BY <1>1 DEF LeftInv
<1>11. NoTokenAfterLogout'
  <2>1. ASSUME NEW t \in tokens', left[t.session] > 0
        PROVE  t.exp <= left[t.session] + Life(t.kind)
    <3>1. CASE t \in tokens
      BY <2>1, <3>1 DEF NoTokenAfterLogout, Life
    <3>2. CASE t.session = s /\ t.exp = req[r].at + Life(t.kind)
      <4>1. left[s] \in Nat /\ req[r].at \in Nat /\ Life(t.kind) \in Nat
        BY <1>2 DEF TypeOK, Life, AuthAssumption
      <4> QED BY <1>3, <2>1, <3>2, <4>1
    <3> QED BY <1>2, <3>1, <3>2
  <2> QED BY <1>1, <2>1 DEF NoTokenAfterLogout, Life
<1> QED BY <1>2, <1>7, <1>8, <1>9, <1>10, <1>11

\* Whoever loses the row loses it at a time when all tokens were made.
LEMMA DropStep ==
  ASSUME AuthAssumption, TypeOK, SessionInv, NEW r \in Request, NEW S, Delete(S), Finish(r),
         UNCHANGED <<now, owner, tokens>>
  PROVE  SessionInv'
<1> USE DEF SessionInv
<1>1. /\ \A s \in Session : s \in rows' <=> s \in rows /\ s \notin S
      /\ \A s \in Session : left'[s] = IF s \in S /\ s \in rows THEN now ELSE left[s]
  BY DropTypes
<1>2. /\ req'[r].step = "none" /\ req'[r].session = None /\ req'[r].at = 0 /\ ~ Fresh(r)'
      /\ \A q \in Request : q # r => req'[q] = req[q]
  BY Finishes
<1>3. /\ now \in Nat /\ None \notin Session /\ \A s \in Session : left[s] \in Nat
      /\ \A q \in Request : req[q].at \in Nat
      /\ \A t \in tokens : t.session \in Session /\ t.exp \in Nat
  BY DEF TypeOK, AuthAssumption, Token
<1>4. HeldInv'
  BY <1>1, <1>2, <1>3 DEF HeldInv
<1>5. UnusedInv'
  BY <1>1, <1>2, <1>3 DEF UnusedInv, Unused
<1>6. \A q \in Request : Fresh(q)' =>
        q # r /\ Fresh(q) /\ req'[q] = req[q] /\ req[q].session \in Session
  BY <1>2 DEF Fresh, HeldInv
<1>7. FreshInv'
  BY <1>1, <1>2, <1>3, <1>6 DEF FreshInv
<1>8. LeftInv'
  BY <1>1, <1>3 DEF LeftInv
<1>9. TokenInv'
  BY DEF TokenInv
<1>10. NoTokenAfterLogout'
  <2>1. ASSUME NEW t \in tokens, left'[t.session] > 0
        PROVE  t.exp <= left'[t.session] + Life(t.kind)
    BY <1>1, <1>3, <2>1 DEF TokenInv, NoTokenAfterLogout, Life
  <2> QED BY <2>1 DEF NoTokenAfterLogout, Life
<1> QED BY <1>4, <1>5, <1>7, <1>8, <1>9, <1>10

LEMMA TickStep ==
  ASSUME AuthAssumption, TypeOK, SessionInv, Tick
  PROVE  SessionInv'
<1> USE DEF SessionInv
<1>1. /\ now \in Nat /\ now' = now + 1 /\ tokens' = {t \in tokens : t.exp > now + 1}
      /\ UNCHANGED <<rows, owner, left, req>>
  BY DEF TypeOK, Tick
<1>2. HeldInv' /\ UnusedInv' /\ FreshInv' /\ LeftInv' /\ NoTokenAfterLogout'
  <2>1. HeldInv'
    BY <1>1 DEF HeldInv, TypeOK
  <2>2. UnusedInv'
    BY <1>1 DEF UnusedInv, Unused
  <2>3. FreshInv'
    BY <1>1 DEF FreshInv, Fresh
  <2>4. LeftInv' /\ NoTokenAfterLogout'
    BY <1>1 DEF LeftInv, NoTokenAfterLogout, TypeOK
  <2> QED BY <2>1, <2>2, <2>3, <2>4
<1>3. TokenInv'
  <2>1. \A t \in tokens : t.exp \in Nat /\ Life(t.kind) \in Nat
    BY DEF TypeOK, Token, Life, AuthAssumption
  <2> QED BY <1>1, <2>1 DEF TokenInv, Life
<1> QED BY <1>2, <1>3

LEMMA SessionStep ==
  ASSUME AuthAssumption, TypeOK, SessionInv, [Next]_vars
  PROVE  SessionInv'
<1>1. ASSUME NEW r \in Request, Arrive(r) PROVE SessionInv'
  BY <1>1, DrawStep, TakeStep DEF Arrive
<1>2. ASSUME NEW r \in Request, MakeTokens(r) PROVE SessionInv'
  <2>1. /\ req[r].step # "none" /\ req'[r].session = req[r].session /\ req'[r].at = now
        /\ req'[r].step \in {"save", "tokens"} /\ (Fresh(r)' => Fresh(r))
        /\ \A q \in Request : q # r => req'[q] = req[q]
    BY <1>2, Makes
  <2>2. UNCHANGED <<now, clients>>
    BY <1>2 DEF MakeTokens
  <2> QED BY <2>1, <2>2, GoOnStep
<1>3. ASSUME NEW r \in Request, ReadSession(r) PROVE SessionInv'
  <2>1. /\ req[r].step # "none" /\ req'[r].session = req[r].session /\ req'[r].at = now
        /\ req'[r].step \in {"save", "tokens"} /\ ~ Fresh(r)'
        /\ \A q \in Request : q # r => req'[q] = req[q]
    BY <1>3, Reads DEF SessionInv
  <2>2. UNCHANGED <<now, clients>>
    BY <1>3 DEF ReadSession
  <2> QED BY <2>1, <2>2, GoOnStep
<1>4. ASSUME NEW r \in Request, SaveEnds(r) \/ SaveUser(r) PROVE SessionInv'
  BY <1>4, SaveStep
<1>5. ASSUME NEW r \in Request, NotifyRegistered(r) \/ UpdateSession(r) PROVE SessionInv'
  BY <1>5, HandStep
<1>6. ASSUME NEW r \in Request, SaveUserRefused(r) \/ NoSession(r) \/ UpdateRaises(r)
                                \/ RequestFails(r)
      PROVE  SessionInv'
  <2>1. Finish(r) /\ UNCHANGED <<now, clients>>
    BY <1>6 DEF SaveUserRefused, NoSession, UpdateRaises, RequestFails
  <2>2. \A q \in Request : req'[q] = req[q] \/ req'[q] = Idle
    BY <2>1, Finishes
  <2> QED BY <2>1, <2>2, EndStep
<1>7. ASSUME NEW r \in Request, DropSession(r) \/ DropOthers(r) \/ DropOthersLost(r)
      PROVE  SessionInv'
  BY <1>7, DropStep DEF DropSession, DropOthers, DropOthersLost
<1>8. ASSUME NEW s \in Session,
             ClearKey(s) \/ SetKey(s) \/ ClearKeyFails(s) \/ SetKeyFails(s)
      PROVE  SessionInv'
  <2>1. UNCHANGED <<now, clients, req>>
    BY <1>8 DEF ClearKey, SetKey, ClearKeyFails, SetKeyFails
  <2> QED BY <2>1, EndStep
<1>9. CASE Tick
  BY <1>9, TickStep
<1>10. CASE Restart
  <2>1. UNCHANGED <<now, clients>> /\ \A q \in Request : req'[q] = Idle
    BY <1>10 DEF Restart
  <2> QED BY <2>1, EndStep
<1>11. CASE UNCHANGED vars
  <2>1. UNCHANGED <<now, clients, req>>
    BY <1>11 DEF vars, clients
  <2> QED BY <2>1, EndStep
<1> QED
  BY <1>1, <1>2, <1>3, <1>4, <1>5, <1>6, <1>7, <1>8, <1>9, <1>10, <1>11
     DEF Next, Serve, SaveEnds

-----------------------------------------------------------------------------
(* The key of an ended session, and the names.                              *)

\* A logout starts the task that revokes, and the task ends with a key that lives longer
\* than what was made before.
LEMMA DeniedStep ==
  ASSUME AuthAssumption, TypeOK, LeftInv, DeniedInv, [Next]_vars
  PROVE  DeniedInv'
<1> USE DEF DeniedInv
<1>1. /\ now \in Nat /\ RefreshLife \in Nat
      /\ \A s \in Session : /\ left[s] \in Nat /\ denied[s] \in Nat
                            /\ pending[s] \in Nat /\ clearing[s] \in Nat
  BY DEF TypeOK, AuthAssumption
<1>2. CASE Fault
  BY <1>2, FaultType
<1>3. ASSUME NEW r \in Request, DropSession(r) \/ DropOthers(r) PROVE DeniedInv'
  <2>1. PICK S : Delete(S) /\ Background(S)
    <3>1. CASE DropSession(r)
      BY <3>1 DEF DropSession
    <3>2. CASE DropOthers(r)
      BY <3>2 DEF DropOthers
    <3> QED BY <1>3, <3>1, <3>2
  <2>2. /\ \A s \in Session : left'[s] = IF s \in S /\ s \in rows THEN now ELSE left[s]
        /\ \A s \in Session : pending'[s] = pending[s] + IF s \in S THEN 1 ELSE 0
    BY <2>1, DropTypes, BackgroundType
  <2>3. UNCHANGED <<denied, clearing, faults>>
    BY <1>3 DEF DropSession, DropOthers
  <2> QED BY <1>1, <2>2, <2>3
<1>4. ASSUME NEW z \in Session, ClearKey(z) PROVE DeniedInv'
  <2>1. /\ clearing'[z] = clearing[z] + 1 /\ UNCHANGED <<left, faults>>
        /\ \A s \in Session : s # z => /\ denied'[s] = denied[s] /\ pending'[s] = pending[s]
                                       /\ clearing'[s] = clearing[s]
    BY <1>4 DEF ClearKey, TypeOK, clients
  <2> QED BY <1>1, <2>1
<1>5. ASSUME NEW z \in Session, SetKey(z) PROVE DeniedInv'
  <2>1. /\ denied'[z] = now + RefreshLife /\ UNCHANGED <<left, pending, faults>>
        /\ \A s \in Session : s # z => denied'[s] = denied[s] /\ clearing'[s] = clearing[s]
    BY <1>5 DEF SetKey, TypeOK, clients
  <2>2. left[z] <= now
    BY DEF LeftInv
  <2> QED BY <1>1, <2>1, <2>2
<1>6. CASE UNCHANGED <<left, denied, pending, clearing, faults>>
  BY <1>6
<1>7. CASE \E r \in Request : Arrive(r)
  BY <1>6, <1>7 DEF Arrive, BeginRegister, BeginLogin, BeginRefresh, BeginLogout, clients,
                     revocation
<1>8. CASE \E r \in Request : Serve(r)
  BY <1>3, <1>6, <1>8
     DEF Serve, MakeTokens, SaveSession, SaveUser, SaveUserRefused, NotifyRegistered, ReadSession,
         NoSession, UpdateSession, UpdateRaises, clients, revocation
<1>9. CASE \E r \in Request :
             SaveLost(r) \/ SaveUserLost(r) \/ DropOthersLost(r) \/ RequestFails(r)
  BY <1>2, <1>9 DEF SaveLost, SaveUserLost, DropOthersLost, RequestFails
<1>10. CASE \E s \in Session : ClearKey(s) \/ SetKey(s) \/ ClearKeyFails(s) \/ SetKeyFails(s)
  BY <1>2, <1>4, <1>5, <1>10 DEF ClearKeyFails, SetKeyFails
<1>11. CASE Tick \/ Restart \/ UNCHANGED vars
  BY <1>2, <1>6, <1>11 DEF Tick, Restart, vars, clients, revocation
<1> QED BY <1>7, <1>8, <1>9, <1>10, <1>11 DEF Next

LEMMA NameStep ==
  ASSUME AuthAssumption, TypeOK, OneUserPerName, [Next]_vars
  PROVE  OneUserPerName'
<1> USE DEF OneUserPerName
<1>1. ASSUME NEW r \in Request, SaveUser(r) \/ SaveUserLost(r) PROVE OneUserPerName'
  <2>1. /\ ~ NameTaken(req[r].user) /\ users' = [users EXCEPT ![req[r].user] = @ + 1]
    BY <1>1 DEF SaveUser, SaveUserLost
  <2>2. ASSUME NEW u \in User PROVE users'[u] <= 1
    <3>1. users[u] \in Nat
      BY DEF TypeOK
    <3>2. CASE u = req[r].user
      <4>1. users[u] = 0 /\ users'[u] = users[u] + 1
        BY <2>1, <3>1, <3>2 DEF TypeOK, NameTaken
      <4> QED BY <4>1
    <3>3. CASE u # req[r].user
      BY <2>1, <3>3 DEF TypeOK
    <3> QED BY <3>2, <3>3
  <2> QED BY <2>2
<1>2. CASE UNCHANGED users
  BY <1>2
<1>3. CASE \E r \in Request : Arrive(r)
  BY <1>2, <1>3 DEF Arrive, BeginRegister, BeginLogin, BeginRefresh, BeginLogout
<1>4. CASE \E r \in Request : Serve(r)
  BY <1>1, <1>2, <1>4
     DEF Serve, MakeTokens, SaveSession, SaveUserRefused, NotifyRegistered, ReadSession, NoSession,
         UpdateSession, UpdateRaises, DropSession, DropOthers
<1>5. CASE \E r \in Request :
             SaveLost(r) \/ SaveUserLost(r) \/ DropOthersLost(r) \/ RequestFails(r)
  BY <1>1, <1>2, <1>5 DEF SaveLost, DropOthersLost, RequestFails
<1>6. CASE \E s \in Session : ClearKey(s) \/ SetKey(s) \/ ClearKeyFails(s) \/ SetKeyFails(s)
  BY <1>2, <1>6 DEF ClearKey, SetKey, ClearKeyFails, SetKeyFails
<1>7. CASE Tick \/ Restart \/ UNCHANGED vars
  BY <1>2, <1>7 DEF Tick, Restart, vars
<1> QED BY <1>3, <1>4, <1>5, <1>6, <1>7 DEF Next

-----------------------------------------------------------------------------
(* The theorems.                                                            *)

LEMMA AuthInvInit ==
  ASSUME AuthAssumption, Init
  PROVE  AuthInv
<1>1. TypeOK
  BY IdleType DEF AuthAssumption, Init, TypeOK, Asked
<1>2. /\ \A r \in Request : req[r] = Idle
      /\ \A s \in Session : left[s] = 0 /\ s \notin rows
      /\ tokens = {} /\ now = 1 /\ \A u \in User : users[u] = 0
  BY DEF Init
<1>3. Idle.step = "none" /\ Idle.op = "idle" /\ Idle.session = None /\ Idle.at = 0
  BY DEF Idle
<1>4. HeldInv /\ FreshInv
  BY <1>2, <1>3 DEF HeldInv, FreshInv, Fresh
<1>5. UnusedInv
  BY <1>2, <1>3 DEF UnusedInv, AuthAssumption
<1>6. TokenInv /\ LeftInv /\ NoTokenAfterLogout /\ DeniedInv /\ OneUserPerName
  BY <1>2 DEF TokenInv, LeftInv, NoTokenAfterLogout, DeniedInv, OneUserPerName
<1> QED BY <1>1, <1>4, <1>5, <1>6 DEF AuthInv

LEMMA AuthInvStep ==
  ASSUME AuthAssumption, AuthInv, [Next]_vars
  PROVE  AuthInv'
<1>1. TypeOK' /\ SessionInv' /\ DeniedInv' /\ OneUserPerName'
  BY TypeStep, SessionStep, DeniedStep, NameStep DEF AuthInv, SessionInv
<1> QED BY <1>1 DEF AuthInv, SessionInv

LEMMA AuthInvHolds == Spec => []AuthInv
<1>1. Init => AuthInv
  BY AuthAssumption, AuthInvInit
<1>2. AuthInv /\ [Next]_vars => AuthInv'
  BY AuthAssumption, AuthInvStep
<1> QED BY <1>1, <1>2, PTL DEF Spec

\* Every variable keeps its type.
THEOREM AuthTypeCorrect == Spec => []TypeOK
<1>1. AuthInv => TypeOK
  BY DEF AuthInv
<1> QED BY <1>1, AuthInvHolds, PTL

\* Whatever fails, and however requests meet, a session that has ended gets no token that
\* was made after its end: refresh looks the row up again before it answers.
THEOREM AuthNoTokenAfterLogout == Spec => []NoTokenAfterLogout
<1>1. AuthInv => NoTokenAfterLogout
  BY DEF AuthInv
<1> QED BY <1>1, AuthInvHolds, PTL

\* Without failures the tokens of an ended session are refused as soon as the background
\* task has run, for as long as they live: the key in Redis outlives them.
THEOREM AuthRevokedIsRefused == Spec => []RevokedIsRefused
<1>1. ASSUME AuthInv PROVE RevokedIsRefused
  <2>1. ASSUME faults = 0, NEW t \in tokens, Ended(t.session) PROVE Denied(t.session)
    <3>1. /\ t.session \in Session /\ t.exp \in Nat /\ now \in Nat
          /\ left[t.session] \in Nat /\ denied[t.session] \in Nat
      BY <1>1 DEF AuthInv, TypeOK, Token
    <3>2. /\ AccessLife \in Nat /\ RefreshLife \in Nat /\ AccessLife <= RefreshLife
      BY AuthAssumption DEF AuthAssumption
    <3>3. t.exp > now
      BY <1>1 DEF AuthInv, TokenInv
    <3>4. t.exp <= left[t.session] + RefreshLife
      BY <1>1, <2>1, <3>1, <3>2 DEF AuthInv, NoTokenAfterLogout, Ended
    <3>5. denied[t.session] >= left[t.session] + RefreshLife
      BY <1>1, <2>1, <3>1 DEF AuthInv, DeniedInv, Ended
    <3> QED BY <3>1, <3>2, <3>3, <3>4, <3>5 DEF Denied
  <2> QED BY <2>1 DEF RevokedIsRefused
<1> QED BY <1>1, AuthInvHolds, PTL

\* However registrations with one name meet, and whatever commits are lost, one user has it.
THEOREM AuthOneUserPerName == Spec => []OneUserPerName
<1>1. AuthInv => OneUserPerName
  BY DEF AuthInv
<1> QED BY <1>1, AuthInvHolds, PTL
=============================================================================
