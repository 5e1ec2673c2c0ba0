---------------------------- MODULE AuthSessions ----------------------------
(***************************************************************************)
(* auth-service: registration, login, refresh and logout, and the check of  *)
(* a token that auth_utils makes in every service.                          *)
(*                                                                          *)
(* PostgreSQL holds the sessions, a JWT is valid by itself until it         *)
(* expires, and Redis holds the sessions that were ended, so that their     *)
(* tokens are refused. Every repository call commits a transaction of its   *)
(* own, and requests interleave between them.                               *)
(***************************************************************************)
EXTENDS Integers, FiniteSets

CONSTANTS
  User,        \* stands for the name and the address of a user
  Session,     \* session ids, each drawn once (uuid4)
  Request,     \* requests in progress at a time
  None,
  AccessLife, RefreshLife,  \* access_token_lifetime_sec, refresh_token_lifetime_sec
  MaxTime,     \* bound on the clock
  MaxTasks,    \* bound on the background tasks of a session
  MaxFaults    \* bound on crashes and on failures of PostgreSQL, Redis and HTTP

ASSUME AuthAssumption ==
  /\ None \notin User \cup Session
  /\ AccessLife \in Nat \ {0} /\ RefreshLife \in Nat /\ AccessLife <= RefreshLife
  /\ MaxTime \in Nat /\ MaxTasks \in Nat /\ MaxFaults \in Nat

VARIABLES
  now,
  users,    \* how many rows of the table user have this name and address
  rows,     \* the table user_sessions
  hist,     \* the table user_sessions_hist
  owner,    \* whose a session is, None before the id is drawn
  tokens,   \* tokens in the hands of clients that have not expired
  left,     \* when the row of a session was deleted, 0 before
  denied,   \* until when the key session:drop of a session lives, 0 without it
  pending,  \* background_set tasks: not started, by session
  clearing, \* and between the delete and the set
  req,
  faults

vars == <<now, users, rows, hist, owner, tokens, left, denied, pending,
          clearing, req, faults>>

Token == [kind : {"access", "refresh"}, session : Session, exp : Nat]

Idle == [op |-> "idle", step |-> "none", session |-> None, user |-> None, at |-> 0]

Op   == {"idle", "register", "login", "refresh", "logout", "logout_all"}
Step == {"none", "row", "tokens", "save", "notify", "drop"}

Init ==
  /\ now      = 1
  /\ users    = [u \in User |-> 0]
  /\ rows     = {}
  /\ hist     = {}
  /\ owner    = [s \in Session |-> None]
  /\ tokens   = {}
  /\ left     = [s \in Session |-> 0]
  /\ denied   = [s \in Session |-> 0]
  /\ pending  = [s \in Session |-> 0]
  /\ clearing = [s \in Session |-> 0]
  /\ req      = [r \in Request |-> Idle]
  /\ faults   = 0

Fault == faults < MaxFaults /\ faults' = faults + 1

clients == <<rows, hist, owner, tokens, left>>
revocation == <<denied, pending, clearing>>

-----------------------------------------------------------------------------
(* Queries of AuthRepository.                                               *)

NameTaken(u)        == users[u] > 0
SessionsExcept(s)   == {t \in rows : t # s /\ owner[t] = owner[s]}
RecordedSession(s)  == s \in rows /\ s \in hist

-----------------------------------------------------------------------------
(* The check of a token (auth_utils), the same in every service.            *)

Denied(s) == denied[s] > now

Accepts(t, kind) == t \in tokens /\ t.kind = kind /\ t.exp > now /\ ~Denied(t.session)

Draw(r, op, u, s) ==
  /\ req[r] = Idle
  /\ req' = [req EXCEPT ![r] = [op |-> op, step |-> "tokens", session |-> s, user |-> u,
                                at |-> now]]

\* A request whose session is that of a token.
Take(r, op, step, t) ==
  req' = [req EXCEPT ![r] = [op |-> op, step |-> step, session |-> t.session, user |-> None,
                             at |-> now]]

Finish(r) == req' = [req EXCEPT ![r] = Idle]
Continue(r, step) == req' = [req EXCEPT ![r].step = step]

-----------------------------------------------------------------------------
(* New sessions: registration and login.                                    *)

Unused(s) == owner[s] = None

\* create_user up to the query of the permissions.
BeginRegister(r, u, s) ==
  /\ Unused(s) /\ ~NameTaken(u)
  /\ owner' = [owner EXCEPT ![s] = u]
  /\ Draw(r, "register", u, s)
  /\ UNCHANGED <<now, users, rows, hist, tokens, left, revocation, faults>>

\* login_user with the right password, up to the query of the permissions.
BeginLogin(r, u, s) ==
  /\ Unused(s) /\ NameTaken(u)
  /\ owner' = [owner EXCEPT ![s] = u]
  /\ Draw(r, "login", u, s)
  /\ UNCHANGED <<now, users, rows, hist, tokens, left, revocation, faults>>

\* The session maker signs both tokens.
MakeTokens(r) ==
  /\ req[r].step = "tokens"
  /\ req' = [req EXCEPT ![r].step = "save", ![r].at = now]
  /\ UNCHANGED <<now, users, clients, revocation, faults>>

Issued(q) ==
  {[kind |-> "access",  session |-> q.session, exp |-> q.at + AccessLife],
   [kind |-> "refresh", session |-> q.session, exp |-> q.at + RefreshLife]}

Hand(q) == tokens' = tokens \cup {t \in Issued(q) : t.exp > now}

Store(s) == rows' = rows \cup {s} /\ hist' = hist \cup {s}

SaveSession(r) ==
  /\ req[r].op = "login" /\ req[r].step = "save"
  /\ Store(req[r].session) /\ Hand(req[r])
  /\ Finish(r)
  /\ UNCHANGED <<now, users, owner, left, revocation, faults>>

\* The commit is done, its answer lost: the next attempt inserts the same keys,
\* and the client gets an error.
SaveLost(r) ==
  /\ Fault
  /\ req[r].op = "login" /\ req[r].step = "save"
  /\ Store(req[r].session)
  /\ Finish(r)
  /\ UNCHANGED <<now, users, owner, tokens, left, revocation>>

\* Mutation: a name that was taken in the meantime is not refused.
SaveUser_blind(r) ==
  /\ req[r].op = "register" /\ req[r].step = "save"
  /\ users' = [users EXCEPT ![req[r].user] = @ + 1]
  /\ Store(req[r].session)
  /\ Continue(r, "notify")
  /\ UNCHANGED <<now, owner, tokens, left, revocation, faults>>

\* The user, the credentials, the settings and the session in one transaction.
SaveUser(r) ==
  /\ req[r].op = "register" /\ req[r].step = "save"
  /\ ~NameTaken(req[r].user)
  /\ users' = [users EXCEPT ![req[r].user] = @ + 1]
  /\ Store(req[r].session)
  /\ Continue(r, "notify")
  /\ UNCHANGED <<now, owner, tokens, left, revocation, faults>>

SaveUserLost(r) ==
  /\ Fault
  /\ req[r].op = "register" /\ req[r].step = "save"
  /\ ~NameTaken(req[r].user)
  /\ users' = [users EXCEPT ![req[r].user] = @ + 1]
  /\ Store(req[r].session)
  /\ Finish(r)
  /\ UNCHANGED <<now, owner, tokens, left, revocation>>

\* Another registration was faster: the unique constraint refuses, five times.
SaveUserRefused(r) ==
  /\ req[r].op = "register" /\ req[r].step = "save"
  /\ NameTaken(req[r].user)
  /\ Finish(r)
  /\ UNCHANGED <<now, users, clients, revocation, faults>>

\* The notification with the confirmation link is created and the tokens answered.
NotifyRegistered(r) ==
  /\ req[r].step = "notify"
  /\ Hand(req[r])
  /\ Finish(r)
  /\ UNCHANGED <<now, users, rows, hist, owner, left, revocation, faults>>

-----------------------------------------------------------------------------
(* refresh_session.                                                         *)

BeginRefresh(r, t) ==
  /\ Accepts(t, "refresh") /\ req[r] = Idle
  /\ Take(r, "refresh", "row", t)
  /\ UNCHANGED <<now, users, clients, revocation, faults>>

\* The row, then the user and the permissions.
ReadSession(r) ==
  /\ req[r].step = "row" /\ req[r].session \in rows
  /\ req' = [req EXCEPT ![r].step = "tokens", ![r].user = owner[req[r].session], ![r].at = now]
  /\ UNCHANGED <<now, users, clients, revocation, faults>>

NoSession(r) ==
  /\ req[r].step = "row" /\ req[r].session \notin rows
  /\ Finish(r)
  /\ UNCHANGED <<now, users, clients, revocation, faults>>

\* Mutation: the row is not looked for again.
UpdateSession_blind(r) ==
  /\ req[r].op = "refresh" /\ req[r].step = "save"
  /\ Hand(req[r])
  /\ Finish(r)
  /\ UNCHANGED <<now, users, rows, hist, owner, left, revocation, faults>>

\* The row is read again with its history and updated.
UpdateSession(r) ==
  /\ req[r].op = "refresh" /\ req[r].step = "save"
  /\ RecordedSession(req[r].session)
  /\ Hand(req[r])
  /\ Finish(r)
  /\ UNCHANGED <<now, users, rows, hist, owner, left, revocation, faults>>

\* It has been deleted in the meantime: None cannot be unpacked.
UpdateRaises(r) ==
  /\ req[r].op = "refresh" /\ req[r].step = "save"
  /\ ~RecordedSession(req[r].session)
  /\ Finish(r)
  /\ UNCHANGED <<now, users, clients, revocation, faults>>

-----------------------------------------------------------------------------
(* Logout of one session, and of all others of the user.                    *)

BeginLogout(r, t, op) ==
  /\ Accepts(t, "access") /\ req[r] = Idle
  /\ Take(r, op, "drop", t)
  /\ UNCHANGED <<now, users, clients, revocation, faults>>

Delete(S) ==
  /\ rows' = rows \ S
  /\ left' = [s \in Session |-> IF s \in S \cap rows THEN now ELSE left[s]]

Background(S) ==
  /\ \A s \in S : pending[s] + clearing[s] < MaxTasks
  /\ pending' = [s \in Session |-> pending[s] + IF s \in S THEN 1 ELSE 0]

\* The key is set even when the row was gone.
DropSession(r) ==
  /\ req[r].op = "logout"
  /\ Delete({req[r].session}) /\ Background({req[r].session})
  /\ Finish(r)
  /\ UNCHANGED <<now, users, hist, owner, tokens, denied, clearing, faults>>

DropOthers(r) ==
  /\ req[r].op = "logout_all"
  /\ Delete(SessionsExcept(req[r].session)) /\ Background(SessionsExcept(req[r].session))
  /\ Finish(r)
  /\ UNCHANGED <<now, users, hist, owner, tokens, denied, clearing, faults>>

\* The delete is committed, its answer lost: the next attempt deletes nothing and
\* returns no session, so none is revoked.
DropOthersLost(r) ==
  /\ Fault
  /\ req[r].op = "logout_all"
  /\ Delete(SessionsExcept(req[r].session))
  /\ Finish(r)
  /\ UNCHANGED <<now, users, hist, owner, tokens, revocation>>

-----------------------------------------------------------------------------
(* background_set: delete the key, then set it.                             *)

ClearKey(s) ==
  /\ pending[s] > 0
  /\ denied'   = [denied EXCEPT ![s] = 0]
  /\ pending'  = [pending EXCEPT ![s] = @ - 1]
  /\ clearing' = [clearing EXCEPT ![s] = @ + 1]
  /\ UNCHANGED <<now, users, clients, req, faults>>

\* Mutation: the key lives as long as an access token.
SetKey_short(s) ==
  /\ clearing[s] > 0
  /\ denied'   = [denied EXCEPT ![s] = now + AccessLife]
  /\ clearing' = [clearing EXCEPT ![s] = @ - 1]
  /\ UNCHANGED <<now, users, clients, pending, req, faults>>

SetKey(s) ==
  /\ clearing[s] > 0
  /\ denied'   = [denied EXCEPT ![s] = now + RefreshLife]
  /\ clearing' = [clearing EXCEPT ![s] = @ - 1]
  /\ UNCHANGED <<now, users, clients, pending, req, faults>>

\* Redis does not answer, which is only logged: the old key stays, or no key is set.
ClearKeyFails(s) ==
  /\ Fault
  /\ pending[s] > 0
  /\ pending'  = [pending EXCEPT ![s] = @ - 1]
  /\ clearing' = [clearing EXCEPT ![s] = @ + 1]
  /\ UNCHANGED <<now, users, clients, denied, req>>

\* Mutation: the task is counted as done without one.
SetKeyFails_none(s) ==
  /\ Fault
  /\ clearing' = [clearing EXCEPT ![s] = @ - 1]
  /\ UNCHANGED <<now, users, clients, denied, pending, req>>

SetKeyFails(s) ==
  /\ Fault
  /\ clearing[s] > 0
  /\ clearing' = [clearing EXCEPT ![s] = @ - 1]
  /\ UNCHANGED <<now, users, clients, denied, pending, req>>

-----------------------------------------------------------------------------
(* The clock and failures.                                                  *)

\* The unit is the life of an access token; a request takes less.
Tick ==
  /\ now < MaxTime
  /\ \A r \in Request : req[r] = Idle \/ req[r].at = now
  /\ now' = now + 1
  /\ tokens' = {t \in tokens : t.exp > now + 1}
  /\ UNCHANGED <<users, rows, hist, owner, left, revocation, req, faults>>

\* An attempt that fails five times, a provider or a notification-service that
\* does not answer: the client gets an error.
RequestFails(r) ==
  /\ Fault
  /\ req[r] # Idle
  /\ Finish(r)
  /\ UNCHANGED <<now, users, clients, revocation>>

Restart ==
  /\ Fault
  /\ req' = [r \in Request |-> Idle]
  /\ pending' = [s \in Session |-> 0] /\ clearing' = [s \in Session |-> 0]
  /\ UNCHANGED <<now, users, clients, denied>>

Serve(r) ==
  \/ MakeTokens(r) \/ SaveSession(r)
  \/ SaveUser(r) \/ SaveUserRefused(r) \/ NotifyRegistered(r)
  \/ ReadSession(r) \/ NoSession(r) \/ UpdateSession(r) \/ UpdateRaises(r)
  \/ DropSession(r) \/ DropOthers(r)

Arrive(r) ==
  \/ \E u \in User, s \in Session : BeginRegister(r, u, s) \/ BeginLogin(r, u, s)
  \/ \E t \in tokens :
       \/ BeginRefresh(r, t)
       \/ BeginLogout(r, t, "logout") \/ BeginLogout(r, t, "logout_all")

Next ==
  \/ \E r \in Request :
       Arrive(r) \/ Serve(r) \/ SaveLost(r) \/ SaveUserLost(r) \/ DropOthersLost(r) \/ RequestFails(r)
  \/ \E s \in Session : ClearKey(s) \/ SetKey(s) \/ ClearKeyFails(s) \/ SetKeyFails(s)
  \/ Tick
  \/ Restart

Spec == Init /\ [][Next]_vars

-----------------------------------------------------------------------------
(* Properties.                                                              *)

TypeOK ==
  /\ now \in Nat /\ faults \in 0 .. MaxFaults
  /\ users \in [User -> Nat]
  /\ rows \subseteq Session /\ hist \subseteq Session
  /\ owner \in [Session -> User \cup {None}]
  /\ tokens \subseteq Token
  /\ left \in [Session -> Nat] /\ denied \in [Session -> Nat]
  /\ pending \in [Session -> Nat] /\ clearing \in [Session -> Nat]
  /\ req \in [Request -> [op : Op, step : Step, session : Session \cup {None},
                          user : User \cup {None}, at : Nat]]

Ended(s) == left[s] > 0 /\ pending[s] = 0 /\ clearing[s] = 0

\* Without failures no service accepts a token of a session that was ended, once
\* the background task has run: neither a refresh that was under way nor a second
\* logout lets one outlive the key in Redis.
RevokedIsRefused ==
  faults = 0 => \A t \in tokens : Ended(t.session) => Denied(t.session)

\* Whatever fails, a refresh that was under way when its session ended gives no
\* tokens that were made after the end.
NoTokenAfterLogout ==
  \A t \in tokens : left[t.session] > 0 =>
    t.exp <= left[t.session] + IF t.kind = "access" THEN AccessLife ELSE RefreshLife

\* Whatever fails, concurrent registrations with one name leave one user.
OneUserPerName == \A u \in User : users[u] <= 1

=============================================================================
