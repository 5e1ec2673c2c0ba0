---------------------------- MODULE AuthAccounts ----------------------------
(***************************************************************************)
(* auth-service: the columns of a user and the permissions of a role under  *)
(* requests that overlap, the confirmation of an e-mail address, and the    *)
(* answers about profiles and roles in Redis.                               *)
(*                                                                          *)
(* A handler reads a row in one transaction and saves it in another one,    *)
(* and what it saves is the difference to what it read. AuthRoles has what  *)
(* the permissions are good for.                                            *)
(***************************************************************************)
EXTENDS Integers, FiniteSets

CONSTANTS
  Client, RoleCode, Right,
  Handler,           \* requests at a time
  None,
  AnswerLife,        \* cache_expire_in_seconds
  MaxAccTime, MaxAsks, MaxSets, MaxAccFaults   \* bounds

VARIABLES
  accNow, asks, accFaults,
  exists,    \* the roles in dict_roles
  row,       \* the columns of a user, the permissions of a role
  handler,   \* what a request asks for, and what it has read
  told,      \* users whose address was confirmed, as they were told
  unsaved,   \* ... after an attempt to save it has failed
  shown,     \* the answers in Redis
  sets,      \* the background tasks that write there, by their keys
  meant,     \* what a column may hold by what was asked
  past       \* what an answer might have said of late, and until when

rowVars == <<exists, row, meant, past>>
accVars == <<accNow, asks, accFaults, rowVars, handler, told, unsaved, shown, sets>>

-----------------------------------------------------------------------------
(* Rows. A name, a password and a role are numbers, the rest 0 or 1.        *)

UserColumn == {"username", "password", "role_code", "is_verified_email"}
Column(o)  == IF o \in Client THEN UserColumn ELSE Right

NewUser == [c \in UserColumn |-> IF c = "is_verified_email" THEN 0 ELSE 1]
NoRole  == [p \in Right |-> 0]
Holds(P) == [p \in Right |-> IF p \in P THEN 1 ELSE 0]

Key == Client \cup RoleCode \cup {"role:all"}

\* What the database answers: the profile, without the password, or None.
Profile(ro, u) == [c \in UserColumn \ {"password"} |-> ro[u][c]]
Truth(ex, ro, k) ==
  CASE k \in Client -> Profile(ro, k)
    [] k \in ex     -> ro[k]
    [] k \in RoleCode \ ex -> None
    [] k = "role:all" -> ex

NoHandler == [do |-> "none", on |-> None, ask |-> NoRole, was |-> NoRole, met |-> NoRole,
              failed |-> FALSE, at |-> 0]
NotShown == [val |-> None, raced |-> FALSE, end |-> 0]

Init ==
  /\ accNow = 1 /\ asks = 0 /\ accFaults = 0
  /\ exists  = RoleCode
  /\ \E P \in [RoleCode -> SUBSET Right] :
       row = [o \in Client \cup RoleCode |-> IF o \in Client THEN NewUser ELSE Holds(P[o])]
  /\ handler = [h \in Handler |-> NoHandler]
  /\ told = {} /\ unsaved = {}
  /\ shown   = [k \in Key |-> NotShown]
  /\ sets    = [k \in Key |-> {}]
  /\ meant   = [o \in Client \cup RoleCode |-> [c \in Column(o) |-> {row[o][c]}]]
  /\ past    = [k \in Key |-> {}]

AccFault == accFaults < MaxAccFaults /\ accFaults' = accFaults + 1

\* The rows are written as ex and ro; what an answer said until now is in the past.
Write(ex, ro) ==
  /\ exists' = ex /\ row' = ro
  /\ past' = [k \in Key |->
       IF Truth(ex, ro, k) = Truth(exists, row, k) THEN past[k]
       ELSE past[k] \cup {[val |-> Truth(exists, row, k), till |-> accNow]}]

\* h has asked for v of o, or somebody who reads nothing before has.
Asked(h, o, v) ==
  meant' = [meant EXCEPT ![o] = [c \in Column(o) |->
              IF c \notin DOMAIN v THEN meant[o][c]
              ELSE {v[c]} \cup IF h = None THEN {} ELSE handler[h].met[c]]]

\* The others that are about to write the same columns meet it.
Meet(h, o, v, next) ==
  handler' = [g \in Handler |->
    IF g = h THEN next
    ELSE IF handler[g].do = "none" \/ handler[g].on # o THEN handler[g]
    ELSE [handler[g] EXCEPT !.met = [c \in DOMAIN @ |->
            IF c \in DOMAIN v THEN @[c] \cup {v[c]} ELSE @[c]]]]

-----------------------------------------------------------------------------
(* Background tasks over Redis.                                             *)

Task(v, raced) == [val |-> v, raced |-> raced, at |-> accNow]
Room(n) == n + Cardinality(UNION {{<<k, s>> : s \in sets[k]} : k \in Key}) <= MaxSets

BackgroundSet(k, v, raced) ==
  /\ Room(1)
  /\ sets' = [sets EXCEPT ![k] = @ \cup {Task(v, raced)}]

Run(k, s, answers) ==
  /\ shown' \in answers
  /\ sets' = [sets EXCEPT ![k] = @ \ {s}]
  /\ UNCHANGED <<accNow, asks, rowVars, handler, told, unsaved>>

\* What the task leaves: nothing, when it has nothing to set.
Answer(s) == IF s.val = None THEN NotShown
             ELSE [val |-> s.val, raced |-> s.raced, end |-> accNow + AnswerLife]

RunSet(k, s) == Run(k, s, {[shown EXCEPT ![k] = Answer(s)]}) /\ UNCHANGED accFaults

\* Redis refuses the one or the other half of set; the task only logs it.
SetFails(k, s) == Run(k, s, {shown, [shown EXCEPT ![k] = NotShown]}) /\ AccFault

Look(k) ==
  /\ shown[k].end <= accNow
  /\ BackgroundSet(k, Truth(exists, row, k), FALSE)
  /\ UNCHANGED <<accNow, asks, accFaults, rowVars, handler, told, unsaved, shown>>

FetchUserProfile(u) == Look(u)
GetRole(c)          == c \in exists /\ Look(c)
GetRoles            == exists # {} /\ Look("role:all")

-----------------------------------------------------------------------------
(* Requests that read a row and save it later.                              *)

FindOne(h, do, o, ask) ==
  /\ handler[h].do = "none" /\ asks < MaxAsks /\ asks' = asks + 1
  /\ handler' = [handler EXCEPT ![h] =
       [do |-> do, on |-> o, ask |-> ask, was |-> row[o], met |-> [c \in DOMAIN ask |-> {}],
        failed |-> FALSE, at |-> accNow]]
  /\ UNCHANGED <<accNow, accFaults, rowVars, told, unsaved, shown, sets>>

ChangeUsername(h, u, n) == FindOne(h, "user", u, [c \in {"username"} |-> n])
ChangePassword(h, u, n) == FindOne(h, "user", u, [c \in {"password"} |-> n])
AssignRole(h, u, n)     == FindOne(h, "user", u, [c \in {"role_code"} |-> n])

\* With the token that was mailed, and an address that is not confirmed yet.
ConfirmEmail(h, u) ==
  /\ row[u]["is_verified_email"] = 0
  /\ FindOne(h, "confirm", u, [c \in {"is_verified_email"} |-> 1])

BeginUpdate(h, c, P) == c \in exists /\ FindOne(h, "role", c, Holds(P))

\* Mutation: the row is saved as it was read, with what was asked for.
Saved_whole(h) == LET q == handler[h]
  IN  [c \in Column(q.on) |-> IF c \in DOMAIN q.ask THEN q.ask[c] ELSE q.was[c]]

\* The ORM saves the columns, and the permissions, that differ from what was read.
Saved(h) == LET q == handler[h]
  IN  [c \in Column(q.on) |->
         IF c \in DOMAIN q.ask /\ q.ask[c] # q.was[c] THEN q.ask[c] ELSE row[q.on][c]]

\* No user has the name; the permissions that stay are there, the new ones are not.
MaySave(h) == LET q == handler[h]
  IN  /\ "username" \in DOMAIN q.ask =>
           \A u \in Client \ {q.on} : row[u]["username"] # q.ask["username"]
      /\ q.do = "role" =>
           /\ q.on \in exists
           /\ \A p \in Right : q.ask[p] = 1 => q.was[p] = row[q.on][p]

Save(h) ==
  LET q == handler[h] IN
  /\ q.do # "none" /\ MaySave(h)
  /\ Write(exists, [row EXCEPT ![q.on] = Saved(h)])
  /\ Asked(h, q.on, q.ask)
  /\ Meet(h, q.on, q.ask, NoHandler)
  /\ told' = IF q.do = "confirm" THEN told \cup {q.on} ELSE told
  /\ IF q.do = "role"
     THEN BackgroundSet(q.on, q.ask, \E p \in Right : q.met[p] # {})
     ELSE UNCHANGED sets
  /\ UNCHANGED <<accNow, asks, accFaults, unsaved, shown>>

\* What the repeated attempt has after the rollback: the role is read again, the column
\* of a user is set again whatever it holds, and the mark of the address is gone.
Repeated(q, ro) == [q EXCEPT
  !.failed = TRUE,
  !.ask = IF q.do = "confirm" THEN [c \in {} |-> 0] ELSE @,
  !.was = IF q.do = "role" THEN ro[q.on] ELSE [c \in UserColumn |-> None]]

\* An attempt fails, before or after the database has committed.
SaveFails(h) ==
  LET q == handler[h] IN
  /\ q.do # "none" /\ AccFault
  /\ q.do = "role" => q.on \in exists
  /\ Meet(h, q.on, [c \in {} |-> 0], Repeated(q, row))
  /\ unsaved' = IF q.do = "confirm" THEN unsaved \cup {q.on} ELSE unsaved
  /\ UNCHANGED <<accNow, asks, rowVars, told, shown, sets>>

SaveLost(h) ==
  LET q == handler[h]
      ro == [row EXCEPT ![q.on] = Saved(h)] IN
  /\ q.do # "none" /\ MaySave(h) /\ AccFault
  /\ Write(exists, ro)
  /\ Asked(h, q.on, q.ask)
  /\ Meet(h, q.on, q.ask, Repeated(q, ro))
  /\ UNCHANGED <<accNow, asks, told, unsaved, shown, sets>>

\* A conflict is a failed attempt, too; without its role the request is refused.
SaveRefused(h) ==
  LET q == handler[h] IN
  /\ q.do # "none" /\ ~MaySave(h)
  /\ Meet(h, q.on, [c \in {} |-> 0],
          IF q.on \in RoleCode \ exists THEN NoHandler ELSE Repeated(q, row))
  /\ UNCHANGED <<accNow, asks, accFaults, rowVars, told, unsaved, shown, sets>>

\* After five attempts.
GiveUp(h) ==
  /\ handler[h].failed
  /\ handler' = [handler EXCEPT ![h] = NoHandler]
  /\ UNCHANGED <<accNow, asks, accFaults, rowVars, told, unsaved, shown, sets>>

-----------------------------------------------------------------------------
(* Roles are created and deleted in one transaction.                        *)

Change(c, ex, v) ==
  /\ asks < MaxAsks /\ asks' = asks + 1
  /\ Write(ex, [row EXCEPT ![c] = v])
  /\ Asked(None, c, v)
  /\ Meet(None, c, v, NoHandler)
  /\ UNCHANGED <<accNow, accFaults, told, unsaved, shown>>

CreateRole(c, P) ==
  /\ c \notin exists
  /\ Change(c, exists \cup {c}, Holds(P))
  /\ BackgroundSet(c, Holds(P), FALSE)

DestroyRole(c) ==
  /\ Change(c, exists \ {c}, NoRole)
  /\ Room(2)
  /\ sets' = [sets EXCEPT ![c] = @ \cup {Task(None, FALSE)},
                         !["role:all"] = @ \cup {Task(None, FALSE)}]

-----------------------------------------------------------------------------
\* A request and a background task take less than the unit of the clock.
AccTick ==
  /\ accNow < MaxAccTime /\ accNow' = accNow + 1
  /\ \A k \in Key : \A s \in sets[k] : s.at = accNow
  /\ \A h \in Handler : handler[h].do = "none" \/ handler[h].at = accNow
  /\ shown' = [k \in Key |-> IF shown[k].end > accNow' THEN shown[k] ELSE NotShown]
  /\ past' = [k \in Key |-> {x \in past[k] : x.till + AnswerLife >= accNow'}]
  /\ UNCHANGED <<asks, accFaults, exists, row, meant, handler, told, unsaved, sets>>

Next ==
  \/ \E k \in Key : \E s \in sets[k] : RunSet(k, s) \/ SetFails(k, s)
  \/ \E u \in Client : FetchUserProfile(u)
  \/ \E c \in RoleCode : GetRole(c) \/ DestroyRole(c)
  \/ GetRoles
  \/ \E h \in Handler, u \in Client, n \in {1, 2} :
       ChangeUsername(h, u, n) \/ ChangePassword(h, u, n) \/ AssignRole(h, u, n)
  \/ \E h \in Handler, u \in Client : ConfirmEmail(h, u)
  \/ \E c \in RoleCode, P \in (SUBSET Right) \ {{}} :
       CreateRole(c, P) \/ \E h \in Handler : BeginUpdate(h, c, P)
  \/ \E h \in Handler : Save(h) \/ SaveFails(h) \/ SaveLost(h) \/ SaveRefused(h) \/ GiveUp(h)
  \/ AccTick

Spec == Init /\ [][Next]_accVars

-----------------------------------------------------------------------------
(* Properties.                                                              *)

\* A column of a user and a permission of a role are what was asked for last, by the
\* last request or by one that overlapped with it: no request undoes another column, or
\* brings back what was changed before it began.
AsAsked ==
  \A o \in Client \cup RoleCode : \A c \in Column(o) : row[o][c] \in meant[o][c]

\* Who was told that the address is confirmed has it confirmed, unless an attempt to
\* save it failed: the repeated one saves nothing, and says that it did.
ConfirmedIsSaved ==
  \A u \in told \ unsaved : row[u]["is_verified_email"] = 1

\* An answer about a profile, a role or the roles was true within the life of an answer,
\* but for what an update answers that met another one: the row may hold some of both.
AnswersWereTrue ==
  \A k \in Key :
    shown[k].end > accNow /\ ~shown[k].raced =>
      \/ shown[k].val = Truth(exists, row, k)
      \/ \E x \in past[k] : shown[k].val = x.val

AccountsAgree == AsAsked /\ ConfirmedIsSaved /\ AnswersWereTrue
=============================================================================
