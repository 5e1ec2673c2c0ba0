--------------------------- MODULE MassNotification ---------------------------
(***************************************************************************)
(* Mass mailings in notification-service: the two tasks that start them at *)
(* their time and the ETL that turns a mailing into one row of table       *)
(* notification.notification per user, page by page of auth-service's      *)
(* profiles. The number of the next page is kept in Redis.                 *)
(*                                                                         *)
(* One service process is modelled, as gunicorn_conf.py configures; what   *)
(* becomes of the rows is the subject of NotificationService.              *)
(***************************************************************************)
EXTENDS Integers, FiniteSets, Sequences

CONSTANTS
  Mailing,     \* ids of the mass notifications
  User,        \* everybody with a profile
  Roster,      \* the orders in which auth-service may list the profiles
  PageSize,    \* profile_page_size
  BatchLimit,  \* mass_notify_batch
  Hour,        \* the instants at which the clock is observed
  NoPage,      \* there is no page number in Redis
  MaxFaults,   \* bound on crashes and failures of the stores and of auth-service
  MaxMoves     \* bound on changes of the order of the profiles

\* A roster lists every one of its users once.
ASSUME MailingAssumption ==
  /\ \A r \in Roster : r \in Seq(User)
  /\ \A r \in Roster : \A i, j \in DOMAIN r : r[i] = r[j] => i = j
  /\ PageSize \in Nat \ {0}
  /\ BatchLimit \in Nat \ {0}
  /\ Hour \subseteq Nat
  /\ NoPage \notin Nat
  /\ MaxFaults \in Nat /\ MaxMoves \in Nat

MailingStatus == {"NEW", "SENDING", "SENT", "DELAYED"}
Task == {"new", "delayed", "etl"}

VARIABLES
  status,   \* column status; "ABSENT" before the insert
  startAt,  \* column target_start_sending_at
  nextPage, \* page_number_mass_notify:<id> in Redis
  rows,     \* how many notifications of a mailing each user has
  order,    \* the order in which auth-service lists the profiles now
  alive,    \* the background tasks that still run
  job,      \* what _process_one_mass_notify is at for a mailing
  clock, faults, moves

vars == <<status, startAt, nextPage, rows, order, alive, job, clock, faults, moves>>

\* The page a job works on, if its number came from Redis, and who is on it.
Job  == [step : {"idle", "load", "create", "advance", "mark", "cleanup"},
         page : Nat, cached : BOOLEAN, users : SUBSET User]
Idle == [step |-> "idle", page |-> 0, cached |-> FALSE, users |-> {}]

Init ==
  /\ status   = [m \in Mailing |-> "ABSENT"]
  /\ startAt  = [m \in Mailing |-> 0]
  /\ nextPage = [m \in Mailing |-> NoPage]
  /\ rows     = [m \in Mailing |-> [u \in User |-> 0]]
  /\ order \in Roster
  /\ alive    = Task
  /\ job      = [m \in Mailing |-> Idle]
  /\ clock \in {h \in Hour : \A g \in Hour : h <= g}
  /\ faults = 0 /\ moves = 0

Fault == faults < MaxFaults /\ faults' = faults + 1

\* POST /mass-notification, by the event-generator or a manager.
CreateMailing(m, t) ==
  /\ status[m] = "ABSENT"
  /\ status'  = [status EXCEPT ![m] = "NEW"]
  /\ startAt' = [startAt EXCEPT ![m] = t]
  /\ UNCHANGED <<nextPage, rows, order, alive, job, clock, faults, moves>>

-----------------------------------------------------------------------------
(* The two status tasks.                                                    *)

StartNew(S) ==
  /\ "new" \in alive
  /\ S # {} /\ Cardinality(S) <= BatchLimit
  /\ \A m \in S : status[m] = "NEW"
  /\ status' = [m \in Mailing |->
       IF m \notin S THEN status[m] ELSE IF startAt[m] <= clock THEN "SENDING" ELSE "DELAYED"]
  /\ UNCHANGED <<startAt, nextPage, rows, order, alive, job, clock, faults, moves>>

\* Mutation: the status the delayed rows of the other table get.
StartDelayed_single(S) ==
  /\ "delayed" \in alive
  /\ S # {} /\ Cardinality(S) <= BatchLimit
  /\ \A m \in S : status[m] = "DELAYED" /\ startAt[m] <= clock
  /\ status' = [m \in Mailing |-> IF m \in S THEN "PROCESSING" ELSE status[m]]
  /\ UNCHANGED <<startAt, nextPage, rows, order, alive, job, clock, faults, moves>>

StartDelayed(S) ==
  /\ "delayed" \in alive
  /\ S # {} /\ Cardinality(S) <= BatchLimit
  /\ \A m \in S : status[m] = "DELAYED" /\ startAt[m] <= clock
  /\ status' = [m \in Mailing |-> IF m \in S THEN "SENDING" ELSE status[m]]
  /\ UNCHANGED <<startAt, nextPage, rows, order, alive, job, clock, faults, moves>>

-----------------------------------------------------------------------------
(* The ETL. The jobs of one batch run concurrently; the next batch is       *)
(* fetched when all of them are done. The first that raises ends the task,  *)
(* and the others go on without it.                                         *)

\* The fetch locks the rows and lets them go at once: the status stays SENDING.
FetchMailings(S) ==
  /\ "etl" \in alive
  /\ \A m \in Mailing : job[m] = Idle
  /\ S # {} /\ Cardinality(S) <= BatchLimit
  /\ \A m \in S : status[m] = "SENDING"
  /\ job' = [m \in Mailing |-> IF m \in S THEN [Idle EXCEPT !.step = "load"] ELSE job[m]]
  /\ UNCHANGED <<status, startAt, nextPage, rows, order, alive, clock, faults, moves>>

\* Everybody on page k of the list as it is now.
Page(k) == {order[i] : i \in {j \in DOMAIN order : (k - 1) * PageSize < j /\ j <= k * PageSize}}

Goto(m, s)   == job' = [job EXCEPT ![m].step = s]
Finish(m)    == job' = [job EXCEPT ![m] = Idle]

\* An exception in one job reaches the ETL through gather and ends it.
Abort(m) == Finish(m) /\ alive' = alive \ {"etl"}

\* The page number from Redis, else 1, and the profiles of that page. Nobody but
\* the job itself writes the number, so the two reads are one step.
LoadPage(m) ==
  /\ job[m].step = "load"
  /\ LET cached == nextPage[m] # NoPage
         k      == IF cached THEN nextPage[m] ELSE 1
     IN  job' = [job EXCEPT ![m] =
                   [step |-> "create", page |-> k, cached |-> cached, users |-> Page(k)]]
  /\ UNCHANGED <<status, startAt, nextPage, rows, order, alive, clock, faults, moves>>

\* Redis does not answer: the handler returns None, as if there were no number.
LoadPageNoRedis(m) ==
  /\ Fault /\ job[m].step = "load"
  /\ job' = [job EXCEPT ![m] =
               [step |-> "create", page |-> 1, cached |-> FALSE, users |-> Page(1)]]
  /\ UNCHANGED <<status, startAt, nextPage, rows, order, alive, clock, moves>>

\* auth-service does not answer, or not properly.
LoadPageFails(m) ==
  /\ Fault /\ job[m].step = "load"
  /\ Abort(m)
  /\ UNCHANGED <<status, startAt, nextPage, rows, order, clock, moves>>

AddRows(m) ==
  rows' = [rows EXCEPT ![m] = [u \in User |-> rows[m][u] + IF u \in job[m].users THEN 1 ELSE 0]]

\* Mutations: off by one, and only an empty page is the last one.
AfterPage_one(m)   == IF Cardinality(job[m].users) <= PageSize THEN "mark" ELSE "advance"
AfterPage_empty(m) == IF job[m].users = {} THEN "mark" ELSE "advance"

\* A page that is not full is the last one.
AfterPage(m) == IF Cardinality(job[m].users) < PageSize THEN "mark" ELSE "advance"

CreateNotifications(m) ==
  /\ job[m].step = "create"
  /\ AddRows(m)
  /\ Goto(m, AfterPage(m))
  /\ UNCHANGED <<status, startAt, nextPage, order, alive, clock, faults, moves>>

\* The insert fails five times, or its commit was done and only the answer lost:
\* then the retries, with the same ids, violate the primary key.
CreateFails(m) ==
  /\ Fault /\ job[m].step = "create"
  /\ AddRows(m) \/ UNCHANGED rows
  /\ Abort(m)
  /\ UNCHANGED <<status, startAt, nextPage, order, clock, moves>>

MarkSent(m) ==
  /\ job[m].step = "mark"
  /\ status' = [status EXCEPT ![m] = "SENT"]
  /\ Goto(m, "cleanup")
  /\ UNCHANGED <<startAt, nextPage, rows, order, alive, clock, faults, moves>>

MarkSentFails(m) ==
  /\ Fault /\ job[m].step = "mark"
  /\ status' = [status EXCEPT ![m] = "SENT"] \/ UNCHANGED status
  /\ Abort(m)
  /\ UNCHANGED <<startAt, nextPage, rows, order, clock, moves>>

DropPageNumber(m) ==
  /\ job[m].step = "cleanup"
  /\ nextPage' = [nextPage EXCEPT ![m] = NoPage]
  /\ Finish(m)
  /\ UNCHANGED <<status, startAt, rows, order, alive, clock, faults, moves>>

\* A number that came from Redis is a string: adding 1 to it raises, after the
\* rows of the page were committed.
AdvanceRaises(m) ==
  /\ job[m].step = "advance" /\ job[m].cached
  /\ Abort(m)
  /\ UNCHANGED <<status, startAt, nextPage, rows, order, clock, faults, moves>>

\* Mutation: the number of the page that is done is stored.
Advance_same(m) ==
  /\ job[m].step = "advance" /\ ~job[m].cached
  /\ nextPage' = [nextPage EXCEPT ![m] = job[m].page]
  /\ Finish(m)
  /\ UNCHANGED <<status, startAt, rows, order, alive, clock, faults, moves>>

Advance(m) ==
  /\ job[m].step = "advance" /\ ~job[m].cached
  /\ nextPage' = [nextPage EXCEPT ![m] = job[m].page + 1]
  /\ Finish(m)
  /\ UNCHANGED <<status, startAt, rows, order, alive, clock, faults, moves>>

\* The set or the delete fails in Redis, which is only logged.
RedisSilent(m) ==
  /\ Fault
  /\ job[m].step = "cleanup" \/ (job[m].step = "advance" /\ ~job[m].cached)
  /\ Finish(m)
  /\ UNCHANGED <<status, startAt, nextPage, rows, order, alive, clock, moves>>

-----------------------------------------------------------------------------
(* The environment.                                                         *)

\* The number lives for expire_cache_sec, which a long stop of the ETL outlasts.
PageNumberExpires(m) ==
  /\ Fault /\ nextPage[m] # NoPage
  /\ nextPage' = [nextPage EXCEPT ![m] = NoPage]
  /\ UNCHANGED <<status, startAt, rows, order, alive, job, clock, moves>>

\* A query of a task fails five times; the ETL asks between its batches.
TaskDies(k) ==
  /\ Fault /\ k \in alive
  /\ k = "etl" => \A m \in Mailing : job[m] = Idle
  /\ alive' = alive \ {k}
  /\ UNCHANGED <<status, startAt, nextPage, rows, order, job, clock, moves>>

\* Mutation: a restart takes the mailings up from the beginning.
Restart_again ==
  /\ Fault
  /\ alive' = Task
  /\ job'   = [m \in Mailing |-> Idle]
  /\ status' = [m \in Mailing |-> IF status[m] = "SENT" THEN "NEW" ELSE status[m]]
  /\ UNCHANGED <<startAt, nextPage, rows, order, clock, moves>>

Restart ==
  /\ Fault
  /\ alive' = Task
  /\ job'   = [m \in Mailing |-> Idle]
  /\ UNCHANGED <<status, startAt, nextPage, rows, order, clock, moves>>

\* The query for the profiles has no ORDER BY: a profile that is updated may be
\* listed last from then on.
MoveToEnd(u) ==
  /\ moves < MaxMoves /\ moves' = moves + 1
  /\ \E i \in DOMAIN order :
       /\ order[i] = u
       /\ order' = [j \in DOMAIN order |->
            IF j < i THEN order[j] ELSE IF j < Len(order) THEN order[j + 1] ELSE u]
  /\ UNCHANGED <<status, startAt, nextPage, rows, alive, job, clock, faults>>

Tick ==
  /\ \E h \in Hour :
       /\ h > clock /\ \A g \in Hour : g > clock => h <= g
       /\ clock' = h
  /\ UNCHANGED <<status, startAt, nextPage, rows, order, alive, job, faults, moves>>

NewTask     == \E S \in SUBSET Mailing : StartNew(S)
DelayedTask == \E S \in SUBSET Mailing : StartDelayed(S)
EtlTask     == \E S \in SUBSET Mailing : FetchMailings(S)

OneMailing(m) ==
  \/ LoadPage(m)
  \/ CreateNotifications(m)
  \/ MarkSent(m)
  \/ DropPageNumber(m)
  \/ Advance(m)
  \/ AdvanceRaises(m)

Failure ==
  \/ \E m \in Mailing : \/ LoadPageNoRedis(m) \/ LoadPageFails(m) \/ CreateFails(m)
                        \/ MarkSentFails(m) \/ RedisSilent(m) \/ PageNumberExpires(m)
  \/ \E k \in Task : TaskDies(k)
  \/ Restart

Next ==
  \/ \E m \in Mailing, t \in Hour : CreateMailing(m, t)
  \/ NewTask
  \/ DelayedTask
  \/ EtlTask
  \/ \E m \in Mailing : OneMailing(m)
  \/ Failure
  \/ \E u \in User : MoveToEnd(u)
  \/ Tick

\* Every task sleeps for a bounded time and asks again, and the event loop lets
\* each job run on.
Spec ==
  /\ Init /\ [][Next]_vars
  /\ WF_vars(Tick) /\ WF_vars(NewTask) /\ WF_vars(DelayedTask) /\ WF_vars(EtlTask)
  /\ \A m \in Mailing : WF_vars(OneMailing(m))

-----------------------------------------------------------------------------
(* Properties.                                                              *)

TypeOK ==
  /\ status \in [Mailing -> MailingStatus \cup {"ABSENT"}]
  /\ startAt \in [Mailing -> Hour \cup {0}]
  /\ nextPage \in [Mailing -> Nat \cup {NoPage}]
  /\ rows \in [Mailing -> [User -> Nat]]
  /\ order \in Seq(User)
  /\ alive \subseteq Task
  /\ job \in [Mailing -> Job]
  /\ clock \in Nat
  /\ faults \in 0 .. MaxFaults /\ moves \in 0 .. MaxMoves

\* A user gets a mailing once, and once more only for each failure (a page that
\* is done again) and for each change of the order of the profiles (a user who
\* comes back on a later page).
DuplicatesBounded ==
  \A m \in Mailing, u \in User : rows[m][u] <= 1 + faults + moves

\* A mailing is marked SENT only when everybody has a row, whatever failed before,
\* as long as the profiles kept their order.
SentMeansEveryone ==
  \A m \in Mailing :
    status[m] = "SENT" /\ moves = 0 => \A i \in DOMAIN order : rows[m][order[i]] > 0

\* A mailing that is SENT stays so, and gets no further rows.
SentIsFinal ==
  [][\A m \in Mailing : status[m] = "SENT" =>
       status'[m] = "SENT" /\ rows'[m] = rows[m]]_vars

\* Without failures a mailing over fewer than two full pages is completed.
SmallMailingSent ==
  Len(order) < 2 * PageSize =>
    \A m \in Mailing : status[m] = "NEW" ~> status[m] = "SENT" \/ faults > 0

\* The same of every mailing, as the description of the endpoint promises. The
\* code breaks it as soon as the second page is full.
MailingSent == \A m \in Mailing : status[m] = "NEW" ~> status[m] = "SENT" \/ faults > 0

=============================================================================
