------------------------- MODULE NotificationService -------------------------
(***************************************************************************)
(* The life of a single notification inside notification-service.          *)
(*                                                                         *)
(* A row of table notification.notification is inserted by the API (or by  *)
(* the mass mailing ETL), claimed by one of the two background tasks every *)
(* service process runs, published to RabbitMQ, written back, and finally  *)
(* moved by the reports the senders post to /update-sending-status.        *)
(*                                                                         *)
(* The senders and the broker are the environment: the only thing assumed  *)
(* of them is that they report on a notification that was published.       *)
(* Time is counted in whole hours of UTC.                                  *)
(***************************************************************************)
EXTENDS Integers, FiniteSets

CONSTANTS
  Notification,  \* ids of the rows
  Process,       \* service processes; each runs both background tasks
  Request,       \* what callers may ask for: event, method, priority, complete
  Profile,       \* what auth-service may answer: zone (UTC offset), allowed
  NoRequest,     \* the row does not exist yet
  NoProfile,     \* auth-service (or async-api, for the film) gave no answer
  NoZone,        \* the profile carries no time zone
  BatchLimit,    \* limit of the fetch queries
  Hour,          \* the instants at which the clock is observed
  MaxFaults      \* bound on crashes, database and broker failures

EventType ==
  {"TEST", "USER_REVIEW_LIKED", "USER_REGISTERED", "AUTO_MASS_NOTIFY", "MANAGER_MASS_NOTIFY"}
Priority == {"HIGH", "MEDIUM", "LOW"}
Method   == {"EMAIL", "WEBSOCKET"}

\* notify_start_hour and notify_end_hour of the configuration
StartHour == 9
EndHour   == 20

ASSUME ConstantsAssumption ==
  /\ Request \subseteq
       [event : EventType, method : Method, priority : Priority, complete : BOOLEAN]
  /\ Profile \subseteq [zone : (0 .. 23) \cup {NoZone}, allowed : BOOLEAN]
  /\ NoRequest \notin Request
  /\ NoProfile \notin Profile
  /\ NoZone \notin Int
  /\ BatchLimit \in Nat \ {0}
  /\ Hour \subseteq Nat
  /\ MaxFaults \in Nat

Status == {"NEW", "PROCESSING", "SENDING", "SENT", "SENDING_FORBIDDEN",
           "DELAYED", "PROCESSING_ERROR", "SENDING_ERROR"}
Outcome == {"SENT", "SENDING_ERROR"}

\* A background task: the process it runs in and the rows it looks for.
Worker == Process \X {"new", "delayed"}

VARIABLES
  status,       \* column status; "ABSENT" before the insert
  target,       \* column target_sent_at, once the service has set it
  request,      \* the columns the caller fills in
  profile,      \* the profile the enrichment found
  pc,           \* where a task is in its loop
  held,         \* the rows whose objects a task has in its session
  memory,       \* status of those objects in memory
  due,          \* target_sent_at of those objects in memory
  todo,         \* the objects push_to_queue has still to publish
  published,    \* how often a notification was given to its queue (TEST: to the log)
  publishedAt,  \* when it last was
  deferred,     \* <<n, h>>: the priority manager put n off in hour h
  lastReport,   \* the last report of a sender (it also sets actual_sent_at)
  clock,        \* current hour, UTC
  faults        \* failures that have happened

rowVars  == <<status, target, request, profile>>
taskVars == <<pc, held, memory, due, todo>>
sentVars == <<published, publishedAt, deferred>>
vars     == <<rowVars, taskVars, sentVars, lastReport, clock, faults>>

-----------------------------------------------------------------------------
(* The priority manager.                                                    *)

LocalHour(zone, t) == (t + zone) % 24

\* May a message be sent at t? A profile without a time zone is never put off.
InWindow(zone, t) ==
  zone # NoZone => StartHour <= LocalHour(zone, t) /\ LocalHour(zone, t) < EndHour

\* Mutation: the case of a late evening is forgotten.
NextSendTime_today(zone, t) == t + (StartHour - LocalHour(zone, t))

\* The next opening of the window in the user's zone, as an hour of UTC: today
\* before the window opens, else tomorrow.
NextSendTime(zone, t) ==
  LET now == LocalHour(zone, t)
  IN  IF now < StartHour THEN t + (StartHour - now) ELSE t + (StartHour - now) + 24

\* The enrichment copies the permission into event_data for every type but the
\* like on a review.
EmailAllowed(r, p) == r.event # "USER_REVIEW_LIKED" /\ p.allowed

Forbidden(r, p) ==
  r.priority # "HIGH" /\ r.method = "EMAIL" /\ ~EmailAllowed(r, p)

\* Mutation: the permission is only looked at outside the window.
SendNow_window(r, p, t) == r.priority = "HIGH" \/ InWindow(p.zone, t)

SendNow(r, p, t) ==
  \/ r.priority = "HIGH"
  \/ ~Forbidden(r, p) /\ InWindow(p.zone, t)

\* The status an object has after enrichment and sort_by_priority; the ones to
\* send now are still PROCESSING.
Verdict(r, p, t) ==
  CASE p = NoProfile                                  -> "PROCESSING_ERROR"
    [] p # NoProfile /\ SendNow(r, p, t)              -> "PROCESSING"
    [] p # NoProfile /\ Forbidden(r, p)               -> "SENDING_FORBIDDEN"
    [] p # NoProfile /\ ~Forbidden(r, p) /\ ~SendNow(r, p, t) -> "DELAYED"

-----------------------------------------------------------------------------
NothingInMemory == [n \in Notification |-> "PROCESSING"]
NothingDue      == [n \in Notification |-> 0]

Init ==
  /\ status      = [n \in Notification |-> "ABSENT"]
  /\ target      = [n \in Notification |-> 0]
  /\ request     = [n \in Notification |-> NoRequest]
  /\ profile     = [n \in Notification |-> NoProfile]
  /\ pc          = [w \in Worker |-> "idle"]
  /\ held        = [w \in Worker |-> {}]
  /\ memory      = [w \in Worker |-> NothingInMemory]
  /\ due         = [w \in Worker |-> NothingDue]
  /\ todo        = [w \in Worker |-> {}]
  /\ published   = [n \in Notification |-> 0]
  /\ publishedAt = [n \in Notification |-> 0]
  /\ deferred    = {}
  /\ lastReport  = [n \in Notification |-> "NONE"]
  /\ clock \in {h \in Hour : \A g \in Hour : h <= g}
  /\ faults      = 0

Fault == faults < MaxFaults /\ faults' = faults + 1

\* The task drops its session and with it every object it holds.
Release(w) ==
  /\ held'   = [held EXCEPT ![w] = {}]
  /\ memory' = [memory EXCEPT ![w] = NothingInMemory]
  /\ due'    = [due EXCEPT ![w] = NothingDue]
  /\ todo'   = [todo EXCEPT ![w] = {}]

\* POST /single-notification, and the inserts of the mass mailing ETL. The time
\* the caller asks for is stored, but nothing reads it while the row is NEW and a
\* row that becomes DELAYED gets another: it is left out.
CreateNotification(n, r) ==
  /\ status[n] = "ABSENT"
  /\ status'  = [status EXCEPT ![n] = "NEW"]
  /\ request' = [request EXCEPT ![n] = r]
  /\ UNCHANGED <<target, profile, taskVars, sentVars, lastReport, clock, faults>>

-----------------------------------------------------------------------------
(* The two background tasks. A fetch selects rows FOR UPDATE SKIP LOCKED,   *)
(* marks them PROCESSING and commits: which of the matching rows it gets    *)
(* depends on the limit and on the locks of the other processes.            *)

\* Mutation: rows that look stuck are taken again.
Fetchable_stuck(w) ==
  IF w[2] = "new" THEN {n \in Notification : status[n] \in {"NEW", "PROCESSING"}}
  ELSE {n \in Notification : status[n] = "DELAYED" /\ target[n] <= clock}

\* Mutation: the delayed rows are taken whatever their time.
Fetchable_early(w) ==
  {n \in Notification : status[n] = IF w[2] = "new" THEN "NEW" ELSE "DELAYED"}

Fetchable(w) ==
  IF w[2] = "new" THEN {n \in Notification : status[n] = "NEW"}
  ELSE {n \in Notification : status[n] = "DELAYED" /\ target[n] <= clock}

Claimable(w, S) ==
  /\ pc[w] = "idle"
  /\ S # {} /\ S \subseteq Fetchable(w)
  /\ Cardinality(S) <= BatchLimit

\* Mutation: the new status is never flushed.
Mark_lost(S, s) == status

Mark(S, s) == [n \in Notification |-> IF n \in S THEN s ELSE status[n]]

FetchNew(w, S) ==
  /\ w[2] = "new" /\ Claimable(w, S)
  /\ status' = Mark(S, "PROCESSING")
  /\ held'   = [held EXCEPT ![w] = S]
  /\ due'    = [due EXCEPT ![w] = [n \in Notification |-> IF n \in S THEN target[n] ELSE 0]]
  /\ pc'     = [pc EXCEPT ![w] = "enrich"]
  /\ UNCHANGED <<target, request, profile, memory, todo, sentVars, lastReport, clock, faults>>

FetchDelayed(w, S) ==
  /\ w[2] = "delayed" /\ Claimable(w, S)
  /\ status' = Mark(S, "PROCESSING")
  /\ held'   = [held EXCEPT ![w] = S]
  /\ due'    = [due EXCEPT ![w] = [n \in Notification |-> IF n \in S THEN target[n] ELSE 0]]
  /\ todo'   = [todo EXCEPT ![w] = S]
  /\ pc'     = [pc EXCEPT ![w] = "publish"]
  /\ UNCHANGED <<target, request, profile, memory, sentVars, lastReport, clock, faults>>

\* The commit reaches the database and its answer does not: the decorator rolls
\* back and runs the query again, which no longer finds these rows.
FetchCommitLost(w, S) ==
  /\ Fault /\ Claimable(w, S)
  /\ status' = Mark(S, "PROCESSING")
  /\ UNCHANGED <<target, request, profile, taskVars, sentVars, lastReport, clock>>

\* The fetch fails five times in a row: the exception leaves the loop and the
\* task is over. monitor_tasks logs it and starts nothing.
FetchGivesUp(w) ==
  /\ Fault /\ pc[w] = "idle"
  /\ pc' = [pc EXCEPT ![w] = "dead"]
  /\ UNCHANGED <<rowVars, held, memory, due, todo, sentVars, lastReport, clock>>

\* A like whose event_data lacks the film or the liker, which the API accepts.
Malformed(n) == request[n].event = "USER_REVIEW_LIKED" /\ ~request[n].complete

\* Profiles and films arrive, and sort_by_priority runs on without a pause.
EnrichAndSort(w) ==
  /\ pc[w] = "enrich"
  /\ \A n \in held[w] : ~Malformed(n)
  /\ \E found \in [held[w] -> Profile \cup {NoProfile}] :
       LET verdict == [n \in held[w] |-> Verdict(request[n], found[n], clock)]
           later   == {n \in held[w] : verdict[n] = "DELAYED"}
       IN  /\ profile' = [n \in Notification |-> IF n \in held[w] THEN found[n] ELSE profile[n]]
           /\ memory'  = [memory EXCEPT ![w] =
                [n \in Notification |-> IF n \in held[w] THEN verdict[n] ELSE "PROCESSING"]]
           /\ due'     = [due EXCEPT ![w] =
                [n \in Notification |->
                   IF n \in later THEN NextSendTime(found[n].zone, clock) ELSE due[w][n]]]
           /\ todo'    = [todo EXCEPT ![w] = {n \in held[w] : verdict[n] = "PROCESSING"}]
           /\ deferred' = deferred \cup (later \X {clock})
  /\ pc' = [pc EXCEPT ![w] = "publish"]
  /\ UNCHANGED <<status, target, request, held, published, publishedAt, lastReport, clock, faults>>

\* The enrichment raises on a malformed like: the whole batch is abandoned and
\* the task is over.
EnrichRaises(w) ==
  /\ pc[w] = "enrich"
  /\ \E n \in held[w] : Malformed(n)
  /\ Release(w)
  /\ pc' = [pc EXCEPT ![w] = "dead"]
  /\ UNCHANGED <<rowVars, sentVars, lastReport, clock, faults>>

Deliver(n) ==
  /\ published'   = [published EXCEPT ![n] = @ + 1]
  /\ publishedAt' = [publishedAt EXCEPT ![n] = clock]

\* One turn of the loop of push_to_queue. A TEST notification is only logged.
Publish(w, n) ==
  /\ pc[w] = "publish" /\ n \in todo[w]
  /\ todo'   = [todo EXCEPT ![w] = @ \ {n}]
  /\ memory' = [memory EXCEPT ![w][n] = "SENDING"]
  /\ Deliver(n)
  /\ UNCHANGED <<rowVars, pc, held, due, deferred, lastReport, clock, faults>>

\* Mutation: the status is set before the publish.
PublishFails_marked(w, n) ==
  /\ Fault
  /\ pc[w] = "publish" /\ n \in todo[w] /\ request[n].event # "TEST"
  /\ todo'   = [todo EXCEPT ![w] = @ \ {n}]
  /\ memory' = [memory EXCEPT ![w][n] = "SENDING"]
  /\ Deliver(n) \/ UNCHANGED <<published, publishedAt>>
  /\ UNCHANGED <<rowVars, pc, held, due, deferred, lastReport, clock>>

\* publish raises; the broker may have taken the message and lost the confirm.
PublishFails(w, n) ==
  /\ Fault
  /\ pc[w] = "publish" /\ n \in todo[w] /\ request[n].event # "TEST"
  /\ todo'   = [todo EXCEPT ![w] = @ \ {n}]
  /\ memory' = [memory EXCEPT ![w][n] = "PROCESSING_ERROR"]
  /\ Deliver(n) \/ UNCHANGED <<published, publishedAt>>
  /\ UNCHANGED <<rowVars, pc, held, due, deferred, lastReport, clock>>

\* Mutation: only what was sent is written back.
WriteBack_sent(w) ==
  /\ status' = [n \in Notification |->
       IF n \in held[w] /\ memory[w][n] = "SENDING" THEN "SENDING" ELSE status[n]]
  /\ UNCHANGED target

\* The first update_notifications after the loop flushes every changed object of
\* the session, whichever list it was called for, without looking at what the
\* row holds by then.
WriteBack(w) ==
  /\ status' = [n \in Notification |-> IF n \in held[w] THEN memory[w][n] ELSE status[n]]
  /\ target' = [n \in Notification |-> IF n \in held[w] THEN due[w][n] ELSE target[n]]

UpdateNotifications(w) ==
  /\ pc[w] = "publish" /\ todo[w] = {}
  /\ WriteBack(w)
  /\ pc' = [pc EXCEPT ![w] = "idle"]
  /\ Release(w)
  /\ UNCHANGED <<request, profile, sentVars, lastReport, clock, faults>>

\* One failed attempt is enough: the rollback expires the objects, reading their
\* id again raises, so the four attempts left fail too and the task is over. The
\* commit may have reached the database all the same.
UpdateFails(w) ==
  /\ Fault
  /\ pc[w] = "publish" /\ todo[w] = {}
  /\ WriteBack(w) \/ UNCHANGED <<status, target>>
  /\ pc' = [pc EXCEPT ![w] = "dead"]
  /\ Release(w)
  /\ UNCHANGED <<request, profile, sentVars, lastReport, clock>>

\* Mutation: what the process was working on becomes NEW again.
Restart_requeue(p) ==
  /\ Fault
  /\ status' = [n \in Notification |->
       IF \E w \in Worker : w[1] = p /\ n \in held[w] THEN "NEW" ELSE status[n]]
  /\ pc'     = [w \in Worker |-> IF w[1] = p THEN "idle" ELSE pc[w]]
  /\ held'   = [w \in Worker |-> IF w[1] = p THEN {} ELSE held[w]]
  /\ memory' = [w \in Worker |-> IF w[1] = p THEN NothingInMemory ELSE memory[w]]
  /\ due'    = [w \in Worker |-> IF w[1] = p THEN NothingDue ELSE due[w]]
  /\ todo'   = [w \in Worker |-> IF w[1] = p THEN {} ELSE todo[w]]
  /\ UNCHANGED <<target, request, profile, sentVars, lastReport, clock>>

\* The process crashes, or gunicorn recycles it, and comes up again.
Restart(p) ==
  /\ Fault
  /\ pc'     = [w \in Worker |-> IF w[1] = p THEN "idle" ELSE pc[w]]
  /\ held'   = [w \in Worker |-> IF w[1] = p THEN {} ELSE held[w]]
  /\ memory' = [w \in Worker |-> IF w[1] = p THEN NothingInMemory ELSE memory[w]]
  /\ due'    = [w \in Worker |-> IF w[1] = p THEN NothingDue ELSE due[w]]
  /\ todo'   = [w \in Worker |-> IF w[1] = p THEN {} ELSE todo[w]]
  /\ UNCHANGED <<rowVars, sentVars, lastReport, clock>>

-----------------------------------------------------------------------------
\* POST /update-sending-status, one of its two lists. The senders may report at
\* any time after the publish, repeatedly, and change their mind.
ReportStatus(S, o) ==
  /\ S # {} /\ \A n \in S : published[n] > 0 /\ request[n].event # "TEST"
  /\ status'     = Mark(S, o)
  /\ lastReport' = [n \in Notification |-> IF n \in S THEN o ELSE lastReport[n]]
  /\ UNCHANGED <<target, request, profile, taskVars, sentVars, clock, faults>>

Tick ==
  /\ \E h \in Hour : h > clock /\ clock' = h
  /\ UNCHANGED <<rowVars, taskVars, sentVars, lastReport, faults>>

Work(w) ==
  \/ \E S \in SUBSET Notification : FetchNew(w, S) \/ FetchDelayed(w, S)
  \/ EnrichAndSort(w)
  \/ EnrichRaises(w)
  \/ \E n \in Notification : Publish(w, n)
  \/ UpdateNotifications(w)

Failure ==
  \/ \E w \in Worker :
       \/ \E S \in SUBSET Notification : FetchCommitLost(w, S)
       \/ FetchGivesUp(w)
       \/ \E n \in Notification : PublishFails(w, n)
       \/ UpdateFails(w)
  \/ \E p \in Process : Restart(p)

Next ==
  \/ \E n \in Notification, r \in Request : CreateNotification(n, r)
  \/ \E w \in Worker : Work(w)
  \/ Failure
  \/ \E S \in SUBSET Notification, o \in Outcome : ReportStatus(S, o)
  \/ Tick

\* asyncio runs a task that is not waiting, and waits end: every query, publish
\* and sleep of a live task completes. The clock goes on. Callers and senders owe
\* nothing.
Fairness == WF_vars(Tick) /\ \A w \in Worker : WF_vars(Work(w))

Spec == Init /\ [][Next]_vars /\ Fairness

-----------------------------------------------------------------------------
(* Properties.                                                              *)

\* Every variable has its type; an hour a row waits for is never negative.
TypeOK ==
  /\ status      \in [Notification -> Status \cup {"ABSENT"}]
  /\ target      \in [Notification -> Nat]
  /\ request     \in [Notification -> Request \cup {NoRequest}]
  /\ profile     \in [Notification -> Profile \cup {NoProfile}]
  /\ pc          \in [Worker -> {"idle", "enrich", "publish", "dead"}]
  /\ held        \in [Worker -> SUBSET Notification]
  /\ memory      \in [Worker -> [Notification -> Status]]
  /\ due         \in [Worker -> [Notification -> Nat]]
  /\ todo        \in [Worker -> SUBSET Notification]
  /\ published   \in [Notification -> Nat]
  /\ publishedAt \in [Notification -> Nat]
  /\ deferred    \subseteq Notification \X Nat
  /\ lastReport  \in [Notification -> Outcome \cup {"NONE"}]
  /\ clock       \in Nat
  /\ faults      \in 0 .. MaxFaults

\* No notification is in the hands of two background tasks at once, of one
\* process or of two: FOR UPDATE SKIP LOCKED and the PROCESSING mark of
\* fetch_new_notifications and fetch_delayed_notifications see to it.
ExclusiveClaim ==
  \A v, w \in Worker : v # w => held[v] \cap held[w] = {}

\* However the tasks, the retries and the crashes interleave, a notification is
\* never put into a queue twice: the user gets no second message from here.
PublishedAtMostOnce == \A n \in Notification : published[n] <= 1

\* A user who did not allow e-mail is sent one only with priority HIGH: the
\* check of sort_by_priority is not lost on the way of a deferred notification.
ConsentRespected ==
  \A n \in Notification :
    published[n] > 0 /\ request[n].method = "EMAIL" /\ request[n].priority # "HIGH"
      => profile[n].allowed

\* The first hour after h in which the user's window opens.
FirstOpening(zone, h) == CHOOSE o \in (h + 1) .. (h + 24) : LocalHour(zone, o) = StartHour

\* A notification that came outside the user's hours waits for the first opening
\* of the window, no longer and no shorter: _calculate_next_send_time, the write
\* back and the query of the delayed task agree on it.
DeferredUntilOpening ==
  \A d \in deferred :
    LET n       == d[1]
        opening == FirstOpening(profile[n].zone, d[2])
    IN  /\ status[n] = "DELAYED" => target[n] = opening
        /\ published[n] > 0 => publishedAt[n] >= opening

\* The status column never lies about the queue: SENDING was handed over, what is
\* refused, put off or not looked at yet was not.
StatusMatchesQueue ==
  \A n \in Notification :
    /\ status[n] = "SENDING" => published[n] > 0
    /\ status[n] \in {"ABSENT", "NEW", "DELAYED", "SENDING_FORBIDDEN"} => published[n] = 0

\* The notifications in the hands of a task, and those handed over.
Claimed == UNION {held[w] : w \in Worker}
Handed  == {n \in Notification : published[n] > 0}

\* The tasks of all the processes together give one notification the life that
\* NotificationLifecycle describes.
Lifecycle == INSTANCE NotificationLifecycle WITH claimed <- Claimed, handed <- Handed

LifecycleHolds == Lifecycle!Spec

Processed == {"SENDING", "SENT", "SENDING_ERROR", "SENDING_FORBIDDEN", "PROCESSING_ERROR"}

\* "This endpoint creates and sends a single notification": every accepted
\* notification is sent, refused or recorded as failed.
EventuallyProcessed ==
  \A n \in Notification : status[n] = "NEW" ~> status[n] \in Processed

\* "This endpoint updates the sending status": what a sender reported is the
\* status of the notification until a sender reports again.
ReportSticks ==
  \A n \in Notification :
    lastReport[n] # "NONE" /\ (\A w \in Worker : n \notin held[w]) => status[n] = lastReport[n]

-----------------------------------------------------------------------------
(* The inductive invariant behind the safety properties.                    *)

\* What a task knows about the rows it holds. Only a report can move such a row,
\* and only once its message is out.
TaskOK(w) ==
  /\ pc[w] \in {"idle", "dead"} => held[w] = {}
  /\ todo[w] \subseteq held[w]
  /\ \A n \in held[w] :
       /\ status[n] = "PROCESSING" \/ (status[n] \in Outcome /\ published[n] > 0)
       /\ pc[w] = "enrich" \/ n \in todo[w] => published[n] = 0
       /\ pc[w] = "publish" /\ n \notin todo[w] =>
            \/ memory[w][n] = "SENDING" /\ published[n] > 0
            \/ memory[w][n] = "PROCESSING_ERROR"
            \/ memory[w][n] \in {"DELAYED", "SENDING_FORBIDDEN"} /\ published[n] = 0

TaskInv == \A w \in Worker : TaskOK(w)

Consented(n) ==
  request[n].method = "EMAIL" /\ request[n].priority # "HIGH" => profile[n].allowed

\* A notification that was published, or will be unless something fails.
Cleared(n) ==
  \/ published[n] > 0
  \/ status[n] = "DELAYED"
  \/ \E w \in Worker :
       pc[w] = "publish" /\ n \in held[w] /\ (n \in todo[w] \/ memory[w][n] = "DELAYED")

\* The permission is found before a row is queued for publishing or put off, and
\* nothing takes it back.
ConsentInv == \A n \in Notification : Cleared(n) => Consented(n)

\* A notification put off in hour h carries its opening along, in memory and then
\* in the row, until the delayed task finds that it has come.
DeferOK(n, h) ==
  LET opening == FirstOpening(profile[n].zone, h)
  IN  /\ profile[n].zone \in 0 .. 23
      /\ status[n] \notin {"ABSENT", "NEW"}
      /\ status[n] = "DELAYED" => target[n] = opening
      /\ published[n] > 0 => publishedAt[n] >= opening
      /\ \A w \in Worker : n \in held[w] =>
           /\ pc[w] = "publish"
           /\ IF n \in todo[w] THEN opening <= clock
              ELSE memory[w][n] = "DELAYED" => due[w][n] = opening

DeferInv == \A d \in deferred : DeferOK(d[1], d[2])

\* Everything above holds in every state, and every step preserves it: what the
\* proofs in NotificationService_proofs use.
ClaimInv == ExclusiveClaim /\ PublishedAtMostOnce /\ StatusMatchesQueue /\ TaskInv

IndInv == TypeOK /\ ClaimInv /\ ConsentInv /\ DeferInv

=============================================================================
