---------------------- MODULE NotificationService_proofs ----------------------
(***************************************************************************)
(* Proofs of the safety properties of NotificationService, for any set of  *)
(* notifications, processes, requests, profiles and hours and any number   *)
(* of failures.                                                            *)
(***************************************************************************)
EXTENDS NotificationService, TLAPS

-----------------------------------------------------------------------------
(* The priority manager.                                                    *)

\* sort_by_priority gives a notification one of four verdicts, and the reasons
\* for three of them.
LEMMA VerdictReasons ==
  ASSUME NEW r, NEW p, NEW t
  PROVE  /\ Verdict(r, p, t) \in {"PROCESSING", "DELAYED", "SENDING_FORBIDDEN", "PROCESSING_ERROR"}
         /\ Verdict(r, p, t) = "PROCESSING" => SendNow(r, p, t)
         /\ Verdict(r, p, t) = "DELAYED" => p # NoProfile /\ ~SendNow(r, p, t) /\ ~Forbidden(r, p)
<1>1. CASE p = NoProfile
  BY <1>1 DEF Verdict
<1>2. CASE p # NoProfile /\ SendNow(r, p, t)
  BY <1>2 DEF Verdict
<1>3. CASE p # NoProfile /\ ~SendNow(r, p, t) /\ Forbidden(r, p)
  BY <1>3 DEF Verdict
<1>4. CASE p # NoProfile /\ ~SendNow(r, p, t) /\ ~Forbidden(r, p)
  BY <1>4 DEF Verdict
<1>. QED
  BY <1>1, <1>2, <1>3, <1>4

\* Whoever is not refused e-mail has allowed it, wants none of it, or must have it.
LEMMA NotForbidden ==
  ASSUME NEW r, NEW p, NEW t, SendNow(r, p, t) \/ ~Forbidden(r, p)
  PROVE  r.method = "EMAIL" /\ r.priority # "HIGH" => p.allowed
BY DEF SendNow, Forbidden, EmailAllowed

\* The next opening of the window lies ahead, by a day at most, and is the hour
\* at which the window opens where the user lives.
LEMMA NextSendTimeIsOpening ==
  ASSUME NEW zone \in 0 .. 23, NEW t \in Nat
  PROVE  /\ NextSendTime(zone, t) \in t + 1 .. t + 24
         /\ LocalHour(zone, NextSendTime(zone, t)) = StartHour
BY DEF NextSendTime, LocalHour, StartHour

-----------------------------------------------------------------------------
(* Type correctness.                                                        *)

\* The hours and the statuses that a sorted batch gets have their types.
LEMMA SortedTypes ==
  ASSUME TypeOK, NEW w \in Worker, NEW n \in Notification, NEW p \in Profile \cup {NoProfile}
  PROVE  /\ Verdict(request[n], p, clock) \in Status
         /\ Verdict(request[n], p, clock) = "DELAYED" => NextSendTime(p.zone, clock) \in Nat
<1>1. Verdict(request[n], p, clock) \in Status
  BY VerdictReasons DEF Status
<1>2. ASSUME Verdict(request[n], p, clock) = "DELAYED"
      PROVE  NextSendTime(p.zone, clock) \in Nat
  <2>1. p # NoProfile /\ ~SendNow(request[n], p, clock) /\ ~Forbidden(request[n], p)
    BY <1>2, VerdictReasons
  <2>2. p \in [zone : (0 .. 23) \cup {NoZone}, allowed : BOOLEAN]
    BY <2>1, ConstantsAssumption
  <2>3. p.zone \in 0 .. 23
    BY <2>1, <2>2 DEF SendNow, InWindow
  <2>4. clock \in Nat
    BY DEF TypeOK
  <2>5. NextSendTime(p.zone, clock) \in clock + 1 .. clock + 24
    BY <2>3, <2>4, NextSendTimeIsOpening
  <2>. QED
    BY <2>4, <2>5
<1>. QED
  BY <1>1, <1>2

\* What a task writes back and forgets has its type.
LEMMA WriteBackTypes ==
  ASSUME TypeOK, NEW w \in Worker, WriteBack(w)
  PROVE  status' \in [Notification -> Status \cup {"ABSENT"}] /\ target' \in [Notification -> Nat]
BY DEF WriteBack, TypeOK

LEMMA ReleaseTypes ==
  ASSUME TypeOK, NEW w \in Worker, Release(w)
  PROVE  /\ held' \in [Worker -> SUBSET Notification] /\ todo' \in [Worker -> SUBSET Notification]
         /\ memory' \in [Worker -> [Notification -> Status]]
         /\ due' \in [Worker -> [Notification -> Nat]]
BY DEF Release, TypeOK, NothingInMemory, NothingDue, Status

LEMMA InitTypeOK == Init => TypeOK
<1>. SUFFICES ASSUME Init PROVE TypeOK
  OBVIOUS
<1>1. clock \in Nat /\ faults \in 0 .. MaxFaults
  BY ConstantsAssumption DEF Init
<1>. QED
  BY <1>1 DEF Init, TypeOK, NothingInMemory, NothingDue, Status, Outcome

LEMMA StepTypeOK == TypeOK /\ [Next]_vars => TypeOK'
<1>. SUFFICES ASSUME TypeOK, [Next]_vars PROVE TypeOK'
  OBVIOUS
<1>. USE DEF rowVars, taskVars, sentVars
<1>0. /\ MaxFaults \in Nat /\ Hour \subseteq Nat
      /\ NothingInMemory \in [Notification -> Status] /\ NothingDue \in [Notification -> Nat]
  BY ConstantsAssumption DEF NothingInMemory, NothingDue, Status
<1>1. ASSUME NEW n \in Notification, NEW r \in Request, CreateNotification(n, r)
      PROVE  TypeOK'
  BY <1>1 DEF CreateNotification, TypeOK, Status
<1>2. ASSUME NEW w \in Worker, NEW S \in SUBSET Notification, FetchNew(w, S)
      PROVE  TypeOK'
  BY <1>2 DEF FetchNew, Claimable, Mark, TypeOK, Status
<1>3. ASSUME NEW w \in Worker, NEW S \in SUBSET Notification, FetchDelayed(w, S)
      PROVE  TypeOK'
  BY <1>3 DEF FetchDelayed, Claimable, Mark, TypeOK, Status
<1>4. ASSUME NEW w \in Worker, EnrichAndSort(w)
      PROVE  TypeOK'
  <2>1. PICK found \in [held[w] -> Profile \cup {NoProfile}] :
          LET verdict == [n \in held[w] |-> Verdict(request[n], found[n], clock)]
              later   == {n \in held[w] : verdict[n] = "DELAYED"}
          IN  /\ profile' = [n \in Notification |-> IF n \in held[w] THEN found[n] ELSE profile[n]]
              /\ memory'  = [memory EXCEPT ![w] =
                   [n \in Notification |-> IF n \in held[w] THEN verdict[n] ELSE "PROCESSING"]]
              /\ due'     = [due EXCEPT ![w] =
                   [n \in Notification |->
                      IF n \in later THEN NextSendTime(found[n].zone, clock) ELSE due[w][n]]]
              /\ todo'    = [todo EXCEPT ![w] = {n \in held[w] : verdict[n] = "PROCESSING"}]
              /\ deferred' = deferred \cup (later \X {clock})
    BY <1>4 DEF EnrichAndSort
  <2>. DEFINE verdict == [n \in held[w] |-> Verdict(request[n], found[n], clock)]
              later   == {n \in held[w] : verdict[n] = "DELAYED"}
  <2>2. held[w] \subseteq Notification
    BY DEF TypeOK
  <2>3. \A n \in held[w] : verdict[n] \in Status
    BY <2>2, SortedTypes
  <2>4. \A n \in later : NextSendTime(found[n].zone, clock) \in Nat
    BY <2>2, SortedTypes
  <2>5. profile' \in [Notification -> Profile \cup {NoProfile}]
    BY <2>1 DEF TypeOK
  <2>6. memory' \in [Worker -> [Notification -> Status]]
    <3>1. [n \in Notification |-> IF n \in held[w] THEN verdict[n] ELSE "PROCESSING"]
            \in [Notification -> Status]
      BY <2>3 DEF Status
    <3>. QED
      BY <2>1, <3>1 DEF TypeOK
  <2>7. due' \in [Worker -> [Notification -> Nat]]
    <3>1. [n \in Notification |->
             IF n \in later THEN NextSendTime(found[n].zone, clock) ELSE due[w][n]]
            \in [Notification -> Nat]
      BY <2>4 DEF TypeOK
    <3>. QED
      BY <2>1, <3>1 DEF TypeOK
  <2>8. todo' \in [Worker -> SUBSET Notification]
    BY <2>1, <2>2 DEF TypeOK
  <2>9. deferred' \subseteq Notification \X Nat
    BY <2>1, <2>2 DEF TypeOK
  <2>. QED
    BY <1>4, <2>5, <2>6, <2>7, <2>8, <2>9 DEF EnrichAndSort, TypeOK
<1>5. ASSUME NEW w \in Worker, EnrichRaises(w)
      PROVE  TypeOK'
  BY <1>5, ReleaseTypes DEF EnrichRaises, TypeOK
<1>6. ASSUME NEW w \in Worker, NEW n \in Notification, Publish(w, n)
      PROVE  TypeOK'
  BY <1>6 DEF Publish, Deliver, TypeOK, Status
<1>7. ASSUME NEW w \in Worker, NEW n \in Notification, PublishFails(w, n)
      PROVE  TypeOK'
  <2>1. published' \in [Notification -> Nat] /\ publishedAt' \in [Notification -> Nat]
    <3>1. CASE Deliver(n)
      BY <3>1 DEF Deliver, TypeOK
    <3>2. CASE UNCHANGED <<published, publishedAt>>
      BY <3>2 DEF TypeOK
    <3>. QED
      BY <1>7, <3>1, <3>2 DEF PublishFails
  <2>2. memory' \in [Worker -> [Notification -> Status]] /\ todo' \in [Worker -> SUBSET Notification]
    BY <1>7 DEF PublishFails, TypeOK, Status
  <2>. QED
    BY <1>7, <1>0, <2>1, <2>2 DEF PublishFails, Fault, TypeOK
<1>8. ASSUME NEW w \in Worker, UpdateNotifications(w)
      PROVE  TypeOK'
  BY <1>8, WriteBackTypes, ReleaseTypes DEF UpdateNotifications, TypeOK
<1>9. ASSUME NEW w \in Worker, UpdateFails(w)
      PROVE  TypeOK'
  <2>1. status' \in [Notification -> Status \cup {"ABSENT"}] /\ target' \in [Notification -> Nat]
    BY <1>9, WriteBackTypes DEF UpdateFails, TypeOK
  <2>. QED
    BY <1>9, <1>0, <2>1, ReleaseTypes DEF UpdateFails, Fault, TypeOK
<1>10. ASSUME NEW w \in Worker, NEW S \in SUBSET Notification, FetchCommitLost(w, S)
       PROVE  TypeOK'
  BY <1>10, <1>0 DEF FetchCommitLost, Fault, Mark, TypeOK, Status
<1>11. ASSUME NEW w \in Worker, FetchGivesUp(w)
       PROVE  TypeOK'
  BY <1>11, <1>0 DEF FetchGivesUp, Fault, TypeOK
<1>12. ASSUME NEW p \in Process, Restart(p)
       PROVE  TypeOK'
  BY <1>12, <1>0 DEF Restart, Fault, TypeOK
<1>13. ASSUME NEW S \in SUBSET Notification, NEW o \in Outcome, ReportStatus(S, o)
       PROVE  TypeOK'
  BY <1>13 DEF ReportStatus, Mark, TypeOK, Status, Outcome
<1>14. CASE Tick
  BY <1>14, <1>0 DEF Tick, TypeOK
<1>15. CASE UNCHANGED vars
  BY <1>15 DEF vars, TypeOK
<1>. QED
  BY <1>1, <1>2, <1>3, <1>4, <1>5, <1>6, <1>7, <1>8, <1>9, <1>10, <1>11, <1>12, <1>13, <1>14,
     <1>15 DEF Next, Work, Failure

\* Every variable keeps its type, and no row is made to wait for a negative hour.
THEOREM TypeCorrect == Spec => []TypeOK
<1>. QED
  BY InitTypeOK, StepTypeOK, PTL DEF Spec

-----------------------------------------------------------------------------
(* Claims: who holds a row, and what became of its message.                 *)

\* A row that waits to be fetched, or does not exist, is in no task's hands.
LEMMA WaitingIsUnheld ==
  ASSUME TaskInv, NEW n, status[n] \in {"ABSENT", "NEW", "DELAYED"}
  PROVE  \A w \in Worker : n \notin held[w]
BY DEF TaskInv, TaskOK, Outcome

\* What a task knows stays true while nobody touches the task or its rows.
LEMMA UndisturbedTask ==
  ASSUME ClaimInv, NEW v \in Worker,
         pc'[v] = pc[v], held'[v] = held[v], todo'[v] = todo[v], memory'[v] = memory[v],
         \A n \in held[v] : status'[n] = status[n] /\ published'[n] = published[n]
  PROVE  TaskOK(v)'
BY DEF ClaimInv, TaskInv, TaskOK

LEMMA InitClaimInv == Init => ClaimInv
BY DEF Init, ClaimInv, ExclusiveClaim, PublishedAtMostOnce, StatusMatchesQueue, TaskInv, TaskOK

\* A fetch claims rows that nobody holds and that were never published.
LEMMA FetchClaimInv ==
  ASSUME TypeOK, ClaimInv, NEW w \in Worker, NEW S \in SUBSET Notification,
         FetchNew(w, S) \/ FetchDelayed(w, S)
  PROVE  ClaimInv'
<1>1. /\ pc[w] = "idle" /\ held[w] = {} /\ todo[w] = {}
      /\ \A n \in S : status[n] \in {"NEW", "DELAYED"}
  BY DEF ClaimInv, TaskInv, TaskOK, FetchNew, FetchDelayed, Claimable, Fetchable
<1>2. /\ status' = [n \in Notification |-> IF n \in S THEN "PROCESSING" ELSE status[n]]
      /\ held' = [held EXCEPT ![w] = S]
      /\ \/ pc' = [pc EXCEPT ![w] = "enrich"] /\ UNCHANGED todo
         \/ pc' = [pc EXCEPT ![w] = "publish"] /\ todo' = [todo EXCEPT ![w] = S]
      /\ UNCHANGED <<published, memory>>
  BY DEF FetchNew, FetchDelayed, Mark, sentVars
<1>3. \A n \in S : published[n] = 0 /\ \A v \in Worker : n \notin held[v]
  BY <1>1, WaitingIsUnheld DEF ClaimInv, StatusMatchesQueue
<1>4. ExclusiveClaim'
  BY <1>2, <1>3 DEF ClaimInv, ExclusiveClaim, TypeOK
<1>5. PublishedAtMostOnce'
  BY <1>2 DEF ClaimInv, PublishedAtMostOnce
<1>6. StatusMatchesQueue'
  BY <1>2 DEF ClaimInv, StatusMatchesQueue
<1>7. TaskInv'
  <2>. SUFFICES ASSUME NEW v \in Worker PROVE TaskOK(v)'
    BY DEF TaskInv
  <2>1. CASE v = w
    BY <1>1, <1>2, <1>3, <2>1 DEF TypeOK, TaskOK
  <2>2. CASE v # w
    <3>1. pc'[v] = pc[v] /\ todo'[v] = todo[v] /\ held'[v] = held[v]
      BY <1>2, <2>2 DEF TypeOK
    <3>2. \A n \in held[v] : status'[n] = status[n]
      BY <1>2, <1>3 DEF TypeOK
    <3>. QED
      BY <1>2, <3>1, <3>2, UndisturbedTask
  <2>. QED
    BY <2>1, <2>2
<1>. QED
  BY <1>4, <1>5, <1>6, <1>7 DEF ClaimInv

\* A row whose claim is lost on the way stays PROCESSING, and nobody holds it.
LEMMA CommitLostClaimInv ==
  ASSUME TypeOK, ClaimInv, NEW w \in Worker, NEW S \in SUBSET Notification, FetchCommitLost(w, S)
  PROVE  ClaimInv'
<1>1. \A n \in S : status[n] \in {"NEW", "DELAYED"}
  BY DEF FetchCommitLost, Claimable, Fetchable
<1>2. /\ status' = [n \in Notification |-> IF n \in S THEN "PROCESSING" ELSE status[n]]
      /\ UNCHANGED <<taskVars, published>>
  BY DEF FetchCommitLost, Mark, sentVars
<1>3. \A n \in S, v \in Worker : n \notin held[v]
  BY <1>1, WaitingIsUnheld DEF ClaimInv
<1>4. StatusMatchesQueue'
  BY <1>2 DEF ClaimInv, StatusMatchesQueue
<1>5. TaskInv'
  BY <1>2, <1>3 DEF ClaimInv, TaskInv, TaskOK, TypeOK, taskVars
<1>. QED
  BY <1>2, <1>4, <1>5 DEF ClaimInv, ExclusiveClaim, PublishedAtMostOnce, taskVars

\* The verdicts say of rows that were never published what the queue will show.
LEMMA SortClaimInv ==
  ASSUME TypeOK, ClaimInv, NEW w \in Worker, EnrichAndSort(w)
  PROVE  ClaimInv'
<1>1. PICK verdict \in [held[w] -> {"PROCESSING", "DELAYED", "SENDING_FORBIDDEN", "PROCESSING_ERROR"}] :
        /\ memory' = [memory EXCEPT ![w] =
             [n \in Notification |-> IF n \in held[w] THEN verdict[n] ELSE "PROCESSING"]]
        /\ todo' = [todo EXCEPT ![w] = {n \in held[w] : verdict[n] = "PROCESSING"}]
  <2>1. PICK found : 
          LET verdict == [n \in held[w] |-> Verdict(request[n], found[n], clock)]
          IN  /\ memory' = [memory EXCEPT ![w] =
                   [n \in Notification |-> IF n \in held[w] THEN verdict[n] ELSE "PROCESSING"]]
              /\ todo' = [todo EXCEPT ![w] = {n \in held[w] : verdict[n] = "PROCESSING"}]
    BY DEF EnrichAndSort
  <2>2. [n \in held[w] |-> Verdict(request[n], found[n], clock)]
          \in [held[w] -> {"PROCESSING", "DELAYED", "SENDING_FORBIDDEN", "PROCESSING_ERROR"}]
    BY VerdictReasons
  <2>. QED
    BY <2>1, <2>2
<1>2. /\ pc[w] = "enrich" /\ pc' = [pc EXCEPT ![w] = "publish"]
      /\ UNCHANGED <<held, status, published>>
  BY DEF EnrichAndSort
<1>3. TaskInv'
  <2>. SUFFICES ASSUME NEW v \in Worker PROVE TaskOK(v)'
    BY DEF TaskInv
  <2>1. CASE v = w
    <3>1. held[w] \subseteq Notification /\ TaskOK(w)
      BY DEF TypeOK, ClaimInv, TaskInv
    <3>2. pc'[w] = "publish" /\ todo'[w] = {n \in held[w] : verdict[n] = "PROCESSING"}
      BY <1>1, <1>2 DEF TypeOK
    <3>3. \A n \in held[w] : memory'[w][n] = verdict[n]
      BY <1>1, <3>1 DEF TypeOK
    <3>. QED
      BY <1>2, <2>1, <3>1, <3>2, <3>3 DEF TaskOK
  <2>2. CASE v # w
    BY <1>1, <1>2, <2>2, UndisturbedTask DEF TypeOK
  <2>. QED
    BY <2>1, <2>2
<1>. QED
  BY <1>2, <1>3 DEF ClaimInv, ExclusiveClaim, PublishedAtMostOnce, StatusMatchesQueue

\* One publish, whatever the broker answers, concerns a row that no other task
\* holds and that was never published before.
LEMMA PublishClaimInv ==
  ASSUME TypeOK, ClaimInv, NEW w \in Worker, NEW n \in Notification,
         Publish(w, n) \/ PublishFails(w, n)
  PROVE  ClaimInv'
<1>1. /\ pc[w] = "publish" /\ n \in todo[w] /\ n \in held[w]
      /\ published[n] = 0 /\ status[n] = "PROCESSING"
  BY DEF Publish, PublishFails, ClaimInv, TaskInv, TaskOK
<1>2. /\ todo' = [todo EXCEPT ![w] = @ \ {n}]
      /\ UNCHANGED <<pc, held, status>>
      /\ \/ /\ memory' = [memory EXCEPT ![w][n] = "SENDING"]
            /\ published' = [published EXCEPT ![n] = @ + 1]
         \/ /\ memory' = [memory EXCEPT ![w][n] = "PROCESSING_ERROR"]
            /\ published' \in {published, [published EXCEPT ![n] = @ + 1]}
  BY DEF Publish, PublishFails, Deliver, rowVars
<1>3. /\ published'[n] \in {0, 1}
      /\ \A m \in Notification \ {n} : published'[m] = published[m]
  BY <1>1, <1>2 DEF TypeOK
<1>4. ExclusiveClaim'
  BY <1>2 DEF ClaimInv, ExclusiveClaim
<1>5. PublishedAtMostOnce'
  BY <1>3 DEF ClaimInv, PublishedAtMostOnce
<1>6. StatusMatchesQueue'
  BY <1>1, <1>2, <1>3 DEF ClaimInv, StatusMatchesQueue
<1>7. TaskInv'
  <2>. SUFFICES ASSUME NEW v \in Worker PROVE TaskOK(v)'
    BY DEF TaskInv
  <2>1. CASE v = w
    <3>1. TaskOK(w) /\ held[w] \subseteq Notification /\ todo'[w] = todo[w] \ {n}
      BY <1>2 DEF ClaimInv, TaskInv, TypeOK
    <3>2. \A m \in held[w] \ {n} : memory'[w][m] = memory[w][m]
      BY <1>2, <3>1 DEF TypeOK
    <3>3. \/ memory'[w][n] = "SENDING" /\ published'[n] > 0
          \/ memory'[w][n] = "PROCESSING_ERROR"
      BY <1>1, <1>2 DEF TypeOK
    <3>. QED
      BY <1>1, <1>2, <1>3, <2>1, <3>1, <3>2, <3>3 DEF TaskOK
  <2>2. CASE v # w
    <3>1. n \notin held[v] /\ held[v] \subseteq Notification
      BY <1>1, <2>2 DEF ClaimInv, ExclusiveClaim, TypeOK
    <3>2. todo'[v] = todo[v] /\ memory'[v] = memory[v]
      BY <1>2, <2>2 DEF TypeOK
    <3>. QED
      BY <1>2, <1>3, <3>1, <3>2, UndisturbedTask
  <2>. QED
    BY <2>1, <2>2
<1>. QED
  BY <1>4, <1>5, <1>6, <1>7 DEF ClaimInv

\* A task that lets its rows go, written back or not, disturbs no other task.
LEMMA ReleaseClaimInv ==
  ASSUME TypeOK, ClaimInv, NEW w \in Worker, Release(w),
         NEW state, pc' = [pc EXCEPT ![w] = state], UNCHANGED published,
         \A n \in Notification : n \notin held[w] => status'[n] = status[n],
         StatusMatchesQueue'
  PROVE  ClaimInv'
<1>1. held' = [held EXCEPT ![w] = {}] /\ todo' = [todo EXCEPT ![w] = {}]
  BY DEF Release
<1>2. ExclusiveClaim'
  BY <1>1 DEF ClaimInv, ExclusiveClaim, TypeOK
<1>3. TaskInv'
  <2>. SUFFICES ASSUME NEW v \in Worker PROVE TaskOK(v)'
    BY DEF TaskInv
  <2>1. CASE v = w
    BY <1>1, <2>1 DEF TaskOK, TypeOK
  <2>2. CASE v # w
    <3>1. \A n \in held[v] : n \in Notification /\ n \notin held[w]
      BY <2>2 DEF ClaimInv, ExclusiveClaim, TypeOK
    <3>2. /\ pc'[v] = pc[v] /\ held'[v] = held[v]
          /\ todo'[v] = todo[v] /\ memory'[v] = memory[v]
      BY <1>1, <2>2 DEF Release, TypeOK
    <3>. QED
      BY <3>1, <3>2, UndisturbedTask
  <2>. QED
    BY <2>1, <2>2
<1>. QED
  BY <1>2, <1>3 DEF ClaimInv, PublishedAtMostOnce

\* What a finished task writes back agrees with the queue.
LEMMA WriteBackMatchesQueue ==
  ASSUME TypeOK, ClaimInv, NEW w \in Worker, pc[w] = "publish", todo[w] = {}, UNCHANGED published,
         WriteBack(w) \/ UNCHANGED status
  PROVE  /\ StatusMatchesQueue'
         /\ \A n \in Notification : n \notin held[w] => status'[n] = status[n]
<1>1. CASE UNCHANGED status
  BY <1>1 DEF ClaimInv, StatusMatchesQueue
<1>2. CASE WriteBack(w)
  <2>1. \A n \in held[w] :
          \/ memory[w][n] = "SENDING" /\ published[n] > 0
          \/ memory[w][n] = "PROCESSING_ERROR"
          \/ memory[w][n] \in {"DELAYED", "SENDING_FORBIDDEN"} /\ published[n] = 0
    BY DEF ClaimInv, TaskInv, TaskOK
  <2>2. \A n \in Notification : status'[n] = IF n \in held[w] THEN memory[w][n] ELSE status[n]
    BY <1>2 DEF WriteBack
  <2>. QED
    BY <2>1, <2>2 DEF ClaimInv, StatusMatchesQueue
<1>. QED
  BY <1>1, <1>2

LEMMA StepClaimInv == TypeOK /\ ClaimInv /\ [Next]_vars => ClaimInv'
<1>. SUFFICES ASSUME TypeOK, ClaimInv, [Next]_vars PROVE ClaimInv'
  OBVIOUS
<1>. USE DEF rowVars, taskVars, sentVars
<1>1. ASSUME NEW n \in Notification, NEW r \in Request, CreateNotification(n, r)
      PROVE  ClaimInv'
  <2>1. /\ status[n] = "ABSENT" /\ status' = [status EXCEPT ![n] = "NEW"]
        /\ UNCHANGED <<pc, held, memory, todo, published>>
    BY <1>1 DEF CreateNotification
  <2>2. \A v \in Worker : n \notin held[v]
    BY <2>1, WaitingIsUnheld DEF ClaimInv
  <2>3. TaskInv'
    BY <2>1, <2>2, UndisturbedTask DEF TaskInv, TypeOK
  <2>4. StatusMatchesQueue'
    BY <2>1 DEF ClaimInv, StatusMatchesQueue, TypeOK
  <2>. QED
    BY <2>1, <2>3, <2>4 DEF ClaimInv, ExclusiveClaim, PublishedAtMostOnce
<1>2. ASSUME NEW w \in Worker, NEW S \in SUBSET Notification, FetchNew(w, S) \/ FetchDelayed(w, S)
      PROVE  ClaimInv'
  BY <1>2, FetchClaimInv
<1>3. ASSUME NEW w \in Worker, EnrichAndSort(w)
      PROVE  ClaimInv'
  BY <1>3, SortClaimInv
<1>4. ASSUME NEW w \in Worker, EnrichRaises(w)
      PROVE  ClaimInv'
  <2>1. UNCHANGED <<status, published>> /\ Release(w) /\ pc' = [pc EXCEPT ![w] = "dead"]
    BY <1>4 DEF EnrichRaises
  <2>2. StatusMatchesQueue'
    BY <2>1 DEF ClaimInv, StatusMatchesQueue
  <2>. QED
    BY <2>1, <2>2, ReleaseClaimInv
<1>5. ASSUME NEW w \in Worker, NEW n \in Notification, Publish(w, n) \/ PublishFails(w, n)
      PROVE  ClaimInv'
  BY <1>5, PublishClaimInv
<1>6. ASSUME NEW w \in Worker, UpdateNotifications(w) \/ UpdateFails(w)
      PROVE  ClaimInv'
  <2>1. /\ pc[w] = "publish" /\ todo[w] = {} /\ Release(w)
        /\ WriteBack(w) \/ UNCHANGED status
        /\ UNCHANGED published
        /\ pc' = [pc EXCEPT ![w] = "idle"] \/ pc' = [pc EXCEPT ![w] = "dead"]
    BY <1>6 DEF UpdateNotifications, UpdateFails
  <2>2. /\ StatusMatchesQueue'
        /\ \A n \in Notification : n \notin held[w] => status'[n] = status[n]
    BY <2>1, WriteBackMatchesQueue
  <2>. QED
    BY <2>1, <2>2, ReleaseClaimInv
<1>7. ASSUME NEW w \in Worker, NEW S \in SUBSET Notification, FetchCommitLost(w, S)
      PROVE  ClaimInv'
  BY <1>7, CommitLostClaimInv
<1>8. ASSUME NEW w \in Worker, FetchGivesUp(w)
      PROVE  ClaimInv'
  BY <1>8 DEF FetchGivesUp, ClaimInv, ExclusiveClaim, PublishedAtMostOnce, StatusMatchesQueue,
              TaskInv, TaskOK, TypeOK
<1>9. ASSUME NEW p \in Process, Restart(p)
      PROVE  ClaimInv'
  <2>1. \A v \in Worker :
          \/ pc'[v] = "idle" /\ held'[v] = {} /\ todo'[v] = {}
          \/ UNCHANGED <<pc[v], held[v], todo[v], memory[v]>>
    BY <1>9 DEF Restart
  <2>2. UNCHANGED <<status, published>>
    BY <1>9 DEF Restart
  <2>3. TaskInv'
    BY <2>1, <2>2 DEF ClaimInv, TaskInv, TaskOK
  <2>4. ExclusiveClaim'
    BY <2>1 DEF ClaimInv, ExclusiveClaim
  <2>. QED
    BY <2>2, <2>3, <2>4 DEF ClaimInv, PublishedAtMostOnce, StatusMatchesQueue
<1>10. ASSUME NEW S \in SUBSET Notification, NEW o \in Outcome, ReportStatus(S, o)
       PROVE  ClaimInv'
  <2>1. /\ status' = [n \in Notification |-> IF n \in S THEN o ELSE status[n]]
        /\ \A n \in S : published[n] > 0
        /\ UNCHANGED <<pc, held, memory, todo, published>>
    BY <1>10 DEF ReportStatus, Mark
  <2>2. StatusMatchesQueue'
    BY <2>1 DEF ClaimInv, StatusMatchesQueue, Outcome
  <2>3. TaskInv'
    BY <2>1 DEF ClaimInv, TaskInv, TaskOK, TypeOK
  <2>. QED
    BY <2>1, <2>2, <2>3 DEF ClaimInv, ExclusiveClaim, PublishedAtMostOnce
<1>11. CASE Tick \/ UNCHANGED vars
  BY <1>11 DEF Tick, vars, ClaimInv, ExclusiveClaim, PublishedAtMostOnce, StatusMatchesQueue,
              TaskInv, TaskOK
<1>. QED
  BY <1>1, <1>2, <1>3, <1>4, <1>5, <1>6, <1>7, <1>8, <1>9, <1>10, <1>11 DEF Next, Work, Failure

LEMMA ClaimInvHolds == Spec => [](TypeOK /\ ClaimInv)
<1>1. Init => TypeOK /\ ClaimInv
  BY InitTypeOK, InitClaimInv
<1>2. TypeOK /\ ClaimInv /\ [Next]_vars => (TypeOK /\ ClaimInv)'
  BY StepTypeOK, StepClaimInv
<1>. QED
  BY <1>1, <1>2, PTL DEF Spec

\* No two background tasks ever hold the same notification.
THEOREM ClaimsAreExclusive == Spec => []ExclusiveClaim
<1>1. ClaimInv => ExclusiveClaim
  BY DEF ClaimInv
<1>. QED
  BY <1>1, ClaimInvHolds, PTL

\* No notification is put into its queue twice.
THEOREM NeverPublishedTwice == Spec => []PublishedAtMostOnce
<1>1. ClaimInv => PublishedAtMostOnce
  BY DEF ClaimInv
<1>. QED
  BY <1>1, ClaimInvHolds, PTL

\* The status column agrees with what was handed over.
THEOREM StatusAlwaysMatchesQueue == Spec => []StatusMatchesQueue
<1>1. ClaimInv => StatusMatchesQueue
  BY DEF ClaimInv
<1>. QED
  BY <1>1, ClaimInvHolds, PTL

-----------------------------------------------------------------------------
(* Consent.                                                                 *)

\* No step but the sort clears a notification that was not cleared before.
LEMMA OnlySortClears ==
  ASSUME TypeOK, ClaimInv, [Next]_vars, \A w \in Worker : ~EnrichAndSort(w),
         NEW n \in Notification, Cleared(n)'
  PROVE  Cleared(n)
<1>. USE DEF rowVars, taskVars, sentVars
<1>1. ASSUME NEW m \in Notification, NEW r \in Request, CreateNotification(m, r)
      PROVE  Cleared(n)
  BY <1>1 DEF CreateNotification, Cleared, TypeOK
<1>2. ASSUME NEW w \in Worker, NEW S \in SUBSET Notification, FetchNew(w, S)
      PROVE  Cleared(n)
  BY <1>2 DEF FetchNew, Claimable, Mark, Cleared, TypeOK
<1>3. ASSUME NEW w \in Worker, NEW S \in SUBSET Notification, FetchDelayed(w, S)
      PROVE  Cleared(n)
  <2>1. \A m \in S : status[m] = "DELAYED"
    BY <1>3 DEF FetchDelayed, Claimable, Fetchable
  <2>. QED
    BY <1>3, <2>1 DEF FetchDelayed, Mark, Cleared, TypeOK
<1>4. ASSUME NEW w \in Worker, Release(w), UNCHANGED published,
             status'[n] = "DELAYED" => status[n] = "DELAYED" \/ (pc[w] = "publish" /\ n \in held[w] /\ memory[w][n] = "DELAYED"),
             \A v \in Worker \ {w} : pc'[v] = pc[v]
      PROVE  Cleared(n)
  <2>1. held'[w] = {} /\ \A v \in Worker \ {w} :
          held'[v] = held[v] /\ todo'[v] = todo[v] /\ memory'[v] = memory[v]
    BY <1>4 DEF Release, TypeOK
  <2>. QED
    BY <1>4, <2>1 DEF Cleared
<1>5. ASSUME NEW w \in Worker, EnrichRaises(w)
      PROVE  Cleared(n)
  <2>1. \A v \in Worker \ {w} : pc'[v] = pc[v]
    BY <1>5 DEF EnrichRaises, TypeOK
  <2>. QED
    BY <1>4, <1>5, <2>1 DEF EnrichRaises
<1>6. ASSUME NEW w \in Worker, UpdateNotifications(w) \/ UpdateFails(w)
      PROVE  Cleared(n)
  <2>1. \A v \in Worker \ {w} : pc'[v] = pc[v]
    BY <1>6 DEF UpdateNotifications, UpdateFails, TypeOK
  <2>2. status'[n] = "DELAYED" =>
          status[n] = "DELAYED" \/ (pc[w] = "publish" /\ n \in held[w] /\ memory[w][n] = "DELAYED")
    BY <1>6 DEF UpdateNotifications, UpdateFails, WriteBack
  <2>. QED
    BY <1>4, <1>6, <2>1, <2>2 DEF UpdateNotifications, UpdateFails
<1>7. ASSUME NEW w \in Worker, NEW m \in Notification, Publish(w, m) \/ PublishFails(w, m)
      PROVE  Cleared(n)
  <2>1. pc[w] = "publish" /\ m \in todo[w] /\ m \in held[w]
    BY <1>7 DEF Publish, PublishFails, ClaimInv, TaskInv, TaskOK
  <2>2. CASE n = m
    BY <2>1, <2>2 DEF Cleared
  <2>3. CASE n # m
    <3>1. published'[n] = published[n] /\ UNCHANGED <<pc, held, status>>
      BY <1>7, <2>3 DEF Publish, PublishFails, Deliver, TypeOK
    <3>2. \A v \in Worker : memory'[v][n] = memory[v][n] /\ (n \in todo'[v] => n \in todo[v])
      <4>1. /\ todo' = [todo EXCEPT ![w] = @ \ {m}]
            /\ \E x \in {"SENDING", "PROCESSING_ERROR"} : memory' = [memory EXCEPT ![w][m] = x]
        BY <1>7 DEF Publish, PublishFails
      <4>. QED
        BY <2>3, <4>1 DEF TypeOK
    <3>. QED
      BY <3>1, <3>2 DEF Cleared
  <2>. QED
    BY <2>2, <2>3
<1>8. ASSUME NEW w \in Worker, NEW S \in SUBSET Notification, FetchCommitLost(w, S)
      PROVE  Cleared(n)
  BY <1>8 DEF FetchCommitLost, Mark, Cleared, TypeOK
<1>9. ASSUME NEW w \in Worker, FetchGivesUp(w)
      PROVE  Cleared(n)
  BY <1>9 DEF FetchGivesUp, Cleared, TypeOK
<1>10. ASSUME NEW p \in Process, Restart(p)
      PROVE  Cleared(n)
  BY <1>10 DEF Restart, Cleared
<1>11. ASSUME NEW S \in SUBSET Notification, NEW o \in Outcome, ReportStatus(S, o)
       PROVE  Cleared(n)
  BY <1>11 DEF ReportStatus, Mark, Outcome, Cleared
<1>12. CASE Tick \/ UNCHANGED vars
  BY <1>12 DEF Tick, vars, Cleared
<1>. QED
  BY <1>1, <1>2, <1>3, <1>5, <1>6, <1>7, <1>8, <1>9, <1>10, <1>11, <1>12 DEF Next, Work, Failure

\* The sort clears only what the user consents to.
LEMMA SortConsentInv ==
  ASSUME TypeOK, ClaimInv, ConsentInv, NEW w \in Worker, EnrichAndSort(w)
  PROVE  ConsentInv'
<1>. SUFFICES ASSUME NEW n \in Notification, Cleared(n)' PROVE Consented(n)'
  BY DEF ConsentInv
<1>1. PICK found :
        LET verdict == [m \in held[w] |-> Verdict(request[m], found[m], clock)]
        IN  /\ profile' = [m \in Notification |-> IF m \in held[w] THEN found[m] ELSE profile[m]]
            /\ memory' = [memory EXCEPT ![w] =
                 [m \in Notification |-> IF m \in held[w] THEN verdict[m] ELSE "PROCESSING"]]
            /\ todo' = [todo EXCEPT ![w] = {m \in held[w] : verdict[m] = "PROCESSING"}]
  BY DEF EnrichAndSort
<1>2. /\ pc[w] = "enrich" /\ UNCHANGED <<status, request, held, published>>
      /\ \A v \in Worker \ {w} : pc'[v] = pc[v]
  BY DEF EnrichAndSort, TypeOK
<1>3. \A v \in Worker \ {w} : todo'[v] = todo[v] /\ memory'[v] = memory[v]
  BY <1>1 DEF TypeOK
<1>4. CASE n \notin held[w]
  <2>1. Cleared(n)
    BY <1>2, <1>3, <1>4 DEF Cleared
  <2>. QED
    BY <1>1, <1>2, <1>4, <2>1 DEF ConsentInv, Consented
<1>5. CASE n \in held[w]
  <2>1. published[n] = 0 /\ status[n] = "PROCESSING" /\ \A v \in Worker \ {w} : n \notin held[v]
    BY <1>2, <1>5 DEF ClaimInv, ExclusiveClaim, TaskInv, TaskOK
  <2>2. n \in todo'[w] \/ memory'[w][n] = "DELAYED"
    BY <1>2, <2>1 DEF Cleared
  <2>3. Verdict(request[n], found[n], clock) \in {"PROCESSING", "DELAYED"}
    BY <1>1, <1>5, <2>2 DEF TypeOK
  <2>4. SendNow(request[n], found[n], clock) \/ ~Forbidden(request[n], found[n])
    BY <2>3, VerdictReasons
  <2>5. request[n].method = "EMAIL" /\ request[n].priority # "HIGH" => found[n].allowed
    BY <2>4, NotForbidden
  <2>. QED
    BY <1>1, <1>2, <1>5, <2>5 DEF Consented
<1>. QED
  BY <1>4, <1>5

LEMMA StepConsentInv == TypeOK /\ ClaimInv /\ ConsentInv /\ [Next]_vars => ConsentInv'
<1>. SUFFICES ASSUME TypeOK, ClaimInv, ConsentInv, [Next]_vars PROVE ConsentInv'
  OBVIOUS
<1>1. CASE \E w \in Worker : EnrichAndSort(w)
  BY <1>1, SortConsentInv
<1>2. CASE \A w \in Worker : ~EnrichAndSort(w)
  <2>. SUFFICES ASSUME NEW n \in Notification, Cleared(n)' PROVE Consented(n)'
    BY DEF ConsentInv
  <2>1. Cleared(n) /\ Consented(n)
    BY <1>2, OnlySortClears DEF ConsentInv
  <2>2. UNCHANGED profile
    BY <1>2 DEF Next, Work, Failure, CreateNotification, FetchNew, FetchDelayed, EnrichRaises,
         Publish, PublishFails, UpdateNotifications, UpdateFails, FetchCommitLost, FetchGivesUp,
         Restart, ReportStatus, Tick, vars, rowVars
  <2>3. request'[n] = request[n]
    <3>1. ASSUME NEW m \in Notification, NEW r \in Request, CreateNotification(m, r)
          PROVE  request'[n] = request[n]
      <4>1. ~Cleared(m)
        BY <3>1, WaitingIsUnheld DEF CreateNotification, ClaimInv, StatusMatchesQueue, Cleared
      <4>. QED
        BY <2>1, <3>1, <4>1 DEF CreateNotification, TypeOK
    <3>. QED
      BY <1>2, <3>1 DEF Next, Work, Failure, FetchNew, FetchDelayed, EnrichRaises,
           Publish, PublishFails, UpdateNotifications, UpdateFails, FetchCommitLost, FetchGivesUp,
           Restart, ReportStatus, Tick, vars, rowVars
  <2>. QED
    BY <2>1, <2>2, <2>3 DEF Consented
<1>. QED
  BY <1>1, <1>2

LEMMA ConsentInvHolds == Spec => []ConsentInv
<1>1. Init => ConsentInv
  BY DEF Init, ConsentInv, Cleared
<1>2. TypeOK /\ ClaimInv /\ ConsentInv /\ [Next]_vars => ConsentInv'
  BY StepConsentInv
<1>. QED
  BY <1>1, <1>2, ClaimInvHolds, PTL DEF Spec

\* No e-mail of ordinary priority leaves without the user's permission.
THEOREM ConsentIsRespected == Spec => []ConsentRespected
<1>1. ConsentInv => ConsentRespected
  BY DEF ConsentInv, Cleared, Consented, ConsentRespected
<1>. QED
  BY <1>1, ConsentInvHolds, PTL

-----------------------------------------------------------------------------
(* Deferral.                                                                *)

\* The hour the priority manager computes is the first opening after it.
LEMMA NextIsFirst ==
  ASSUME NEW zone \in 0 .. 23, NEW h \in Nat
  PROVE  FirstOpening(zone, h) = NextSendTime(zone, h) /\ FirstOpening(zone, h) \in Nat
<1>1. NextSendTime(zone, h) \in h + 1 .. h + 24 /\ LocalHour(zone, NextSendTime(zone, h)) = StartHour
  BY NextSendTimeIsOpening
<1>2. ASSUME NEW o \in h + 1 .. h + 24, LocalHour(zone, o) = StartHour
      PROVE  o = NextSendTime(zone, h)
  BY <1>2 DEF NextSendTime, LocalHour, StartHour
<1>. QED
  BY <1>1, <1>2 DEF FirstOpening

\* Nothing but the sort adds to what was put off, and it adds what it holds.
LEMMA OnlySortDefers ==
  ASSUME [Next]_vars, \A w \in Worker : ~EnrichAndSort(w)
  PROVE  UNCHANGED <<deferred, profile>>
BY DEF Next, Work, Failure, CreateNotification, FetchNew, FetchDelayed, EnrichRaises, Publish,
       PublishFails, UpdateNotifications, UpdateFails, FetchCommitLost, FetchGivesUp, Restart,
       ReportStatus, Tick, vars, rowVars, sentVars

LEMMA SortDeferInv ==
  ASSUME TypeOK, ClaimInv, DeferInv, NEW w \in Worker, EnrichAndSort(w)
  PROVE  DeferInv'
<1>1. PICK found \in [held[w] -> Profile \cup {NoProfile}] :
        LET verdict == [m \in held[w] |-> Verdict(request[m], found[m], clock)]
            later   == {m \in held[w] : verdict[m] = "DELAYED"}
        IN  /\ profile' = [m \in Notification |-> IF m \in held[w] THEN found[m] ELSE profile[m]]
            /\ memory' = [memory EXCEPT ![w] =
                 [m \in Notification |-> IF m \in held[w] THEN verdict[m] ELSE "PROCESSING"]]
            /\ due' = [due EXCEPT ![w] =
                 [m \in Notification |->
                    IF m \in later THEN NextSendTime(found[m].zone, clock) ELSE due[w][m]]]
            /\ todo' = [todo EXCEPT ![w] = {m \in held[w] : verdict[m] = "PROCESSING"}]
            /\ deferred' = deferred \cup (later \X {clock})
  BY DEF EnrichAndSort
<1>2. /\ pc[w] = "enrich" /\ UNCHANGED <<status, target, held, published, publishedAt, clock>>
      /\ pc' = [pc EXCEPT ![w] = "publish"]
  BY DEF EnrichAndSort
<1>3. held[w] \subseteq Notification /\ clock \in Nat /\ deferred \subseteq Notification \X Nat
  BY DEF TypeOK
<1>. SUFFICES ASSUME NEW d \in deferred' PROVE DeferOK(d[1], d[2])'
  BY DEF DeferInv
<1>4. CASE d \in deferred
  <2>1. DeferOK(d[1], d[2]) /\ d[1] \in Notification
    BY <1>3, <1>4 DEF DeferInv
  <2>2. d[1] \notin held[w]
    BY <1>2, <2>1 DEF DeferOK
  <2>3. profile'[d[1]] = profile[d[1]]
    BY <1>1, <2>1, <2>2
  <2>4. \A v \in Worker : d[1] \in held[v] =>
          /\ pc'[v] = pc[v] /\ todo'[v] = todo[v] /\ memory'[v] = memory[v] /\ due'[v] = due[v]
    BY <1>1, <1>2, <2>2 DEF TypeOK
  <2>. QED
    BY <1>2, <2>1, <2>3, <2>4 DEF DeferOK, FirstOpening
<1>5. CASE d \notin deferred
  <2>1. PICK n \in held[w] : d = <<n, clock>> /\ Verdict(request[n], found[n], clock) = "DELAYED"
    BY <1>1, <1>5
  <2>2. found[n] \in Profile /\ ~SendNow(request[n], found[n], clock) /\ ~Forbidden(request[n], found[n])
    BY <1>1, <2>1, VerdictReasons
  <2>3. found[n].zone \in 0 .. 23
    <3>1. found[n] \in [zone : (0 .. 23) \cup {NoZone}, allowed : BOOLEAN]
      BY <2>2, ConstantsAssumption
    <3>. QED
      BY <2>2, <3>1 DEF SendNow, InWindow
  <2>4. /\ profile'[n] = found[n] /\ n \notin todo'[w] /\ pc'[w] = "publish"
        /\ due'[w][n] = NextSendTime(found[n].zone, clock)
    BY <1>1, <1>2, <1>3, <2>1 DEF TypeOK
  <2>5. status[n] = "PROCESSING" /\ published[n] = 0 /\ \A v \in Worker \ {w} : n \notin held[v]
    BY <1>2, <2>1 DEF ClaimInv, ExclusiveClaim, TaskInv, TaskOK
  <2>6. FirstOpening(found[n].zone, clock) = NextSendTime(found[n].zone, clock)
    BY <1>3, <2>3, NextIsFirst
  <2>7. DeferOK(n, clock)'
    BY <1>2, <2>3, <2>4, <2>5, <2>6 DEF DeferOK, FirstOpening
  <2>. QED
    BY <1>2, <2>1, <2>7 DEF DeferOK, FirstOpening
<1>. QED
  BY <1>4, <1>5

\* A notification that was put off keeps its opening through every other step.
LEMMA OpeningIsKept ==
  ASSUME TypeOK, ClaimInv, [Next]_vars, \A w \in Worker : ~EnrichAndSort(w),
         NEW n \in Notification, NEW h \in Nat, DeferOK(n, h)
  PROVE  DeferOK(n, h)'
<1>. DEFINE opening == FirstOpening(profile[n].zone, h)
<1>. USE DEF rowVars, taskVars, sentVars
<1>0. UNCHANGED profile /\ opening \in Nat /\ clock \in Nat
  <2>1. UNCHANGED profile
    BY OnlySortDefers
  <2>. QED
    BY <2>1, NextIsFirst DEF DeferOK, TypeOK
<1>. DEFINE Goal == /\ status'[n] \notin {"ABSENT", "NEW"}
                    /\ status'[n] = "DELAYED" => target'[n] = opening
                    /\ published'[n] > 0 => publishedAt'[n] >= opening
                    /\ \A w \in Worker : n \in held'[w] =>
                         /\ pc'[w] = "publish"
                         /\ IF n \in todo'[w] THEN opening <= clock'
                            ELSE memory'[w][n] = "DELAYED" => due'[w][n] = opening
<1>. SUFFICES Goal
  BY <1>0 DEF DeferOK, FirstOpening
<1>1. ASSUME NEW m \in Notification, NEW r \in Request, CreateNotification(m, r)
      PROVE  Goal
  BY <1>1 DEF CreateNotification, DeferOK, TypeOK
<1>2. ASSUME NEW w \in Worker, NEW S \in SUBSET Notification, FetchNew(w, S)
      PROVE  Goal
  <2>1. n \notin S /\ held[w] = {}
    BY <1>2 DEF FetchNew, Claimable, Fetchable, DeferOK, ClaimInv, TaskInv, TaskOK
  <2>2. \A v \in Worker : n \in held'[v] =>
          n \in held[v] /\ pc'[v] = pc[v] /\ todo'[v] = todo[v] /\ memory'[v] = memory[v] /\ due'[v] = due[v]
    BY <1>2, <2>1 DEF FetchNew, TypeOK
  <2>3. status'[n] = status[n] /\ UNCHANGED <<target, published, publishedAt, clock>>
    BY <1>2, <2>1 DEF FetchNew, Mark
  <2>. QED
    BY <2>2, <2>3 DEF DeferOK
<1>3. ASSUME NEW w \in Worker, NEW S \in SUBSET Notification, FetchDelayed(w, S)
      PROVE  Goal
  <2>1. /\ UNCHANGED <<published, publishedAt, clock>>
        /\ held' = [held EXCEPT ![w] = S] /\ pc' = [pc EXCEPT ![w] = "publish"]
        /\ todo' = [todo EXCEPT ![w] = S]
        /\ \A v \in Worker \ {w} : memory'[v] = memory[v] /\ due'[v] = due[v]
        /\ status'[n] = IF n \in S THEN "PROCESSING" ELSE status[n]
        /\ UNCHANGED target
    BY <1>3 DEF FetchDelayed, Mark, TypeOK
  <2>2. n \in S => status[n] = "DELAYED" /\ target[n] <= clock
    BY <1>3 DEF FetchDelayed, Claimable, Fetchable
  <2>. QED
    BY <2>1, <2>2 DEF DeferOK, TypeOK
<1>4. ASSUME NEW w \in Worker, Release(w), UNCHANGED <<published, publishedAt, clock>>,
             \A v \in Worker \ {w} : pc'[v] = pc[v],
             \/ UNCHANGED <<status, target>>
             \/ pc[w] = "publish" /\ todo[w] = {} /\ WriteBack(w)
      PROVE  Goal
  <2>1. /\ held'[w] = {}
        /\ \A v \in Worker \ {w} : /\ held'[v] = held[v] /\ todo'[v] = todo[v]
                                   /\ memory'[v] = memory[v] /\ due'[v] = due[v]
    BY <1>4 DEF Release, TypeOK
  <2>2. status'[n] \notin {"ABSENT", "NEW"} /\ (status'[n] = "DELAYED" => target'[n] = opening)
    <3>1. CASE UNCHANGED <<status, target>>
      BY <3>1 DEF DeferOK
    <3>2. CASE pc[w] = "publish" /\ todo[w] = {} /\ WriteBack(w)
      <4>1. n \in held[w] => memory[w][n] \in {"SENDING", "PROCESSING_ERROR", "DELAYED", "SENDING_FORBIDDEN"}
        BY <3>2 DEF ClaimInv, TaskInv, TaskOK
      <4>. QED
        BY <3>2, <4>1 DEF WriteBack, DeferOK
    <3>. QED
      BY <1>4, <3>1, <3>2
  <2>. QED
    BY <1>4, <2>1, <2>2 DEF DeferOK
<1>5. ASSUME NEW w \in Worker, EnrichRaises(w) \/ UpdateNotifications(w) \/ UpdateFails(w)
      PROVE  Goal
  <2>1. /\ \A v \in Worker \ {w} : pc'[v] = pc[v]
        /\ Release(w) /\ UNCHANGED <<published, publishedAt, clock>>
    BY <1>5 DEF EnrichRaises, UpdateNotifications, UpdateFails, TypeOK
  <2>2. \/ UNCHANGED <<status, target>>
        \/ pc[w] = "publish" /\ todo[w] = {} /\ WriteBack(w)
    BY <1>5 DEF EnrichRaises, UpdateNotifications, UpdateFails
  <2>. QED
    BY <1>4, <2>1, <2>2
<1>6. ASSUME NEW w \in Worker, NEW m \in Notification, Publish(w, m) \/ PublishFails(w, m)
      PROVE  Goal
  <2>1. /\ pc[w] = "publish" /\ m \in todo[w] /\ m \in held[w]
        /\ UNCHANGED <<status, target, pc, held, due, clock>>
        /\ todo' = [todo EXCEPT ![w] = @ \ {m}]
        /\ \E x \in {"SENDING", "PROCESSING_ERROR"} : memory' = [memory EXCEPT ![w][m] = x]
        /\ \/ /\ published' = [published EXCEPT ![m] = @ + 1]
              /\ publishedAt' = [publishedAt EXCEPT ![m] = clock]
           \/ UNCHANGED <<published, publishedAt>>
    BY <1>6 DEF Publish, PublishFails, Deliver, ClaimInv, TaskInv, TaskOK
  <2>2. CASE n = m
    <3>1. opening <= clock /\ published[n] = 0
      BY <2>1, <2>2 DEF DeferOK, ClaimInv, TaskInv, TaskOK
    <3>2. published'[n] > 0 => publishedAt'[n] = clock
      BY <2>1, <2>2, <3>1 DEF TypeOK
    <3>3. \A v \in Worker \ {w} : n \notin held[v]
      BY <2>1, <2>2 DEF ClaimInv, ExclusiveClaim
    <3>4. n \notin todo'[w] /\ memory'[w][n] # "DELAYED"
      BY <2>1, <2>2 DEF TypeOK
    <3>. QED
      BY <1>0, <2>1, <3>1, <3>2, <3>3, <3>4 DEF DeferOK
  <2>3. CASE n # m
    <3>1. published'[n] = published[n] /\ publishedAt'[n] = publishedAt[n]
      BY <2>1, <2>3 DEF TypeOK
    <3>2. \A v \in Worker : memory'[v][n] = memory[v][n] /\ (n \in todo'[v] <=> n \in todo[v])
      BY <2>1, <2>3 DEF TypeOK
    <3>. QED
      BY <2>1, <3>1, <3>2 DEF DeferOK
  <2>. QED
    BY <2>2, <2>3
<1>7. ASSUME NEW w \in Worker, NEW S \in SUBSET Notification, FetchCommitLost(w, S)
      PROVE  Goal
  BY <1>7 DEF FetchCommitLost, Mark, DeferOK
<1>8. ASSUME NEW w \in Worker, FetchGivesUp(w)
      PROVE  Goal
  BY <1>8 DEF FetchGivesUp, DeferOK, ClaimInv, TaskInv, TaskOK, TypeOK
<1>9. ASSUME NEW p \in Process, Restart(p)
      PROVE  Goal
  BY <1>9 DEF Restart, DeferOK
<1>10. ASSUME NEW S \in SUBSET Notification, NEW o \in Outcome, ReportStatus(S, o)
       PROVE  Goal
  BY <1>10 DEF ReportStatus, Mark, Outcome, DeferOK
<1>11. CASE Tick
  <2>1. clock' \in Nat /\ clock' > clock /\ UNCHANGED <<rowVars, taskVars, sentVars>>
    BY <1>11, ConstantsAssumption DEF Tick
  <2>. QED
    BY <1>0, <2>1 DEF DeferOK
<1>12. CASE UNCHANGED vars
  BY <1>12 DEF vars, DeferOK
<1>. QED
  BY <1>1, <1>2, <1>3, <1>5, <1>6, <1>7, <1>8, <1>9, <1>10, <1>11, <1>12 DEF Next, Work, Failure

LEMMA StepDeferInv == TypeOK /\ ClaimInv /\ DeferInv /\ [Next]_vars => DeferInv'
<1>. SUFFICES ASSUME TypeOK, ClaimInv, DeferInv, [Next]_vars PROVE DeferInv'
  OBVIOUS
<1>1. CASE \E w \in Worker : EnrichAndSort(w)
  BY <1>1, SortDeferInv
<1>2. CASE \A w \in Worker : ~EnrichAndSort(w)
  <2>1. UNCHANGED deferred
    BY <1>2, OnlySortDefers
  <2>2. \A d \in deferred : d[1] \in Notification /\ d[2] \in Nat /\ DeferOK(d[1], d[2])
    BY DEF DeferInv, TypeOK
  <2>3. \A d \in deferred : DeferOK(d[1], d[2])'
    BY <1>2, <2>2, OpeningIsKept
  <2>. QED
    BY <2>1, <2>3 DEF DeferInv
<1>. QED
  BY <1>1, <1>2

LEMMA DeferInvHolds == Spec => []DeferInv
<1>1. Init => DeferInv
  BY DEF Init, DeferInv
<1>2. TypeOK /\ ClaimInv /\ DeferInv /\ [Next]_vars => DeferInv'
  BY StepDeferInv
<1>. QED
  BY <1>1, <1>2, ClaimInvHolds, PTL DEF Spec

\* What comes outside the user's hours waits for the first opening of the window.
THEOREM DeferredWaitForOpening == Spec => []DeferredUntilOpening
<1>1. DeferInv => DeferredUntilOpening
  BY DEF DeferInv, DeferOK, DeferredUntilOpening
<1>. QED
  BY <1>1, DeferInvHolds, PTL

\* The inductive invariant that the runs check, all of it.
THEOREM IndInvIsInvariant == Spec => []IndInv
<1>. QED
  BY ClaimInvHolds, ConsentInvHolds, DeferInvHolds, PTL DEF IndInv

-----------------------------------------------------------------------------
(* The refinement of NotificationLifecycle.                                 *)

LEMMA ReleaseUnclaims ==
  ASSUME TypeOK, ClaimInv, NEW w \in Worker, Release(w)
  PROVE  held[w] \in SUBSET Notification /\ held[w] \subseteq Claimed /\ Claimed' = Claimed \ held[w]
<1>1. held' = [held EXCEPT ![w] = {}] /\ held \in [Worker -> SUBSET Notification]
  BY DEF Release, TypeOK
<1>2. \A v \in Worker \ {w} : held[v] \cap held[w] = {}
  BY DEF ClaimInv, ExclusiveClaim
<1>. QED
  BY <1>1, <1>2 DEF Claimed

LEMMA FetchRefines ==
  ASSUME TypeOK, ClaimInv, NEW w \in Worker, NEW S \in SUBSET Notification,
         FetchNew(w, S) \/ FetchDelayed(w, S) \/ FetchCommitLost(w, S)
  PROVE  Lifecycle!Claim(S)
<1>1. held \in [Worker -> SUBSET Notification] /\ held[w] = {}
  BY DEF FetchNew, FetchDelayed, FetchCommitLost, Claimable, ClaimInv, TaskInv, TaskOK, TypeOK
<1>2. /\ \A n \in S : status[n] \in {"NEW", "DELAYED"}
      /\ status' = [n \in Notification |-> IF n \in S THEN "PROCESSING" ELSE status[n]]
      /\ held' = held \/ held' = [held EXCEPT ![w] = S]
      /\ UNCHANGED published
  BY DEF FetchNew, FetchDelayed, FetchCommitLost, Claimable, Fetchable, Mark, taskVars, sentVars
<1>3. Claimed' \in {Claimed, Claimed \cup S}
  BY <1>1, <1>2 DEF Claimed
<1>. QED
  BY <1>2, <1>3 DEF Lifecycle!Claim, Handed

LEMMA PublishRefines ==
  ASSUME TypeOK, ClaimInv, NEW w \in Worker, NEW n \in Notification,
         Publish(w, n) \/ PublishFails(w, n)
  PROVE  Lifecycle!Hand(n) \/ UNCHANGED <<status, Claimed, Handed>>
<1>1. n \in Claimed /\ published[n] = 0
  BY DEF Publish, PublishFails, Claimed, ClaimInv, TaskInv, TaskOK
<1>2. UNCHANGED <<status, Claimed>>
  BY DEF Publish, PublishFails, rowVars, Claimed
<1>3. CASE published' = [published EXCEPT ![n] = @ + 1]
  <2>1. Handed' = Handed \cup {n}
    BY <1>1, <1>3 DEF Handed, TypeOK
  <2>. QED
    BY <1>1, <1>2, <2>1 DEF Lifecycle!Hand, Handed
<1>4. CASE UNCHANGED published
  BY <1>2, <1>4 DEF Handed
<1>. QED
  BY <1>3, <1>4 DEF Publish, PublishFails, Deliver

LEMMA UpdateRefines ==
  ASSUME TypeOK, ClaimInv, NEW w \in Worker, UpdateNotifications(w) \/ UpdateFails(w)
  PROVE  Lifecycle!Settle(held[w]) \/ Lifecycle!Abandon(held[w])
<1>1. /\ pc[w] = "publish" /\ todo[w] = {} /\ Release(w)
      /\ WriteBack(w) \/ UNCHANGED status
      /\ UNCHANGED Handed
  BY DEF UpdateNotifications, UpdateFails, sentVars, Handed
<1>2. held[w] \in SUBSET Notification /\ held[w] \subseteq Claimed /\ Claimed' = Claimed \ held[w]
  BY <1>1, ReleaseUnclaims
<1>3. CASE UNCHANGED status
  BY <1>1, <1>2, <1>3 DEF Lifecycle!Abandon
<1>4. CASE WriteBack(w)
  <2>. DEFINE verdict == [n \in held[w] |-> memory[w][n]]
  <2>1. \A n \in held[w] :
          \/ memory[w][n] = "SENDING" /\ n \in Handed
          \/ memory[w][n] = "PROCESSING_ERROR"
          \/ memory[w][n] \in {"DELAYED", "SENDING_FORBIDDEN"} /\ n \notin Handed
    BY <1>1, <1>2 DEF Handed, ClaimInv, TaskInv, TaskOK
  <2>2. verdict \in [held[w] -> {"SENDING", "DELAYED", "SENDING_FORBIDDEN", "PROCESSING_ERROR"}]
    BY <2>1
  <2>3. \A n \in held[w] : verdict[n] \in Lifecycle!Conclusion(n)
    BY <2>1 DEF Lifecycle!Conclusion
  <2>4. status' = [n \in Notification |-> IF n \in held[w] THEN verdict[n] ELSE status[n]]
    BY <1>4 DEF WriteBack
  <2>. QED
    BY <1>1, <1>2, <2>2, <2>3, <2>4 DEF Lifecycle!Settle
<1>. QED
  BY <1>1, <1>3, <1>4

LEMMA RestartRefines ==
  ASSUME TypeOK, ClaimInv, NEW p \in Process, Restart(p)
  PROVE  \E S \in SUBSET Notification : Lifecycle!Abandon(S)
<1>. DEFINE S == UNION {held[w] : w \in {v \in Worker : v[1] = p}}
<1>1. S \in SUBSET Notification /\ S \subseteq Claimed
  BY DEF TypeOK, Claimed
<1>2. Claimed' = Claimed \ S
  <2>1. \A w \in Worker : held'[w] = IF w[1] = p THEN {} ELSE held[w]
    BY DEF Restart
  <2>2. \A v, w \in Worker : v[1] # p /\ w[1] = p => held[v] \cap held[w] = {}
    BY DEF ClaimInv, ExclusiveClaim
  <2>. QED
    BY <2>1, <2>2 DEF Claimed
<1>3. UNCHANGED <<status, Handed>>
  BY DEF Restart, rowVars, sentVars, Handed
<1>4. Lifecycle!Abandon(S)
  BY <1>1, <1>2, <1>3 DEF Lifecycle!Abandon
<1>. QED
  BY <1>1, <1>4

\* Every step of the tasks and the API is a step of the life of a notification,
\* or none that it shows.
LEMMA StepRefines ==
  TypeOK /\ ClaimInv /\ [Next]_vars => [Lifecycle!Next]_<<status, Claimed, Handed>>
<1>. SUFFICES ASSUME TypeOK, ClaimInv, [Next]_vars
              PROVE  Lifecycle!Next \/ UNCHANGED <<status, Claimed, Handed>>
  OBVIOUS
<1>. USE DEF rowVars, taskVars, sentVars
<1>1. ASSUME NEW n \in Notification, NEW r \in Request, CreateNotification(n, r)
      PROVE  Lifecycle!Next
  <2>1. Lifecycle!Create(n)
    BY <1>1 DEF CreateNotification, Lifecycle!Create, Claimed, Handed
  <2>. QED
    BY <2>1 DEF Lifecycle!Next
<1>2. ASSUME NEW w \in Worker, NEW S \in SUBSET Notification,
             FetchNew(w, S) \/ FetchDelayed(w, S) \/ FetchCommitLost(w, S)
      PROVE  Lifecycle!Next
  BY <1>2, FetchRefines DEF Lifecycle!Next
<1>3. ASSUME NEW w \in Worker, EnrichAndSort(w) \/ FetchGivesUp(w)
      PROVE  UNCHANGED <<status, Claimed, Handed>>
  BY <1>3 DEF EnrichAndSort, FetchGivesUp, Claimed, Handed
<1>4. ASSUME NEW w \in Worker, EnrichRaises(w)
      PROVE  Lifecycle!Next
  <2>1. Release(w) /\ UNCHANGED <<status, Handed>>
    BY <1>4 DEF EnrichRaises, Handed
  <2>2. Lifecycle!Abandon(held[w]) /\ held[w] \in SUBSET Notification
    BY <2>1, ReleaseUnclaims DEF Lifecycle!Abandon
  <2>. QED
    BY <2>2 DEF Lifecycle!Next
<1>5. ASSUME NEW w \in Worker, NEW n \in Notification, Publish(w, n) \/ PublishFails(w, n)
      PROVE  Lifecycle!Next \/ UNCHANGED <<status, Claimed, Handed>>
  BY <1>5, PublishRefines DEF Lifecycle!Next
<1>6. ASSUME NEW w \in Worker, UpdateNotifications(w) \/ UpdateFails(w)
      PROVE  Lifecycle!Next
  <2>1. held[w] \in SUBSET Notification
    BY DEF TypeOK
  <2>. QED
    BY <1>6, <2>1, UpdateRefines DEF Lifecycle!Next
<1>7. ASSUME NEW p \in Process, Restart(p)
      PROVE  Lifecycle!Next
  BY <1>7, RestartRefines DEF Lifecycle!Next
<1>8. ASSUME NEW S \in SUBSET Notification, NEW o \in Outcome, ReportStatus(S, o)
      PROVE  Lifecycle!Next
  <2>1. Lifecycle!Report(S, o)
    BY <1>8 DEF ReportStatus, Mark, Lifecycle!Report, Claimed, Handed
  <2>. QED
    BY <2>1 DEF Lifecycle!Next, Outcome
<1>9. CASE Tick \/ UNCHANGED vars
  BY <1>9 DEF Tick, vars, Claimed, Handed
<1>. QED
  BY <1>1, <1>2, <1>3, <1>4, <1>5, <1>6, <1>7, <1>8, <1>9 DEF Next, Work, Failure

\* The service, with any number of processes and failures, gives a notification
\* no life but the one NotificationLifecycle promises.
THEOREM ImplementsLifecycle == Spec => LifecycleHolds
<1>1. Init => Lifecycle!Init
  BY DEF Init, Lifecycle!Init, Claimed, Handed
<1>2. TypeOK /\ ClaimInv /\ [Next]_vars => [Lifecycle!Next]_<<status, Claimed, Handed>>
  BY StepRefines
<1>. QED
  BY <1>1, <1>2, ClaimInvHolds, PTL DEF Spec, LifecycleHolds, Lifecycle!Spec
=============================================================================
