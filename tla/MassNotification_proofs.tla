----------------------- MODULE MassNotification_proofs -----------------------
(***************************************************************************)
(* A mass mailing that is SENT has reached everybody, is final, and is      *)
(* repeated no more often than something failed or moved, for every set of  *)
(* mailings and users, every size of a page and any number of failures.     *)
(***************************************************************************)
EXTENDS MassNotification, FiniteSetTheorems, SequenceTheorems, TLAPS

-----------------------------------------------------------------------------
(* The inductive invariant.                                                 *)

\* The place of the last user before page k, and the page a job would begin with.
Before(k) == (k - 1) * PageSize
Stored(m) == IF nextPage[m] = NoPage THEN 1 ELSE nextPage[m]

\* A job is about a mailing that is SENDING, until it has marked it as SENT.
JobOf(m) ==
  /\ job[m].step \in {"load", "create", "advance", "mark"} => status[m] = "SENDING"
  /\ job[m].step = "cleanup" => status[m] = "SENT"
  /\ job[m].step \in {"create", "advance"} => job[m].page >= 1
  /\ Stored(m) >= 1

JobInv == \A m \in Mailing : JobOf(m)

Distinct == \A i, j \in DOMAIN order : order[i] = order[j] => i = j

\* The users up to place n have a row.
Reached(m, n) == \A i \in DOMAIN order : i <= n => rows[m][order[i]] > 0
Everyone(m)   == \A i \in DOMAIN order : rows[m][order[i]] > 0

\* While the profiles keep their order, everybody before the page of a mailing has a row.
ReachedInv(m) ==
  /\ Reached(m, Before(Stored(m)))
  /\ job[m].step = "create" => job[m].users = Page(job[m].page)
                               /\ Reached(m, Before(job[m].page))
  /\ job[m].step = "advance" => Reached(m, Before(job[m].page + 1))
  /\ job[m].step = "mark" \/ status[m] = "SENT" => Everyone(m)

\* What has gone wrong so far. The users behind place n have one row less than it allows.
Spent == faults + moves
Fresh(m, n) == \A i \in DOMAIN order : i > n => rows[m][order[i]] <= Spent

\* Who is on the page of a job, or behind it, has one row less, and two if on it and
\* moved behind it.
FreshInv(m) ==
  /\ \A u \in User : rows[m][u] <= 1 + Spent
  /\ job[m].step = "load" \/ (job[m] = Idle /\ "etl" \in alive /\ status[m] # "SENT") =>
       Fresh(m, Before(Stored(m)))
  /\ job[m].step = "create" =>
       /\ \A u \in job[m].users : rows[m][u] <= Spent
       /\ \A i \in DOMAIN order : i > Before(job[m].page + 1) =>
            rows[m][order[i]] + (IF order[i] \in job[m].users THEN 1 ELSE 0) <= Spent
  /\ job[m].step = "advance" => Fresh(m, Before(job[m].page + 1))

MailInv ==
  /\ TypeOK /\ JobInv /\ Distinct
  /\ moves = 0 => \A m \in Mailing : ReachedInv(m)
  /\ \A m \in Mailing : FreshInv(m)

-----------------------------------------------------------------------------
(* Types.                                                                   *)

LEMMA IdleType == Idle \in Job
BY DEF Idle, Job

\* Who is on a page is a user.
LEMMA PageType ==
  ASSUME TypeOK, NEW k \in Nat
  PROVE  Page(k) \subseteq User
BY MailingAssumption DEF TypeOK, Page

LEMMA InitType == Init => TypeOK
<1> SUFFICES ASSUME Init PROVE TypeOK
  OBVIOUS
<1>1. order \in Seq(User) /\ clock \in Nat
  BY MailingAssumption DEF Init
<1>2. job \in [Mailing -> Job]
  BY IdleType DEF Init
<1> QED BY <1>1, <1>2, MailingAssumption DEF Init, TypeOK, MailingStatus, Task

\* The steps of a job keep its type.
LEMMA JobType ==
  ASSUME TypeOK, NEW m \in Mailing
  PROVE  /\ Finish(m) => job' \in [Mailing -> Job]
         /\ \A s \in {"idle", "load", "create", "advance", "mark", "cleanup"} :
              Goto(m, s) => job' \in [Mailing -> Job]
<1>1. Finish(m) => job' \in [Mailing -> Job]
  BY IdleType DEF TypeOK, Finish
<1>2. ASSUME NEW s \in {"idle", "load", "create", "advance", "mark", "cleanup"}, Goto(m, s)
      PROVE  job' \in [Mailing -> Job]
  <2>1. [job[m] EXCEPT !.step = s] \in Job
    BY DEF TypeOK, Job
  <2> QED BY <1>2, <2>1 DEF TypeOK, Goto
<1> QED BY <1>1, <1>2

LEMMA FaultType ==
  ASSUME TypeOK, Fault
  PROVE  faults' \in 0 .. MaxFaults
BY MailingAssumption DEF TypeOK, Fault

LEMMA TypeStep == TypeOK /\ [Next]_vars => TypeOK'
<1> SUFFICES ASSUME TypeOK, [Next]_vars PROVE TypeOK'
  OBVIOUS
<1> USE DEF TypeOK, MailingStatus
<1>1. ASSUME NEW m \in Mailing, NEW t \in Hour, CreateMailing(m, t) PROVE TypeOK'
  BY <1>1 DEF CreateMailing
<1>2. ASSUME NEW S \in SUBSET Mailing, StartNew(S) \/ StartDelayed(S) PROVE TypeOK'
  BY <1>2 DEF StartNew, StartDelayed
<1>3. ASSUME NEW S \in SUBSET Mailing, FetchMailings(S) PROVE TypeOK'
  <2>1. [Idle EXCEPT !.step = "load"] \in Job
    BY DEF Idle, Job
  <2> QED BY <1>3, <2>1 DEF FetchMailings
<1>4. ASSUME NEW m \in Mailing, LoadPage(m) \/ LoadPageNoRedis(m) PROVE TypeOK'
  <2>1. \A k \in Nat, c \in BOOLEAN :
          [step |-> "create", page |-> k, cached |-> c, users |-> Page(k)] \in Job
    BY PageType DEF Job
  <2>2. CASE LoadPage(m)
    BY <2>1, <2>2 DEF LoadPage
  <2>3. CASE LoadPageNoRedis(m)
    <3>1. [step |-> "create", page |-> 1, cached |-> FALSE, users |-> Page(1)] \in Job
      BY <2>1
    <3>2. job' \in [Mailing -> Job]
      BY <2>3, <3>1 DEF LoadPageNoRedis
    <3> QED BY <2>3, <3>2, FaultType DEF LoadPageNoRedis
  <2> QED BY <1>4, <2>2, <2>3
<1>5. ASSUME NEW m \in Mailing, CreateNotifications(m) PROVE TypeOK'
  <2>1. AfterPage(m) \in {"mark", "advance"}
    BY DEF AfterPage
  <2> QED BY <1>5, <2>1, JobType DEF CreateNotifications, AddRows
<1>6. ASSUME NEW m \in Mailing, CreateFails(m) PROVE TypeOK'
  <2>1. rows' \in [Mailing -> [User -> Nat]]
    <3>1. CASE AddRows(m)
      BY <3>1 DEF AddRows
    <3>2. CASE UNCHANGED rows
      BY <3>2
    <3> QED BY <1>6, <3>1, <3>2 DEF CreateFails
  <2> QED BY <1>6, <2>1, JobType, FaultType DEF CreateFails, Abort
<1>7. ASSUME NEW m \in Mailing,
             LoadPageFails(m) \/ MarkSent(m) \/ MarkSentFails(m) \/ AdvanceRaises(m)
      PROVE  TypeOK'
  BY <1>7, JobType, FaultType DEF LoadPageFails, MarkSent, MarkSentFails, AdvanceRaises, Abort
<1>8. ASSUME NEW m \in Mailing,
             DropPageNumber(m) \/ Advance(m) \/ RedisSilent(m) \/ PageNumberExpires(m)
      PROVE  TypeOK'
  <2>1. job[m].page + 1 \in Nat
    BY DEF Job
  <2>2. nextPage' \in [Mailing -> Nat \cup {NoPage}]
    <3>1. CASE Advance(m)
      BY <2>1, <3>1 DEF Advance
    <3>2. CASE DropPageNumber(m) \/ RedisSilent(m) \/ PageNumberExpires(m)
      BY <3>2 DEF DropPageNumber, RedisSilent, PageNumberExpires
    <3> QED BY <1>8, <3>1, <3>2
  <2>3. CASE DropPageNumber(m) \/ Advance(m)
    BY <2>2, <2>3, JobType DEF DropPageNumber, Advance
  <2>4. CASE RedisSilent(m) \/ PageNumberExpires(m)
    BY <2>2, <2>4, JobType, FaultType DEF RedisSilent, PageNumberExpires
  <2> QED BY <1>8, <2>3, <2>4
<1>9. ASSUME Restart \/ \E k \in Task : TaskDies(k) PROVE TypeOK'
  BY <1>9, IdleType, FaultType DEF Restart, TaskDies
<1>10. ASSUME NEW u \in User, MoveToEnd(u) PROVE TypeOK'
  <2>1. PICK i \in DOMAIN order :
          order' = [j \in DOMAIN order |->
            IF j < i THEN order[j] ELSE IF j < Len(order) THEN order[j + 1] ELSE u]
    BY <1>10 DEF MoveToEnd
  <2>2. order' \in Seq(User)
    <3>1. DOMAIN order = 1 .. Len(order) /\ Len(order) \in Nat
      OBVIOUS
    <3>2. \A j \in 1 .. Len(order) : order'[j] \in User
      BY <2>1, <3>1
    <3>3. order' \in [1 .. Len(order) -> User]
      BY <2>1, <3>1, <3>2
    <3>4. order' \in UNION {[1 .. n -> User] : n \in Nat}
      BY <3>1, <3>3
    <3> QED BY <3>4, SeqDef, Zenon
  <2> QED BY <1>10, <2>2, MailingAssumption DEF MoveToEnd
<1>11. ASSUME Tick \/ UNCHANGED vars PROVE TypeOK'
  BY <1>11, MailingAssumption DEF Tick, vars
<1> QED
  BY <1>1, <1>2, <1>3, <1>4, <1>5, <1>6, <1>7, <1>8, <1>9, <1>10, <1>11
     DEF Next, NewTask, DelayedTask, EtlTask, OneMailing, Failure


-----------------------------------------------------------------------------
(* Jobs.                                                                    *)

\* A step of one mailing changes neither the job nor the columns of another one.
Rest(m) == \A n \in Mailing \ {m} :
             /\ job'[n] = job[n] /\ status'[n] = status[n]
             /\ nextPage'[n] = nextPage[n] /\ rows'[n] = rows[n]

LEMMA RestStays ==
  ASSUME TypeOK, NEW m \in Mailing,
         OneMailing(m) \/ LoadPageNoRedis(m) \/ LoadPageFails(m) \/ CreateFails(m)
           \/ MarkSentFails(m) \/ RedisSilent(m) \/ PageNumberExpires(m)
  PROVE  Rest(m)
<1> USE DEF TypeOK, Rest, Goto, Finish, Abort, AddRows
<1>1. CASE LoadPage(m) \/ LoadPageNoRedis(m) \/ LoadPageFails(m)
  BY <1>1 DEF LoadPage, LoadPageNoRedis, LoadPageFails
<1>2. CASE CreateNotifications(m)
  BY <1>2 DEF CreateNotifications
<1>3. CASE CreateFails(m)
  BY <1>3 DEF CreateFails
<1>4. CASE MarkSent(m) \/ MarkSentFails(m)
  BY <1>4 DEF MarkSent, MarkSentFails
<1>5. CASE DropPageNumber(m) \/ Advance(m) \/ AdvanceRaises(m)
  BY <1>5 DEF DropPageNumber, Advance, AdvanceRaises
<1>6. CASE RedisSilent(m) \/ PageNumberExpires(m)
  BY <1>6 DEF RedisSilent, PageNumberExpires
<1> QED BY <1>1, <1>2, <1>3, <1>4, <1>5, <1>6 DEF OneMailing

LEMMA JobStep ==
  ASSUME TypeOK, JobInv, [Next]_vars
  PROVE  JobInv'
<1> USE DEF JobOf, Stored
<1>0. /\ \A m \in Mailing : JobOf(m)
      /\ (\A m \in Mailing : JobOf(m)') => JobInv'
  BY DEF JobInv
<1>1. ASSUME NEW m \in Mailing, NEW t \in Hour, CreateMailing(m, t) PROVE JobInv'
  BY <1>0, <1>1 DEF TypeOK, CreateMailing
<1>2. ASSUME NEW S \in SUBSET Mailing, StartNew(S) \/ StartDelayed(S) PROVE JobInv'
  BY <1>0, <1>2 DEF TypeOK, StartNew, StartDelayed
<1>3. ASSUME NEW S \in SUBSET Mailing, FetchMailings(S) PROVE JobInv'
  BY <1>0, <1>3 DEF TypeOK, FetchMailings, Idle
<1>4. ASSUME NEW m \in Mailing,
             OneMailing(m) \/ LoadPageNoRedis(m) \/ LoadPageFails(m) \/ CreateFails(m)
               \/ MarkSentFails(m) \/ RedisSilent(m) \/ PageNumberExpires(m)
      PROVE  JobInv'
  <2>1. \A n \in Mailing \ {m} : JobOf(n)'
    BY <1>0, <1>4, RestStays DEF Rest
  <2>2. job[m] \in Job /\ job[m].page \in Nat
    BY DEF TypeOK, Job
  <2>3. CASE LoadPage(m) \/ LoadPageNoRedis(m)
    BY <1>0, <2>1, <2>3 DEF TypeOK, LoadPage, LoadPageNoRedis
  <2>4. CASE CreateNotifications(m)
    <3>1. AfterPage(m) \in {"mark", "advance"}
      BY DEF AfterPage
    <3> QED BY <1>0, <2>1, <2>2, <2>4, <3>1 DEF TypeOK, Job, CreateNotifications, Goto
  <2>5. CASE MarkSent(m)
    BY <1>0, <2>1, <2>2, <2>5 DEF TypeOK, Job, MarkSent, Goto
  <2>6. CASE LoadPageFails(m) \/ CreateFails(m) \/ MarkSentFails(m)
    BY <1>0, <2>1, <2>6 DEF TypeOK, LoadPageFails, CreateFails, MarkSentFails, Abort, Finish, Idle
  <2>7. CASE DropPageNumber(m) \/ AdvanceRaises(m) \/ RedisSilent(m) \/ PageNumberExpires(m)
    BY <1>0, <2>1, <2>7
       DEF TypeOK, DropPageNumber, AdvanceRaises, RedisSilent, PageNumberExpires, Abort, Finish, Idle
  <2>8. CASE Advance(m)
    BY <1>0, <2>1, <2>2, <2>8, MailingAssumption DEF TypeOK, Advance, Finish, Idle
  <2> QED BY <1>4, <2>3, <2>4, <2>5, <2>6, <2>7, <2>8 DEF OneMailing
<1>5. ASSUME Restart \/ \E k \in Task : TaskDies(k) PROVE JobInv'
  BY <1>0, <1>5 DEF Restart, TaskDies, Idle
<1>6. ASSUME Tick \/ UNCHANGED vars \/ \E u \in User : MoveToEnd(u) PROVE JobInv'
  BY <1>0, <1>6 DEF Tick, MoveToEnd, vars
<1> QED
  BY <1>1, <1>2, <1>3, <1>4, <1>5, <1>6 DEF Next, NewTask, DelayedTask, EtlTask, Failure


-----------------------------------------------------------------------------
(* Pages.                                                                   *)

LEMMA NextPlace ==
  ASSUME NEW k \in Nat, k >= 1
  PROVE  Before(k) \in Nat /\ Before(k + 1) = Before(k) + PageSize
<1>1. PICK j \in Nat : k = j + 1
  <2>1. k - 1 \in Nat /\ k = (k - 1) + 1
    OBVIOUS
  <2> QED BY <2>1
<1>2. Before(k) = j * PageSize /\ Before(k + 1) = (j + 1) * PageSize
  BY <1>1 DEF Before
<1>3. j * PageSize \in Nat /\ (j + 1) * PageSize = j * PageSize + PageSize
  BY MailingAssumption
<1> QED BY <1>2, <1>3

LEMMA DistinctStep == TypeOK /\ Distinct /\ [Next]_vars => Distinct'
<1> SUFFICES ASSUME TypeOK, Distinct, [Next]_vars PROVE Distinct'
  OBVIOUS
<1>1. ASSUME NEW u \in User, MoveToEnd(u) PROVE Distinct'
  <2>1. PICK i \in DOMAIN order :
          /\ order[i] = u
          /\ order' = [j \in DOMAIN order |->
               IF j < i THEN order[j] ELSE IF j < Len(order) THEN order[j + 1] ELSE u]
    BY <1>1 DEF MoveToEnd
  <2>2. DOMAIN order = 1 .. Len(order) /\ Len(order) \in Nat
    BY DEF TypeOK
  <2> QED BY <2>1, <2>2 DEF Distinct
<1>2. CASE UNCHANGED order
  BY <1>2 DEF Distinct
<1> QED
  BY <1>1, <1>2 DEF Next, vars, CreateMailing, NewTask, StartNew, DelayedTask, StartDelayed,
     EtlTask, FetchMailings, OneMailing, LoadPage, CreateNotifications, MarkSent,
     DropPageNumber, Advance, AdvanceRaises, Failure, LoadPageNoRedis, LoadPageFails,
     CreateFails, MarkSentFails, RedisSilent, PageNumberExpires, TaskDies, Restart, Tick

LEMMA OnPage ==
  ASSUME TypeOK, Distinct, NEW k \in Nat, k >= 1, NEW i \in DOMAIN order
  PROVE  order[i] \in Page(k) <=> Before(k) < i /\ i <= Before(k + 1)
<1>1. Before(k + 1) = k * PageSize
  BY DEF Before
<1> QED BY <1>1 DEF Page, Before, Distinct

\* Behind a page that is not full there is nobody.
LEMMA LastPage ==
  ASSUME TypeOK, Distinct, NEW k \in Nat, k >= 1, Cardinality(Page(k)) < PageSize
  PROVE  \A i \in DOMAIN order : i <= Before(k + 1)
<1>1. DOMAIN order = 1 .. Len(order) /\ Len(order) \in Nat
  BY DEF TypeOK
<1>2. Before(k) \in Nat /\ Before(k + 1) = Before(k) + PageSize /\ PageSize \in Nat
  BY NextPlace, MailingAssumption
<1>3. ASSUME Before(k + 1) <= Len(order) PROVE FALSE
  <2> DEFINE places == Before(k) + 1 .. Before(k + 1)
             f      == [i \in places |-> order[i]]
  <2>1. places \subseteq DOMAIN order
    BY <1>1, <1>2, <1>3
  <2>2. \A i \in DOMAIN order : order[i] \in Page(k) <=> i \in places
    BY <1>1, <1>2, OnPage
  <2>3. \A u \in Page(k) : \E i \in DOMAIN order : u = order[i]
    BY DEF Page
  <2>4. f \in Bijection(places, Page(k))
    <3>1. f \in [places -> Page(k)]
      BY <2>1, <2>2
    <3>2. \A i, j \in places : f[i] = f[j] => i = j
      BY <2>1 DEF Distinct
    <3>3. \A u \in Page(k) : \E i \in places : f[i] = u
      BY <2>2, <2>3
    <3> HIDE DEF f, places
    <3>4. f \in Injection(places, Page(k))
      BY <3>1, <3>2 DEF Injection, IsInjective
    <3>5. f \in Surjection(places, Page(k))
      BY <3>1, <3>3 DEF Surjection
    <3> QED BY <3>4, <3>5 DEF Bijection
  <2>5. ExistsBijection(places, Page(k))
    BY <2>4 DEF ExistsBijection
  <2>6. IsFiniteSet(places) /\ Cardinality(places) = PageSize
    <3>1. Before(k) + 1 \in Int /\ Before(k + 1) \in Int
      BY <1>2
    <3>2. /\ IsFiniteSet(places)
          /\ Cardinality(places) = IF Before(k) + 1 > Before(k + 1) THEN 0
                                   ELSE Before(k + 1) - (Before(k) + 1) + 1
      BY <3>1, FS_Interval
    <3> QED BY <3>2, <1>2, MailingAssumption
  <2>7. Cardinality(Page(k)) = PageSize
    BY <2>5, <2>6, FS_Bijection
  <2> QED BY <2>7, <1>2
<1> QED BY <1>1, <1>2, <1>3


-----------------------------------------------------------------------------
(* Everybody before the page of a mailing has a row.                        *)

LEMMA FirstPlace == Before(1) = 0
BY MailingAssumption DEF Before

\* Rows are only added.
LEMMA ReachedStays ==
  ASSUME TypeOK, NEW m \in Mailing, order' = order,
         \A u \in User : rows'[m][u] \in Nat /\ rows'[m][u] >= rows[m][u]
  PROVE  /\ \A n \in Int : Reached(m, n) => Reached(m, n)'
         /\ Everyone(m) => Everyone(m)'
<1>1. \A i \in DOMAIN order : order[i] \in User
  BY DEF TypeOK
<1>2. \A u \in User : rows[m][u] \in Nat
  BY DEF TypeOK
<1> QED BY <1>1, <1>2 DEF Reached, Everyone

\* Nothing that a mailing depends on has changed.
LEMMA ReachedRests ==
  ASSUME NEW m \in Mailing, ReachedInv(m), order' = order, job'[m] = job[m],
         status'[m] = status[m], nextPage'[m] = nextPage[m], rows'[m] = rows[m]
  PROVE  ReachedInv(m)'
BY DEF ReachedInv, Reached, Everyone, Stored, Before, Page

\* What a job that is idle, or begins, depends on.
LEMMA ReachedIdle ==
  ASSUME TypeOK, NEW m \in Mailing, ReachedInv(m), order' = order,
         job'[m].step \in {"idle", "load", "cleanup"},
         \A u \in User : rows'[m][u] \in Nat /\ rows'[m][u] >= rows[m][u],
         status'[m] = "SENT" => status[m] = "SENT" \/ job[m].step = "mark",
         nextPage'[m] = nextPage[m] \/ nextPage'[m] = NoPage
  PROVE  ReachedInv(m)'
<1>1. Reached(m, Before(Stored(m)))'
  <2>1. CASE nextPage'[m] = nextPage[m]
    <3>1. Stored(m)' = Stored(m) /\ Before(Stored(m)) \in Int
      BY <2>1, MailingAssumption DEF Stored, Before, TypeOK
    <3>2. Reached(m, Before(Stored(m)))
      BY DEF ReachedInv
    <3> QED BY <3>1, <3>2, ReachedStays DEF Reached, Before
  <2>2. CASE nextPage'[m] = NoPage
    <3>1. Stored(m)' = 1
      BY <2>2 DEF Stored
    <3>2. Reached(m, 0)'
      BY DEF Reached, TypeOK
    <3> QED BY <3>1, <3>2, FirstPlace DEF Reached, Before
  <2> QED BY <2>1, <2>2
<1>2. status'[m] = "SENT" => Everyone(m)'
  BY ReachedStays DEF ReachedInv
<1> QED BY <1>1, <1>2 DEF ReachedInv

LEMMA PageReached ==
  ASSUME TypeOK, Distinct, JobInv, NEW m \in Mailing, ReachedInv(m), CreateNotifications(m)
  PROVE  ReachedInv(m)'
<1>1. /\ job[m].step = "create" /\ job[m].page \in Nat /\ job[m].page >= 1
      /\ job[m].users = Page(job[m].page) /\ job[m].users \subseteq User
  BY DEF TypeOK, JobInv, JobOf, Job, CreateNotifications, ReachedInv
<1> DEFINE k == job[m].page
<1>2. /\ order' = order /\ status' = status /\ nextPage' = nextPage
      /\ job'[m] = [job[m] EXCEPT !.step = AfterPage(m)]
      /\ rows'[m] = [u \in User |-> rows[m][u] + IF u \in job[m].users THEN 1 ELSE 0]
  BY DEF TypeOK, CreateNotifications, AddRows, Goto
<1>3. \A u \in User : rows[m][u] \in Nat /\ rows'[m][u] \in Nat /\ rows'[m][u] >= rows[m][u]
  BY <1>2 DEF TypeOK
<1>4. \A i \in DOMAIN order : i \in Nat /\ order[i] \in User
  BY DEF TypeOK
<1>5. Reached(m, Before(k + 1))'
  <2>1. ASSUME NEW i \in DOMAIN order, i <= Before(k + 1) PROVE rows'[m][order[i]] > 0
    <3>1. CASE i <= Before(k)
      BY <1>1, <1>3, <1>4, <3>1 DEF ReachedInv, Reached
    <3>2. CASE Before(k) < i
      BY <1>1, <1>2, <1>3, <1>4, <2>1, <3>2, OnPage
    <3> QED BY <1>1, <1>4, <3>1, <3>2, NextPlace
  <2> QED BY <2>1, <1>2 DEF Reached, Before
<1>6. Reached(m, Before(Stored(m)))'
  <2>1. Before(Stored(m)) \in Int /\ Before(Stored(m))' = Before(Stored(m))
    BY <1>2, MailingAssumption DEF Stored, Before, TypeOK
  <2>2. Reached(m, Before(Stored(m)))
    BY DEF ReachedInv
  <2> QED BY <1>2, <1>3, <2>1, <2>2, ReachedStays DEF Reached
<1>7. CASE AfterPage(m) = "mark"
  <2>1. \A i \in DOMAIN order : i <= Before(k + 1)
    BY <1>1, <1>7, LastPage DEF AfterPage
  <2>2. Everyone(m)'
    BY <1>2, <1>5, <2>1 DEF Everyone, Reached, Before
  <2>3. job'[m].step = "mark"
    BY <1>2, <1>7 DEF TypeOK, Job
  <2> QED BY <1>6, <2>2, <2>3 DEF ReachedInv
<1>8. CASE AfterPage(m) = "advance"
  <2>1. job'[m].step = "advance" /\ job'[m].page = k
    BY <1>2, <1>8 DEF TypeOK, Job
  <2>2. status[m] = "SENDING"
    BY <1>1 DEF JobInv, JobOf
  <2> QED BY <1>2, <1>5, <1>6, <2>1, <2>2 DEF ReachedInv, Before
<1> QED BY <1>7, <1>8 DEF AfterPage

LEMMA ReachedStep ==
  ASSUME TypeOK, JobInv, Distinct, [Next]_vars, moves' = 0,
         moves = 0 => \A m \in Mailing : ReachedInv(m)
  PROVE  \A m \in Mailing : ReachedInv(m)'
<1>1. ASSUME NEW u \in User, MoveToEnd(u) PROVE FALSE
  BY <1>1 DEF MoveToEnd, TypeOK
<1>2. CASE moves' = moves /\ order' = order
  <2>0. \A m \in Mailing : ReachedInv(m)
    BY <1>2
  <2>1. ASSUME NEW m \in Mailing, NEW t \in Hour, CreateMailing(m, t), NEW n \in Mailing
        PROVE  ReachedInv(n)'
    BY <2>0, <2>1 DEF TypeOK, CreateMailing, ReachedInv, Reached, Everyone, Stored, Before, Page
  <2>2. ASSUME NEW S \in SUBSET Mailing, StartNew(S) \/ StartDelayed(S), NEW n \in Mailing
        PROVE  ReachedInv(n)'
    <3>1. /\ UNCHANGED <<nextPage, rows, order, job>>
          /\ status'[n] = "SENT" => status[n] = "SENT"
      BY <2>2 DEF TypeOK, StartNew, StartDelayed
    <3> QED BY <2>0, <3>1 DEF ReachedInv, Reached, Everyone, Stored, Before, Page
  <2>3. ASSUME NEW S \in SUBSET Mailing, FetchMailings(S), NEW n \in Mailing
        PROVE  ReachedInv(n)'
    BY <2>0, <2>3
       DEF TypeOK, FetchMailings, Idle, ReachedInv, Reached, Everyone, Stored, Before, Page
  <2>4. ASSUME NEW m \in Mailing, Rest(m), ReachedInv(m)', NEW n \in Mailing
        PROVE  ReachedInv(n)'
    BY <1>2, <2>0, <2>4, ReachedRests DEF Rest
  <2>5. ASSUME NEW m \in Mailing, LoadPage(m) PROVE ReachedInv(m)'
    <3>1. /\ job'[m].step = "create" /\ job'[m].page = Stored(m)
          /\ job'[m].users = Page(Stored(m)) /\ status[m] = "SENDING"
          /\ UNCHANGED <<status, nextPage, rows, order>>
      BY <2>5 DEF TypeOK, LoadPage, Stored, JobInv, JobOf
    <3> QED BY <2>0, <3>1 DEF ReachedInv, Reached, Stored, Before, Page
  <2>6. ASSUME NEW m \in Mailing, LoadPageNoRedis(m) PROVE ReachedInv(m)'
    <3>1. /\ job'[m].step = "create" /\ job'[m].page = 1
          /\ job'[m].users = Page(1) /\ status[m] = "SENDING"
          /\ UNCHANGED <<status, nextPage, rows, order>>
      BY <2>6 DEF TypeOK, LoadPageNoRedis, JobInv, JobOf
    <3>2. Reached(m, 0)
      BY DEF Reached, TypeOK
    <3> QED BY <2>0, <3>1, <3>2, FirstPlace DEF ReachedInv, Reached, Stored, Before, Page
  <2>7. ASSUME NEW m \in Mailing, Advance(m) PROVE ReachedInv(m)'
    <3>1. /\ job'[m].step = "idle" /\ job[m].step = "advance" /\ status[m] = "SENDING"
          /\ Stored(m)' = job[m].page + 1
          /\ UNCHANGED <<status, rows, order>>
      BY <2>7, MailingAssumption DEF TypeOK, Job, Advance, Finish, Idle, Stored, JobInv, JobOf
    <3> QED BY <2>0, <3>1 DEF ReachedInv, Reached, Before
  <2>8. ASSUME NEW m \in Mailing, MarkSent(m) \/ DropPageNumber(m) \/ AdvanceRaises(m)
                 \/ LoadPageFails(m) \/ MarkSentFails(m) \/ RedisSilent(m)
        PROVE  ReachedInv(m)'
    <3>1. job'[m].step \in {"idle", "cleanup"}
      BY <2>8 DEF TypeOK, Job, MarkSent, DropPageNumber, AdvanceRaises, LoadPageFails,
         MarkSentFails, RedisSilent, Goto, Abort, Finish, Idle
    <3>2. /\ rows' = rows /\ (nextPage'[m] = nextPage[m] \/ nextPage'[m] = NoPage)
          /\ status'[m] = "SENT" => status[m] = "SENT" \/ job[m].step = "mark"
      BY <2>8 DEF TypeOK, MarkSent, DropPageNumber, AdvanceRaises, LoadPageFails,
         MarkSentFails, RedisSilent
    <3>3. \A u \in User : rows'[m][u] \in Nat /\ rows'[m][u] >= rows[m][u]
      BY <3>2 DEF TypeOK
    <3> QED BY <1>2, <2>0, <3>1, <3>2, <3>3, ReachedIdle
  <2>9. ASSUME NEW m \in Mailing, CreateFails(m) PROVE ReachedInv(m)'
    <3>1. job'[m].step = "idle" /\ nextPage' = nextPage /\ status' = status
      BY <2>9 DEF TypeOK, CreateFails, Abort, Finish, Idle
    <3>2. \A u \in User : rows'[m][u] \in Nat /\ rows'[m][u] >= rows[m][u]
      <4>1. CASE AddRows(m)
        BY <4>1 DEF TypeOK, AddRows
      <4>2. CASE UNCHANGED rows
        BY <4>2 DEF TypeOK
      <4> QED BY <2>9, <4>1, <4>2 DEF CreateFails
    <3> QED BY <1>2, <2>0, <3>1, <3>2, ReachedIdle
  <2>10. ASSUME NEW m \in Mailing, PageNumberExpires(m) PROVE ReachedInv(m)'
    <3>1. Stored(m)' = 1 /\ UNCHANGED <<status, rows, order, job>>
      BY <2>10 DEF TypeOK, PageNumberExpires, Stored
    <3>2. Reached(m, 0)
      BY DEF Reached, TypeOK
    <3> QED BY <2>0, <3>1, <3>2, FirstPlace DEF ReachedInv, Reached, Everyone, Before, Page
  <2>11. ASSUME Restart \/ (\E k \in Task : TaskDies(k)), NEW n \in Mailing
         PROVE  ReachedInv(n)'
    BY <2>0, <2>11
       DEF Restart, TaskDies, Idle, ReachedInv, Reached, Everyone, Stored, Before, Page
  <2>12. ASSUME Tick \/ UNCHANGED vars, NEW n \in Mailing PROVE ReachedInv(n)'
    BY <2>0, <2>12 DEF Tick, vars, ReachedInv, Reached, Everyone, Stored, Before, Page
  <2>13. ASSUME NEW m \in Mailing, NEW n \in Mailing,
                OneMailing(m) \/ LoadPageNoRedis(m) \/ LoadPageFails(m) \/ CreateFails(m)
                  \/ MarkSentFails(m) \/ RedisSilent(m) \/ PageNumberExpires(m)
         PROVE  ReachedInv(n)'
    <3>1. Rest(m)
      BY <2>13, RestStays
    <3>2. ReachedInv(m)'
      BY <2>0, <2>5, <2>6, <2>7, <2>8, <2>9, <2>10, <2>13, PageReached DEF OneMailing
    <3> QED BY <2>4, <3>1, <3>2
  <2> QED
    BY <1>1, <2>1, <2>2, <2>3, <2>11, <2>12, <2>13 DEF Next, NewTask, DelayedTask, EtlTask, Failure
<1> QED
  BY <1>1, <1>2 DEF Next, vars, CreateMailing, NewTask, StartNew, DelayedTask, StartDelayed,
     EtlTask, FetchMailings, OneMailing, LoadPage, CreateNotifications, MarkSent,
     DropPageNumber, Advance, AdvanceRaises, Failure, LoadPageNoRedis, LoadPageFails,
     CreateFails, MarkSentFails, RedisSilent, PageNumberExpires, TaskDies, Restart, Tick


-----------------------------------------------------------------------------
(* How often a user may have a row.                                         *)

\* A failure or a move is one more.
LEMMA SpentStep ==
  ASSUME TypeOK, TypeOK'
  PROVE  /\ Spent \in Nat
         /\ faults' = faults + 1 /\ moves' = moves => Spent' = Spent + 1
         /\ faults' = faults /\ moves' = moves + 1 => Spent' = Spent + 1
         /\ faults' = faults /\ moves' = moves => Spent' = Spent
<1>1. faults \in Nat /\ moves \in Nat /\ faults' \in Nat /\ moves' \in Nat
  BY MailingAssumption DEF TypeOK
<1>2. Spent \in Nat
  BY <1>1 DEF Spent
<1>3. faults' = faults + 1 /\ moves' = moves => Spent' = Spent + 1
  BY <1>1 DEF Spent
<1>4. faults' = faults /\ moves' = moves + 1 => Spent' = Spent + 1
  BY <1>1 DEF Spent
<1>5. faults' = faults /\ moves' = moves => Spent' = Spent
  BY <1>1 DEF Spent
<1> QED BY <1>2, <1>3, <1>4, <1>5

\* After a failure or a move everybody has one row less than allowed.
LEMMA FreshAgain ==
  ASSUME TypeOK, TypeOK', NEW m \in Mailing, FreshInv(m), rows'[m] = rows[m],
         Spent' = Spent + 1,
         \/ job'[m] = job[m]
         \/ job'[m].step \in {"idle", "load", "mark", "cleanup"}
         \/ job'[m].step = "create" /\ order' = order /\ job'[m].page = 1
              /\ job'[m].users = Page(1) /\ Distinct
  PROVE  FreshInv(m)'
<1>1. Spent \in Nat /\ Spent' \in Nat
  BY SpentStep
<1>2. \A u \in User : rows[m][u] \in Nat /\ rows'[m][u] = rows[m][u] /\ rows[m][u] <= 1 + Spent
  BY DEF TypeOK, FreshInv
<1>3. \A i \in DOMAIN order' : order'[i] \in User
  BY DEF TypeOK
<1>4. \A u \in User : rows'[m][u] <= Spent' /\ rows'[m][u] <= 1 + Spent'
  BY <1>1, <1>2
<1>5. ASSUME job'[m].step = "create", NEW i \in DOMAIN order',
             i > Before(job'[m].page + 1)
      PROVE  rows'[m][order'[i]] + (IF order'[i] \in job'[m].users THEN 1 ELSE 0) <= Spent'
  <2>1. CASE job'[m] = job[m]
    <3>1. order'[i] \in job[m].users => rows[m][order'[i]] <= Spent
      BY <1>5, <2>1 DEF FreshInv
    <3> QED BY <1>1, <1>2, <1>3, <2>1, <3>1
  <2>2. CASE order' = order /\ job'[m].page = 1 /\ job'[m].users = Page(1) /\ Distinct
    <3>1. i > Before(2) /\ i \in DOMAIN order
      BY <1>5, <2>2 DEF Before
    <3>2. order[i] \notin Page(1)
      <4>1. order[i] \in Page(1) <=> Before(1) < i /\ i <= Before(1 + 1)
        BY <2>2, <3>1, OnPage
      <4>2. Before(1 + 1) \in Int /\ Before(1 + 1) = Before(2) /\ i \in Int
        BY <3>1, MailingAssumption DEF Before, TypeOK
      <4> QED BY <3>1, <4>1, <4>2
    <3> QED BY <1>1, <1>2, <1>3, <1>4, <2>2, <3>2
  <2> QED BY <1>5, <2>1, <2>2
<1>6. ASSUME job'[m].step = "create", NEW u \in job'[m].users PROVE rows'[m][u] <= Spent'
  <2>1. u \in User
    BY <1>6 DEF TypeOK, Job
  <2> QED BY <1>4, <2>1
<1>7. \A n : Fresh(m, n)'
  BY <1>3, <1>4 DEF Fresh
<1> QED BY <1>4, <1>5, <1>6, <1>7 DEF FreshInv, Fresh, Before

\* Nothing that a mailing depends on has changed, and there is no new ETL.
LEMMA FreshRests ==
  ASSUME NEW m \in Mailing, FreshInv(m), Spent' = Spent, order' = order, job'[m] = job[m],
         status'[m] = status[m], nextPage'[m] = nextPage[m], rows'[m] = rows[m],
         alive' \subseteq alive
  PROVE  FreshInv(m)'
BY DEF FreshInv, Fresh, Stored, Before

\* The page of a mailing that is taken up is fresh.
LEMMA FreshLoaded ==
  ASSUME TypeOK, TypeOK', JobInv, Distinct, NEW m \in Mailing, FreshInv(m), LoadPage(m)
  PROVE  FreshInv(m)'
<1> DEFINE k == Stored(m)
<1>1. /\ job[m].step = "load" /\ job'[m].step = "create" /\ job'[m].page = k
      /\ job'[m].users = Page(k)
      /\ UNCHANGED <<status, nextPage, rows, order, faults, moves>>
  BY DEF TypeOK, LoadPage, Stored
<1>2. k \in Nat /\ k >= 1 /\ Spent' = Spent
  BY <1>1, MailingAssumption DEF TypeOK, JobInv, JobOf, Stored, Spent
<1>3. Fresh(m, Before(k)) /\ \A u \in User : rows[m][u] <= 1 + Spent
  BY <1>1 DEF FreshInv
<1>4. \A i \in DOMAIN order : i \in Int /\ order[i] \in User
  BY DEF TypeOK
<1>5. Before(k) \in Nat /\ Before(k + 1) = Before(k) + PageSize /\ PageSize \in Nat
  BY <1>2, NextPlace, MailingAssumption
<1>6. \A u \in Page(k) : rows[m][u] <= Spent
  <2>1. \A u \in Page(k) : \E i \in DOMAIN order : u = order[i]
    BY DEF Page
  <2> QED BY <1>2, <1>3, <2>1, OnPage DEF Fresh
<1>7. ASSUME NEW i \in DOMAIN order, i > Before(k + 1)
      PROVE  order[i] \notin Page(k) /\ rows[m][order[i]] <= Spent
  BY <1>2, <1>3, <1>4, <1>5, <1>7, OnPage DEF Fresh
<1>8. \A i \in DOMAIN order : rows[m][order[i]] \in Nat
  BY <1>4 DEF TypeOK
<1> HIDE DEF k
<1>9. \A i \in DOMAIN order : i > Before(k + 1) =>
        rows[m][order[i]] + (IF order[i] \in Page(k) THEN 1 ELSE 0) <= Spent
  BY <1>7, <1>8
<1> QED BY <1>1, <1>2, <1>3, <1>6, <1>9 DEF FreshInv, Before, Idle

\* The rows of a page take what its users had left.
LEMMA FreshCreated ==
  ASSUME TypeOK, TypeOK', NEW m \in Mailing, FreshInv(m), CreateNotifications(m)
  PROVE  FreshInv(m)'
<1> DEFINE k == job[m].page
<1>1. /\ job[m].step = "create" /\ job'[m].step = AfterPage(m) /\ job'[m].page = k
      /\ AfterPage(m) \in {"mark", "advance"} /\ order' = order
      /\ faults' = faults /\ moves' = moves
  BY DEF TypeOK, Job, CreateNotifications, Goto, AfterPage
<1>2. \A u \in User : /\ rows[m][u] \in Nat
                      /\ rows'[m][u] = rows[m][u] + IF u \in job[m].users THEN 1 ELSE 0
  BY DEF TypeOK, CreateNotifications, AddRows
<1>3. Spent \in Nat /\ Spent' = Spent
  BY <1>1, SpentStep
<1>4. /\ \A u \in User : rows[m][u] <= 1 + Spent
      /\ \A u \in job[m].users : rows[m][u] <= Spent
      /\ \A i \in DOMAIN order : i > Before(k + 1) =>
           rows[m][order[i]] + (IF order[i] \in job[m].users THEN 1 ELSE 0) <= Spent
  BY <1>1 DEF FreshInv
<1>5. \A u \in User : rows'[m][u] <= 1 + Spent
  BY <1>2, <1>3, <1>4
<1>6. \A i \in DOMAIN order : i > Before(k + 1) => rows'[m][order[i]] <= Spent
  BY <1>2, <1>4 DEF TypeOK
<1> QED BY <1>1, <1>3, <1>5, <1>6 DEF FreshInv, Fresh, Before, Idle

\* The insert may be done when it fails.
LEMMA FreshFailed ==
  ASSUME TypeOK, TypeOK', NEW m \in Mailing, FreshInv(m), CreateFails(m)
  PROVE  FreshInv(m)'
<1>1. CASE UNCHANGED rows
  <2>1. faults' = faults + 1 /\ moves' = moves /\ job'[m].step = "idle"
    BY DEF TypeOK, CreateFails, Fault, Abort, Finish, Idle
  <2> QED BY <1>1, <2>1, SpentStep, FreshAgain
<1>2. CASE AddRows(m)
  <2>1. /\ faults' = faults + 1 /\ moves' = moves /\ job'[m].step = "idle"
        /\ job[m].step = "create" /\ order' = order
    BY DEF TypeOK, CreateFails, Fault, Abort, Finish, Idle
  <2>2. Spent \in Nat /\ Spent' = Spent + 1
    BY <2>1, SpentStep
  <2>3. \A u \in User : /\ rows[m][u] \in Nat
                        /\ rows'[m][u] = rows[m][u] + IF u \in job[m].users THEN 1 ELSE 0
    BY <1>2 DEF TypeOK, AddRows
  <2>4. /\ \A u \in User : rows[m][u] <= 1 + Spent
        /\ \A u \in job[m].users : rows[m][u] <= Spent
    BY <2>1 DEF FreshInv
  <2>5. \A u \in User : rows'[m][u] <= Spent' /\ rows'[m][u] <= 1 + Spent'
    BY <2>2, <2>3, <2>4
  <2>6. \A n : Fresh(m, n)'
    BY <2>1, <2>5 DEF Fresh, TypeOK
  <2> QED BY <2>1, <2>5, <2>6 DEF FreshInv
<1> QED BY <1>1, <1>2 DEF CreateFails

LEMMA FreshStep ==
  ASSUME TypeOK, TypeOK', JobInv, Distinct, [Next]_vars, \A m \in Mailing : FreshInv(m)
  PROVE  \A m \in Mailing : FreshInv(m)'
<1>1. ASSUME NEW m \in Mailing, NEW t \in Hour, CreateMailing(m, t), NEW n \in Mailing
      PROVE  FreshInv(n)'
  BY <1>1 DEF TypeOK, CreateMailing, FreshInv, Fresh, Stored, Before, Spent
<1>2. ASSUME NEW S \in SUBSET Mailing, StartNew(S) \/ StartDelayed(S), NEW n \in Mailing
      PROVE  FreshInv(n)'
  <2>1. /\ UNCHANGED <<nextPage, rows, order, job, alive, faults, moves>>
        /\ status[n] = "SENT" => status'[n] = "SENT"
    BY <1>2 DEF TypeOK, StartNew, StartDelayed
  <2> QED BY <2>1 DEF FreshInv, Fresh, Stored, Before, Spent
<1>3. ASSUME NEW S \in SUBSET Mailing, FetchMailings(S), NEW n \in Mailing
      PROVE  FreshInv(n)'
  <2>1. /\ UNCHANGED <<status, nextPage, rows, order, alive, faults, moves>>
        /\ job[n] = Idle /\ "etl" \in alive
    BY <1>3 DEF FetchMailings
  <2>2. \/ job'[n] = Idle
        \/ job'[n] = [Idle EXCEPT !.step = "load"] /\ status[n] = "SENDING"
    <3>1. job' = [m \in Mailing |-> IF m \in S THEN [Idle EXCEPT !.step = "load"] ELSE job[m]]
      BY <1>3 DEF FetchMailings
    <3>2. job'[n] = IF n \in S THEN [Idle EXCEPT !.step = "load"] ELSE job[n]
      BY <3>1
    <3>3. n \in S => status[n] = "SENDING"
      BY <1>3 DEF FetchMailings
    <3> QED BY <2>1, <3>2, <3>3
  <2>3. CASE job'[n] = Idle
    BY <2>1, <2>3, SpentStep, FreshRests
  <2>4. CASE job'[n] = [Idle EXCEPT !.step = "load"] /\ status[n] = "SENDING"
    <3>1. job'[n].step = "load"
      BY <2>4 DEF Idle
    <3> QED BY <2>1, <2>4, <3>1 DEF FreshInv, Fresh, Stored, Before, Spent
  <2> QED BY <2>2, <2>3, <2>4
<1>4. ASSUME NEW m \in Mailing, MarkSent(m) PROVE FreshInv(m)'
  <2>1. job'[m].step = "cleanup" /\ UNCHANGED <<rows, faults, moves>>
    BY <1>4 DEF TypeOK, Job, MarkSent, Goto
  <2> QED BY <2>1 DEF FreshInv, Spent, Idle
<1>5. ASSUME NEW m \in Mailing, DropPageNumber(m) PROVE FreshInv(m)'
  <2>1. job'[m].step = "idle" /\ status'[m] = "SENT" /\ UNCHANGED <<rows, faults, moves>>
    BY <1>5 DEF TypeOK, DropPageNumber, Finish, Idle, JobInv, JobOf
  <2> QED BY <2>1 DEF FreshInv, Spent
<1>6. ASSUME NEW m \in Mailing, Advance(m) PROVE FreshInv(m)'
  <2>1. /\ job'[m].step = "idle" /\ job[m].step = "advance"
        /\ Stored(m)' = job[m].page + 1 /\ UNCHANGED <<rows, order, faults, moves>>
    BY <1>6, MailingAssumption DEF TypeOK, Job, Advance, Finish, Idle, Stored
  <2> QED BY <2>1 DEF FreshInv, Fresh, Before, Spent
<1>7. ASSUME NEW m \in Mailing, AdvanceRaises(m) PROVE FreshInv(m)'
  <2>1. job'[m].step = "idle" /\ "etl" \notin alive' /\ UNCHANGED <<rows, faults, moves>>
    BY <1>7 DEF TypeOK, AdvanceRaises, Abort, Finish, Idle
  <2> QED BY <2>1 DEF FreshInv, Spent
<1>8. ASSUME NEW m \in Mailing, LoadPageNoRedis(m) PROVE FreshInv(m)'
  <2>1. /\ job'[m].step = "create" /\ job'[m].page = 1 /\ job'[m].users = Page(1)
        /\ UNCHANGED <<rows, order, moves>> /\ faults' = faults + 1
    BY <1>8 DEF TypeOK, LoadPageNoRedis, Fault
  <2> QED BY <2>1, SpentStep, FreshAgain
<1>9. ASSUME NEW m \in Mailing,
             LoadPageFails(m) \/ MarkSentFails(m) \/ RedisSilent(m) \/ PageNumberExpires(m)
      PROVE  FreshInv(m)'
  <2>1. /\ job'[m] = job[m] \/ job'[m].step = "idle"
        /\ UNCHANGED <<rows, moves>> /\ faults' = faults + 1
    BY <1>9 DEF TypeOK, LoadPageFails, MarkSentFails, RedisSilent, PageNumberExpires, Fault,
       Abort, Finish, Idle
  <2> QED BY <2>1, SpentStep, FreshAgain
<1>10. ASSUME NEW m \in Mailing, NEW n \in Mailing,
              OneMailing(m) \/ LoadPageNoRedis(m) \/ LoadPageFails(m) \/ CreateFails(m)
                \/ MarkSentFails(m) \/ RedisSilent(m) \/ PageNumberExpires(m)
       PROVE  FreshInv(n)'
  <2>1. Rest(m)
    BY <1>10, RestStays
  <2>2. FreshInv(m)'
    BY <1>4, <1>5, <1>6, <1>7, <1>8, <1>9, <1>10, FreshLoaded, FreshCreated, FreshFailed
       DEF OneMailing
  <2>3. CASE OneMailing(m) /\ n # m
    <3>1. UNCHANGED <<order, faults, moves>> /\ alive' \subseteq alive
      BY <2>3 DEF OneMailing, LoadPage, CreateNotifications, MarkSent, DropPageNumber, Advance,
         AdvanceRaises, Abort
    <3>2. Spent' = Spent
      BY <3>1, SpentStep
    <3> QED BY <2>1, <2>3, <3>1, <3>2, FreshRests DEF Rest
  <2>4. CASE ~OneMailing(m) /\ n # m
    <3>1. moves' = moves /\ faults' = faults + 1
      BY <1>10, <2>4 DEF LoadPageNoRedis, LoadPageFails, CreateFails, MarkSentFails,
         RedisSilent, PageNumberExpires, Fault
    <3>2. Spent' = Spent + 1
      BY <3>1, SpentStep
    <3> QED BY <2>1, <2>4, <3>2, FreshAgain DEF Rest
  <2> QED BY <2>2, <2>3, <2>4
<1>11. ASSUME Restart \/ (\E k \in Task : TaskDies(k)), NEW n \in Mailing PROVE FreshInv(n)'
  <2>1. /\ job'[n] = job[n] \/ job'[n].step = "idle"
        /\ UNCHANGED <<rows, moves>> /\ faults' = faults + 1
    BY <1>11 DEF Restart, TaskDies, Fault, Idle
  <2> QED BY <2>1, SpentStep, FreshAgain
<1>12. ASSUME NEW u \in User, MoveToEnd(u), NEW n \in Mailing PROVE FreshInv(n)'
  <2>1. UNCHANGED <<rows, job, faults>> /\ moves' = moves + 1
    BY <1>12 DEF MoveToEnd
  <2> QED BY <2>1, SpentStep, FreshAgain
<1>13. ASSUME Tick \/ UNCHANGED vars, NEW n \in Mailing PROVE FreshInv(n)'
  <2>1. UNCHANGED <<status, nextPage, rows, order, job, alive, faults, moves>>
    BY <1>13 DEF Tick, vars
  <2> QED BY <2>1, SpentStep, FreshRests
<1> QED
  BY <1>1, <1>2, <1>3, <1>10, <1>11, <1>12, <1>13
     DEF Next, NewTask, DelayedTask, EtlTask, Failure

-----------------------------------------------------------------------------
(* The theorems.                                                            *)

LEMMA InvInit == Init => MailInv
<1> SUFFICES ASSUME Init PROVE MailInv
  OBVIOUS
<1>1. TypeOK
  BY InitType
<1>2. JobInv
  BY DEF Init, JobInv, JobOf, Stored, Idle
<1>3. Distinct
  BY MailingAssumption DEF Init, Distinct
<1>4. ASSUME NEW m \in Mailing PROVE ReachedInv(m) /\ FreshInv(m)
  <2>1. /\ Stored(m) = 1 /\ job[m].step = "idle" /\ status[m] = "ABSENT"
        /\ \A u \in User : rows[m][u] = 0
    BY DEF Init, Stored, Idle
  <2>2. Spent = 0
    BY DEF Init, Spent
  <2>3. \A i \in DOMAIN order : i \in Nat /\ i >= 1 /\ order[i] \in User
    BY <1>1 DEF TypeOK
  <2>4. ReachedInv(m)
    BY <2>1, <2>3, FirstPlace DEF ReachedInv, Reached
  <2>5. FreshInv(m)
    BY <2>1, <2>2, <2>3 DEF FreshInv, Fresh
  <2> QED BY <2>4, <2>5
<1> QED BY <1>1, <1>2, <1>3, <1>4 DEF MailInv

LEMMA InvStep == MailInv /\ [Next]_vars => MailInv'
<1> SUFFICES ASSUME MailInv, [Next]_vars PROVE MailInv'
  OBVIOUS
<1>1. TypeOK'
  BY TypeStep DEF MailInv
<1>2. JobInv'
  BY JobStep DEF MailInv
<1>3. Distinct'
  BY DistinctStep DEF MailInv
<1>4. moves' = 0 => \A m \in Mailing : ReachedInv(m)'
  BY ReachedStep DEF MailInv
<1>5. \A m \in Mailing : FreshInv(m)'
  BY <1>1, FreshStep DEF MailInv
<1> QED BY <1>1, <1>2, <1>3, <1>4, <1>5 DEF MailInv

LEMMA InvHolds == Spec => []MailInv
BY InvInit, InvStep, PTL DEF Spec

\* The variables keep their types.
THEOREM MailTypeCorrect == Spec => []TypeOK
<1>1. MailInv => TypeOK
  BY DEF MailInv
<1> QED BY <1>1, InvHolds, PTL

\* However often pages are done again after a failure, and whoever moves in the list, a
\* user gets no more than one notification and one for each of these.
THEOREM MailDuplicatesBounded == Spec => []DuplicatesBounded
<1>1. MailInv => DuplicatesBounded
  BY DEF MailInv, TypeOK, FreshInv, Spent, DuplicatesBounded
<1> QED BY <1>1, InvHolds, PTL

\* What is marked SENT has reached every user, whatever failed on the way, if nobody
\* moved in the list of the profiles.
THEOREM MailSentMeansEveryone == Spec => []SentMeansEveryone
<1>1. MailInv => SentMeansEveryone
  BY DEF MailInv, ReachedInv, Everyone, SentMeansEveryone
<1> QED BY <1>1, InvHolds, PTL

\* A mailing that is SENT gets no other status and no row.
THEOREM MailSentIsFinal == Spec => SentIsFinal
<1> DEFINE Final == \A m \in Mailing : status[m] = "SENT" =>
                      status'[m] = "SENT" /\ rows'[m] = rows[m]
<1>1. MailInv /\ [Next]_vars => [Final]_vars
  <2> SUFFICES ASSUME MailInv, [Next]_vars, NEW n \in Mailing, status[n] = "SENT"
               PROVE  status'[n] = "SENT" /\ rows'[n] = rows[n]
    OBVIOUS
  <2>1. TypeOK /\ JobOf(n)
    BY DEF MailInv, JobInv
  <2>2. ASSUME NEW m \in Mailing,
               OneMailing(m) \/ LoadPageNoRedis(m) \/ LoadPageFails(m) \/ CreateFails(m)
                 \/ MarkSentFails(m) \/ RedisSilent(m) \/ PageNumberExpires(m)
        PROVE  status'[n] = "SENT" /\ rows'[n] = rows[n]
    <3>1. CASE n # m
      BY <2>1, <2>2, <3>1, RestStays DEF Rest
    <3>2. CASE n = m
      BY <2>1, <2>2, <3>2 DEF JobOf, TypeOK, OneMailing, LoadPage, CreateNotifications,
         MarkSent, DropPageNumber, Advance, AdvanceRaises, LoadPageNoRedis, LoadPageFails,
         CreateFails, MarkSentFails, RedisSilent, PageNumberExpires
    <3> QED BY <3>1, <3>2
  <2>3. CASE \E m \in Mailing, t \in Hour : CreateMailing(m, t)
    BY <2>1, <2>3 DEF TypeOK, CreateMailing
  <2>4. CASE NewTask \/ DelayedTask \/ EtlTask
    BY <2>1, <2>4 DEF TypeOK, NewTask, StartNew, DelayedTask, StartDelayed, EtlTask, FetchMailings
  <2>5. CASE Restart \/ (\E k \in Task : TaskDies(k)) \/ Tick \/ UNCHANGED vars
               \/ \E u \in User : MoveToEnd(u)
    BY <2>5 DEF Restart, TaskDies, Tick, vars, MoveToEnd
  <2> QED BY <2>2, <2>3, <2>4, <2>5 DEF Next, Failure
<1> QED BY <1>1, InvHolds, PTL DEF Spec, SentIsFinal

=============================================================================
