------------------------ MODULE ContentActions_proofs ------------------------
(***************************************************************************)
(* What a write replaced is not shown for longer than the cache keeps it,   *)
(* and once the averages and tasks are done only what a write overtook or a *)
(* failure kept: for every set of users, requests and tasks, and any number *)
(* of writes.                                                               *)
(***************************************************************************)
EXTENDS ContentActions, TLAPS

-----------------------------------------------------------------------------
(* The inductive invariant.                                                 *)

\* A task is of this unit of the clock or of the last one.
AgeInv(j) ==
  tasks[j] # NoTask =>
    /\ tasks[j].do # "none" /\ Cached(tasks[j].key)
    /\ tasks[j].at <= now /\ now <= tasks[j].at + 1

\* What a request is about.
RequestInv(r) ==
  /\ req[r].step = "fetch" => Cached(req[r].key)
  /\ req[r].step = "write" => req[r].key \in User
  /\ req[r].step = "average" => coll = "rating"

\* An answer that was read at this time: what it does not show was written later.
Reflects(k, val, at) == \A u \in About(k) : val[u] = doc[u] \/ at <= since[u]

\* Somebody will replace the answer, or drop it.
Pending(k) ==
  \/ \E j \in Task : tasks[j] # NoTask /\ tasks[j].key = k
  \/ k = "film" /\ \E r \in Request : req[r].step = "average"

\* What will be put into Redis was right when it was read, and is good unless a write
\* overtook it.
TaskInv(j) ==
  tasks[j].do \in {"set", "write"} =>
    /\ Reflects(tasks[j].key, tasks[j].val, tasks[j].at)
    /\ j \notin overtaken => Good(tasks[j].key, tasks[j].val)

\* How long an answer lives, and what it lacks.
LifeInv(k) ==
  cache[k].exp > 0 =>
    /\ cache[k].at <= now /\ now < cache[k].exp
    /\ cache[k].exp <= cache[k].at + CacheLife + 1
    /\ Reflects(k, cache[k].val, cache[k].at)

CacheInv(k) ==
  cache[k].exp > 0 => /\ Cached(k)
                      /\ k \notin excused => Good(k, cache[k].val) \/ Pending(k)

ContentInv ==
  /\ TypeOK
  /\ \A r \in Request : RequestInv(r)
  /\ \A j \in Task : AgeInv(j) /\ TaskInv(j)
  /\ \A k \in Key : LifeInv(k) /\ CacheInv(k)

-----------------------------------------------------------------------------
(* What the steps do to the requests, the tasks and the documents.          *)

Req  == [op : {"idle", "read", "upsert", "update", "delete"},
         step : {"none", "fetch", "write", "average", "notify"}, key : Key,
         found : 0 .. MaxWrites]
Work == [do : {"none", "set", "write", "destroy"}, key : Key, val : Doc, at : 0 .. MaxTime]

\* The handlers that read miss the cache, those that write begin with Find.
LEMMA NextIs ==
  ASSUME Next
  PROVE  \/ \E r \in Request :
              \/ \E k \in Key : Cached(k) /\ Miss(r, k)
              \/ \E u \in User, op \in {"upsert", "update", "delete"} : Find(r, op, u)
              \/ Fetch(r) \/ Save(r) \/ SaveUnseen(r) \/ SaveRefused(r)
              \/ Delete(r) \/ DeleteUnseen(r) \/ DeleteNothing(r)
              \/ Average(r) \/ AverageFails(r) \/ SendLikeNotify(r) \/ RequestFails(r)
         \/ \E u \in User : AppendReview(u) \/ AppendUnseen(u)
         \/ \E j \in Task : Clear(j) \/ Write(j) \/ TaskFails(j)
         \/ Tick
BY DEF Next, GetAverageRating, GetReviews, GetUserReviews, FetchWatchlist, SetUserScore,
       DeleteUserScore, UpdateReview, DeleteReview, AddBookmark, UpdateBookmark,
       RemoveBookmark, RateReview, DeleteRate, Cached, Key

LEMMA CollStays ==
  ASSUME [Next]_vars
  PROVE  coll' = coll /\ \A k \in Key : Cached(k)' = Cached(k)
<1>1. coll' = coll
  BY NextIs DEF Miss, Find, Fetch, Save, SaveUnseen, SaveRefused, Delete, DeleteUnseen,
       DeleteNothing, Average, AverageFails, SendLikeNotify, RequestFails, AppendReview,
       AppendUnseen, Clear, Write, TaskFails, Tick, vars
<1> QED BY <1>1 DEF Cached, Key

LEMMA ReqBecomes ==
  ASSUME TypeOK, NEW r \in Request, NEW v \in Req, req' = [req EXCEPT ![r] = v]
  PROVE  req' \in [Request -> Req] /\ req'[r] = v /\ \A s \in Request \ {r} : req'[s] = req[s]
BY DEF TypeOK, Req

LEMMA FinishEffect ==
  ASSUME TypeOK, NEW r \in Request, Finish(r)
  PROVE  /\ req' \in [Request -> Req] /\ req'[r] = Idle
         /\ \A s \in Request \ {r} : req'[s] = req[s]
<1>1. Idle \in Req
  BY ContentAssumption DEF Idle, Req, Key
<1> QED BY <1>1, ReqBecomes DEF Finish

LEMMA BeginEffect ==
  ASSUME TypeOK, NEW r \in Request, NEW k \in Key, NEW op, NEW step, NEW i \in 0 .. MaxWrites,
         op \in {"read", "upsert", "update", "delete"}, step \in {"fetch", "write"},
         req' = [req EXCEPT ![r] = [op |-> op, step |-> step, key |-> k, found |-> i]]
  PROVE  /\ req' \in [Request -> Req] /\ req'[r].step = step /\ req'[r].key = k
         /\ \A s \in Request \ {r} : req'[s] = req[s]
<1> DEFINE v == [op |-> op, step |-> step, key |-> k, found |-> i]
<1>1. v \in Req /\ v.step = step /\ v.key = k
  BY ContentAssumption DEF Req, TypeOK
<1>2. req' = [req EXCEPT ![r] = v]
  OBVIOUS
<1> HIDE DEF v
<1> QED BY <1>1, <1>2, ReqBecomes

LEMMA MissEffect ==
  ASSUME TypeOK, NEW r \in Request, NEW k \in Key, Miss(r, k)
  PROVE  /\ req' \in [Request -> Req] /\ req'[r].step = "fetch" /\ req'[r].key = k
         /\ \A s \in Request \ {r} : req'[s] = req[s]
<1>1. req' = [req EXCEPT ![r] = [op |-> "read", step |-> "fetch", key |-> k, found |-> 0]]
  BY DEF Miss, Begin
<1>2. 0 \in 0 .. MaxWrites
  BY ContentAssumption
<1> QED BY <1>1, <1>2, BeginEffect

LEMMA FindEffect ==
  ASSUME TypeOK, NEW r \in Request, NEW u \in User, NEW op \in {"upsert", "update", "delete"},
         Find(r, op, u)
  PROVE  /\ req' \in [Request -> Req] /\ req'[r].step = "write" /\ req'[r].key = u
         /\ \A s \in Request \ {r} : req'[s] = req[s]
<1>1. u \in Key /\ id[u] \in 0 .. MaxWrites
  BY DEF TypeOK, Doc, Key
<1> QED BY <1>1, BeginEffect DEF Find

LEMMA ProceedEffect ==
  ASSUME TypeOK, NEW r \in Request, Proceed(r)
  PROVE  /\ req' \in [Request -> Req] /\ req'[r].step \in {"none", "average", "notify"}
         /\ req'[r].step = "average" <=> coll = "rating"
         /\ \A s \in Request \ {r} : req'[s] = req[s]
<1>1. CASE coll = "rating" \/ (coll = "like" /\ req[r].op = "upsert")
  <2> DEFINE v == [req[r] EXCEPT !.step = IF coll = "rating" THEN "average" ELSE "notify"]
  <2>1. v \in Req /\ v.step = IF coll = "rating" THEN "average" ELSE "notify"
    BY DEF Req, TypeOK
  <2>2. req' = [req EXCEPT ![r] = v]
    BY <1>1 DEF Proceed
  <2> HIDE DEF v
  <2> QED BY <1>1, <2>1, <2>2, ReqBecomes
<1>2. CASE ~ (coll = "rating" \/ (coll = "like" /\ req[r].op = "upsert"))
  BY <1>2, FinishEffect DEF Proceed, Idle
<1> QED BY <1>1, <1>2

LEMMA TasksBecome ==
  ASSUME TypeOK, NEW j \in Task, NEW v \in Work, tasks' = [tasks EXCEPT ![j] = v]
  PROVE  /\ tasks' \in [Task -> Work] /\ tasks'[j] = v
         /\ \A i \in Task \ {j} : tasks'[i] = tasks[i]
BY DEF TypeOK, Work

LEMMA NoTaskType == NoTask \in Work /\ NoTask.do = "none" /\ NoAnswer.exp = 0
                    /\ NoAnswer \in [val : Doc, at : 0 .. MaxTime, exp : Nat]
BY ContentAssumption DEF NoTask, Work, Key, Doc, NoAnswer

LEMMA DoneEffect ==
  ASSUME TypeOK, NEW j \in Task, Done(j)
  PROVE  /\ tasks' \in [Task -> Work] /\ tasks'[j] = NoTask
         /\ \A i \in Task \ {j} : tasks'[i] = tasks[i]
BY NoTaskType, TasksBecome DEF Done

LEMMA StartEffect ==
  ASSUME TypeOK, NEW j \in Task, NEW k \in Key, NEW v \in Doc, Start(j, "set", k, v)
  PROVE  /\ tasks' \in [Task -> Work] /\ tasks[j] = NoTask
         /\ tasks'[j].do = "set" /\ tasks'[j].key = k /\ tasks'[j].val = v
         /\ tasks'[j].at = now /\ tasks'[j] # NoTask
         /\ \A i \in Task \ {j} : tasks'[i] = tasks[i]
<1> DEFINE w == [do |-> "set", key |-> k, val |-> v, at |-> now]
<1>1. w \in Work /\ w.do = "set" /\ w.key = k /\ w.val = v /\ w.at = now
  BY ContentAssumption DEF TypeOK, Work
<1>2. tasks' = [tasks EXCEPT ![j] = w] /\ tasks[j] = NoTask
  BY DEF Start
<1> HIDE DEF w
<1>3. w # NoTask
  BY <1>1, NoTaskType
<1> QED BY <1>1, <1>2, <1>3, TasksBecome

\* Each key gets a free task of its own.
LEMMA DestroyEffect ==
  ASSUME TypeOK, NEW K, K \subseteq Key, StartDestroy(K)
  PROVE  /\ tasks' \in [Task -> Work]
         /\ \A j \in Task :
              \/ tasks'[j] = tasks[j]
              \/ /\ tasks[j] = NoTask /\ tasks'[j] # NoTask
                 /\ tasks'[j].do = "destroy" /\ tasks'[j].key \in K /\ tasks'[j].at = now
         /\ \A k \in K : \E j \in Task : tasks'[j] # NoTask /\ tasks'[j].key = k
<1>1. PICK f \in [K -> Free] :
        /\ \A a, b \in K : f[a] = f[b] => a = b
        /\ tasks' = [j \in Task |->
             IF \E k \in K : f[k] = j
             THEN [do |-> "destroy", key |-> CHOOSE k \in K : f[k] = j, val |-> Empty,
                   at |-> now]
             ELSE tasks[j]]
  BY DEF StartDestroy
<1>2. ASSUME NEW k \in K
      PROVE  /\ f[k] \in Task /\ tasks[f[k]] = NoTask
             /\ tasks'[f[k]] = [do |-> "destroy", key |-> k, val |-> Empty, at |-> now]
  <2>1. f[k] \in Task /\ tasks[f[k]] = NoTask
    BY DEF Free
  <2>2. (CHOOSE l \in K : f[l] = f[k]) = k
    BY <1>1
  <2> QED BY <1>1, <2>1, <2>2
<1>3. ASSUME NEW k \in K
      PROVE  /\ [do |-> "destroy", key |-> k, val |-> Empty, at |-> now] \in Work
             /\ [do |-> "destroy", key |-> k, val |-> Empty, at |-> now] # NoTask
  <2>1. Empty \in Doc
    BY ContentAssumption DEF Empty, Doc
  <2>2. now \in 0 .. MaxTime
    BY ContentAssumption DEF TypeOK
  <2> QED BY <2>1, <2>2, NoTaskType DEF Work
<1>4. ASSUME NEW j \in Task
      PROVE  /\ tasks'[j] \in Work
             /\ \/ tasks'[j] = tasks[j]
                \/ /\ tasks[j] = NoTask /\ tasks'[j] # NoTask
                   /\ tasks'[j].do = "destroy" /\ tasks'[j].key \in K /\ tasks'[j].at = now
  <2>1. CASE \E k \in K : f[k] = j
    <3>1. PICK k \in K : f[k] = j
      BY <2>1
    <3> DEFINE w == [do |-> "destroy", key |-> k, val |-> Empty, at |-> now]
    <3>2. w \in Work /\ w # NoTask /\ w.do = "destroy" /\ w.key = k /\ w.at = now
      BY <1>3
    <3>3. tasks'[j] = w /\ tasks[j] = NoTask
      BY <1>2, <3>1
    <3> HIDE DEF w
    <3> QED BY <3>2, <3>3
  <2>2. CASE ~ \E k \in K : f[k] = j
    <3>1. tasks'[j] = tasks[j]
      BY <1>1, <2>2
    <3>2. tasks[j] \in Work
      BY DEF TypeOK, Work
    <3> QED BY <3>1, <3>2
  <2> QED BY <2>1, <2>2
<1>5. tasks' \in [Task -> Work]
  <2>1. tasks' = [j \in Task |-> tasks'[j]]
    BY <1>1
  <2> QED BY <1>4, <2>1
<1>6. ASSUME NEW k \in K PROVE \E j \in Task : tasks'[j] # NoTask /\ tasks'[j].key = k
  <2> DEFINE w == [do |-> "destroy", key |-> k, val |-> Empty, at |-> now]
  <2>1. w # NoTask /\ w.key = k
    BY <1>3
  <2>2. f[k] \in Task /\ tasks'[f[k]] = w
    BY <1>2
  <2> HIDE DEF w
  <2> QED BY <2>1, <2>2
<1> QED BY <1>4, <1>5, <1>6

LEMMA AnswerIsGood ==
  ASSUME TypeOK, NEW k \in Key
  PROVE  /\ Answer(k) \in Doc /\ Good(k, Answer(k))
         /\ \A u \in About(k) : Answer(k)[u] = doc[u]
<1>1. Empty \in Doc
  BY ContentAssumption DEF Empty, Doc
<1>2. Answer(k) \in Doc
  BY <1>1 DEF Answer, UserPage, FilmScores, FilmReviews, TypeOK, Key, Doc
<1>3. k = "film" => Answer(k) = doc
  BY DEF Answer, FilmScores, FilmReviews
<1>4. ASSUME k # "film" PROVE Answer(k)[k] = doc[k]
  BY <1>1, <1>4 DEF Answer, UserPage, Key, Doc
<1> QED BY <1>2, <1>3, <1>4 DEF Good, About

\* A write changes what is good for the film and its user only, and the deletion of a
\* review leaves the list of the film good.
LEMMA PutKeeps ==
  ASSUME TypeOK, NEW u \in User, NEW v, NEW i, Put(u, v, i), coll' = coll,
         NEW k \in Key, NEW val
  PROVE  /\ k \notin {"film", u} => Good(k, val)' = Good(k, val)
         /\ k = "film" /\ coll # "rating" /\ v = 0 /\ Good(k, val) => Good(k, val)'
<1>1. doc' = [doc EXCEPT ![u] = v] /\ doc \in [User -> 0 .. MaxWrites]
  BY DEF Put, TypeOK, Doc
<1>2. ASSUME k \notin {"film", u} PROVE Answer(k)' = Answer(k)
  <2>1. k \in User /\ doc'[k] = doc[k]
    BY <1>1, <1>2 DEF Key
  <2> QED BY <1>2, <2>1 DEF Answer, UserPage, Empty
<1>3. k \notin {"film", u} => Good(k, val)' = Good(k, val)
  BY <1>2 DEF Good
<1>4. ASSUME k = "film", coll # "rating", v = 0, Good(k, val) PROVE Good(k, val)'
  BY <1>1, <1>4 DEF Good
<1> QED BY <1>3, <1>4

\* A write overtakes the tasks that hold an answer about it.
LEMMA PutOvertakes ==
  ASSUME NEW u \in User, NEW v, NEW i, Put(u, v, i),
         NEW j \in Task, tasks[j].do \in {"set", "write"}, tasks[j].key \in {"film", u}
  PROVE  j \in overtaken'
BY DEF Put

-----------------------------------------------------------------------------
(* One lemma per part, one step per kind of action.                         *)

LEMMA PutType ==
  ASSUME TypeOK, NEW u \in Key, NEW v \in 0 .. writes + 1, NEW i \in 0 .. MaxWrites, Put(u, v, i)
  PROVE  /\ doc' \in Doc /\ id' \in Doc /\ writes' \in 0 .. MaxWrites
         /\ since' \in [User -> 1 .. MaxTime] /\ overtaken' \subseteq Task
<1>1. writes' \in 0 .. MaxWrites /\ v \in 0 .. MaxWrites
  BY ContentAssumption DEF TypeOK, Put
<1>2. doc' \in Doc /\ id' \in Doc
  BY <1>1 DEF TypeOK, Put, Doc
<1>3. since' \in [User -> 1 .. MaxTime] /\ overtaken' \subseteq Task
  BY DEF TypeOK, Put
<1> QED BY <1>1, <1>2, <1>3

LEMMA KeysType ==
  ASSUME TypeOK, NEW op, NEW u \in User
  PROVE  Keys(op, u) \subseteq Key
BY DEF Keys, Key, TypeOK, Coll

LEMMA KeptType ==
  ASSUME TypeOK, NEW K, K \subseteq Key, Kept(K)
  PROVE  excused' \subseteq Key
BY DEF TypeOK, Kept

LEMMA TypeStep ==
  ASSUME TypeOK, \A r \in Request : RequestInv(r), [Next]_vars
  PROVE  TypeOK'
<1> USE DEF Req, Work
<1>1. ASSUME NEW r \in Request, NEW k \in Key, Miss(r, k) PROVE TypeOK'
  <2>1. req' \in [Request -> Req]
    BY <1>1, MissEffect
  <2> QED BY <1>1, <2>1 DEF TypeOK, Miss
<1>2. ASSUME NEW r \in Request, NEW u \in User, NEW op \in {"upsert", "update", "delete"},
             Find(r, op, u)
      PROVE  TypeOK'
  <2>1. req' \in [Request -> Req]
    BY <1>2, FindEffect
  <2> QED BY <1>2, <2>1 DEF TypeOK, Find
<1>3. ASSUME NEW r \in Request, Fetch(r) PROVE TypeOK'
  <2>1. req' \in [Request -> Req]
    BY <1>3, FinishEffect DEF Fetch
  <2>2. req[r].key \in Key
    BY DEF TypeOK
  <2>3. tasks' \in [Task -> Work]
    <3>1. CASE UNCHANGED tasks
      BY <3>1 DEF TypeOK
    <3>2. CASE \E j \in Task : Start(j, "set", req[r].key, Answer(req[r].key))
      BY <2>2, <3>2, AnswerIsGood, StartEffect
    <3> QED BY <1>3, <3>1, <3>2 DEF Fetch
  <2> QED BY <1>3, <2>1, <2>3 DEF TypeOK, Fetch
<1>4. ASSUME NEW r \in Request, SaveDocument(r)
      PROVE  /\ req[r].key \in User
             /\ doc' \in Doc /\ id' \in Doc /\ writes' \in 0 .. MaxWrites
             /\ since' \in [User -> 1 .. MaxTime] /\ overtaken' \subseteq Task
  <2>1. req[r].key \in User /\ req[r].found \in 0 .. MaxWrites
    BY <1>4 DEF SaveDocument, TypeOK, RequestInv
  <2>2. Put(req[r].key, writes + 1, IF req[r].found = 0 THEN writes + 1 ELSE req[r].found)
        /\ writes < MaxWrites
    BY <1>4 DEF SaveDocument, Put
  <2>3. (IF req[r].found = 0 THEN writes + 1 ELSE req[r].found) \in 0 .. MaxWrites
        /\ writes + 1 \in 0 .. writes + 1 /\ req[r].key \in Key
    BY <2>1, <2>2, ContentAssumption DEF TypeOK, Key
  <2> QED BY <2>1, <2>2, <2>3, PutType
<1>5. ASSUME NEW r \in Request, DeleteDocument(r)
      PROVE  /\ req[r].key \in User
             /\ doc' \in Doc /\ id' \in Doc /\ writes' \in 0 .. MaxWrites
             /\ since' \in [User -> 1 .. MaxTime] /\ overtaken' \subseteq Task
  <2>1. req[r].key \in User
    BY <1>5 DEF DeleteDocument, RequestInv
  <2>2. CASE UNCHANGED <<writes, doc, id, since, overtaken>>
    BY <2>1, <2>2 DEF TypeOK
  <2>3. CASE Put(req[r].key, 0, 0)
    <3>1. 0 \in 0 .. writes + 1 /\ 0 \in 0 .. MaxWrites /\ req[r].key \in Key
      BY <2>1, ContentAssumption DEF TypeOK, Key
    <3> QED BY <2>1, <2>3, <3>1, PutType
  <2> QED BY <1>5, <2>2, <2>3 DEF DeleteDocument
<1>6. ASSUME NEW r \in Request, Save(r) \/ Delete(r) PROVE TypeOK'
  <2>1. req' \in [Request -> Req]
    BY <1>6, ProceedEffect DEF Save, Delete
  <2>2. tasks' \in [Task -> Work]
    BY <1>4, <1>5, <1>6, KeysType, DestroyEffect DEF Save, Delete
  <2>3. CASE Save(r)
    BY <1>4, <2>1, <2>2, <2>3 DEF TypeOK, Save
  <2>4. CASE Delete(r)
    BY <1>5, <2>1, <2>2, <2>4 DEF TypeOK, Delete
  <2> QED BY <1>6, <2>3, <2>4
<1>7. ASSUME NEW op, NEW u \in User PROVE Due(op, u) \subseteq Key
  BY KeysType DEF Due, Key
<1>8. ASSUME NEW r \in Request, SaveUnseen(r) PROVE TypeOK'
  <2>1. excused' \subseteq Key
    BY <1>4, <1>7, <1>8, KeptType DEF SaveUnseen
  <2> QED BY <1>4, <1>8, <2>1 DEF TypeOK, SaveUnseen
<1>9. ASSUME NEW r \in Request, DeleteUnseen(r) PROVE TypeOK'
  <2>1. excused' \subseteq Key
    BY <1>5, <1>7, <1>9, KeptType DEF DeleteUnseen
  <2>2. req' \in [Request -> Req]
    <3> DEFINE v == [req[r] EXCEPT !.found = id'[req[r].key]]
    <3>1. id'[req[r].key] \in 0 .. MaxWrites
      BY <1>5, <1>9 DEF DeleteUnseen, Doc
    <3>2. v \in Req
      BY <3>1 DEF TypeOK
    <3>3. req' = [req EXCEPT ![r] = v]
      BY <1>9 DEF DeleteUnseen
    <3> HIDE DEF v
    <3> QED BY <3>2, <3>3, ReqBecomes
  <2> QED BY <1>5, <1>9, <2>1, <2>2 DEF TypeOK, DeleteUnseen
<1>10. ASSUME NEW r \in Request, SaveRefused(r) \/ SendLikeNotify(r) \/ RequestFails(r)
       PROVE  TypeOK'
  <2>1. req' \in [Request -> Req]
    BY <1>10, FinishEffect DEF SaveRefused, SendLikeNotify, RequestFails
  <2> QED BY <1>10, <2>1 DEF TypeOK, SaveRefused, SendLikeNotify, RequestFails
<1>11. ASSUME NEW r \in Request, AverageFails(r) PROVE TypeOK'
  <2>1. req' \in [Request -> Req] /\ excused' \subseteq Key
    BY <1>11, FinishEffect, KeptType DEF AverageFails, Key
  <2> QED BY <1>11, <2>1 DEF TypeOK, AverageFails
<1>12. ASSUME NEW r \in Request, DeleteNothing(r) PROVE TypeOK'
  <2>1. req[r].key \in User
    BY <1>12 DEF DeleteNothing, RequestInv
  <2>2. req' \in [Request -> Req]
    BY <1>12, FinishEffect DEF DeleteNothing
  <2>3. PICK K \in {Keys("delete", req[r].key), {}} : StartDestroy(K)
    BY <1>12 DEF DeleteNothing
  <2>4. tasks' \in [Task -> Work]
    BY <2>1, <2>3, KeysType, DestroyEffect
  <2> QED BY <1>12, <2>2, <2>4 DEF TypeOK, DeleteNothing
<1>13. ASSUME NEW r \in Request, Average(r) PROVE TypeOK'
  <2>1. req' \in [Request -> Req]
    BY <1>13, FinishEffect DEF Average
  <2>2. "film" \in Key /\ doc \in Doc
    BY DEF TypeOK, Key
  <2>3. tasks' \in [Task -> Work]
    <3>1. CASE UNCHANGED tasks
      BY <3>1 DEF TypeOK
    <3>2. CASE \E j \in Task : Start(j, "set", "film", doc)
      BY <2>2, <3>2, StartEffect
    <3> QED BY <1>13, <3>1, <3>2 DEF Average
  <2> QED BY <1>13, <2>1, <2>3 DEF TypeOK, Average
<1>14. ASSUME NEW u \in User, AppendReview(u) \/ AppendUnseen(u) PROVE TypeOK'
  <2>1. Put(u, writes + 1, writes + 1) /\ writes < MaxWrites
    BY <1>14 DEF AppendReview, AppendUnseen, InsertReview, Put
  <2>2. writes + 1 \in 0 .. writes + 1 /\ writes + 1 \in 0 .. MaxWrites /\ u \in Key
    BY <2>1, ContentAssumption DEF TypeOK, Key
  <2>3. /\ doc' \in Doc /\ id' \in Doc /\ writes' \in 0 .. MaxWrites
        /\ since' \in [User -> 1 .. MaxTime] /\ overtaken' \subseteq Task
    BY <2>1, <2>2, PutType
  <2>4. CASE AppendReview(u)
    <3>1. tasks' \in [Task -> Work]
      BY <2>4, KeysType, DestroyEffect DEF AppendReview
    <3> QED BY <2>3, <2>4, <3>1 DEF TypeOK, AppendReview
  <2>5. CASE AppendUnseen(u)
    <3>1. excused' \subseteq Key
      BY <2>5, KeysType, KeptType DEF AppendUnseen
    <3> QED BY <2>3, <2>5, <3>1 DEF TypeOK, AppendUnseen
  <2> QED BY <1>14, <2>4, <2>5
<1>15. ASSUME NEW j \in Task, Clear(j) PROVE TypeOK'
  <2>1. tasks' \in [Task -> Work]
    <3>1. CASE tasks[j].do = "set"
      <4> DEFINE w == [tasks[j] EXCEPT !.do = "write"]
      <4>1. w \in Work
        BY DEF TypeOK
      <4>2. tasks' = [tasks EXCEPT ![j] = w]
        BY <1>15, <3>1 DEF Clear
      <4> HIDE DEF w
      <4> QED BY <4>1, <4>2, TasksBecome
    <3>2. CASE tasks[j].do # "set"
      BY <1>15, <3>2, DoneEffect DEF Clear
    <3> QED BY <3>1, <3>2
  <2>2. overtaken' \subseteq Task /\ excused' \subseteq Key
    BY <1>15 DEF TypeOK, Clear, Done
  <2>3. cache' \in [Key -> [val : Doc, at : 0 .. MaxTime, exp : Nat]]
    BY <1>15, NoTaskType DEF Clear, TypeOK
  <2> QED BY <1>15, <2>1, <2>3, <2>2 DEF TypeOK, Clear
<1>16. ASSUME NEW j \in Task, Write(j) PROVE TypeOK'
  <2>1. tasks' \in [Task -> Work]
    BY <1>16, DoneEffect DEF Write
  <2>2. cache' \in [Key -> [val : Doc, at : 0 .. MaxTime, exp : Nat]]
    <3> DEFINE w == [val |-> tasks[j].val, at |-> tasks[j].at, exp |-> now + CacheLife]
    <3>1. w \in [val : Doc, at : 0 .. MaxTime, exp : Nat]
      BY ContentAssumption DEF TypeOK
    <3>2. cache' = [cache EXCEPT ![tasks[j].key] = w]
      BY <1>16 DEF Write
    <3> HIDE DEF w
    <3> QED BY <3>1, <3>2 DEF TypeOK
  <2>3. overtaken' \subseteq Task /\ excused' \subseteq Key
    BY <1>16 DEF TypeOK, Write, Done
  <2> QED BY <1>16, <2>1, <2>2, <2>3 DEF TypeOK, Write
<1>17. ASSUME NEW j \in Task, TaskFails(j) PROVE TypeOK'
  <2>1. tasks[j].key \in Key
    BY DEF TypeOK
  <2>2. CASE Kept({tasks[j].key}) /\ Done(j)
    <3>1. tasks' \in [Task -> Work] /\ overtaken' \subseteq Task /\ excused' \subseteq Key
      BY <2>1, <2>2, DoneEffect, KeptType DEF Done, TypeOK
    <3> QED BY <1>17, <3>1 DEF TypeOK, TaskFails
  <2>3. CASE tasks' = [tasks EXCEPT ![j].do = "write"] /\ UNCHANGED <<overtaken, excused>>
    <3> DEFINE w == [tasks[j] EXCEPT !.do = "write"]
    <3>1. w \in Work
      BY DEF TypeOK
    <3>2. tasks' = [tasks EXCEPT ![j] = w]
      BY <2>3
    <3> HIDE DEF w
    <3>3. tasks' \in [Task -> Work]
      BY <3>1, <3>2, TasksBecome
    <3> QED BY <1>17, <2>3, <3>3 DEF TypeOK, TaskFails
  <2> QED BY <1>17, <2>2, <2>3 DEF TaskFails
<1>18. CASE Tick
  <2>1. now' \in 1 .. MaxTime
    BY <1>18, ContentAssumption DEF TypeOK, Tick
  <2>2. cache' \in [Key -> [val : Doc, at : 0 .. MaxTime, exp : Nat]]
    BY <1>18, NoTaskType DEF TypeOK, Tick
  <2> QED BY <1>18, <2>1, <2>2 DEF TypeOK, Tick
<1>19. CASE UNCHANGED vars
  BY <1>19 DEF TypeOK, vars
<1> QED
  BY <1>1, <1>2, <1>3, <1>6, <1>8, <1>9, <1>10, <1>11, <1>12, <1>13, <1>14, <1>15, <1>16,
     <1>17, <1>18, <1>19, NextIs

\* A request has no other key or step than its handler gives it.
LEMMA RequestStep ==
  ASSUME TypeOK, \A r \in Request : RequestInv(r), [Next]_vars
  PROVE  \A r \in Request : RequestInv(r)'
<1> USE DEF RequestInv
<1>1. coll' = coll /\ \A k \in Key : Cached(k)' = Cached(k)
  BY CollStays
<1>2. \A r \in Request : req[r].key \in Key
  BY DEF TypeOK
<1>3. SUFFICES ASSUME NEW r \in Request,
                      \/ req'[r] = req[r]
                      \/ req'[r].step \in {"none", "notify"}
                      \/ req'[r].step = "average" /\ coll = "rating"
                      \/ req'[r].step = "write" /\ req'[r].key \in User
                      \/ req'[r].step = "fetch" /\ req'[r].key \in Key /\ Cached(req'[r].key)
               PROVE  RequestInv(r)'
  <2> DEFINE Fine(r) == \/ req'[r] = req[r]
                        \/ req'[r].step \in {"none", "notify"}
                        \/ req'[r].step = "average" /\ coll = "rating"
                        \/ req'[r].step = "write" /\ req'[r].key \in User
                        \/ req'[r].step = "fetch" /\ req'[r].key \in Key /\ Cached(req'[r].key)
  <2>1. ASSUME NEW r \in Request, Finish(r) \/ Proceed(r) PROVE \A t \in Request : Fine(t)
    BY <2>1, FinishEffect, ProceedEffect DEF Idle
  <2>2. ASSUME NEW r \in Request, NEW k \in Key, Cached(k), Miss(r, k)
        PROVE  \A t \in Request : Fine(t)
    BY <2>2, MissEffect
  <2>3. ASSUME NEW r \in Request, NEW u \in User, NEW op \in {"upsert", "update", "delete"},
               Find(r, op, u)
        PROVE  \A t \in Request : Fine(t)
    BY <2>3, FindEffect
  <2>4. CASE UNCHANGED req
    BY <2>4
  <2>5. ASSUME NEW r \in Request, DeleteUnseen(r) PROVE \A t \in Request : Fine(t)
    BY <2>5 DEF DeleteUnseen, DeleteDocument, TypeOK
  <2>6. \A t \in Request : Fine(t)
    BY <2>1, <2>2, <2>3, <2>4, <2>5, NextIs
       DEF Fetch, Save, SaveUnseen, SaveRefused, Delete, DeleteNothing, Average, AverageFails,
           SendLikeNotify, RequestFails, AppendReview, AppendUnseen, Clear, Write, TaskFails,
           Tick, vars
  <2> QED BY <2>6
<1> QED BY <1>1, <1>2, <1>3

\* What a step may do to a task, and to what it will put into Redis.
TaskMoves(j) ==
  \/ tasks'[j] = tasks[j] /\ (j \in overtaken => j \in overtaken')
  \/ tasks'[j] = NoTask
  \/ /\ tasks[j].do = "set" /\ tasks'[j].do = "write" /\ tasks'[j].key = tasks[j].key
     /\ tasks'[j].val = tasks[j].val /\ tasks'[j].at = tasks[j].at
     /\ UNCHANGED overtaken
  \/ /\ tasks[j] = NoTask /\ tasks'[j].do = "destroy"
     /\ Cached(tasks'[j].key) /\ tasks'[j].at = now
  \/ /\ tasks[j] = NoTask /\ tasks'[j].do = "set" /\ Cached(tasks'[j].key)
     /\ tasks'[j].val = Answer(tasks'[j].key) /\ tasks'[j].at = now
     /\ UNCHANGED <<doc, since>>

LEMMA KeysCached ==
  ASSUME TypeOK, NEW op, NEW u \in User
  PROVE  \A k \in Keys(op, u) : Cached(k)
BY DEF Keys, Cached, Key, TypeOK, Coll

LEMMA TasksMove ==
  ASSUME TypeOK, \A r \in Request : RequestInv(r), [Next]_vars
  PROVE  \A j \in Task : TaskMoves(j)
<1> USE DEF TaskMoves
<1> DEFINE Noted == \A j \in Task : j \in overtaken => j \in overtaken'
<1>1. ASSUME NEW K, K \subseteq Key, \A k \in K : Cached(k), StartDestroy(K), Noted
      PROVE  \A j \in Task : TaskMoves(j)
  BY <1>1, DestroyEffect
<1>2. ASSUME NEW u, NEW v, NEW i, Put(u, v, i) PROVE Noted
  BY <1>2 DEF Put
<1>3. ASSUME NEW r \in Request, SaveDocument(r) PROVE req[r].key \in User /\ Noted
  BY <1>2, <1>3 DEF SaveDocument, RequestInv
<1>4. ASSUME NEW r \in Request, DeleteDocument(r) PROVE req[r].key \in User /\ Noted
  BY <1>2, <1>4 DEF DeleteDocument, RequestInv
<1>5. ASSUME NEW r \in Request, Save(r) PROVE \A j \in Task : TaskMoves(j)
  <2>1. req[r].key \in User /\ StartDestroy(Keys(req[r].op, req[r].key)) /\ Noted
    BY <1>3, <1>5 DEF Save
  <2> QED BY <1>1, <2>1, KeysType, KeysCached
<1>6. ASSUME NEW r \in Request, Delete(r) \/ DeleteNothing(r) PROVE \A j \in Task : TaskMoves(j)
  <2>1. req[r].key \in User /\ Noted
    BY <1>4, <1>6 DEF Delete, DeleteNothing, RequestInv
  <2>2. PICK K \in {Keys("delete", req[r].key), {}} : StartDestroy(K)
    BY <1>6 DEF Delete, DeleteNothing
  <2> QED BY <1>1, <2>1, <2>2, KeysType, KeysCached
<1>7. ASSUME NEW u \in User, AppendReview(u) PROVE \A j \in Task : TaskMoves(j)
  BY <1>1, <1>2, <1>7, KeysType, KeysCached DEF AppendReview, InsertReview
<1>8. ASSUME UNCHANGED tasks, Noted PROVE \A j \in Task : TaskMoves(j)
  BY <1>8
<1>9. ASSUME NEW r \in Request, SaveUnseen(r) PROVE \A j \in Task : TaskMoves(j)
  BY <1>3, <1>8, <1>9 DEF SaveUnseen
<1>10. ASSUME NEW r \in Request, DeleteUnseen(r) PROVE \A j \in Task : TaskMoves(j)
  BY <1>4, <1>8, <1>10 DEF DeleteUnseen
<1>11. ASSUME NEW u \in User, AppendUnseen(u) PROVE \A j \in Task : TaskMoves(j)
  BY <1>2, <1>8, <1>11 DEF AppendUnseen, InsertReview
<1>12. ASSUME NEW r \in Request, Fetch(r) PROVE \A j \in Task : TaskMoves(j)
  <2>1. req[r].key \in Key /\ Cached(req[r].key) /\ UNCHANGED <<doc, since, overtaken>>
    BY <1>12 DEF Fetch, RequestInv, TypeOK
  <2>2. CASE UNCHANGED tasks
    BY <2>1, <2>2
  <2>3. ASSUME NEW j \in Task, Start(j, "set", req[r].key, Answer(req[r].key))
        PROVE  \A i \in Task : TaskMoves(i)
    BY <2>1, <2>3, AnswerIsGood, StartEffect
  <2> QED BY <1>12, <2>2, <2>3 DEF Fetch
<1>13. ASSUME NEW r \in Request, Average(r) PROVE \A j \in Task : TaskMoves(j)
  <2>1. "film" \in Key /\ Cached("film") /\ doc = Answer("film")
        /\ UNCHANGED <<doc, since, overtaken>>
    BY <1>13 DEF Average, RequestInv, Key, Cached, Answer, FilmScores
  <2>2. CASE UNCHANGED tasks
    BY <2>1, <2>2
  <2>3. ASSUME NEW j \in Task, Start(j, "set", "film", doc) PROVE \A i \in Task : TaskMoves(i)
    BY <2>1, <2>3, StartEffect DEF TypeOK
  <2> QED BY <1>13, <2>2, <2>3 DEF Average
<1>14. ASSUME NEW j \in Task, Clear(j) \/ Write(j) \/ TaskFails(j) PROVE \A i \in Task : TaskMoves(i)
  <2>1. CASE Done(j)
    <3>1. \A i \in Task \ {j} : i \in overtaken => i \in overtaken'
      BY <2>1 DEF Done
    <3> QED BY <2>1, <3>1, DoneEffect
  <2>2. CASE /\ tasks[j].do = "set" /\ tasks' = [tasks EXCEPT ![j].do = "write"]
             /\ UNCHANGED overtaken
    <3> DEFINE w == [tasks[j] EXCEPT !.do = "write"]
    <3>1. w \in Work /\ w.do = "write" /\ w.key = tasks[j].key /\ w.val = tasks[j].val
          /\ w.at = tasks[j].at
      BY DEF TypeOK, Work
    <3>2. tasks' = [tasks EXCEPT ![j] = w]
      BY <2>2
    <3> HIDE DEF w
    <3> QED BY <2>2, <3>1, <3>2, TasksBecome
  <2> QED BY <1>14, <2>1, <2>2 DEF Clear, Write, TaskFails
<1>15. CASE UNCHANGED <<tasks, overtaken>>
  BY <1>8, <1>15
<1> QED
  BY <1>5, <1>6, <1>7, <1>9, <1>10, <1>11, <1>12, <1>13, <1>14, <1>15, NextIs
     DEF Miss, Find, SaveRefused, AverageFails, SendLikeNotify, RequestFails, Tick, vars

LEMMA AgeStep ==
  ASSUME TypeOK, \A r \in Request : RequestInv(r), [Next]_vars,
         NEW j \in Task, AgeInv(j)
  PROVE  AgeInv(j)'
<1>1. tasks[j] \in Work /\ tasks'[j] \in Work /\ TypeOK'
  BY TypeStep DEF TypeOK, Work
<1>2. TaskMoves(j) /\ \A k \in Key : Cached(k)' = Cached(k)
  BY TasksMove, CollStays
<1>3. /\ tasks'[j] # NoTask /\ tasks'[j] # tasks[j] => now' = now
      /\ now' = now \/ (now' = now + 1 /\ tasks' = tasks /\ (tasks[j] = NoTask \/ tasks[j].at = now))
  BY NextIs DEF Miss, Find, Fetch, Save, SaveUnseen, SaveRefused, Delete, DeleteUnseen,
       DeleteNothing, Average, AverageFails, SendLikeNotify, RequestFails, AppendReview,
       AppendUnseen, Clear, Write, TaskFails, Tick, vars
<1>4. tasks[j].key \in Key /\ tasks'[j].key \in Key /\ now \in Nat /\ tasks[j].at \in Nat
  BY <1>1, ContentAssumption DEF Work, TypeOK
<1>5. tasks[j].do = "set" => tasks[j] # NoTask
  BY NoTaskType
<1> QED BY <1>2, <1>3, <1>4, <1>5 DEF AgeInv, TaskMoves

\* A document changes only by Put.
LEMMA DocMoves ==
  ASSUME TypeOK, \A r \in Request : RequestInv(r), [Next]_vars
  PROVE  \/ UNCHANGED <<doc, since>>
         \/ \E u \in User, v \in Nat, i \in Nat : Put(u, v, i)
<1>1. writes \in Nat /\ \A r \in Request : req[r].found \in Nat
  BY ContentAssumption DEF TypeOK
<1>2. ASSUME NEW r \in Request, SaveDocument(r)
      PROVE  \E u \in User, v \in Nat, i \in Nat : Put(u, v, i)
  <2>1. req[r].key \in User
        /\ Put(req[r].key, writes + 1, IF req[r].found = 0 THEN writes + 1 ELSE req[r].found)
    BY <1>2 DEF SaveDocument, RequestInv
  <2> QED BY <1>1, <2>1
<1>3. ASSUME NEW r \in Request, DeleteDocument(r)
      PROVE  UNCHANGED <<doc, since>> \/ \E u \in User, v \in Nat, i \in Nat : Put(u, v, i)
  <2>1. req[r].key \in User /\ (UNCHANGED <<doc, since>> \/ Put(req[r].key, 0, 0))
    BY <1>3 DEF DeleteDocument, RequestInv
  <2> QED BY <2>1
<1>4. ASSUME NEW u \in User, InsertReview(u) PROVE \E v \in Nat, i \in Nat : Put(u, v, i)
  <2>1. writes + 1 \in Nat
    BY <1>1
  <2>2. Put(u, writes + 1, writes + 1)
    BY <1>4 DEF InsertReview
  <2> QED BY <2>1, <2>2
<1>5. CASE UNCHANGED <<doc, since>>
  BY <1>5
<1> QED
  BY <1>2, <1>3, <1>4, <1>5, NextIs
     DEF Miss, Find, Fetch, Save, SaveUnseen, SaveRefused, Delete, DeleteUnseen, DeleteNothing,
         Average, AverageFails, SendLikeNotify, RequestFails, AppendReview, AppendUnseen, Clear,
         Write, TaskFails, Tick, vars

\* What an answer lacks was written after it was read, whatever is written next.
LEMMA ReflectsStays ==
  ASSUME TypeOK, \A r \in Request : RequestInv(r), [Next]_vars,
         NEW k \in Key, NEW val, NEW at \in Nat, at <= now, Reflects(k, val, at)
  PROVE  Reflects(k, val, at)'
<1>1. About(k) \subseteq User
  BY DEF About, Key
<1>2. CASE UNCHANGED <<doc, since>>
  BY <1>2 DEF Reflects, About
<1>3. ASSUME NEW u \in User, NEW v \in Nat, NEW i \in Nat, Put(u, v, i)
      PROVE  Reflects(k, val, at)'
  <2>1. /\ since'[u] = now
        /\ \A w \in User \ {u} : doc'[w] = doc[w] /\ since'[w] = since[w]
    BY <1>3 DEF Put, TypeOK, Doc
  <2> QED BY <1>1, <2>1 DEF Reflects, About
<1> QED BY <1>2, <1>3, DocMoves

LEMMA GoodStays ==
  ASSUME UNCHANGED <<doc, coll>>, NEW k \in Key, NEW val
  PROVE  Good(k, val)' = Good(k, val)
<1>1. Answer(k)' = Answer(k)
  BY DEF Answer, UserPage, FilmScores, FilmReviews, Empty
<1> QED BY <1>1 DEF Good

\* Whatever is written while a task holds an answer overtakes the task.
LEMMA TaskStep ==
  ASSUME TypeOK, \A r \in Request : RequestInv(r), [Next]_vars,
         NEW j \in Task, AgeInv(j), TaskInv(j)
  PROVE  TaskInv(j)'
<1>1. TaskMoves(j) /\ coll' = coll
  BY TasksMove, CollStays
<1>2. tasks'[j].key \in Key /\ now \in Nat /\ tasks[j].at \in Nat
  BY TypeStep, ContentAssumption DEF TypeOK
<1>3. SUFFICES ASSUME NEW k \in Key, NEW val, NEW at, k = tasks'[j].key, val = tasks'[j].val,
                      at = tasks'[j].at, tasks'[j].do \in {"set", "write"}
               PROVE  Reflects(k, val, at)' /\ (j \notin overtaken' => Good(k, val)')
  BY <1>2 DEF TaskInv, Good, Reflects, About, Answer, UserPage, FilmScores, FilmReviews, Empty
<1>4. CASE /\ tasks[j].do \in {"set", "write"} /\ tasks[j].key = k /\ tasks[j].val = val
           /\ tasks[j].at = at /\ (j \in overtaken => j \in overtaken')
  <2>1. Reflects(k, val, at) /\ (j \notin overtaken => Good(k, val))
    BY <1>4 DEF TaskInv
  <2>2. Reflects(k, val, at)'
    <3>1. at \in Nat /\ at <= now
      BY <1>2, <1>4, NoTaskType DEF AgeInv
    <3> QED BY <2>1, <3>1, ReflectsStays
  <2>3. ASSUME j \notin overtaken' PROVE Good(k, val)'
    <3>1. CASE UNCHANGED doc
      BY <1>1, <1>4, <2>1, <2>3, <3>1, GoodStays
    <3>2. ASSUME NEW u \in User, NEW v \in Nat, NEW i \in Nat, Put(u, v, i)
          PROVE  Good(k, val)'
      <4>1. k \notin {"film", u}
        BY <1>4, <2>3, <3>2, PutOvertakes
      <4> QED BY <1>1, <1>4, <2>1, <2>3, <3>2, <4>1, PutKeeps
    <3> QED BY <3>1, <3>2, DocMoves
  <2> QED BY <2>2, <2>3
<1>5. CASE UNCHANGED <<doc, since>> /\ val = Answer(k)
  <2>1. Good(k, val)'
    BY <1>1, <1>5, AnswerIsGood, GoodStays
  <2>2. Reflects(k, val, at)'
    BY <1>5, AnswerIsGood DEF Reflects, About
  <2> QED BY <2>1, <2>2
<1> QED BY <1>1, <1>3, <1>4, <1>5, NoTaskType DEF TaskMoves

\* An answer is written at most a unit after it was read, and goes in time.
LEMMA LifeStep ==
  ASSUME TypeOK, \A r \in Request : RequestInv(r), [Next]_vars,
         \A j \in Task : AgeInv(j) /\ TaskInv(j),
         NEW k \in Key, LifeInv(k)
  PROVE  LifeInv(k)'
<1>1. CacheLife \in Nat \ {0} /\ now \in Nat /\ cache[k].exp \in Nat /\ cache[k].at \in Nat
  BY ContentAssumption DEF TypeOK
<1>2. SUFFICES ASSUME NEW val, NEW at, val = cache'[k].val, at = cache'[k].at,
                      cache'[k].exp > 0
               PROVE  /\ at <= now' /\ now' < cache'[k].exp
                      /\ cache'[k].exp <= at + CacheLife + 1
                      /\ Reflects(k, val, at)'
  BY DEF LifeInv, Reflects, About
<1>3. CASE cache'[k] = cache[k] /\ now' = now
  <2>1. at \in Nat /\ at <= now /\ Reflects(k, val, at)
    BY <1>1, <1>2, <1>3 DEF LifeInv
  <2> QED BY <1>2, <1>3, <2>1, ReflectsStays DEF LifeInv
<1>4. CASE cache'[k] = NoAnswer
  BY <1>2, <1>4, NoTaskType
<1>5. ASSUME NEW j \in Task, Clear(j) PROVE now' = now /\ cache'[k] \in {cache[k], NoAnswer}
  BY <1>5 DEF Clear, TypeOK
<1>6. ASSUME NEW j \in Task, Write(j), tasks[j].key = k
      PROVE  /\ at <= now' /\ now' < cache'[k].exp
             /\ cache'[k].exp <= at + CacheLife + 1
             /\ Reflects(k, val, at)'
  <2> DEFINE w == [val |-> tasks[j].val, at |-> tasks[j].at, exp |-> now + CacheLife]
  <2>1. cache'[k] = w /\ now' = now /\ UNCHANGED <<doc, since>>
    BY <1>6 DEF Write, TypeOK
  <2>2. val = tasks[j].val /\ at = tasks[j].at /\ cache'[k].exp = now + CacheLife
    BY <1>2, <2>1
  <2>3. at \in Nat /\ at <= now /\ now <= at + 1 /\ Reflects(k, val, at)
    BY <1>6, <2>2, NoTaskType, ContentAssumption DEF AgeInv, TaskInv, Write, TypeOK
  <2>4. Reflects(k, val, at)'
    BY <2>3, ReflectsStays
  <2> QED BY <1>1, <2>1, <2>2, <2>3, <2>4
<1>7. ASSUME NEW j \in Task, Write(j), tasks[j].key # k PROVE now' = now /\ cache'[k] = cache[k]
  BY <1>7 DEF Write, TypeOK
<1>8. CASE Tick
  <2>1. now' = now + 1 /\ cache'[k] = IF cache[k].exp > now + 1 THEN cache[k] ELSE NoAnswer
    BY <1>8 DEF Tick
  <2>2. CASE cache[k].exp > now + 1
    <3>1. at \in Nat /\ at <= now /\ Reflects(k, val, at) /\ cache'[k] = cache[k]
      BY <1>1, <1>2, <2>1, <2>2 DEF LifeInv
    <3>2. Reflects(k, val, at)'
      BY <3>1, ReflectsStays
    <3> QED BY <1>1, <1>2, <2>1, <2>2, <3>1, <3>2 DEF LifeInv
  <2> QED BY <1>4, <2>1, <2>2
<1>9. CASE UNCHANGED <<cache, now>>
  BY <1>3, <1>9
<1> QED
  BY <1>3, <1>4, <1>5, <1>6, <1>7, <1>8, <1>9, NextIs
     DEF Miss, Find, Fetch, Save, SaveUnseen, SaveRefused, Delete, DeleteUnseen, DeleteNothing,
         Average, AverageFails, SendLikeNotify, RequestFails, AppendReview, AppendUnseen,
         TaskFails, vars

LEMMA CacheIs ==
  ASSUME NEW k \in Key, NEW val, val = cache'[k].val, coll' = coll,
         cache'[k].exp > 0 => /\ Cached(k)
                              /\ k \notin excused' => Good(k, val)' \/ Pending(k)'
  PROVE  CacheInv(k)'
<1>1. Cached(k)' = Cached(k)
  BY DEF Cached, Key
<1> QED BY <1>1 DEF CacheInv, Good, Answer, UserPage, FilmScores, FilmReviews, Empty

\* Who is to replace the answer of k goes on.
Goes(k) ==
  /\ \A j \in Task : tasks[j] # NoTask /\ tasks[j].key = k =>
       tasks'[j] # NoTask /\ tasks'[j].key = k
  /\ k = "film" => \A r \in Request : req[r].step = "average" => req'[r].step = "average"

LEMMA CacheRests ==
  ASSUME NEW k \in Key, CacheInv(k), cache'[k] = cache[k], coll' = coll,
         cache[k].exp > 0 /\ k \notin excused' => k \notin excused /\ Goes(k),
         cache[k].exp > 0 /\ k \notin excused' /\ Good(k, cache[k].val)
           => Good(k, cache[k].val)' \/ Pending(k)'
  PROVE  CacheInv(k)'
<1> DEFINE val == cache[k].val
<1>1. cache[k].exp > 0 /\ k \notin excused' /\ Pending(k) => Pending(k)'
  BY DEF Pending, Goes
<1> QED BY <1>1, CacheIs DEF CacheInv

\* An answer that a write neither replaces nor drops is as good as it was.
LEMMA NotDue ==
  ASSUME TypeOK, NEW u \in User, NEW v, NEW i, Put(u, v, i), coll' = coll,
         NEW op, op = "delete" => v = 0,
         NEW k \in Key, Cached(k), k \notin Due(op, u), NEW val, Good(k, val)
  PROVE  Good(k, val)'
<1>1. CASE k \notin {"film", u}
  BY <1>1, PutKeeps
<1>2. k # u
  BY ContentAssumption DEF Due, Keys, Cached, TypeOK, Coll
<1>3. CASE k = "film"
  <2>1. coll = "review" /\ op = "delete"
    BY <1>3, ContentAssumption DEF Due, Keys, Cached, TypeOK, Coll
  <2> QED BY <1>3, <2>1, PutKeeps
<1> QED BY <1>1, <1>2, <1>3

LEMMA CacheStep ==
  ASSUME TypeOK, \A r \in Request : RequestInv(r), [Next]_vars,
         \A j \in Task : AgeInv(j) /\ TaskInv(j),
         NEW k \in Key, LifeInv(k), CacheInv(k)
  PROVE  CacheInv(k)'
<1>1. coll' = coll
  BY CollStays
<1>2. UNCHANGED doc => Good(k, cache[k].val)' = Good(k, cache'[k].val)
  <2>1. ASSUME UNCHANGED doc, NEW val PROVE Good(k, val)' = Good(k, val)
    BY <1>1, <2>1, GoodStays
  <2> QED BY <2>1 DEF Good, Answer, UserPage, FilmScores, FilmReviews, Empty
<1>3. ASSUME UNCHANGED doc, cache'[k] = cache[k],
             cache[k].exp > 0 /\ k \notin excused' => k \notin excused /\ Goes(k)
      PROVE  CacheInv(k)'
  BY <1>1, <1>2, <1>3, CacheRests
<1>4. ASSUME NEW r \in Request, NEW l \in Key, Miss(r, l) PROVE CacheInv(k)'
  <2>1. Goes(k) /\ UNCHANGED <<doc, cache, excused>>
    BY <1>4, MissEffect DEF Goes, Miss, Begin, Idle
  <2> QED BY <1>3, <2>1
<1>5. ASSUME NEW r \in Request, NEW u \in User, NEW op \in {"upsert", "update", "delete"},
             Find(r, op, u)
      PROVE  CacheInv(k)'
  <2>1. Goes(k) /\ UNCHANGED <<doc, cache, excused>>
    BY <1>5, FindEffect DEF Goes, Find, Idle
  <2> QED BY <1>3, <2>1
<1>6. ASSUME NEW r \in Request, SaveRefused(r) \/ SendLikeNotify(r) \/ RequestFails(r)
      PROVE  CacheInv(k)'
  <2>1. Goes(k) /\ UNCHANGED <<doc, cache, excused>>
    BY <1>6, FinishEffect DEF Goes, SaveRefused, SendLikeNotify, RequestFails
  <2> QED BY <1>3, <2>1
<1>7. ASSUME NEW r \in Request, Fetch(r) PROVE CacheInv(k)'
  <2>1. req[r].step = "fetch" /\ UNCHANGED <<doc, cache, excused>>
        /\ \A s \in Request \ {r} : req'[s] = req[s]
    BY <1>7, FinishEffect DEF Fetch
  <2>2. \A j \in Task : tasks[j] # NoTask => tasks'[j] = tasks[j]
    <3>1. req[r].key \in Key
      BY DEF TypeOK
    <3>2. ASSUME NEW j \in Task, Start(j, "set", req[r].key, Answer(req[r].key))
          PROVE  \A i \in Task : tasks[i] # NoTask => tasks'[i] = tasks[i]
      BY <3>1, <3>2, AnswerIsGood, StartEffect
    <3> QED BY <1>7, <3>2 DEF Fetch
  <2> QED BY <1>3, <2>1, <2>2 DEF Goes
<1>8. ASSUME NEW u \in User, NEW v, NEW i, Put(u, v, i), NEW op, op = "delete" => v = 0,
             UNCHANGED <<cache, excused>>, Goes(k),
             k \in Due(op, u) => Pending(k)'
      PROVE  CacheInv(k)'
  <2>1. CASE Cached(k)
    <3>1. k \notin Due(op, u) /\ Good(k, cache[k].val) => Good(k, cache[k].val)'
      <4>1. ASSUME k \notin Due(op, u), NEW val, Good(k, val) PROVE Good(k, val)'
        BY <1>1, <1>8, <2>1, <4>1, NotDue
      <4> QED BY <1>8, <4>1 DEF Good, Answer, UserPage, FilmScores, FilmReviews, Empty
    <3> QED BY <1>1, <1>8, <3>1, CacheRests
  <2>2. CASE ~ Cached(k)
    BY <1>1, <1>8, <2>2, CacheIs DEF CacheInv
  <2> QED BY <2>1, <2>2
<1>9. ASSUME NEW u \in User, NEW v, NEW i, Put(u, v, i), NEW op, op = "delete" => v = 0,
             UNCHANGED cache, Goes(k), Kept(Due(op, u))
      PROVE  CacheInv(k)'
  <2>1. excused \subseteq excused' /\ (cache[k].exp > 0 /\ k \in Due(op, u) => k \in excused')
    BY <1>9 DEF Kept, Shown, LifeInv
  <2>2. CASE Cached(k)
    <3>1. k \notin Due(op, u) /\ Good(k, cache[k].val) => Good(k, cache[k].val)'
      <4>1. ASSUME k \notin Due(op, u), NEW val, Good(k, val) PROVE Good(k, val)'
        BY <1>1, <1>9, <2>2, <4>1, NotDue
      <4> QED BY <1>9, <4>1 DEF Good, Answer, UserPage, FilmScores, FilmReviews, Empty
    <3> QED BY <1>1, <1>9, <2>1, <3>1, CacheRests
  <2>3. CASE ~ Cached(k)
    BY <1>1, <1>9, <2>3, CacheIs DEF CacheInv
  <2> QED BY <2>2, <2>3
<1>10. ASSUME NEW r \in Request, NEW op, req[r].step = "write", req[r].key \in User,
              StartDestroy(Keys(op, req[r].key)), Proceed(r)
       PROVE  Goes(k) /\ (k \in Due(op, req[r].key) => Pending(k)')
  <2> DEFINE u == req[r].key
  <2>1. Keys(op, u) \subseteq Key
    BY <1>10, KeysType
  <2>2. /\ \A s \in Request \ {r} : req'[s] = req[s]
        /\ coll = "rating" => req'[r].step = "average"
    BY <1>10, ProceedEffect
  <2>3. /\ \A j \in Task : tasks[j] # NoTask => tasks'[j] = tasks[j]
        /\ \A l \in Keys(op, u) : \E j \in Task : tasks'[j] # NoTask /\ tasks'[j].key = l
    BY <1>10, <2>1, DestroyEffect
  <2>4. Goes(k)
    BY <1>10, <2>2, <2>3 DEF Goes
  <2>5. ASSUME k \in Due(op, u) PROVE Pending(k)'
    BY <2>2, <2>3, <2>5 DEF Due, Pending
  <2> QED BY <2>4, <2>5
<1>11. ASSUME NEW r \in Request, Save(r) PROVE CacheInv(k)'
  <2>1. /\ req[r].step = "write" /\ req[r].key \in User /\ req[r].op # "delete"
        /\ UNCHANGED <<cache, excused>>
    BY <1>11 DEF Save, SaveDocument, RequestInv
  <2>2. PICK v, i : Put(req[r].key, v, i)
    BY <1>11 DEF Save, SaveDocument
  <2>3. Goes(k) /\ (k \in Due(req[r].op, req[r].key) => Pending(k)')
    BY <1>10, <1>11, <2>1 DEF Save
  <2> QED BY <1>8, <2>1, <2>2, <2>3
<1>12. ASSUME NEW r \in Request, SaveUnseen(r) PROVE CacheInv(k)'
  <2>1. /\ req[r].key \in User /\ req[r].op # "delete" /\ UNCHANGED <<cache, tasks, req>>
        /\ Kept(Due(req[r].op, req[r].key))
    BY <1>12 DEF SaveUnseen, SaveDocument, RequestInv
  <2>2. PICK v, i : Put(req[r].key, v, i)
    BY <1>12 DEF SaveUnseen, SaveDocument
  <2>3. Goes(k)
    BY <2>1 DEF Goes
  <2> QED BY <1>9, <2>1, <2>2, <2>3
<1>13. ASSUME NEW r \in Request, Delete(r) PROVE CacheInv(k)'
  <2>1. /\ req[r].step = "write" /\ req[r].key \in User /\ UNCHANGED <<cache, excused>>
        /\ UNCHANGED doc \/ Put(req[r].key, 0, 0)
    BY <1>13 DEF Delete, DeleteDocument, RequestInv
  <2>2. Goes(k) /\ (k \in Due("delete", req[r].key) => Pending(k)')
    BY <1>10, <1>13, <2>1 DEF Delete
  <2> QED BY <1>3, <1>8, <2>1, <2>2
<1>14. ASSUME NEW r \in Request, DeleteUnseen(r) PROVE CacheInv(k)'
  <2>1. /\ req[r].step = "write" /\ req[r].key \in User /\ UNCHANGED <<cache, tasks>>
        /\ UNCHANGED doc \/ Put(req[r].key, 0, 0)
        /\ Kept(Due("delete", req[r].key))
        /\ \A s \in Request : req'[s].step = req[s].step
    BY <1>14 DEF DeleteUnseen, DeleteDocument, RequestInv, TypeOK
  <2>2. Goes(k) /\ (k \notin excused' => k \notin excused)
    BY <2>1 DEF Goes, Kept
  <2> QED BY <1>3, <1>9, <2>1, <2>2
<1>15. ASSUME NEW r \in Request, DeleteNothing(r) PROVE CacheInv(k)'
  <2>1. /\ req[r].step = "write" /\ req[r].key \in User /\ UNCHANGED <<doc, cache, excused>>
        /\ \A s \in Request \ {r} : req'[s] = req[s]
    BY <1>15, FinishEffect DEF DeleteNothing, RequestInv
  <2>2. PICK K \in {Keys("delete", req[r].key), {}} : StartDestroy(K)
    BY <1>15 DEF DeleteNothing
  <2>3. \A j \in Task : tasks[j] # NoTask => tasks'[j] = tasks[j]
    BY <2>1, <2>2, KeysType, DestroyEffect
  <2> QED BY <1>3, <2>1, <2>3 DEF Goes
<1>16. ASSUME NEW r \in Request, Average(r) PROVE CacheInv(k)'
  <2>1. /\ UNCHANGED <<doc, cache, excused>> /\ \A s \in Request \ {r} : req'[s] = req[s]
        /\ req[r].step = "average" /\ coll = "rating"
        /\ "film" \in Key /\ doc \in Doc
    BY <1>16, FinishEffect DEF Average, TypeOK, Key, RequestInv
  <2>2. CASE doc = Empty
    <3>1. UNCHANGED tasks
      BY <1>16, <2>2 DEF Average
    <3>2. CASE k = "film"
      <4>1. \A val : Good(k, val)'
        BY <1>1, <2>1, <2>2, <3>2 DEF Good, Empty
      <4> QED BY <1>1, <2>1, <3>2, <4>1, CacheIs DEF CacheInv
    <3>3. CASE k # "film"
      BY <1>3, <2>1, <3>1, <3>3 DEF Goes
    <3> QED BY <3>2, <3>3
  <2>3. ASSUME NEW j \in Task, Start(j, "set", "film", doc) PROVE CacheInv(k)'
    <3>1. /\ \A i \in Task : tasks[i] # NoTask => tasks'[i] = tasks[i]
          /\ tasks'[j] # NoTask /\ tasks'[j].key = "film"
      BY <2>1, <2>3, StartEffect
    <3>2. CASE k = "film"
      <4>1. Pending(k)'
        BY <3>1, <3>2 DEF Pending
      <4> QED BY <1>1, <2>1, <4>1, CacheIs DEF CacheInv
    <3>3. CASE k # "film"
      BY <1>3, <2>1, <3>1, <3>3 DEF Goes
    <3> QED BY <3>2, <3>3
  <2> QED BY <1>16, <2>2, <2>3 DEF Average
<1>17. ASSUME NEW r \in Request, AverageFails(r) PROVE CacheInv(k)'
  <2>1. /\ UNCHANGED <<doc, cache, tasks>> /\ Kept({"film"})
        /\ \A s \in Request \ {r} : req'[s] = req[s]
    BY <1>17, FinishEffect DEF AverageFails
  <2>2. cache[k].exp > 0 /\ k \notin excused' => k # "film" /\ k \notin excused
    BY <2>1 DEF Kept, Shown, LifeInv
  <2> QED BY <1>3, <2>1, <2>2 DEF Goes
<1>18. ASSUME NEW u \in User, AppendReview(u) \/ AppendUnseen(u) PROVE CacheInv(k)'
  <2>1. /\ Put(u, writes + 1, writes + 1) /\ coll = "review" /\ UNCHANGED <<cache, req>>
        /\ Keys("insert", u) \subseteq Key /\ Keys("insert", u) = Due("insert", u)
    BY <1>18, KeysType DEF AppendReview, AppendUnseen, InsertReview, Due
  <2>2. CASE AppendReview(u)
    <3>1. /\ \A j \in Task : tasks[j] # NoTask => tasks'[j] = tasks[j]
          /\ \A l \in Keys("insert", u) :
               \E j \in Task : tasks'[j] # NoTask /\ tasks'[j].key = l
      BY <2>1, <2>2, DestroyEffect DEF AppendReview
    <3>2. Goes(k) /\ (k \in Due("insert", u) => Pending(k)') /\ UNCHANGED excused
      BY <2>1, <2>2, <3>1 DEF Goes, Pending, AppendReview
    <3> QED BY <1>8, <2>1, <3>2
  <2>3. CASE AppendUnseen(u)
    <3>1. Goes(k) /\ Kept(Due("insert", u))
      BY <2>1, <2>3 DEF Goes, AppendUnseen
    <3> QED BY <1>9, <2>1, <3>1
  <2> QED BY <1>18, <2>2, <2>3
<1>19. ASSUME NEW j \in Task, Clear(j) PROVE CacheInv(k)'
  <2>1. /\ tasks[j].key \in Key /\ UNCHANGED <<doc, req>>
        /\ cache' = [cache EXCEPT ![tasks[j].key] = NoAnswer]
        /\ excused' = excused \ {tasks[j].key}
        /\ \A i \in Task \ {j} : tasks'[i] = tasks[i]
    BY <1>19 DEF Clear, Done, TypeOK
  <2>2. CASE k = tasks[j].key
    <3>1. cache'[k].exp = 0
      BY <2>1, <2>2, NoTaskType DEF TypeOK
    <3> QED BY <1>1, <3>1, CacheIs
  <2>3. CASE k # tasks[j].key
    <3>1. cache'[k] = cache[k] /\ Goes(k) /\ (k \notin excused' => k \notin excused)
      BY <2>1, <2>3 DEF Goes, TypeOK
    <3> QED BY <1>3, <2>1, <3>1
  <2> QED BY <2>2, <2>3
<1>20. ASSUME NEW j \in Task, Write(j) PROVE CacheInv(k)'
  <2>1. /\ tasks[j].key \in Key /\ UNCHANGED <<doc, req>> /\ tasks[j].do = "write"
        /\ \A i \in Task \ {j} : tasks'[i] = tasks[i]
        /\ excused' = IF j \in overtaken THEN excused \cup {tasks[j].key}
                      ELSE excused \ {tasks[j].key}
    BY <1>20, DoneEffect DEF Write, TypeOK
  <2>2. CASE k = tasks[j].key
    <3>1. cache'[k].val = tasks[j].val
      BY <1>20, <2>1, <2>2 DEF Write, TypeOK
    <3>2. Cached(k) /\ (k \notin excused' => Good(k, tasks[j].val))
      BY <2>1, <2>2, NoTaskType DEF AgeInv, TaskInv
    <3>3. k \notin excused' => Good(k, cache[k].val)'
      BY <1>2, <2>1, <3>1, <3>2
    <3>4. k \notin excused' => Good(k, cache'[k].val)
      BY <3>1, <3>2
    <3> QED BY <1>1, <2>1, <3>1, <3>2, <3>3, <3>4, GoodStays, CacheIs
  <2>3. CASE k # tasks[j].key
    <3>1. cache'[k] = cache[k]
      BY <1>20, <2>1, <2>3 DEF Write, TypeOK
    <3>2. Goes(k) /\ (k \notin excused' => k \notin excused)
      BY <2>1, <2>3 DEF Goes
    <3> QED BY <1>3, <2>1, <3>1, <3>2
  <2> QED BY <2>2, <2>3
<1>21. ASSUME NEW j \in Task, TaskFails(j) PROVE CacheInv(k)'
  <2>1. UNCHANGED <<doc, req, cache>>
    BY <1>21 DEF TaskFails
  <2>2. CASE Kept({tasks[j].key}) /\ Done(j)
    <3>1. \A i \in Task \ {j} : tasks'[i] = tasks[i]
      BY <2>2, DoneEffect
    <3>2. cache[k].exp > 0 /\ k \notin excused' => k # tasks[j].key /\ k \notin excused
      BY <2>2 DEF Kept, Shown, LifeInv
    <3> QED BY <1>3, <2>1, <3>1, <3>2 DEF Goes
  <2>3. CASE /\ tasks[j].do = "set" /\ tasks' = [tasks EXCEPT ![j].do = "write"]
             /\ UNCHANGED <<overtaken, excused>>
    <3> DEFINE w == [tasks[j] EXCEPT !.do = "write"]
    <3>1. w \in Work /\ w.do = "write" /\ w.key = tasks[j].key
      BY DEF TypeOK, Work
    <3>2. tasks' = [tasks EXCEPT ![j] = w]
      BY <2>3
    <3> HIDE DEF w
    <3>3. Goes(k)
      BY <2>1, <3>1, <3>2, NoTaskType, TasksBecome DEF Goes
    <3> QED BY <1>3, <2>1, <2>3, <3>3
  <2> QED BY <1>21, <2>2, <2>3 DEF TaskFails
<1>22. CASE Tick
  <2>1. /\ UNCHANGED <<doc, req, tasks>>
        /\ cache'[k] = IF cache[k].exp > now + 1 THEN cache[k] ELSE NoAnswer
        /\ excused' = {l \in excused : cache[l].exp > now + 1}
    BY <1>22 DEF Tick
  <2>2. CASE cache[k].exp > now + 1
    BY <1>3, <2>1, <2>2 DEF Goes
  <2>3. CASE ~ (cache[k].exp > now + 1)
    BY <1>1, <2>1, <2>3, NoTaskType, CacheIs
  <2> QED BY <2>2, <2>3
<1>23. CASE UNCHANGED vars
  BY <1>3, <1>23 DEF Goes, vars
<1> QED
  BY <1>4, <1>5, <1>6, <1>7, <1>11, <1>12, <1>13, <1>14, <1>15, <1>16, <1>17,
     <1>18, <1>19, <1>20, <1>21, <1>22, <1>23, NextIs

-----------------------------------------------------------------------------
(* The theorems.                                                            *)

LEMMA ContentInvInit ==
  ASSUME Init
  PROVE  ContentInv
<1>1. doc \in Doc /\ id \in Doc /\ since \in [User -> 1 .. MaxTime]
  BY ContentAssumption DEF Init, Doc
<1>2. \A j \in Task : tasks[j] = NoTask
  BY DEF Init
<1>3. \A k \in Key : cache[k] = NoAnswer
  BY DEF Init
<1>4. \A r \in Request : req[r] = Idle
  BY DEF Init
<1>5. Idle \in Req /\ Idle.step = "none"
  BY ContentAssumption DEF Idle, Req, Key
<1>6. TypeOK
  <2>1. /\ cache \in [Key -> [val : Doc, at : 0 .. MaxTime, exp : Nat]]
        /\ tasks \in [Task -> Work] /\ req \in [Request -> Req]
    BY <1>5, NoTaskType DEF Init
  <2> QED BY <1>1, <2>1, ContentAssumption DEF Init, TypeOK, Req, Work
<1>7. \A j \in Task : AgeInv(j) /\ TaskInv(j)
  BY <1>2, NoTaskType DEF AgeInv, TaskInv
<1>8. \A k \in Key : LifeInv(k) /\ CacheInv(k)
  BY <1>3, NoTaskType DEF LifeInv, CacheInv
<1>9. \A r \in Request : RequestInv(r)
  BY <1>4, <1>5 DEF RequestInv
<1> QED BY <1>6, <1>7, <1>8, <1>9 DEF ContentInv

LEMMA ContentInvHolds == Spec => []ContentInv
<1>1. Init => ContentInv
  BY ContentInvInit
<1>2. ContentInv /\ [Next]_vars => ContentInv'
  <2> SUFFICES ASSUME ContentInv, [Next]_vars PROVE ContentInv'
    OBVIOUS
  <2>1. /\ TypeOK
        /\ \A r \in Request : RequestInv(r)
        /\ \A j \in Task : AgeInv(j) /\ TaskInv(j)
        /\ \A k \in Key : LifeInv(k) /\ CacheInv(k)
    BY DEF ContentInv
  <2>2. TypeOK'
    BY <2>1, TypeStep
  <2>3. \A r \in Request : RequestInv(r)'
    BY <2>1, RequestStep
  <2>4. \A j \in Task : AgeInv(j)' /\ TaskInv(j)'
    BY <2>1, AgeStep, TaskStep
  <2>5. \A k \in Key : LifeInv(k)' /\ CacheInv(k)'
    BY <2>1, LifeStep, CacheStep
  <2> QED BY <2>2, <2>3, <2>4, <2>5 DEF ContentInv
<1> QED BY <1>1, <1>2, PTL DEF Spec

\* Documents, answers, tasks and requests keep their types.
THEOREM ContentTypes == Spec => []TypeOK
<1>1. ContentInv => TypeOK
  BY DEF ContentInv
<1> QED BY <1>1, ContentInvHolds, PTL

\* However reads, writes and failures fall in between, and wherever the code drops nothing:
\* an answer lacks only what was written within the life of the cache.
THEOREM AnswersAgeOutAlways == Spec => []AnswersAgeOut
<1>1. ASSUME ContentInv, NEW k \in Key, Shown(k), NEW u \in About(k)
      PROVE  cache[k].val[u] = doc[u] \/ now <= since[u] + CacheLife
  <2>1. /\ now \in Nat /\ cache[k].exp \in Nat /\ cache[k].at \in Nat /\ since[u] \in Nat
        /\ CacheLife \in Nat
    BY <1>1, ContentAssumption DEF ContentInv, TypeOK, About, Key
  <2>2. cache[k].exp > now /\ cache[k].exp > 0
    BY <1>1, <2>1 DEF Shown
  <2>3. cache[k].exp <= cache[k].at + CacheLife + 1
        /\ (cache[k].val[u] = doc[u] \/ cache[k].at <= since[u])
    BY <1>1, <2>2 DEF ContentInv, LifeInv, Reflects
  <2> QED BY <2>1, <2>2, <2>3
<1>2. ContentInv => AnswersAgeOut
  BY <1>1 DEF AnswersAgeOut
<1> QED BY <1>2, ContentInvHolds, PTL

\* When no average and no task is to come any more, Redis shows the writes, but for the
\* answers that a write overtook on their way, or that a failure of Redis, of MongoDB or of
\* the process kept there.
THEOREM WritesAreShownAlways == Spec => []WritesAreShown
<1>1. ASSUME ContentInv, Quiet, NEW k \in Key \ excused, Shown(k)
      PROVE  Good(k, cache[k].val)
  <2>1. cache[k].exp > 0
    <3>1. now \in Nat /\ cache[k].exp \in Nat
      BY <1>1, ContentAssumption DEF ContentInv, TypeOK
    <3> QED BY <1>1, <3>1 DEF Shown
  <2>2. ~ Pending(k)
    BY <1>1 DEF Quiet, Pending
  <2> QED BY <1>1, <2>1, <2>2 DEF ContentInv, CacheInv
<1>2. ContentInv => WritesAreShown
  BY <1>1 DEF WritesAreShown
<1> QED BY <1>2, ContentInvHolds, PTL
=============================================================================
