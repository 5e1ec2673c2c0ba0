--------------------------- MODULE ContentActions ---------------------------
(***************************************************************************)
(* content-actions-service: the scores, reviews, likes and bookmarks in     *)
(* MongoDB, and the answers about them in Redis.                            *)
(*                                                                          *)
(* A behaviour follows one of the collections, for one film or one review.  *)
(* The repository finds a document and then writes it; Redis is written by  *)
(* background tasks that nobody waits for. A text, a score or a mark is     *)
(* represented by the number of its write. Redis and MongoDB may fail, and  *)
(* a request may end, after any step: a stop of the process ends them all.  *)
(***************************************************************************)
EXTENDS Integers, FiniteSets

CONSTANTS
  User,        \* each with at most one document of the collection
  Request, Task,   \* requests and background tasks at a time
  CacheLife,   \* cache_expire_in_seconds
  MaxTime,     \* bound on the clock
  MaxWrites    \* bound on the writes

ASSUME ContentAssumption ==
  /\ CacheLife \in Nat \ {0} /\ MaxTime \in Nat \ {0} /\ MaxWrites \in Nat
  /\ User \cap {"film", "none"} = {}

VARIABLES
  now, writes,
  coll,     \* the collection
  doc,      \* the document of a user: the write it is from, 0 without one
  id,       \* its _id: the write that inserted it
  since,    \* when the document of a user was last written or deleted
  cache,    \* the answers in Redis
  tasks, req,
  overtaken,   \* tasks holding an answer that a later write changed
  excused      \* keys whose answer was overtaken, or kept by a failure

vars == <<now, writes, coll, doc, id, since, cache, tasks, req, overtaken, excused>>

\* The average of the film or the list of its reviews, and the lists of a user:
\* one key stands for all pages and orders of a list.
Key   == {"film"} \cup User
Doc   == [User -> 0 .. MaxWrites]
NoAnswer == [val |-> [u \in User |-> 0], at |-> 0, exp |-> 0]
NoTask == [do |-> "none", key |-> "film", val |-> [u \in User |-> 0], at |-> 0]
Idle  == [op |-> "idle", step |-> "none", key |-> "film", found |-> 0]
Coll  == {"rating", "review", "like", "bookmark"}

Init ==
  /\ now = 1 /\ writes = 0
  /\ coll \in Coll
  /\ doc     = [u \in User |-> 0]
  /\ id      = doc
  /\ since   = [u \in User |-> 1]
  /\ cache   = [k \in Key |-> NoAnswer]
  /\ tasks   = [j \in Task |-> NoTask]
  /\ req     = [r \in Request |-> Idle]
  /\ overtaken = {} /\ excused = {}

Empty == [u \in User |-> 0]

\* What MongoDB answers: the average comes from all scores of the film, a page of the
\* film from all its reviews, and a page of a user from the documents of the user.
FilmScores  == doc
FilmReviews == doc
UserPage(k) == [Empty EXCEPT ![k] = doc[k]]

Answer(k) == IF k # "film" THEN UserPage(k)
             ELSE IF coll = "rating" THEN FilmScores ELSE FilmReviews

Cached(k) == k \in CASE coll = "rating"   -> {"film"}
                     [] coll = "review"   -> Key
                     [] coll = "bookmark" -> User
                     [] coll = "like"     -> {}

-----------------------------------------------------------------------------
(* Redis and its background tasks.                                          *)

Free == {j \in Task : tasks[j] = NoTask}

Start(j, do, k, v) ==
  /\ tasks[j] = NoTask
  /\ tasks' = [tasks EXCEPT ![j] = [do |-> do, key |-> k, val |-> v, at |-> now]]

\* background_destroy_all_by_pattern, a task for each key.
StartDestroy(K) ==
  \E f \in [K -> Free] :
    /\ \A a, b \in K : f[a] = f[b] => a = b
    /\ tasks' = [j \in Task |->
         IF \E k \in K : f[k] = j
         THEN [do |-> "destroy", key |-> CHOOSE k \in K : f[k] = j, val |-> Empty,
               at |-> now]
         ELSE tasks[j]]

Done(j) ==
  /\ tasks' = [tasks EXCEPT ![j] = NoTask]
  /\ overtaken' = overtaken \ {j}

Clear(j) ==
  /\ tasks[j].do \in {"set", "destroy"}
  /\ cache' = [cache EXCEPT ![tasks[j].key] = NoAnswer]
  /\ excused' = excused \ {tasks[j].key}
  /\ IF tasks[j].do = "set"
     THEN tasks' = [tasks EXCEPT ![j].do = "write"] /\ UNCHANGED overtaken
     ELSE Done(j)
  /\ UNCHANGED <<now, writes, coll, doc, id, since, req>>

\* Mutation: an answer never expires.
Write_forever(j) ==
  /\ tasks[j].do = "write"
  /\ cache' = [cache EXCEPT ![tasks[j].key] =
       [val |-> tasks[j].val, at |-> tasks[j].at, exp |-> MaxTime + CacheLife + 1]]
  /\ excused' = IF j \in overtaken THEN excused \cup {tasks[j].key}
                ELSE excused \ {tasks[j].key}
  /\ Done(j)
  /\ UNCHANGED <<now, writes, coll, doc, id, since, req>>

Write(j) ==
  /\ tasks[j].do = "write"
  /\ cache' = [cache EXCEPT ![tasks[j].key] =
       [val |-> tasks[j].val, at |-> tasks[j].at, exp |-> now + CacheLife]]
  /\ excused' = IF j \in overtaken THEN excused \cup {tasks[j].key}
                ELSE excused \ {tasks[j].key}
  /\ Done(j)
  /\ UNCHANGED <<now, writes, coll, doc, id, since, req>>

Shown(k) == cache[k].exp > now

\* The answers of K that are in Redis stay there.
Kept(K) == excused' = excused \cup {k \in K : Shown(k)}

\* Redis does not answer, which is only logged; set goes on when the destroy in it fails.
TaskFails(j) ==
  /\ tasks[j] # NoTask
  /\ \/ Kept({tasks[j].key}) /\ Done(j)
     \/ /\ tasks[j].do = "set" /\ tasks' = [tasks EXCEPT ![j].do = "write"]
        /\ UNCHANGED <<overtaken, excused>>
  /\ UNCHANGED <<now, writes, coll, doc, id, since, cache, req>>

-----------------------------------------------------------------------------
(* Reads: a hit changes nothing.                                            *)

Begin(r, op, step, k) ==
  /\ req[r] = Idle
  /\ req' = [req EXCEPT ![r] = [op |-> op, step |-> step, key |-> k, found |-> 0]]

Finish(r) == req' = [req EXCEPT ![r] = Idle]

Miss(r, k) ==
  /\ cache[k].exp <= now
  /\ Begin(r, "read", "fetch", k)
  /\ UNCHANGED <<now, writes, coll, doc, id, since, cache, tasks, overtaken, excused>>

GetAverageRating(r)   == coll = "rating"   /\ Miss(r, "film")
GetReviews(r)         == coll = "review"   /\ Miss(r, "film")
GetUserReviews(r, u)  == coll = "review"   /\ Miss(r, u)
FetchWatchlist(r, u)  == coll = "bookmark" /\ Miss(r, u)

\* Only the list of bookmarks is kept when it is empty.
Fetch(r) ==
  /\ req[r].step = "fetch"
  /\ LET v == Answer(req[r].key)
     IN  IF v # Empty \/ coll = "bookmark"
         THEN \E j \in Task : Start(j, "set", req[r].key, v)
         ELSE UNCHANGED tasks
  /\ Finish(r)
  /\ UNCHANGED <<now, writes, coll, doc, id, since, cache, overtaken, excused>>

-----------------------------------------------------------------------------
(* BaseRepository: a document is found, and then written.                   *)

\* The likes are found in a cache of 10 seconds: as if found so much earlier.
Find(r, op, u) ==
  /\ req[r] = Idle /\ writes < MaxWrites
  /\ req' = [req EXCEPT ![r] = [op |-> op, step |-> "write", key |-> u, found |-> id[u]]]
  /\ UNCHANGED <<now, writes, coll, doc, id, since, cache, tasks, overtaken, excused>>

\* The document of u becomes v, under the _id i: the tasks that hold an answer with the
\* document of u hold an old one.
Put(u, v, i) ==
  /\ writes < MaxWrites
  /\ doc' = [doc EXCEPT ![u] = v] /\ id' = [id EXCEPT ![u] = i]
  /\ since' = [since EXCEPT ![u] = now]
  /\ writes' = writes + 1
  /\ overtaken' = overtaken \cup
       {j \in Task : tasks[j].do \in {"set", "write"} /\ tasks[j].key \in {"film", u}}

\* Mutation: the pattern names a key that is not there.
Keys_other(op, u) == IF coll = "review" THEN {"none"} ELSE {}

\* Mutation: the document is replaced, its lists stay.
Keys_none(op, u) == {}

\* The lists that a write drops.
Keys(op, u) ==
  CASE coll \in {"rating", "like"} -> {}
    [] coll = "bookmark" -> {u}
    [] coll = "review"   -> IF op = "delete" THEN {u} ELSE {"film", u}

\* The answers that a write of u replaces or drops.
Due(op, u) == IF coll = "rating" THEN {"film"} ELSE Keys(op, u)

\* After a write the average is computed anew, or the author of the review is told.
Proceed(r) ==
  IF coll = "rating" \/ (coll = "like" /\ req[r].op = "upsert")
  THEN req' = [req EXCEPT ![r].step = IF coll = "rating" THEN "average" ELSE "notify"]
  ELSE Finish(r)

\* A second document of the user under another _id, which the unique index of scores,
\* likes and bookmarks refuses; a review is only saved under the _id that was found.
Duplicate(r) == id[req[r].key] \notin {0, req[r].found}

\* The document that was found is saved, also when it has been deleted since.
SaveDocument(r) ==
  /\ req[r].step = "write" /\ req[r].op \in {"upsert", "update"}
  /\ ~Duplicate(r)
  /\ req[r].op = "update" => req[r].found # 0
  /\ Put(req[r].key, writes + 1, IF req[r].found = 0 THEN writes + 1 ELSE req[r].found)

Save(r) ==
  /\ SaveDocument(r)
  /\ StartDestroy(Keys(req[r].op, req[r].key))
  /\ Proceed(r)
  /\ UNCHANGED <<now, coll, cache, excused>>

\* The answer of MongoDB is lost and the save repeated: an update is saved once more, an
\* insert, which gets another _id, is refused.
SaveUnseen(r) ==
  /\ SaveDocument(r)
  /\ Kept(Due(req[r].op, req[r].key))
  /\ UNCHANGED <<now, coll, cache, tasks, req>>

SaveRefused(r) ==
  /\ req[r].step = "write" /\ req[r].op \in {"upsert", "update"}
  /\ IF req[r].op = "update" THEN req[r].found = 0 ELSE Duplicate(r)
  /\ Finish(r)
  /\ UNCHANGED <<now, writes, coll, doc, id, since, cache, tasks, overtaken, excused>>

\* The document that was found is deleted, by its _id.
DeleteDocument(r) ==
  /\ req[r].step = "write" /\ req[r].op = "delete" /\ req[r].found # 0
  /\ IF id[req[r].key] = req[r].found
     THEN Put(req[r].key, 0, 0)
     ELSE UNCHANGED <<writes, doc, id, since, overtaken>>

Delete(r) ==
  /\ DeleteDocument(r)
  /\ StartDestroy(Keys("delete", req[r].key))
  /\ Proceed(r)
  /\ UNCHANGED <<now, coll, cache, excused>>

\* The answer is lost: the document is looked for anew.
DeleteUnseen(r) ==
  /\ DeleteDocument(r)
  /\ req' = [req EXCEPT ![r].found = id'[req[r].key]]
  /\ Kept(Due("delete", req[r].key))
  /\ UNCHANGED <<now, coll, cache, tasks>>

\* The list of bookmarks is dropped in any case.
DeleteNothing(r) ==
  /\ req[r].step = "write" /\ req[r].op = "delete" /\ req[r].found = 0
  /\ StartDestroy(IF coll = "bookmark" THEN Keys("delete", req[r].key) ELSE {})
  /\ Finish(r)
  /\ UNCHANGED <<now, writes, coll, doc, id, since, cache, overtaken, excused>>

\* set_user_score and delete_user_score compute the average anew; when the last
\* score is gone, the one in Redis stays.
Average(r) ==
  /\ req[r].step = "average"
  /\ IF doc # Empty THEN \E j \in Task : Start(j, "set", "film", doc) ELSE UNCHANGED tasks
  /\ Finish(r)
  /\ UNCHANGED <<now, writes, coll, doc, id, since, cache, overtaken, excused>>

\* The aggregate is neither retried nor handled: it fails the request, whose score is saved.
AverageFails(r) ==
  /\ req[r].step = "average"
  /\ Kept({"film"})
  /\ Finish(r)
  /\ UNCHANGED <<now, writes, coll, doc, id, since, cache, tasks, overtaken>>

\* A read or a write that MongoDB refuses, or a stop of the process.
RequestFails(r) ==
  /\ req[r].step \in {"fetch", "write"}
  /\ Finish(r)
  /\ UNCHANGED <<now, writes, coll, doc, id, since, cache, tasks, overtaken, excused>>

SendLikeNotify(r) ==
  /\ req[r].step = "notify"
  /\ Finish(r)
  /\ UNCHANGED <<now, writes, coll, doc, id, since, cache, tasks, overtaken, excused>>

-----------------------------------------------------------------------------
(* The requests.                                                            *)

SetUserScore(r, u)    == coll = "rating"   /\ Find(r, "upsert", u)
DeleteUserScore(r, u) == coll = "rating"   /\ Find(r, "delete", u)
UpdateReview(r, u)    == coll = "review"   /\ Find(r, "update", u)
DeleteReview(r, u)    == coll = "review"   /\ Find(r, "delete", u)
AddBookmark(r, u)     == coll = "bookmark" /\ Find(r, "upsert", u)
UpdateBookmark(r, u)  == coll = "bookmark" /\ Find(r, "upsert", u)
RemoveBookmark(r, u)  == coll = "bookmark" /\ Find(r, "delete", u)
RateReview(r, u)      == coll = "like"     /\ Find(r, "upsert", u)
DeleteRate(r, u)      == coll = "like"     /\ Find(r, "delete", u)

\* A review is inserted without a look for another. One review of an author is followed:
\* the next one comes when no request holds the last.
InsertReview(u) ==
  /\ coll = "review" /\ doc[u] = 0
  /\ \A r \in Request : req[r].key = u => req[r].found = 0
  /\ Put(u, writes + 1, writes + 1)

AppendReview(u) ==
  /\ InsertReview(u)
  /\ StartDestroy(Keys("insert", u))
  /\ UNCHANGED <<now, coll, cache, req, excused>>

\* The answer is lost, or the process stops; the review of a repeated insert, another one,
\* is not followed.
AppendUnseen(u) ==
  /\ InsertReview(u)
  /\ Kept(Keys("insert", u))
  /\ UNCHANGED <<now, coll, cache, tasks, req>>

\* A task, from the read of its answer to the write into Redis, takes less than the unit
\* of the clock.
Tick ==
  /\ now < MaxTime
  /\ \A j \in Task : tasks[j] = NoTask \/ tasks[j].at = now
  /\ now' = now + 1
  /\ cache' = [k \in Key |-> IF cache[k].exp > now + 1 THEN cache[k] ELSE NoAnswer]
  /\ excused' = {k \in excused : cache[k].exp > now + 1}
  /\ UNCHANGED <<writes, coll, doc, id, since, tasks, req, overtaken>>

Next ==
  \/ \E r \in Request :
       \/ GetAverageRating(r) \/ GetReviews(r)
       \/ Fetch(r) \/ Save(r) \/ SaveUnseen(r) \/ SaveRefused(r)
       \/ Delete(r) \/ DeleteUnseen(r) \/ DeleteNothing(r)
       \/ Average(r) \/ AverageFails(r) \/ SendLikeNotify(r) \/ RequestFails(r)
       \/ \E u \in User :
            \/ SetUserScore(r, u) \/ DeleteUserScore(r, u)
            \/ UpdateReview(r, u) \/ DeleteReview(r, u)
            \/ AddBookmark(r, u) \/ UpdateBookmark(r, u) \/ RemoveBookmark(r, u)
            \/ GetUserReviews(r, u) \/ FetchWatchlist(r, u)
            \/ RateReview(r, u) \/ DeleteRate(r, u)
  \/ \E u \in User : AppendReview(u) \/ AppendUnseen(u)
  \/ \E j \in Task : Clear(j) \/ Write(j) \/ TaskFails(j)
  \/ Tick

Spec == Init /\ [][Next]_vars

-----------------------------------------------------------------------------
(* Properties.                                                              *)

TypeOK ==
  /\ now \in 1 .. MaxTime /\ writes \in 0 .. MaxWrites
  /\ coll \in Coll
  /\ doc \in Doc /\ id \in Doc /\ since \in [User -> 1 .. MaxTime]
  /\ cache \in [Key -> [val : Doc, at : 0 .. MaxTime, exp : Nat]]
  /\ tasks \in [Task -> [do : {"none", "set", "write", "destroy"}, key : Key, val : Doc,
                         at : 0 .. MaxTime]]
  /\ req \in [Request -> [op : {"idle", "read", "upsert", "update", "delete"},
                          step : {"none", "fetch", "write", "average", "notify"}, key : Key,
                          found : 0 .. MaxWrites]]
  /\ overtaken \subseteq Task /\ excused \subseteq Key

\* The users whose documents an answer is about.
About(k) == IF k = "film" THEN User ELSE {k}

\* Whatever overlaps, fails or is not dropped at all (the last score when it is withdrawn,
\* a deleted review in the list of the film): nobody is shown what a write replaced longer
\* than CacheLife after the write.
AnswersAgeOut ==
  \A k \in Key : Shown(k) =>
    \A u \in About(k) : cache[k].val[u] = doc[u] \/ now <= since[u] + CacheLife

\* An answer that shows the writes: the average of all scores, unless there are none; the
\* list of the film with the text of every review; the lists of a user as they are.
Good(k, val) ==
  CASE k # "film" -> val = Answer(k)
    [] k = "film" /\ coll = "rating" -> doc # Empty => val = doc
    [] k = "film" /\ coll # "rating" -> \A u \in User : doc[u] # 0 => val[u] = doc[u]

Quiet == /\ \A r \in Request : req[r].step # "average"
         /\ \A j \in Task : tasks[j] = NoTask

\* Once the averages and tasks of the writes are done, a stale answer is one that was read
\* before a write and put into Redis after it, or that a failure kept there: every other
\* one shows the writes.
WritesAreShown ==
  Quiet => \A k \in Key \ excused : Shown(k) => Good(k, cache[k].val)

=============================================================================
