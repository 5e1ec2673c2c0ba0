----------------------------- MODULE ShortLinks -----------------------------
(***************************************************************************)
(* short-link-service: the table short_link, the requests that shorten a    *)
(* link and those that follow one.                                          *)
(*                                                                          *)
(* Each call of the repository is a transaction of its own, which a failure *)
(* of PostgreSQL repeats. A URL is represented by the request that shortens *)
(* it, and a path by a member of a small set, so that paths meet.           *)
(***************************************************************************)
EXTENDS Integers, FiniteSets

CONSTANTS
  Path, Author, Visitor,
  None,
  MaxVisits, MaxLinkFaults   \* bounds on visits and on failures of PostgreSQL

VARIABLES
  link,       \* the author of the URL under a path, or None
  uses,       \* uses_count
  archived,   \* is_archive
  expired,    \* paths whose valid_to is over
  writing,    \* what a request to shorten is at
  visit,      \* what a visitor is at
  redirected, \* answers that led to the original
  unanswered, \* uses that were counted for another answer, or none
  visits, linkFaults

linkVars == <<link, uses, archived, expired, writing, visit, redirected, unanswered,
              visits, linkFaults>>

Away == [step |-> "away", path |-> None, uses |-> 0]

Init ==
  /\ link = [p \in Path |-> None]
  /\ uses = [p \in Path |-> 0] /\ redirected = uses /\ unanswered = uses
  /\ archived = {} /\ expired = {}
  /\ writing = [a \in Author |-> [step |-> "new", path |-> None]]
  /\ visit   = [v \in Visitor |-> Away]
  /\ visits = 0 /\ linkFaults = 0

LinkFault == linkFaults < MaxLinkFaults /\ linkFaults' = linkFaults + 1

Paths == {p \in Path : link[p] # None}

Write(a, step, p) == writing' = [writing EXCEPT ![a] = [step |-> step, path |-> p]]

Visit(v, step) == visit' = [visit EXCEPT ![v] = [@ EXCEPT !.step = step]]

\* What a visitor has in memory when the row was read: its count is one higher.
Raised(v) == [step |-> "counted", path |-> visit[v].path, uses |-> uses[visit[v].path] + 1]

Plus(f, p) == [f EXCEPT ![p] = @ + 1]

-----------------------------------------------------------------------------
(* create_short_link.                                                       *)

\* A path that was free when it was looked up.
CheckPath(a, p) ==
  /\ writing[a].step = "new" /\ link[p] = None
  /\ Write(a, "insert", p)
  /\ UNCHANGED <<link, uses, archived, expired, visit, redirected, unanswered, visits, linkFaults>>

Put(a, p) == link' = [link EXCEPT ![p] = a]

\* Mutation: the row of the path is replaced.
Insert_over(a) ==
  /\ writing[a].step = "insert"
  /\ Put(a, writing[a].path) /\ Write(a, "told", writing[a].path)
  /\ UNCHANGED <<uses, archived, expired, visit, redirected, unanswered, visits, linkFaults>>

Insert(a) ==
  /\ writing[a].step = "insert" /\ link[writing[a].path] = None
  /\ Put(a, writing[a].path) /\ Write(a, "told", writing[a].path)
  /\ UNCHANGED <<uses, archived, expired, visit, redirected, unanswered, visits, linkFaults>>

\* The unique path has been taken since, or the first attempt has taken it.
InsertRefused(a) ==
  /\ writing[a].step = "insert" /\ link[writing[a].path] # None
  /\ Write(a, "refused", None)
  /\ UNCHANGED <<link, uses, archived, expired, visit, redirected, unanswered, visits, linkFaults>>

\* The commit is done and its answer lost: the object is inserted again.
InsertLost(a) ==
  /\ writing[a].step = "insert" /\ link[writing[a].path] = None /\ LinkFault
  /\ Put(a, writing[a].path)
  /\ UNCHANGED <<uses, archived, expired, writing, visit, redirected, unanswered, visits>>

-----------------------------------------------------------------------------
(* move_to_original.                                                        *)

Locked(p) == \E v \in Visitor : visit[v].step = "counted" /\ visit[v].path = p

Follow(v, p) ==
  /\ visit[v].step = "away" /\ visits < MaxVisits
  /\ visit' = [visit EXCEPT ![v] = [step |-> "fetch", path |-> p, uses |-> 0]]
  /\ visits' = visits + 1
  /\ UNCHANGED <<link, uses, archived, expired, writing, redirected, unanswered, linkFaults>>

Findable(p) == link[p] # None /\ p \notin archived

\* Mutation: the row is read without a lock.
Fetch_unlocked(v) ==
  /\ visit[v].step = "fetch" /\ Findable(visit[v].path)
  /\ visit' = [visit EXCEPT ![v] = Raised(v)]
  /\ UNCHANGED <<link, uses, archived, expired, writing, redirected, unanswered, visits, linkFaults>>

\* The row is locked, and its count raised in memory.
Fetch(v) ==
  /\ visit[v].step = "fetch" /\ Findable(visit[v].path) /\ ~Locked(visit[v].path)
  /\ visit' = [visit EXCEPT ![v] = Raised(v)]
  /\ UNCHANGED <<link, uses, archived, expired, writing, redirected, unanswered, visits, linkFaults>>

\* No row, or one that another visitor holds: it is skipped, and the answer is that
\* there is no such link.
NotFound(v) ==
  /\ visit[v].step = "fetch" /\ (~Findable(visit[v].path) \/ Locked(visit[v].path))
  /\ visit' = [visit EXCEPT ![v] = Away]
  /\ UNCHANGED <<link, uses, archived, expired, writing, redirected, unanswered, visits, linkFaults>>

Count(v) == uses' = [uses EXCEPT ![visit[v].path] = visit[v].uses]

Commit(v) ==
  /\ visit[v].step = "counted"
  /\ Count(v)
  /\ IF visit[v].path \in expired
     THEN /\ Visit(v, "archive")
          /\ unanswered' = Plus(unanswered, visit[v].path) /\ UNCHANGED redirected
     ELSE /\ visit' = [visit EXCEPT ![v] = Away]
          /\ redirected' = Plus(redirected, visit[v].path) /\ UNCHANGED unanswered
  /\ UNCHANGED <<link, archived, expired, writing, visits, linkFaults>>

\* The commit fails, or only its answer: the row is fetched and counted again.
CommitFails(v) ==
  /\ visit[v].step = "counted" /\ LinkFault
  /\ Visit(v, "fetch")
  /\ \/ UNCHANGED <<uses, unanswered>>
     \/ Count(v) /\ unanswered' = Plus(unanswered, visit[v].path)
  /\ UNCHANGED <<link, archived, expired, writing, redirected, visits>>

\* An expired link is archived, and the visitor told so.
Archive(v) ==
  /\ visit[v].step = "archive"
  /\ archived' = archived \cup {visit[v].path}
  /\ visit' = [visit EXCEPT ![v] = Away]
  /\ UNCHANGED <<link, uses, expired, writing, redirected, unanswered, visits, linkFaults>>

\* After a rollback the flag is forgotten, and the second attempt writes nothing.
ArchiveFails(v) ==
  /\ visit[v].step = "archive" /\ LinkFault
  /\ visit' = [visit EXCEPT ![v] = Away]
  /\ UNCHANGED <<link, uses, archived, expired, writing, redirected, unanswered, visits>>

Expire(p) ==
  /\ p \in Paths \ expired
  /\ expired' = expired \cup {p}
  /\ UNCHANGED <<link, uses, archived, writing, visit, redirected, unanswered, visits, linkFaults>>

Next ==
  \/ \E a \in Author : \/ \E p \in Path : CheckPath(a, p)
                       \/ Insert(a) \/ InsertRefused(a) \/ InsertLost(a)
  \/ \E v \in Visitor : \/ \E p \in Path : Follow(v, p)
                        \/ Fetch(v) \/ NotFound(v) \/ Commit(v) \/ CommitFails(v)
                        \/ Archive(v) \/ ArchiveFails(v)
  \/ \E p \in Path : Expire(p)

-----------------------------------------------------------------------------
(* Properties.                                                              *)

TypeOK ==
  /\ link \in [Path -> Author \cup {None}]
  /\ uses \in [Path -> Nat] /\ redirected \in [Path -> Nat] /\ unanswered \in [Path -> Nat]
  /\ archived \subseteq expired /\ expired \subseteq Paths
  /\ writing \in [Author -> [step : {"new", "insert", "told", "refused"},
                             path : Path \cup {None}]]
  /\ visit \in [Visitor -> [step : {"away", "fetch", "counted", "archive"},
                            path : Path \cup {None}, uses : Nat]]

\* A path that was given out leads to the URL it was given out for, however the look-up
\* and the insert of others fall in between; and no concurrent visit is lost from the
\* count of uses, which exceeds the redirects by the visits that expired or failed.
LinksAgree ==
  /\ \A a \in Author : writing[a].step = "told" => link[writing[a].path] = a
  /\ \A p \in Path : uses[p] = redirected[p] + unanswered[p]
=============================================================================
