---------------------------- MODULE EmbeddingEtl ----------------------------
(***************************************************************************)
(* embedding-etl: a periodic run that gives the films of the index the      *)
(* embedding of their text.                                                 *)
(*                                                                          *)
(* A run takes the films changed since the start of the run before, which   *)
(* Redis remembers for a while, and those without an embedding. It walks    *)
(* through them in pages, ordered by the time of the change, and writes     *)
(* this time itself. A search sees the index as it was when Elasticsearch   *)
(* refreshed it last. A text is represented by its number.                  *)
(***************************************************************************)
EXTENDS Integers, FiniteSets

CONSTANTS
  NumFilms,
  PageSize,
  MarkLife,       \* cache_expire_in_seconds
  MaxEtlTime, MaxEdits, MaxEtlFaults  \* bounds

VARIABLES
  etlNow,
  text,       \* the text of a film
  updatedAt,
  embedding,  \* the text whose embedding a film has, 0 without one
  found,      \* the three of them as a search finds them
  mark,       \* last_run in Redis, 0 when it is not there
  markEnd,    \* when it expires
  etlRun,     \* the run, with its cursor and the page it works on
  forgiven,   \* films whose last change a gap of the protocol may have lost
  edits, etlFaults

etlVars == <<etlNow, text, updatedAt, embedding, found, mark, markEnd, etlRun, forgiven,
             edits, etlFaults>>

\* The films of the index, in the order in which a page takes those of one time.
Doc == 1 .. NumFilms

NoRun == [step |-> "none", last |-> 0, start |-> 0, cursor |-> <<0, 0>>, page |-> {},
          texts |-> [f \in Doc |-> 0]]

Index == [text |-> text, at |-> updatedAt, emb |-> embedding]

Init ==
  /\ etlNow = 1
  /\ text = [f \in Doc |-> 1] /\ updatedAt = text
  /\ embedding \in [Doc -> {0, 1}]
  /\ found = Index
  /\ mark = 1 /\ markEnd = 1 + MarkLife
  /\ etlRun = NoRun /\ forgiven = {} /\ edits = 0 /\ etlFaults = 0

EtlFault == etlFaults < MaxEtlFaults /\ etlFaults' = etlFaults + 1

Stale(f) == embedding[f] \notin {0, text[f]}

-----------------------------------------------------------------------------
(* The index is filled by others.                                           *)

\* While the page with the film is embedded, or at the moment the run takes for its
\* start, a change is behind the cursor or under the time that the run writes.
Edit(f) ==
  /\ edits < MaxEdits /\ edits' = edits + 1
  /\ text' = [text EXCEPT ![f] = @ + 1]
  /\ updatedAt' = [updatedAt EXCEPT ![f] = etlNow]
  /\ forgiven' = IF f \in etlRun.page \/ etlNow \in {etlRun.start, mark}
                 THEN forgiven \cup {f} ELSE forgiven \ {f}
  /\ UNCHANGED <<etlNow, embedding, found, mark, markEnd, etlRun, etlFaults>>

\* refresh_interval of the index. How long it takes is left open.
Refresh ==
  /\ found # Index /\ found' = Index
  /\ UNCHANGED <<etlNow, text, updatedAt, embedding, mark, markEnd, etlRun, forgiven, edits,
                 etlFaults>>

\* Films with a change that no search finds yet.
Unseen == {f \in Doc : found.text[f] # text[f]}

-----------------------------------------------------------------------------
(* A run.                                                                   *)

\* Without a mark the run looks at changes of the present moment.
Begin(last) ==
  /\ etlRun' = [NoRun EXCEPT !.step = "extract", !.last = last, !.start = etlNow]
  /\ forgiven' = IF last = mark THEN forgiven ELSE forgiven \cup {f \in Doc : Stale(f)}
  /\ UNCHANGED <<etlNow, text, updatedAt, embedding, found, mark, markEnd, edits>>

Start ==
  /\ etlRun = NoRun
  /\ Begin(IF mark # 0 THEN mark ELSE etlNow)
  /\ UNCHANGED etlFaults

\* Redis does not answer: as if there were no mark.
StartBlind ==
  /\ etlRun = NoRun /\ EtlFault
  /\ Begin(etlNow)

\* Behind the cursor c, in the order of a page.
After(c, t, f) == t > c[1] \/ (t = c[1] /\ f > c[2])

Wanted == {f \in Doc : /\ \/ found.at[f] > etlRun.last /\ found.at[f] <= etlRun.start
                          \/ found.emb[f] = 0
                       /\ After(etlRun.cursor, found.at[f], f)}

Before(f, g) == After(<<found.at[f], f>>, found.at[g], g)

\* The first films of Wanted, and the last of them.
Page == {f \in Wanted : Cardinality({g \in Wanted : Before(g, f)}) < PageSize}

\* What goes to embedding-service.
BuildTexts == [f \in Doc |-> IF f \in Page THEN found.text[f] ELSE 0]

\* Of the changes that the search does not find, those are lost whose film is on the page,
\* and those of films that the cursor passes.
Extract ==
  /\ etlRun.step = "extract" /\ Wanted # {}
  /\ LET last == CHOOSE f \in Page : \A g \in Page \ {f} : Before(g, f)
         cursor == <<found.at[last], last>>
     IN  /\ etlRun' = [etlRun EXCEPT !.step = "load", !.page = Page, !.texts = BuildTexts,
                                     !.cursor = cursor]
         /\ forgiven' = forgiven \cup
              {f \in Unseen : \/ f \in Page
                              \/ /\ updatedAt[f] <= etlRun.start
                                 /\ ~ After(cursor, updatedAt[f], f)}
  /\ UNCHANGED <<etlNow, text, updatedAt, embedding, found, mark, markEnd, edits, etlFaults>>

\* The embedding that embedding-service has for the film of the page.
Embedded(f) == etlRun.texts[f]

\* bulk: every film is updated or not by itself, and errors are only logged.
Refused(failed) ==
  /\ failed \subseteq etlRun.page
  /\ IF failed = {} THEN UNCHANGED etlFaults ELSE EtlFault

Load(failed) ==
  /\ etlRun.step = "load" /\ Refused(failed)
  /\ LET done == etlRun.page \ failed
     IN  /\ embedding' = [f \in Doc |-> IF f \in done THEN Embedded(f) ELSE embedding[f]]
         /\ updatedAt' = [f \in Doc |-> IF f \in done THEN etlRun.start ELSE updatedAt[f]]
  /\ forgiven' = forgiven \cup {f \in failed : embedding[f] # 0}
  /\ etlRun' = [etlRun EXCEPT !.step = "extract", !.page = {}, !.texts = NoRun.texts]
  /\ UNCHANGED <<etlNow, text, found, mark, markEnd, edits>>

\* The run found nothing more: a change up to its start that no search finds yet is lost.
Passed == forgiven \cup {f \in Unseen : updatedAt[f] <= etlRun.start}

\* Mutation: the next run starts where this one ended.
Finish_end ==
  /\ etlRun.step = "extract" /\ Wanted = {}
  /\ mark' = etlNow /\ markEnd' = etlNow + MarkLife
  /\ etlRun' = NoRun /\ forgiven' = Passed
  /\ UNCHANGED <<etlNow, text, updatedAt, embedding, found, edits, etlFaults>>

Finish ==
  /\ etlRun.step = "extract" /\ Wanted = {}
  /\ mark' = etlRun.start /\ markEnd' = etlNow + MarkLife
  /\ etlRun' = NoRun /\ forgiven' = Passed
  /\ UNCHANGED <<etlNow, text, updatedAt, embedding, found, edits, etlFaults>>

\* Elasticsearch or embedding-service gives up, Redis does not take the mark, or the
\* worker stops: what was loaded stays, and so does the mark, unless set had deleted it.
RunFails ==
  /\ etlRun # NoRun /\ EtlFault
  /\ etlRun' = NoRun
  /\ \/ UNCHANGED mark
     \/ etlRun.step = "extract" /\ Wanted = {} /\ mark' = 0
  /\ UNCHANGED <<etlNow, text, updatedAt, embedding, found, markEnd, forgiven, edits>>

EtlTick ==
  /\ etlNow < MaxEtlTime /\ etlNow' = etlNow + 1
  /\ mark' = IF markEnd <= etlNow + 1 THEN 0 ELSE mark
  /\ UNCHANGED <<text, updatedAt, embedding, found, markEnd, etlRun, forgiven, edits, etlFaults>>

Next ==
  \/ \E f \in Doc : Edit(f)
  \/ Refresh
  \/ Start \/ StartBlind \/ Extract \/ Finish \/ RunFails
  \/ \E failed \in SUBSET Doc : Load(failed)
  \/ EtlTick

-----------------------------------------------------------------------------
(* Properties.                                                              *)

TypeOK ==
  /\ etlNow \in 1 .. MaxEtlTime
  /\ text \in [Doc -> 1 .. MaxEdits + 1] /\ embedding \in [Doc -> 0 .. MaxEdits + 1]
  /\ updatedAt \in [Doc -> 1 .. MaxEtlTime]
  /\ found \in [text : [Doc -> 1 .. MaxEdits + 1], at : [Doc -> 1 .. MaxEtlTime],
                emb : [Doc -> 0 .. MaxEdits + 1]]
  /\ mark \in 0 .. MaxEtlTime /\ markEnd \in Nat
  /\ etlRun.step \in {"none", "extract", "load"} /\ etlRun.page \subseteq Doc
  /\ forgiven \subseteq Doc

\* Between the runs every film whose embedding is not that of its text is one that the
\* next run takes, unless its last change came while its page was under way or was not yet
\* found by the search that passed it, the bulk update refused it, or the mark had gone:
\* paging over an order that the run itself changes, failed runs and changes during a run
\* lose nothing else.
NotForgotten ==
  etlRun = NoRun /\ mark # 0 =>
    \A f \in Doc \ forgiven : Stale(f) => updatedAt[f] > mark
=============================================================================
