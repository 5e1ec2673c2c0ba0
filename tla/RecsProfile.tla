----------------------------- MODULE RecsProfile -----------------------------
(***************************************************************************)
(* recs-profile: events of content-actions-service come through a topic of  *)
(* Kafka, and each leaves the embedding of its film with the user.          *)
(*                                                                          *)
(* A batch is handled concurrently over one database session, offsets are   *)
(* committed by a timer, and what fails in a handler is only logged. Events *)
(* are numbered by their offset.                                            *)
(***************************************************************************)
EXTENDS Integers, Sequences, FiniteSets

CONSTANTS
  RecUser,
  CountRecs,     \* count_rec_for_user
  MaxEvents,     \* bound on the events
  MaxBatch,      \* max_messages_per_batch
  MaxRecFaults   \* bound on restarts and failures

VARIABLES
  topic,      \* whose event is at an offset
  position,   \* the offset the consumer reads next
  committed,  \* the offset it starts at after a restart
  handling,   \* the step of each event of the batch
  recs,       \* the table user_recs: events of a user, the oldest first
  view,       \* the same in the open transaction of the session
  handled,    \* events that have left a row
  dropped,    \* events that a failure or an overlap may have cost their row
  undone,     \* deletions that a rollback undid before their handler committed
  recFaults

recVars == <<topic, position, committed, handling, recs, view, handled, dropped, undone, recFaults>>

Event == 1 .. MaxEvents
Batch == {e \in Event : handling[e] # "none"}

Init ==
  /\ topic = << >> /\ position = 1 /\ committed = 1
  /\ handling = [e \in Event |-> "none"]
  /\ recs = [u \in RecUser |-> << >>] /\ view = recs
  /\ handled = {} /\ dropped = {} /\ undone = 0 /\ recFaults = 0

RecFault == recFaults < MaxRecFaults /\ recFaults' = recFaults + 1

InSession == {"select", "add", "commit", "close"}

\* The transaction of e is undone, with what the other handlers wrote in it.
Rollback(e) ==
  /\ view' = recs
  /\ undone' = undone + Cardinality({f \in Batch \ {e} : handling[f] = "add"})

Step(e, step) == handling' = [handling EXCEPT ![e] = step]

-----------------------------------------------------------------------------
(* content-actions-service: a background task that nobody waits for.        *)

Push(u) ==
  /\ Len(topic) < MaxEvents
  /\ topic' = Append(topic, u)
  /\ UNCHANGED <<position, committed, handling, recs, view, handled, dropped, undone, recFaults>>

-----------------------------------------------------------------------------
(* The consumer.                                                            *)

\* Mutation: the position moves by a whole batch, whatever was there.
Poll_whole(n) ==
  /\ Batch = {} /\ n \in 1 .. MaxBatch /\ position + n - 1 <= Len(topic)
  /\ handling' = [e \in Event |-> IF e \in position .. position + n - 1 THEN "fetch" ELSE "none"]
  /\ position' = position + MaxBatch
  /\ UNCHANGED <<topic, committed, recs, view, handled, dropped, undone, recFaults>>

Poll(n) ==
  /\ Batch = {} /\ n \in 1 .. MaxBatch /\ position + n - 1 <= Len(topic)
  /\ handling' = [e \in Event |-> IF e \in position .. position + n - 1 THEN "fetch" ELSE "none"]
  /\ position' = position + n
  /\ UNCHANGED <<topic, committed, recs, view, handled, dropped, undone, recFaults>>

\* Every five seconds, also while the batch is handled.
AutoCommit ==
  /\ committed # position /\ committed' = position
  /\ UNCHANGED <<topic, position, handling, recs, view, handled, dropped, undone, recFaults>>

\* gather has seen the end of every handler.
BatchDone ==
  /\ Batch # {} /\ \A e \in Batch : handling[e] = "done"
  /\ handling' = [e \in Event |-> "none"]
  /\ UNCHANGED <<topic, position, committed, recs, view, handled, dropped, undone, recFaults>>

\* The batch is gone: what was committed is not read again.
RecRestart ==
  /\ RecFault
  /\ position' = committed
  /\ dropped' = dropped \cup {e \in Batch : e < committed /\ handling[e] # "done"}
  /\ handling' = [e \in Event |-> "none"]
  /\ view' = recs
  /\ UNCHANGED <<topic, committed, recs, handled, undone>>

-----------------------------------------------------------------------------
(* A handler: the film from async-api, its embedding, and the row. A score   *)
(* that is not high is treated like a high one.                              *)

\* Rows that a rollback costs the handlers that have flushed them.
Flushed == {e \in Batch : handling[e] = "commit"}

FetchFilms(e) ==
  /\ handling[e] = "fetch"
  /\ Step(e, "embed")
  /\ UNCHANGED <<topic, position, committed, recs, view, handled, dropped, undone, recFaults>>

FetchEmbedding(e) ==
  /\ handling[e] = "embed"
  /\ Step(e, "select")
  /\ UNCHANGED <<topic, position, committed, recs, view, handled, dropped, undone, recFaults>>

\* There is no film or no embedding: the exception is logged.
FetchFails(e) ==
  /\ handling[e] \in {"fetch", "embed"} /\ RecFault
  /\ Step(e, "done")
  /\ dropped' = dropped \cup {e}
  /\ UNCHANGED <<topic, position, committed, recs, view, handled, undone>>

\* Mutation: nothing is deleted.
Surplus_none(rows) == 0

\* The rows beyond the newest CountRecs - 1.
Surplus(rows) == IF Len(rows) >= CountRecs THEN Len(rows) - (CountRecs - 1) ELSE 0

\* A row that another handler has flushed, and not yet committed, can be among them.
Select(e) ==
  /\ handling[e] = "select"
  /\ LET rows == view[topic[e]]
     IN  /\ view' = [view EXCEPT ![topic[e]] = SubSeq(rows, Surplus(rows) + 1, Len(rows))]
         /\ dropped' = dropped \cup ({rows[i] : i \in 1 .. Surplus(rows)} \ handled)
  /\ Step(e, "add")
  /\ UNCHANGED <<topic, position, committed, recs, handled, undone, recFaults>>

Add(e) ==
  /\ handling[e] = "add"
  /\ view' = [view EXCEPT ![topic[e]] = Append(@, e)]
  /\ Step(e, "commit")
  /\ UNCHANGED <<topic, position, committed, recs, handled, dropped, undone, recFaults>>

\* What the other handlers have written is committed with it.
Commit(e) ==
  /\ handling[e] = "commit"
  /\ recs' = view
  /\ handled' = handled \cup UNION {{view[u][i] : i \in 1 .. Len(view[u])} : u \in RecUser}
  /\ Step(e, "close")
  /\ UNCHANGED <<topic, position, committed, view, dropped, undone, recFaults>>

\* The end of the context manager closes the session under the other handlers.
Close(e) ==
  /\ handling[e] = "close"
  /\ Rollback(e)
  /\ dropped' = dropped \cup (Flushed \ handled)
  /\ Step(e, "done")
  /\ UNCHANGED <<topic, position, committed, recs, handled, recFaults>>

\* The database fails, or SQLAlchemy refuses a call while another one is under way in the
\* session: the handler rolls back and tries again, or gives up.
SessionFails(e) ==
  /\ handling[e] \in {"select", "add", "commit"} /\ RecFault
  /\ Rollback(e)
  /\ \/ Step(e, "select") /\ dropped' = dropped \cup ((Flushed \ {e}) \ handled)
     \/ Step(e, "done")   /\ dropped' = dropped \cup {e} \cup (Flushed \ handled)
  /\ UNCHANGED <<topic, position, committed, recs, handled>>

-----------------------------------------------------------------------------

\* What the API answers for a user: committed rows, with their embeddings.
FetchUserRecs(u) == recs[u]

Next ==
  \/ \E u \in RecUser : Push(u)
  \/ \E n \in 1 .. MaxBatch : Poll(n)
  \/ AutoCommit \/ BatchDone \/ RecRestart
  \/ \E e \in Event : \/ FetchFilms(e) \/ FetchEmbedding(e) \/ FetchFails(e)
                      \/ Select(e) \/ Add(e) \/ Commit(e) \/ Close(e) \/ SessionFails(e)

-----------------------------------------------------------------------------
(* Properties.                                                              *)

TypeOK ==
  /\ topic \in Seq(RecUser) /\ Len(topic) <= MaxEvents
  /\ position \in 1 .. MaxEvents + 1 /\ committed \in 1 .. position
  /\ handling \in [Event -> {"none", "fetch", "embed", "done"} \cup InSession]
  /\ recs \in [RecUser -> Seq(Event)] /\ view \in [RecUser -> Seq(Event)]
  /\ handled \subseteq Event /\ dropped \subseteq Event /\ undone \in Nat

\* The handlers of a batch that meet in the session leave a user less than a batch of
\* rows more than count_rec_for_user, and a row for each deletion that was rolled back
\* by another handler: without these no history of events and restarts exceeds it.
RecsBounded ==
  \A u \in RecUser : Len(FetchUserRecs(u)) <= CountRecs + (MaxBatch - 1) + undone

\* Every event is still to be read, in the batch, has left a row, or has met a failure
\* or another handler in the session.
EventsKept ==
  \A e \in 1 .. Len(topic) :
    e >= position \/ e \in Batch \/ e \in handled \/ e \in dropped

=============================================================================
