----------------------------- MODULE MCServices -----------------------------
(* Instances of the services around the notifications for TLC. None of them   *)
(* shares state with another one: a behaviour follows the one in focus while  *)
(* the others rest. The catalogue is extended, since its theorems are about   *)
(* the same definitions; the others are instances.                            *)
EXTENDS Catalogue, Sequences

CONSTANTS
  Mail, MaxMailFaults,
  RecUser, CountRecs, MaxEvents, MaxBatch, MaxRecFaults,
  Path, Author, Visitor, MaxVisits, MaxLinkFaults,
  Order, MaxTries,
  MaxMetrics, BatchSize, MaxMetricFaults,
  NumFilms, PageSize, MarkLife, MaxEtlTime, MaxEdits, MaxEtlFaults,
  Call, Limit, Window, LeakInterval, MaxClock, MaxRedisFaults

ASSUME MailConstants == None \notin Mail /\ MaxMailFaults \in Nat

ASSUME RecConstants ==
  /\ CountRecs \in Nat \ {0} /\ MaxBatch \in Nat \ {0}
  /\ MaxEvents \in Nat /\ MaxRecFaults \in Nat

ASSUME LinkConstants ==
  /\ None \notin Path /\ None \notin Author
  /\ MaxVisits \in Nat /\ MaxLinkFaults \in Nat

ASSUME OrderConstants == MaxTries \in Nat \ {0}

ASSUME MetricConstants ==
  /\ MaxMetrics \in Nat /\ BatchSize \in Nat \ {0} /\ MaxMetricFaults \in Nat

ASSUME EtlConstants ==
  /\ NumFilms \in Nat /\ PageSize \in Nat \ {0} /\ MarkLife \in Nat
  /\ MaxEtlTime \in Nat \ {0} /\ MaxEdits \in Nat /\ MaxEtlFaults \in Nat

\* The call reaches Redis a unit of the clock after it was made at the latest, and a unit
\* is short against the minute of the limits.
ASSUME LimitConstants ==
  /\ IsFiniteSet(Call) /\ Limit \in Nat /\ Window \in Nat \ (0 .. 2) /\ LeakInterval \in Nat
  /\ MaxClock \in Nat /\ MaxRedisFaults \in Nat

VARIABLES
  focus,
  waiting, settled, current, mailStep, consuming, mailed, noting, noted, told, lapses, mailFaults,
  topic, position, committed, handling, recs, view, handled, dropped, undone, recFaults,
  link, uses, archived, expired, writing, visit, redirected, unanswered, visits, linkFaults,
  kind, stage, tries, written, late,
  metrics, reading, consumed, inBatch, etlStep, loaded, skipped, repeats, metricFaults,
  etlNow, text, updatedAt, embedding, found, mark, markEnd, etlRun, forgiven, edits, etlFaults,
  clock, limiter, counter, bucket, call, passed, blind, raced, outrun, redisFaults

mailVars   == <<waiting, settled, current, mailStep, consuming, mailed, noting, noted, told,
                lapses, mailFaults>>
recVars    == <<topic, position, committed, handling, recs, view, handled, dropped, undone,
                recFaults>>
linkVars   == <<link, uses, archived, expired, writing, visit, redirected, unanswered,
                visits, linkFaults>>
orderVars  == <<kind, stage, tries, written, late>>
metricVars == <<metrics, reading, consumed, inBatch, etlStep, loaded, skipped, repeats,
                metricFaults>>
etlVars    == <<etlNow, text, updatedAt, embedding, found, mark, markEnd, etlRun, forgiven,
                edits, etlFaults>>
limitVars  == <<clock, limiter, counter, bucket, call, passed, blind, raced, outrun,
                redisFaults>>

Email   == INSTANCE EmailSender
Recs    == INSTANCE RecsProfile
Links   == INSTANCE ShortLinks
Orders  == INSTANCE EventGenerator
Metrics == INSTANCE MetricEtl
Etl     == INSTANCE EmbeddingEtl
Limits  == INSTANCE RateLimiter

\* What the services that are not in focus start with, where there is a choice.
MCInit ==
  /\ focus \in {"mail", "recs", "links", "orders", "metrics", "etl", "limits", "films"}
  /\ Email!Init
  /\ Recs!Init
  /\ Links!Init
  /\ Orders!Init
  /\ Metrics!Init
  /\ Etl!Init
  /\ Limits!Init
  /\ Init
  /\ focus # "orders" => kind = [o \in Order |-> "weekly"]
  /\ focus # "etl"    => embedding = [f \in 1 .. NumFilms |-> 0]
  /\ focus # "limits" => limiter = "counter"
  /\ focus # "films"  => filmType = [f \in Film |-> "FREE"]

Rest ==
  /\ UNCHANGED focus
  /\ IF focus = "mail"    THEN TRUE ELSE UNCHANGED mailVars
  /\ IF focus = "recs"    THEN TRUE ELSE UNCHANGED recVars
  /\ IF focus = "links"   THEN TRUE ELSE UNCHANGED linkVars
  /\ IF focus = "orders"  THEN TRUE ELSE UNCHANGED orderVars
  /\ IF focus = "metrics" THEN TRUE ELSE UNCHANGED metricVars
  /\ IF focus = "etl"     THEN TRUE ELSE UNCHANGED etlVars
  /\ IF focus = "limits"  THEN TRUE ELSE UNCHANGED limitVars
  /\ IF focus = "films"   THEN TRUE ELSE UNCHANGED catVars

MCNext ==
  \/ focus = "mail"    /\ Email!Next   /\ Rest
  \/ focus = "recs"    /\ Recs!Next    /\ Rest
  \/ focus = "links"   /\ Links!Next   /\ Rest
  \/ focus = "orders"  /\ Orders!Next  /\ Rest
  \/ focus = "metrics" /\ Metrics!Next /\ Rest
  \/ focus = "etl"     /\ Etl!Next     /\ Rest
  \/ focus = "limits"  /\ Limits!Next  /\ Rest
  \/ focus = "films"   /\ Next         /\ Rest

mcVars == <<focus, mailVars, recVars, linkVars, orderVars, metricVars, etlVars, limitVars,
            catVars>>

MCSpec == MCInit /\ [][MCNext]_mcVars

(* The properties of a service, in the behaviours that have it in focus: in    *)
(* the others it stays where one of these starts. Those of the catalogue,      *)
(* ShownIsAllowed and RestrictionTakesHold, hold where it stays, too.          *)

\* A second mail only when the note of the first was not made, not read or has expired.
MailedBounded == focus = "mail" => Email!MailedBounded

\* What notification-service is told is true, and no message disappears.
MailReported == focus = "mail" => Email!MailReported

\* A user keeps a bounded number of embeddings.
RecsBounded == focus = "recs" => Recs!RecsBounded

\* An event leaves a row unless a failure or an overlap took it.
EventsKept == focus = "recs" => Recs!EventsKept

\* A path leads where it was made for, and every visit counts.
LinksAgree == focus = "links" => Links!LinksAgree

\* An order is written as often as its answers say, and not without end.
OneOrderOneMailing == focus = "orders" => Orders!OneOrderOneMailing

\* What is behind the committed offset is in ClickHouse.
MetricsLoaded == focus = "metrics" => Metrics!MetricsLoaded

\* A stale embedding is one that the next run takes.
NotForgotten == focus = "etl" => Etl!NotForgotten

\* Calls beyond the limits pass only in the named gaps.
LimitsHold == focus = "limits" => Limits!LimitsHold
=============================================================================
