------------------------------ MODULE MetricEtl ------------------------------
(***************************************************************************)
(* metric-service: the API puts metrics into Kafka, and the ETL moves them  *)
(* to ClickHouse batch by batch.                                            *)
(*                                                                          *)
(* The ETL commits by hand, after a batch was loaded; what it commits is    *)
(* the position of the consumer, wherever earlier batches have gone.        *)
(***************************************************************************)
EXTENDS Integers, Sequences, FiniteSets

CONSTANTS
  MaxMetrics,      \* bound on the metrics
  BatchSize,
  MaxMetricFaults  \* bound on restarts, and on failures of Kafka and ClickHouse

VARIABLES
  metrics,    \* what Kafka holds: a row, one that is not valid, or no JSON
  reading,    \* the offset that poll returns next
  consumed,   \* the committed offset
  inBatch,    \* offsets of the present batch
  etlStep,
  loaded,     \* how often a metric was inserted
  skipped,    \* metrics of batches that could not be loaded
  repeats,    \* restarts, and inserts whose answer was lost
  metricFaults

metricVars == <<metrics, reading, consumed, inBatch, etlStep, loaded, skipped, repeats,
                metricFaults>>

Quality == {"valid", "invalid", "broken"}
Offset  == 1 .. MaxMetrics

Init ==
  /\ metrics = << >> /\ reading = 1 /\ consumed = 1
  /\ inBatch = {} /\ etlStep = "poll"
  /\ loaded = [o \in Offset |-> 0]
  /\ skipped = {} /\ repeats = 0 /\ metricFaults = 0

MetricFault == metricFaults < MaxMetricFaults /\ metricFaults' = metricFaults + 1

Rows == {o \in inBatch : metrics[o] # "broken"}

-----------------------------------------------------------------------------
(* The API: the answer to the client is the same whether Kafka took it.     *)

SendMessage(q) ==
  Len(metrics) < MaxMetrics /\ metrics' = Append(metrics, q)

Push(q) ==
  /\ SendMessage(q)
  /\ UNCHANGED <<reading, consumed, inBatch, etlStep, loaded, skipped, repeats, metricFaults>>

-----------------------------------------------------------------------------
(* The ETL.                                                                 *)

Polled(n) ==
  /\ etlStep = "poll" /\ n \in 1 .. BatchSize /\ reading + n - 1 <= Len(metrics)
  /\ inBatch' = reading .. reading + n - 1
  /\ reading' = reading + n
  /\ etlStep' = IF \A o \in inBatch' : metrics[o] = "broken" THEN "poll" ELSE "load"

\* Mutation: enable_auto_commit.
Extract_commits(n) ==
  /\ Polled(n) /\ consumed' = reading'
  /\ UNCHANGED <<metrics, loaded, skipped, repeats, metricFaults>>

\* What is no JSON is left out, and a batch of nothing else is no batch.
Extract(n) ==
  /\ Polled(n)
  /\ UNCHANGED <<metrics, consumed, loaded, skipped, repeats, metricFaults>>

\* A metric that is not valid leaves a hole in the batch, which ClickHouse refuses.
Loadable == \A o \in Rows : metrics[o] = "valid"

InsertRows == loaded' = [o \in Offset |-> loaded[o] + IF o \in Rows THEN 1 ELSE 0]

Load ==
  /\ etlStep = "load" /\ Loadable
  /\ InsertRows /\ etlStep' = "commit"
  /\ UNCHANGED <<metrics, reading, consumed, inBatch, skipped, repeats, metricFaults>>

\* The insert is repeated: it was done, and its answer lost.
LoadLate ==
  /\ etlStep = "load" /\ Loadable /\ MetricFault
  /\ InsertRows /\ repeats' = repeats + 1
  /\ UNCHANGED <<metrics, reading, consumed, inBatch, etlStep, skipped>>

\* The attempts are used up: the batch is left, and the next one polled.
LoadFails ==
  /\ etlStep = "load"
  /\ IF Loadable THEN MetricFault ELSE UNCHANGED metricFaults
  /\ skipped' = skipped \cup Rows
  /\ etlStep' = "poll"
  /\ UNCHANGED <<metrics, reading, consumed, inBatch, loaded, repeats>>

\* Everything before the position, with the batches that were left.
Commit ==
  /\ etlStep = "commit"
  /\ consumed' = reading /\ etlStep' = "poll"
  /\ UNCHANGED <<metrics, reading, inBatch, loaded, skipped, repeats, metricFaults>>

CommitFails ==
  /\ etlStep = "commit" /\ MetricFault
  /\ etlStep' = "poll"
  /\ UNCHANGED <<metrics, reading, consumed, inBatch, loaded, skipped, repeats>>

EtlRestart ==
  /\ MetricFault
  /\ reading' = consumed /\ inBatch' = {} /\ etlStep' = "poll"
  /\ repeats' = repeats + 1
  /\ UNCHANGED <<metrics, consumed, loaded, skipped>>

Next ==
  \/ \E q \in Quality : Push(q)
  \/ \E n \in 1 .. BatchSize : Extract(n)
  \/ Load \/ LoadLate \/ LoadFails
  \/ Commit \/ CommitFails \/ EtlRestart

-----------------------------------------------------------------------------
(* Properties.                                                              *)

TypeOK ==
  /\ metrics \in Seq(Quality) /\ Len(metrics) <= MaxMetrics
  /\ consumed \in 1 .. MaxMetrics + 1 /\ reading \in consumed .. MaxMetrics + 1
  /\ inBatch \subseteq Offset /\ etlStep \in {"poll", "load", "commit"}
  /\ loaded \in [Offset -> Nat] /\ skipped \subseteq Offset /\ repeats \in Nat

\* Whatever is behind the committed offset is in ClickHouse, unless it is no JSON or its
\* batch was left; a row is there more than once only after a restart or a lost answer;
\* and a batch is left without a failure only next to a metric that is not valid.
MetricsLoaded ==
  \A o \in 1 .. Len(metrics) :
    /\ o < consumed /\ metrics[o] # "broken" => loaded[o] > 0 \/ o \in skipped
    /\ loaded[o] <= 1 + repeats
    /\ metricFaults = 0 /\ o \in skipped =>
         \E p \in o - BatchSize + 1 .. o + BatchSize - 1 :
           p \in 1 .. Len(metrics) /\ metrics[p] = "invalid"
=============================================================================
