------------------------------- MODULE Harness -------------------------------
(***************************************************************************)
(* The two benchmark runners, the sweep and the ablations of the harness   *)
(* (src/src/benchmarks/) and the analyzer they report to.  Each runs on    *)
(* its own: they share results, which each module abstracts, and no state. *)
(***************************************************************************)
EXTENDS LongBench, ParetoAnalyzer, StressTests, Experiment, Ablation

\* LongBench: tasks without samples do not enter the aggregate.  StressTests: the
\* latencies of a result are those of the requests counted as successful, a guarded
\* workload keeps its concurrency, and, sessions aside, the error rate is the share of
\* what did not succeed.  Experiment: the sweep is complete, though override calls
\* fail, scores that are paired are of runs under the same budget and level, and a
\* report covers the experiments before it too.  Ablation: two policies scored on the
\* same tasks are compared task by task, and nothing is significant that did not differ.
\* ParetoAnalyzer: the report counts every result once.
HarnessTrue ==
  /\ AggregateInRange /\ ReportAddsUp
  /\ LatenciesTrue /\ GuardHolds /\ (test # "long_chat_session" => ErrorRateTrue)
  /\ MatrixComplete /\ PairsAligned /\ ReportCoversAll
  /\ ComparisonTrue
=============================================================================
