----------------------------- MODULE Experiment -----------------------------
(***************************************************************************)
(* BenchmarkHarness.run_experiment (src/src/benchmarks/harness.py) against *)
(* the serving API: the sweep over policies, memory budgets and levels of  *)
(* concurrency, the override call before each pair, and the report of the  *)
(* one ParetoAnalyzer that all experiments of the suite share.             *)
(*                                                                         *)
(* A LongBench run is its outcome: a quality, and the GPU memory it took,  *)
(* which only the server knows.  compute_aggregate, the calls and their    *)
(* order are the subject of LongBench.                                     *)
(***************************************************************************)
EXTENDS Counting, Pareto

CONSTANTS Suite,        \* the experiments run, each a record [policies, budgets, levels]
          Launched,     \* the policy the server was started with
          Qualities, Peaks

\* A level comes from the configuration, or is 1, when none is given; a policy is
\* named once.
ASSUME SuiteAssumption ==
  /\ Qualities \subseteq Nat /\ Peaks \subseteq Nat
  /\ Suite \in Seq([policies : Seq(STRING), budgets : Seq(Nat), levels : Seq(Nat) \ {<<>>}])
  /\ \A k \in DOMAIN Suite : IsInjective(Suite[k].policies)

VARIABLES experiment,   \* the number of the experiment being run
          at,           \* <<policy, budget, level>>, as positions in its lists
          switched,     \* whether the override call for this pair was made
          active,       \* the server's policy
          benchmarks,   \* by experiment: its benchmark_results
          points,       \* what the analyzer was given
          reports       \* by experiment: its comparison_report

sweepVars == <<experiment, at, switched, active, benchmarks, points, reports>>

Sweeping == experiment \in DOMAIN Suite
Plan == Suite[experiment]

SweepInit ==
  /\ experiment = 1 /\ at = <<1, 1, 1>> /\ switched = FALSE /\ active = Launched
  /\ benchmarks = [k \in DOMAIN Suite |-> <<>>] /\ points = <<>> /\ reports = <<>>

-----------------------------------------------------------------------------
\* The innermost loop that is not at its end advances, those inside it restart;
\* past the last policy at[1] is out of range.
NextAt ==
  IF at[3] < Len(Plan.levels) THEN <<at[1], at[2], at[3] + 1>>
  ELSE IF at[2] < Len(Plan.budgets) THEN <<at[1], at[2] + 1, 1>>
  ELSE <<at[1] + 1, 1, 1>>

InSweep == Sweeping /\ at[1] \in DOMAIN Plan.policies /\ Plan.budgets # <<>>

\* POST /v1/policy/override.  The handler answers 503 as long as there is no
\* policy engine, and none is made; with one it would answer and switch nothing.
OverrideAnswered == UNCHANGED active

Faulty_OverrideLost == at' = NextAt /\ UNCHANGED switched   \* the pair is given up
OverrideLost == switched' = TRUE /\ UNCHANGED at

\* _set_policy looks at no status and swallows every exception.
SetPolicy ==
  /\ InSweep /\ ~switched
  /\ \/ OverrideAnswered /\ switched' = TRUE /\ UNCHANGED at
     \/ OverrideLost /\ UNCHANGED active
  /\ UNCHANGED <<experiment, benchmarks, points, reports>>

\* The result of a run; _extract_gpu_mem finds no system_metrics in it.
Benchmark(quality, peak) ==
  [policy |-> Plan.policies[at[1]], budget |-> Plan.budgets[at[2]],
   level |-> Plan.levels[at[3]], quality |-> quality, under |-> active, peak |-> peak]
Point(b) == [policy |-> b.policy, x |-> 0, y |-> b.quality]

RunBenchmark ==
  /\ InSweep /\ switched
  /\ \E quality \in Qualities, peak \in Peaks :
       LET b == Benchmark(quality, peak)
       IN /\ benchmarks' = [benchmarks EXCEPT ![experiment] = Append(@, b)]
          /\ points' = Append(points, Point(b))
  /\ at' = NextAt /\ switched' = (at[3] < Len(Plan.levels))
  /\ UNCHANGED <<experiment, active, reports>>

Faulty_AfterReport == points' = <<>>      \* each experiment starts afresh
AfterReport == UNCHANGED points

FinishExperiment ==
  /\ Sweeping /\ ~InSweep
  /\ reports' = Append(reports, Report(points)) /\ AfterReport
  /\ experiment' = experiment + 1 /\ at' = <<1, 1, 1>> /\ switched' = FALSE
  /\ UNCHANGED <<active, benchmarks>>

SweepNext == SetPolicy \/ RunBenchmark \/ FinishExperiment

SweepSpec == SweepInit /\ [][SweepNext]_sweepVars

-----------------------------------------------------------------------------
\* compare_policies pairs the scores of two policies by their place among the runs of
\* their policy.
RunsOf(policy, k) == {n \in DOMAIN benchmarks[k] : benchmarks[k][n].policy = policy}
PlaceOf(n, k) == Place(n, RunsOf(benchmarks[k][n].policy, k))

-----------------------------------------------------------------------------
Ended(k) == k < experiment

\* A finished experiment has run every combination of its policies, budgets and
\* levels once and nothing else, even when override calls failed.
MatrixComplete ==
  \A k \in DOMAIN Suite : Ended(k) =>
    LET plan == Suite[k]
    IN /\ {<<benchmarks[k][n].policy, benchmarks[k][n].budget, benchmarks[k][n].level>> :
            n \in DOMAIN benchmarks[k]}
            = Range(plan.policies) \X Range(plan.budgets) \X Range(plan.levels)
       /\ Len(benchmarks[k]) = Len(plan.policies) * Len(plan.budgets) * Len(plan.levels)

\* The paired tests compare like with like: runs of two policies at the same place
\* were under the same budget and at the same level.
PairsAligned ==
  \A k \in DOMAIN Suite : Ended(k) =>
    \A m, n \in DOMAIN benchmarks[k] : PlaceOf(m, k) = PlaceOf(n, k) =>
      /\ benchmarks[k][m].budget = benchmarks[k][n].budget
      /\ benchmarks[k][m].level = benchmarks[k][n].level

\* "a summary report across all accumulated results": the report of an experiment
\* counts, policy by policy, the runs of the experiments before it as well.
RunsUpTo(k) == UNION {{j} \X DOMAIN benchmarks[j] : j \in 1..k}
PolicyOf(run) == benchmarks[run[1]][run[2]].policy
ReportCoversAll ==
  \A k \in DOMAIN reports :
    /\ reports[k].policies = {PolicyOf(run) : run \in RunsUpTo(k)}
    /\ \A p \in reports[k].policies :
         reports[k].counts[p] = Cardinality({run \in RunsUpTo(k) : PolicyOf(run) = p})

\* A result is labelled with "the policy under test": the one the server ran.
LabelledAsRun ==
  \A k \in DOMAIN Suite : \A n \in DOMAIN benchmarks[k] :
    benchmarks[k][n].policy = benchmarks[k][n].under

\* "Pareto frontier (quality vs. memory)": in the first experiment, a policy with a
\* run of which no other was better in one and as good in the other is named.
FrontierByMemory ==
  reports # <<>> =>
    LET real == [n \in DOMAIN benchmarks[1] |->
                   [policy |-> benchmarks[1][n].policy, x |-> benchmarks[1][n].peak,
                    y |-> benchmarks[1][n].quality]]
    IN reports[1].best = {real[n].policy : n \in Frontier(QualityVsMemory, real)}
=============================================================================
