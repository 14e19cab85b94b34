------------------------------ MODULE Ablation ------------------------------
(***************************************************************************)
(* BenchmarkHarness.run_ablation (src/src/benchmarks/harness.py): the base *)
(* policy and its ablations run over the same tasks, and the comparison    *)
(* table StatisticalTester makes of their scores (src/src/evaluators/      *)
(* pareto.py).                                                             *)
(*                                                                         *)
(* A run gives every task a quality, or NoScore when no sample of it could *)
(* be loaded.  Of scipy's paired test only the cases are kept in which its *)
(* answer does not depend on the numbers.                                  *)
(***************************************************************************)
EXTENDS Counting, Integers, Sequences, SequencesExt, FiniteSets

CONSTANTS Tasks,          \* in the order they are run
          Base, Ablations,
          TaskQualities

NoScore == -1

ASSUME AblationAssumption ==
  /\ Tasks \in Seq(STRING) /\ IsInjective(Tasks) /\ TaskQualities \subseteq Nat
  /\ Ablations \in Seq(STRING) /\ Base \in STRING

VARIABLES to_run,         \* the policies whose run is to come
          quality,        \* by policy, of its last run: the quality of every task
          table           \* the comparison table, by policy

ablationVars == <<to_run, quality, table>>

AblationInit == to_run = <<Base>> \o Ablations /\ quality = <<>> /\ table = <<>>

TaskScores == [DOMAIN Tasks -> TaskQualities \union {NoScore}]

\* The override call may fail, unnoticed; a result is kept under the policy's name.
RunPolicy ==
  /\ to_run # <<>> /\ to_run' = Tail(to_run)
  /\ \E scores \in TaskScores :
       quality' = [p \in DOMAIN quality \union {Head(to_run)} |->
                     IF p = Head(to_run) THEN scores ELSE quality[p]]
  /\ UNCHANGED table

-----------------------------------------------------------------------------
\* What is compared of a run: the tasks that have a score, in their order.
Scored(p) == {n \in DOMAIN Tasks : quality[p][n] # NoScore}

\* format_comparison_table cuts both lists to the shorter and pairs by position.
Pairs(p) ==
  {pair \in Scored(p) \X Scored(Base) :
     Place(pair[1], Scored(p)) = Place(pair[2], Scored(Base))}

\* ttest_rel has no p-value of fewer than two pairs or of pairs that are all equal; one
\* of 0 when all differ alike; else it is scipy's.
Differences(p) == {quality[p][pair[1]] - quality[Base][pair[2]] : pair \in Pairs(p)}
Significances(p) ==
  IF Cardinality(Pairs(p)) < 2 \/ Differences(p) = {0} THEN {FALSE}
  ELSE IF Cardinality(Differences(p)) = 1 THEN {TRUE}
  ELSE BOOLEAN

Compared(p) == p # Base /\ Scored(Base) # {}

FormatTable ==
  /\ to_run = <<>> /\ table = <<>>
  /\ \E significant \in [DOMAIN quality -> BOOLEAN] :
       /\ \A p \in DOMAIN quality :
            significant[p] \in IF Compared(p) THEN Significances(p) ELSE {FALSE}
       /\ table' = [p \in DOMAIN quality |->
                      [n |-> Cardinality(Scored(p)), pairs |-> IF Compared(p) THEN Pairs(p) ELSE {},
                       significant |-> significant[p]]]
  /\ UNCHANGED <<to_run, quality>>

AblationNext == RunPolicy \/ FormatTable

AblationSpec == AblationInit /\ [][AblationNext]_ablationVars

-----------------------------------------------------------------------------
Tabled == table # <<>>
PairsOneTask(p) == \A pair \in table[p].pairs : pair[1] = pair[2]

\* The table has a row for every policy; when an ablation and the base could be scored
\* on the same tasks, they are compared on each of them; and nothing is significant
\* that scored as the base did, or on fewer than two tasks of both.
ComparisonTrue ==
  Tabled =>
    /\ DOMAIN table = {Base} \union ToSet(Ablations)
    /\ \A p \in DOMAIN table \ {Base} :
         /\ Scored(p) = Scored(Base) => /\ Cardinality(table[p].pairs) = table[p].n
                                        /\ PairsOneTask(p)
         /\ table[p].significant => quality[p] # quality[Base]
         /\ table[p].n < 2 \/ table[Base].n < 2 => ~table[p].significant

\* "Paired statistical tests": a pair is the scores of two policies on one task.
PairedByTask == Tabled => \A p \in DOMAIN table : PairsOneTask(p)
=============================================================================
