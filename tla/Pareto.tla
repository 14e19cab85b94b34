------------------------------- MODULE Pareto -------------------------------
(***************************************************************************)
(* ParetoAnalyzer (src/src/evaluators/pareto.py): the results accumulated, *)
(* the frontier of the points none dominates, and the report.              *)
(*                                                                         *)
(* A result keeps its policy and two metrics, x and y, NaN for one that    *)
(* has no value; the axes say for each whether larger is better.           *)
(***************************************************************************)
EXTENDS Integers, Sequences, FiniteSets, SequencesExt, FiniteSetsExt

NaN == -1

Axes == [x : BOOLEAN, y : BOOLEAN]         \* higher_is_better_x, _y
QualityVsMemory == [x |-> FALSE, y |-> TRUE]

AtLeast(higher, a, b) == IF higher THEN a >= b ELSE b >= a

Faulty_Dominates(axes, a, b) == AtLeast(axes.x, a.x, b.x) /\ AtLeast(axes.y, a.y, b.y)
Dominates(axes, a, b) ==
  /\ AtLeast(axes.x, a.x, b.x) /\ AtLeast(axes.y, a.y, b.y)
  /\ ~AtLeast(axes.x, b.x, a.x) \/ ~AtLeast(axes.y, b.y, a.y)

\* dropna: the positions of the results that have both metrics
Kept(results) == {k \in DOMAIN results : results[k].x # NaN /\ results[k].y # NaN}

\* compute_pareto_frontier, as positions in the results
Frontier(axes, results) ==
  {k \in Kept(results) :
     ~\E j \in Kept(results) \ {k} : Dominates(axes, results[j], results[k])}

IsDominated(axes, point, frontier) == \E f \in frontier : Dominates(axes, f, point)

\* The rows of the frontier, by x.  sort_values is not stable, and an empty
\* frame has no column to sort by: it raises.
SortedByX(results, front) ==
  {order \in [1..Cardinality(front) -> front] :
     /\ IsInjective(order)
     /\ \A k \in 1..Cardinality(front) - 1 : results[order[k]].x <= results[order[k + 1]].x}

\* generate_report, without its means
Counted(results, p) == Cardinality({k \in DOMAIN results : results[k].policy = p})

Report(results) ==
  LET front == Frontier(QualityVsMemory, results)
      policies == {results[k].policy : k \in DOMAIN results}
  IN [total |-> Len(results), policies |-> policies, size |-> Cardinality(front),
      best |-> {results[k].policy : k \in front},
      counts |-> [p \in policies |-> Counted(results, p)]]
=============================================================================
