--------------------------- MODULE ParetoAnalyzer ---------------------------
(***************************************************************************)
(* A ParetoAnalyzer on its own: any results are added one after the other, *)
(* and frontiers and reports asked for in between, for either direction of *)
(* both axes.  Asking changes nothing, so the properties ask.              *)
(***************************************************************************)
EXTENDS Counting, Pareto

CONSTANTS PolicyNames, Values, MaxResults

ASSUME AnalyzerAssumption == Values \subseteq Nat /\ MaxResults \in Nat

VARIABLE results    \* _results

AnalyzerInit == results = <<>>

Points == [policy : PolicyNames, x : Values \cup {NaN}, y : Values \cup {NaN}]

AddResult(p) == Len(results) < MaxResults /\ results' = Append(results, p)

AnalyzerNext == \E p \in Points : AddResult(p)

AnalyzerSpec == AnalyzerInit /\ [][AnalyzerNext]_results

-----------------------------------------------------------------------------
FrontPoints(axes) == {results[k] : k \in Frontier(axes, results)}

\* A result is off the frontier exactly when is_dominated says so of it and the
\* frontier alone: what another dominated point dominates, a frontier point does.
FrontierDecides ==
  \A axes \in Axes : \A k \in Kept(results) :
    k \notin Frontier(axes, results) <=> IsDominated(axes, results[k], FrontPoints(axes))

\* With a result that has both metrics there is a frontier to sort, so the sort
\* that an empty frame would break is not reached with one.
FrontierExists ==
  Kept(results) # {} => \A axes \in Axes : Frontier(axes, results) # {}

\* Sorted by memory the frontier never loses quality, in whatever order rows of
\* equal memory come, and two rows of equal memory have equal quality.
FrontierTradesOff ==
  LET front == Frontier(QualityVsMemory, results)
  IN \A order \in SortedByX(results, front) : \A j, k \in DOMAIN order :
       j < k => /\ results[order[j]].y <= results[order[k]].y
                /\ results[order[j]].x = results[order[k]].x
                     => results[order[j]].y = results[order[k]].y

\* Frontiers are exact, not empty, and trade memory for quality.
FrontierTrue == FrontierDecides /\ FrontierExists /\ FrontierTradesOff

\* The report accounts for every result once: the per-policy counts add up to the
\* total, and every policy on the frontier has results.
ReportAddsUp ==
  LET report == Report(results)
  IN /\ report.total = SumOf(report.counts)
     /\ report.best \subseteq report.policies /\ report.size <= report.total
=============================================================================
