-------------------------- MODULE ImportanceLabels --------------------------
(***************************************************************************)
(* How important a block is: ImportanceScorer's score of a live block and  *)
(* its labels "attention_mass" and "combined" of the records of a trace    *)
(* (src/src/feature_engineering/importance_scorer.py), and the keep labels *)
(* made of them (src/src/trainers/label_generator.py).  The label          *)
(* "future_reuse" is the subject of TraceLabels.                           *)
(*                                                                         *)
(* Signals are in tenths, scores in thousandths, the labels of a trace     *)
(* over the denominator its own maxima give.  A behaviour writes a trace.  *)
(***************************************************************************)
EXTENDS Counting, Sequences

CONSTANTS Attentions,     \* averages and maxima of attention, in tenths
          Counts,         \* access counts
          MaxScored      \* bound: length of a trace

ASSUME ScoresAssumption ==
  /\ Attentions \subseteq Nat /\ Counts \subseteq Nat /\ MaxScored \in Nat

VARIABLES scored

Record(avg, max, count, prefix, quantised) ==
  [avg |-> avg, max |-> max, count |-> count, prefix |-> prefix, quantised |-> quantised]

LabelsInit == scored = <<>>

LabelsNext ==
  /\ Len(scored) < MaxScored
  /\ \E avg, max \in Attentions, count \in Counts, prefix, quantised \in BOOLEAN :
       /\ avg <= max
       /\ scored' = Append(scored, Record(avg, max, count, prefix, quantised))

LabelsSpec == LabelsInit /\ [][LabelsNext]_scored

-----------------------------------------------------------------------------
Clip(v, top) == IF v < 0 THEN 0 ELSE IF v > top THEN top ELSE v

\* score_block without signals of the caller's: the proxies, and the default weights
ReuseProxy(b) == IF b.prefix THEN 10 ELSE Clip(b.count, 10)
MemoryCost(b) == IF b.quantised THEN 5 ELSE 10

ScoreBlock(b) ==
  Clip(40 * Clip(b.avg, 10) + 30 * ReuseProxy(b) + 30 * Clip(b.max, 10) - 10 * MemoryCost(b), 1000)

\* The two labels of a record in its trace, as ratios.
AttentionMass(trace, r) == <<r.avg, OrOne(Largest(trace, "avg"))>>

Combined(trace, r) ==
  LET avg == OrOne(Largest(trace, "avg"))
      count == OrOne(Largest(trace, "count"))
      most == OrOne(Largest(trace, "max"))
      reuse == Clip((IF r.prefix THEN 2 * count ELSE 0) + r.count, 2 * count)
      whole == 20 * avg * count * most
  IN <<Clip(8 * r.avg * count * most + 3 * avg * most * reuse + 6 * r.max * avg * count
            - 2 * avg * count * most, whole), whole>>

\* generate_binary_labels and the "pct_keep" of the statistics, at their threshold
Keep(score) == 2 * score[1] >= score[2]

-----------------------------------------------------------------------------
\* Labels of one trace have one denominator.
AtMostAs(s, t) == s[1] <= t[1] /\ s[2] = t[2]
Thousandths(s) == (1000 * s[1]) \div s[2]
Below(a, b) == /\ a.avg <= b.avg /\ a.max <= b.max /\ a.count <= b.count
               /\ a.prefix => b.prefix
               /\ b.quantised \/ ~a.quantised

\* No record that another exceeds in every signal is labelled or scored above it.
OrderKept ==
  \A j, k \in DOMAIN scored : Below(scored[j], scored[k]) =>
    /\ AtMostAs(Combined(scored, scored[j]), Combined(scored, scored[k]))
    /\ AtMostAs(AttentionMass(scored, scored[j]), AttentionMass(scored, scored[k]))
    /\ ScoreBlock(scored[j]) <= ScoreBlock(scored[k])

\* The record that leads its trace in every signal is to be kept, one without any
\* attention or access is not.
EndsKept ==
  \A k \in DOMAIN scored :
    LET r == scored[k]
    IN /\ (\A j \in DOMAIN scored : Below(scored[j], r)) /\ r.max > 0 /\ r.avg > 0 /\ r.count > 0
            => Keep(Combined(scored, r)) /\ Keep(AttentionMass(scored, r))
       /\ Below(r, Record(0, 0, 0, FALSE, TRUE)) => ~Keep(Combined(scored, r)) /\ ScoreBlock(r) = 0

\* Labels do not depend on the unit attention is measured in.
Scaled == [k \in DOMAIN scored |-> [scored[k] EXCEPT !.avg = 3 * @, !.max = 3 * @]]

UnitFree ==
  \A k \in DOMAIN scored :
    Thousandths(Combined(scored, scored[k])) = Thousandths(Combined(Scaled, Scaled[k]))

LabelsTrue == OrderKept /\ EndsKept /\ UnitFree
=============================================================================
