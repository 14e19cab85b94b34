---------------------------- MODULE TraceLabels -----------------------------
(***************************************************************************)
(* The labels of a telemetry trace and the split of the training set:      *)
(* ImportanceScorer._label_future_reuse (src/src/feature_engineering/      *)
(* importance_scorer.py) and LabelGenerator.split_train_val_test           *)
(* (src/src/trainers/label_generator.py).                                  *)
(*                                                                         *)
(* A behaviour writes a trace record by record, in any order of the steps: *)
(* telemetry is ordered by when it was flushed.  A row is a record, with   *)
(* the place it had in the trace.                                          *)
(***************************************************************************)
EXTENDS Integers, Sequences, SequencesExt, FiniteSets, FiniteSetsExt

CONSTANTS BlockIds, Steps,
          Window,                \* future_window_steps
          DefaultWindow,         \* its default, which the statistics are left with
          MaxRecords,            \* bound: length of the trace
          ValPercent, TestPercent

ASSUME LabelAssumption ==
  /\ Steps \subseteq Nat /\ {Window, DefaultWindow} \subseteq Nat \ {0} /\ MaxRecords \in Nat
  /\ {ValPercent, TestPercent} \subseteq Nat /\ ValPercent + TestPercent < 100

VARIABLES trace

TraceInit == trace = <<>>

AddRecord(b, step) ==
  /\ Len(trace) < MaxRecords
  /\ trace' = Append(trace, [block |-> b, step |-> step])

TraceNext == \E b \in BlockIds, step \in Steps : AddRecord(b, step)

TraceSpec == TraceInit /\ [][TraceNext]_trace

-----------------------------------------------------------------------------
\* sort_values by last_access_step, ties in any order: the places of the rows
SortedRows ==
  {rows \in [DOMAIN trace -> DOMAIN trace] :
     /\ IsInjective(rows)
     /\ \A k \in 1..Len(trace) - 1 : trace[rows[k]].step <= trace[rows[k + 1]].step}

Faulty_InWindow(current, s, window) == current < s /\ s < current + window
InWindow(current, s, window) == current < s /\ s <= current + window

LaterAccesses(r, window) ==
  Cardinality({j \in DOMAIN trace :
                 trace[j].block = r.block /\ InWindow(r.step, trace[j].step, window)})

\* min(1, accesses / max(window / 10, 1)), as a ratio
LabelWithin(r, window) ==
  LET whole == Max({window, 10})
  IN <<Min({10 * LaterAccesses(r, window), whole}), whole>>

Label(r) == LabelWithin(r, Window)

\* generate_binary_labels and compute_label_statistics label the trace anew.
StatisticsLabel(r) == LabelWithin(r, DefaultWindow)

\* The labelled frame: the rows in their new order, each with its score.
Labelled(rows) == [k \in DOMAIN rows |-> [place |-> rows[k], score |-> Label(trace[rows[k]])]]

\* split_train_val_test of a permuted index: what goes to each part
Part(idx, first, size) == SubSeq(idx, first, first + size - 1)

Split(idx) ==
  LET n == Len(idx)
      test == (n * TestPercent) \div 100
      val == (n * ValPercent) \div 100
  IN [test |-> Part(idx, 1, test), val |-> Part(idx, test + 1, val),
      train |-> Part(idx, test + val + 1, n - test - val)]

-----------------------------------------------------------------------------
\* However the trace is ordered, a record is labelled above 0 exactly when its block
\* is accessed again, later and within the window, and the last record of every block
\* is labelled 0, so that no label depends on the order telemetry was written in.
LabelsLookAhead ==
  \A rows \in SortedRows : \A k \in DOMAIN rows :
    LET row == Labelled(rows)[k]
        r == trace[row.place]
        later == {j \in k + 1..Len(rows) :
                    /\ trace[rows[j]].block = r.block
                    /\ trace[rows[j]].step - r.step \in 1..Window}
    IN row.score[1] > 0 <=> later # {}

\* The three parts of the split share no row and lose none, with a row or more to
\* train on when there is one at all.
SplitIsPartition ==
  LET split == Split([k \in DOMAIN trace |-> Len(trace) + 1 - k])
      all == split.test \o split.val \o split.train
  IN /\ Len(all) = Len(trace) /\ ToSet(all) = DOMAIN trace
     /\ trace # <<>> => split.train # <<>>

\* The labels and the split a model is trained with.
TrainingSetTrue == LabelsLookAhead /\ SplitIsPartition

\* "Label = 1 if the block is accessed again within *window* steps."
ReusedIsOne ==
  \A k \in DOMAIN trace :
    LaterAccesses(trace[k], Window) > 0 => Label(trace[k])[1] = Label(trace[k])[2]

\* "Summarise the distribution of generated labels": those of the training set.
StatisticsOfLabels ==
  \A k \in DOMAIN trace : StatisticsLabel(trace[k]) = Label(trace[k])
=============================================================================
