---------------------------- MODULE TrainingData -----------------------------
(***************************************************************************)
(* What the importance model is trained on and asked with: labels and      *)
(* features.                                                               *)
(***************************************************************************)
EXTENDS TraceLabels, FeatureCases, ImportanceLabels, WorkloadTypes

\* FeatureCases: float32 never turns the order of attention round, and no more blocks
\* are heavy hitters than should be; shared features are the same, served and trained
\* on, and those that are named normalised lie in the unit interval.
\* ImportanceLabels: no block that another exceeds in everything is labelled or scored
\* above it, and labels have no unit.
\* WorkloadTypes: a growing prompt's type only gets more specific, server and features
\* agree on it unless one knows a phrase alone, and a caller's type wins.
FeaturesTrue ==
  /\ AttentionOrderKept /\ HeavyHittersCounted /\ SharedFeaturesAgree /\ FeaturesInUnit
  /\ LabelsTrue /\ TypesTrue
=============================================================================
