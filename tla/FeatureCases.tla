---------------------------- MODULE FeatureCases ----------------------------
(***************************************************************************)
(* What the features promise for every batch of blocks: a behaviour builds *)
(* a batch block by block, and every property is asked of every batch on   *)
(* the way, served and, through its telemetry records, trained on.         *)
(***************************************************************************)
EXTENDS Features

CONSTANTS Kinds    \* of batches: the blocks, by id, a batch is made of, and how many at most

Blocks == [age : Nat, last : Nat, count : Nat, avg : Nat, max : Nat, prefix : BOOLEAN,
           layer : 0..NumLayers - 1, head : 0..NumHeadGroups - 1, tier : DOMAIN Tier]

ASSUME CasesAssumption ==
  \A kind \in Kinds : kind.ids \subseteq Nat /\ kind.blocks \subseteq Blocks /\ kind.most \in Nat

VARIABLE batch

FeaturesInit == batch = <<>>

AddBlock(kind, id, b) ==
  /\ batch \in [DOMAIN batch -> kind.blocks] /\ Cardinality(DOMAIN batch) < kind.most
  /\ id \notin DOMAIN batch
  /\ batch' = [i \in DOMAIN batch \cup {id} |-> IF i = id THEN b ELSE batch[i]]

FeaturesNext == \E kind \in Kinds : \E id \in kind.ids, b \in kind.blocks : AddBlock(kind, id, b)

FeaturesSpec == FeaturesInit /\ [][FeaturesNext]_batch

-----------------------------------------------------------------------------
Served == LET stats == BatchStats(batch) IN [i \in DOMAIN batch |-> Extract(i, batch[i], stats)]
Trained == LET trace == [i \in DOMAIN batch |-> FromBlockState(batch[i])]
           IN  [i \in DOMAIN batch |-> TrainRow(i, trace)]
Asked == DOMAIN batch # {}

Normalised == {"block_age_normalized", "recency_score", "attention_rank_normalized",
               "layer_depth_normalized", "head_group_normalized", "is_heavy_hitter",
               "is_recent_window", "tier_encoded", "inter_access_interval_normalized"}

\* Every feature that is named normalised, a score of recency or a flag lies between
\* 0 and 1 on both sides, for a block served with the statistics of its own batch.
FeaturesInUnit ==
  Asked => \A i \in DOMAIN batch : \A f \in Normalised : \A row \in {Served[i], Trained[i]} :
             row[f][2] > 0 /\ row[f][1] \in 0..row[f][2]

\* float32 may misplace a block by the blocks next to it but never turns the order
\* round: more attention is never a lower rank, nor a flag lost.
AttentionOrderKept ==
  Asked => \A i, j \in DOMAIN batch : batch[i].avg <= batch[j].avg =>
    /\ Served[i].attention_rank_normalized[1] <= Served[j].attention_rank_normalized[1]
    /\ Served[i].is_heavy_hitter[1] <= Served[j].is_heavy_hitter[1]

\* Never more blocks with distinct float32 attention are heavy hitters than the
\* heavy-hitter fraction of the batch, and never fewer if all attention is exact.
HeavyHittersCounted ==
  Asked =>
    LET n == HeavyHitters(Cardinality(DOMAIN batch))
        flagged == {i \in DOMAIN batch : Served[i].is_heavy_hitter[1] = 1}
        distinct == \A i, j \in DOMAIN batch :
                      Single(batch[i].avg) = Single(batch[j].avg) => i = j
        exact == \A i \in DOMAIN batch : Single(batch[i].avg) = batch[i].avg
    IN /\ distinct => Cardinality(flagged) <= n
       /\ exact => Cardinality(flagged) >= n

\* On these features the model is trained on what it is served.
Shared == {"block_age_normalized", "recency_score", "access_frequency", "avg_attention_score",
           "max_attention_score", "sink_token_flag", "prefix_reuse_flag", "access_frequency_log",
           "tier_encoded", "inter_access_interval_normalized"}

SharedFeaturesAgree ==
  Asked => \A i \in DOMAIN batch, f \in Shared : Same(Served[i][f], Trained[i][f])

\* "Uses the same feature names as FeatureExtractor but reads directly from DataFrame
\* columns": the feature of a name is the same, here the one of the recent window.
RecentWindowAgrees ==
  Asked => \A i \in DOMAIN batch :
             Same(Served[i].is_recent_window, Trained[i].is_recent_window)

\* "fraction of blocks with LOWER attention (0=lowest, 1=highest)"
RankCountsLower ==
  Asked => \A i \in DOMAIN batch :
    Served[i].attention_rank_normalized[1]
      = Cardinality({j \in DOMAIN batch : batch[j].avg < batch[i].avg})

\* "is this block in the top hh_fraction by attention?": the first of all always is.
TopBlockIsHeavy ==
  Asked => \A i \in DOMAIN batch :
    (\A j \in DOMAIN batch : batch[j].avg <= batch[i].avg) => Served[i].is_heavy_hitter[1] = 1
=============================================================================
