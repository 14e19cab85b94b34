------------------------------ MODULE Features ------------------------------
(***************************************************************************)
(* The 21 features of a block, computed twice: while serving, by           *)
(* FeatureExtractor from live blocks (src/src/feature_engineering/         *)
(* extractor.py), and for training, by LabelGenerator from the telemetry   *)
(* records of blocks (src/src/trainers/label_generator.py).                *)
(*                                                                         *)
(* A batch maps block ids to blocks.  A feature is a ratio <<n, d>>, or,   *)
(* for the one that is a ratio of logarithms, the pair of their arguments. *)
(* compute_batch_stats stores attention in float32, coarser than the       *)
(* blocks' own float64: Grain attention values share a float32.  Memory,   *)
(* queue and request sizes are handed to both alike and left out.          *)
(***************************************************************************)
EXTENDS Counting

CONSTANTS Grain, NumLayers, NumHeadGroups, SinkTokenBlocks, RecentWindow,
          HeavyOneIn    \* 1 / heavy_hitter_fraction

ASSUME FeatureAssumption ==
  /\ {Grain, NumLayers, NumHeadGroups, RecentWindow, HeavyOneIn} \subseteq Nat \ {0}
  /\ SinkTokenBlocks \in Nat

Floored(n, v) == IF v < n THEN n ELSE v
Capped(n, v) == IF v > n THEN n ELSE v
Flag(p) == <<IF p THEN 1 ELSE 0, 1>>
Same(f, g) == f[1] * g[2] = g[1] * f[2]

\* Rounded to the nearest value float32 has.
Single(v) == Grain * ((v + Grain \div 2) \div Grain)

\* The k-th smallest of the values f takes on S, from 0, with repetitions.
Smallest(f, S, k) ==
  CHOOSE v \in {f[i] : i \in S} :
    /\ Cardinality({i \in S : f[i] < v}) <= k
    /\ k < Cardinality({i \in S : f[i] <= v})

Attention(batch) == [i \in DOMAIN batch |-> batch[i].avg]
Total(values) == MapThenSumSet(LAMBDA i : values[i], DOMAIN values)

-----------------------------------------------------------------------------
\* compute_batch_stats of a batch that is not empty
BatchStats(batch) ==
  LET single == [i \in DOMAIN batch |-> Single(batch[i].avg)]
  IN [max_age |-> Largest(batch, "age"),
      max_step |-> Largest(batch, "last"),
      blocks |-> Cardinality(DOMAIN batch), attention |-> single,
      total_attention |-> OrOne(Total(single)), max_block_id |-> Max(DOMAIN batch)]

Tier == [GPU_FP16 |-> 0, GPU_QUANTIZED |-> 1, CPU_OFFLOADED |-> 2, EVICTED |-> 3]

\* searchsorted on the left: how many values are smaller
Faulty_Rank(values, v) == Cardinality({i \in DOMAIN values : values[i] > v})
Rank(values, v) == Cardinality({i \in DOMAIN values : values[i] < v})

\* The attention of the n-th block from the top.
HeavyThreshold(values, n) ==
  Smallest(values, DOMAIN values, Cardinality(DOMAIN values) - n)

HeavyHitters(n) == Floored(1, n \div HeavyOneIn)

\* extract
Extract(id, b, stats) ==
  LET step == Floored(1, stats.max_step)
  IN [block_age_normalized |-> <<b.age, Floored(1, stats.max_age)>>,
      recency_score |-> <<1, 1 + step - b.last>>,
      access_frequency |-> <<b.count, step>>,
      avg_attention_score |-> <<b.avg, 1>>,
      max_attention_score |-> <<b.max, 1>>,
      attention_rank_normalized |-> <<Rank(stats.attention, b.avg), stats.blocks>>,
      sink_token_flag |-> Flag(id < SinkTokenBlocks),
      prefix_reuse_flag |-> Flag(b.prefix),
      layer_depth_normalized |-> <<b.layer, Floored(1, NumLayers - 1)>>,
      head_group_normalized |-> <<b.head, Floored(1, NumHeadGroups - 1)>>,
      is_heavy_hitter |->
        Flag(b.avg >= HeavyThreshold(stats.attention, HeavyHitters(stats.blocks))),
      is_recent_window |-> Flag(id >= Floored(1, stats.max_block_id) - RecentWindow),
      access_frequency_log |-> <<b.count, step>>,
      cumulative_attention_mass_rank |-> <<b.avg, stats.total_attention>>,
      tier_encoded |-> <<Tier[b.tier], 3>>,
      inter_access_interval_normalized |-> <<step - b.last, step>>]

-----------------------------------------------------------------------------
\* numpy's percentile 80, interpolated between two ranks, in fifths
Percentile80(values) ==
  LET place == 4 * (Cardinality(DOMAIN values) - 1)
      low == Smallest(values, DOMAIN values, place \div 5)
      high == Smallest(values, DOMAIN values, (place + 4) \div 5)
  IN 5 * low + (place % 5) * (high - low)

Faulty_TrainRecency(step, last) == <<1, 1 + last>>
TrainRecency(step, last) == <<1, 1 + step - last>>

\* TelemetryRecord.from_block_state: a record has flags where a block has its tier.
FromBlockState(b) ==
  [age |-> b.age, last |-> b.last, count |-> b.count, avg |-> b.avg, max |-> b.max,
   prefix |-> b.prefix, layer |-> b.layer, head |-> b.head,
   quantized_flag |-> b.tier = "GPU_QUANTIZED", offloaded_flag |-> b.tier = "CPU_OFFLOADED",
   evicted_flag |-> b.tier = "EVICTED"]

\* The columns are written one after the other: the last flag that is set decides.
TierEncoded(r) == IF r.evicted_flag THEN 3
                  ELSE IF r.offloaded_flag THEN 2
                  ELSE IF r.quantized_flag THEN 1 ELSE 0

\* _build_feature_matrix, the row of one record
TrainRow(id, trace) ==
  LET b == trace[id]
      max_step == OrOne(Largest(trace, "last"))
      max_bid == OrOne(Max(DOMAIN trace))
      attention == Attention(trace)
  IN [block_age_normalized |-> <<b.age, OrOne(Largest(trace, "age"))>>,
      recency_score |-> TrainRecency(max_step, b.last),
      access_frequency |-> <<b.count, Floored(1, max_step)>>,
      avg_attention_score |-> <<b.avg, 1>>,
      max_attention_score |-> <<b.max, 1>>,
      attention_rank_normalized |-> <<Rank(attention, b.avg), Cardinality(DOMAIN trace)>>,
      sink_token_flag |-> Flag(id < 4),
      prefix_reuse_flag |-> Flag(b.prefix),
      layer_depth_normalized |-> <<b.layer, Floored(1, Largest(trace, "layer"))>>,
      head_group_normalized |-> <<b.head, 8>>,
      is_heavy_hitter |-> Flag(5 * b.avg >= Percentile80(attention)),
      is_recent_window |-> <<Capped(512, Floored(0, id - (max_bid - 512))), 512>>,
      access_frequency_log |-> <<b.count, Floored(1, max_step)>>,
      cumulative_attention_mass_rank |-> <<b.avg, OrOne(Total(attention))>>,
      tier_encoded |-> <<TierEncoded(b), 3>>,
      inter_access_interval_normalized |-> <<max_step - b.last, Floored(1, max_step)>>]
=============================================================================
