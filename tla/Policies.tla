------------------------------ MODULE Policies ------------------------------
(***************************************************************************)
(* The eviction policies of src/src/cache_policies: what decide() returns  *)
(* for a list of blocks and a snapshot of system metrics.  Everything here *)
(* is a pure operator; PolicyEngine applies the verdicts.                  *)
(*                                                                         *)
(* A list of blocks is a sequence bs of records with the BlockState fields *)
(* the policies read.  Fractions (pressure, thresholds, scores, weights)   *)
(* are integers in thousandths, rounded down; the values the runs use are  *)
(* exact, so no comparison with a threshold is decided by the rounding.    *)
(***************************************************************************)
EXTENDS Integers, Sequences, FiniteSets

\* PolicyConfig (base.py)
CONSTANTS MemoryPressureLow, MemoryPressureHigh, SlidingWindowBlocks,
          HeavyHitterFraction, SinkTokenBlocks, RecencyWeight, AttentionWeight,
          ReuseWeight, QuantizationEnabled, QuantizationMinImportance,
          OffloadEnabled, OffloadMaxFraction, OffloadThresholdScore

ASSUME ConfigAssumption ==
  /\ {MemoryPressureLow, MemoryPressureHigh, SlidingWindowBlocks, HeavyHitterFraction,
      SinkTokenBlocks, RecencyWeight, AttentionWeight, ReuseWeight,
      QuantizationMinImportance, OffloadMaxFraction, OffloadThresholdScore} \subseteq Nat
  /\ MemoryPressureLow <= MemoryPressureHigh
  /\ {QuantizationEnabled, OffloadEnabled} \subseteq BOOLEAN

Unit == 1000

PolicyNames == {"full_cache", "sliding_window", "h2o", "prefix_caching",
                "quantize_only", "offload_only", "hybrid", "learned"}
Decisions == {"KEEP_GPU", "QUANTIZE", "OFFLOAD_CPU", "EVICT"}

-----------------------------------------------------------------------------
\* int(n * f), and a / b clipped to zero when b is
Share(n, f) == (n * f) \div Unit
Ratio(a, b) == IF b > 0 THEN (Unit * a) \div b ELSE 0
AtLeast(x, y) == IF x >= y THEN x ELSE y

MemoryPressure(m) == Ratio(m.used, m.used + m.free)

\* sorted() is stable: position i comes before position j.
Before(key, i, j) == key[i] < key[j] \/ (key[i] = key[j] /\ i < j)
Rank(key, i) == Cardinality({j \in DOMAIN key : Before(key, j, i)})
FirstOf(key, n) == {i \in DOMAIN key : Rank(key, i) < n}                 \* sorted(...)[:n]
Faulty_LastOf(key, n) == {i \in DOMAIN key : Rank(key, i) > Cardinality(DOMAIN key) - n}
LastOf(key, n) == {i \in DOMAIN key : Rank(key, i) >= Cardinality(DOMAIN key) - n}

\* Row k of the sorted list, where f gives the rows in the original order
Faulty_InOrder(key, f) ==
  [k \in DOMAIN f |->
     f[CHOOSE i \in DOMAIN f : \E j \in DOMAIN f : key[i] = key[j] /\ Rank(key, j) = k - 1]]
InOrder(key, f) ==
  [k \in DOMAIN f |-> f[CHOOSE i \in DOMAIN f : Rank(key, i) = k - 1]]

\* Sort keys
ById(bs) == [i \in DOMAIN bs |-> bs[i].block_id]
ByAccess(bs) == [i \in DOMAIN bs |-> bs[i].last_access_step]
Descending(key) == [i \in DOMAIN key |-> -key[i]]
ByAttention(bs) == [i \in DOMAIN bs |-> bs[i].avg_attention_score]

\* The first SinkTokenBlocks blocks by id
Sinks(bs) == FirstOf(ById(bs), SinkTokenBlocks)

\* max(..., default=...)
HighestOf(key, default) ==
  IF DOMAIN key = {} THEN default
  ELSE CHOOSE x \in {key[i] : i \in DOMAIN key} : \A i \in DOMAIN key : key[i] <= x
MaxAttention(bs) == HighestOf(ByAttention(bs), Unit)
Faulty_RelativeAttention(bs) ==
  LET avg == ByAttention(bs)
      low == CHOOSE i \in DOMAIN bs : Rank(avg, i) = 0
  IN  [i \in DOMAIN bs |-> Ratio(avg[i] - avg[low], MaxAttention(bs) - avg[low])]
\* avg_attention_score / max_attn, the attention score of several policies
RelativeAttention(bs) ==
  [i \in DOMAIN bs |-> Ratio(bs[i].avg_attention_score, MaxAttention(bs))]

Verdict(b, d, s) == [block_id |-> b.block_id, decision |-> d, score |-> s]

KeepAll(bs) == [i \in DOMAIN bs |-> Verdict(bs[i], "KEEP_GPU", Unit)]

-----------------------------------------------------------------------------
(* heuristic.py *)

FullCache(bs, m) ==
  LET out == FirstOf(ByAccess(bs), AtLeast(1, Share(Len(bs), 100)))
  IN  IF MemoryPressure(m) < MemoryPressureHigh THEN KeepAll(bs)
      ELSE [i \in DOMAIN bs |-> IF i \in out THEN Verdict(bs[i], "EVICT", 0)
                                             ELSE Verdict(bs[i], "KEEP_GPU", Unit)]

SlidingWindow(bs, m) ==
  LET kept == Sinks(bs) \union LastOf(ById(bs), SlidingWindowBlocks)
  IN  IF MemoryPressure(m) < MemoryPressureLow THEN KeepAll(bs)
      ELSE [i \in DOMAIN bs |-> IF i \in kept THEN Verdict(bs[i], "KEEP_GPU", Unit)
                                              ELSE Verdict(bs[i], "EVICT", 0)]

\* max(1, int(n * heavy_hitter_fraction)) highest keys
HeavyHitters(key) ==
  FirstOf(Descending(key),
          AtLeast(1, Share(Cardinality(DOMAIN key), HeavyHitterFraction)))

H2O(bs, m) ==
  LET kept == Sinks(bs) \union HeavyHitters(ByAttention(bs))
  IN  IF MemoryPressure(m) < MemoryPressureLow THEN KeepAll(bs)
      ELSE [i \in DOMAIN bs |->
              Verdict(bs[i], IF i \in kept THEN "KEEP_GPU" ELSE "EVICT",
                      bs[i].avg_attention_score)]

PrefixScores(bs) ==
  [i \in DOMAIN bs |-> IF bs[i].prefix_reuse_flag THEN Unit ELSE RelativeAttention(bs)[i]]

Faulty_PrefixCut(pressure) == IF pressure >= MemoryPressureHigh THEN 100 ELSE 200
PrefixCut(pressure) == IF pressure >= MemoryPressureHigh THEN 200 ELSE 100

PrefixCaching(bs, m) ==
  LET s == PrefixScores(bs)
  IN  IF MemoryPressure(m) < MemoryPressureLow THEN KeepAll(bs)
      ELSE [i \in DOMAIN bs |->
              Verdict(bs[i], IF ~bs[i].prefix_reuse_flag /\ s[i] < PrefixCut(MemoryPressure(m))
                             THEN "EVICT" ELSE "KEEP_GPU", s[i])]

\* A sink or a block already quantised: KEEP_GPU with score 1.0.
QuantizeOnly(bs, m) ==
  LET s == RelativeAttention(bs)
      settled == Sinks(bs) \union {i \in DOMAIN bs : bs[i].current_tier = "GPU_QUANTIZED"}
  IN  IF ~QuantizationEnabled \/ MemoryPressure(m) < MemoryPressureLow THEN KeepAll(bs)
      ELSE [i \in DOMAIN bs |->
              IF i \in settled THEN Verdict(bs[i], "KEEP_GPU", Unit)
              ELSE Verdict(bs[i], IF s[i] < QuantizationMinImportance
                                  THEN "QUANTIZE" ELSE "KEEP_GPU", s[i])]

\* The walk in score order offloads the first blocks below the threshold that
\* are no sinks, up to the cap.
Faulty_Offloaded(bs) ==
  LET s == RelativeAttention(bs)
  IN  {i \in FirstOf(s, Share(Len(bs), OffloadMaxFraction)) : s[i] <= OffloadThresholdScore}
Offloaded(bs) ==
  LET s == RelativeAttention(bs)
      eligible == {i \in DOMAIN bs \ Sinks(bs) : s[i] <= OffloadThresholdScore}
  IN  {i \in eligible : Cardinality({j \in eligible : Before(s, j, i)})
                          < Share(Len(bs), OffloadMaxFraction)}

\* The decisions come out in score order, not in the order of bs.
OffloadOnly(bs, m) ==
  LET s == RelativeAttention(bs)
      row == [i \in DOMAIN bs |->
                Verdict(bs[i], IF i \in Offloaded(bs) THEN "OFFLOAD_CPU" ELSE "KEEP_GPU", s[i])]
  IN  IF ~OffloadEnabled \/ MemoryPressure(m) < MemoryPressureLow THEN KeepAll(bs)
      ELSE InOrder(s, row)

\* Unused helper that documents "higher = accessed more recently"
Norm(x, lo, hi) ==
  IF hi <= lo \/ x <= lo THEN 0 ELSE IF x >= hi THEN Unit ELSE Ratio(x - lo, hi - lo)
RecencyScore(b, max_step) ==
  IF max_step = 0 THEN Unit ELSE Unit - Norm(b.last_access_step, 0, max_step)

-----------------------------------------------------------------------------
(* hybrid.py *)

\* Weight adjustments per workload: recency, attention, reuse
WorkloadDeltas ==
  [single_doc_qa   |-> <<0, 100, 0>>,  multi_doc_qa |-> <<0, 100, 50>>,
   summarization   |-> <<100, 0, 0>>,  dialogue     |-> <<50, 0, 50>>,
   code            |-> <<-50, 50, 150>>, structured_data |-> <<0, 50, 50>>,
   unknown         |-> <<0, 0, 0>>]

Weights(workload) ==
  LET d == WorkloadDeltas[workload]
  IN  <<AtLeast(0, RecencyWeight + d[1]), AtLeast(0, AttentionWeight + d[2]),
        AtLeast(0, ReuseWeight + d[3])>>

\* The weighted mean of three signals; zero when all weights are.
Composite(w, recency, attention, reuse) ==
  LET total == w[1] + w[2] + w[3]
  IN  IF total > 0 THEN (w[1] * recency + w[2] * attention + w[3] * reuse) \div total ELSE 0

\* 1 - (max_step - last) / max(max_step, 1), clamped at zero only from below
Recency(b, max_step) ==
  AtLeast(0, Unit - (Unit * (max_step - b.last_access_step)) \div AtLeast(max_step, 1))

ScoreBlock(b, m) ==
  LET attention == Ratio(b.avg_attention_score, m.attn_max)
  IN  Composite(Weights(m.workload), Recency(b, m.global_step),
                IF attention > Unit THEN Unit ELSE attention,
                IF b.prefix_reuse_flag THEN Unit ELSE 0)

HeuristicScores(bs, m) == [i \in DOMAIN bs |-> ScoreBlock(bs[i], m)]

Faulty_ByScore(s) ==
  IF s >= QuantizationMinImportance THEN "KEEP_GPU"
  ELSE IF s >= OffloadThresholdScore /\ QuantizationEnabled THEN "QUANTIZE"
  ELSE IF 2 * s <= OffloadThresholdScore /\ OffloadEnabled THEN "OFFLOAD_CPU"
  ELSE "EVICT"
ByScore(s) ==
  IF s >= QuantizationMinImportance THEN "KEEP_GPU"
  ELSE IF s >= OffloadThresholdScore /\ QuantizationEnabled THEN "QUANTIZE"
  ELSE IF 2 * s >= OffloadThresholdScore /\ OffloadEnabled THEN "OFFLOAD_CPU"
  ELSE "EVICT"

MediumPressure(bs, s) ==
  [i \in DOMAIN bs |-> IF i \in Sinks(bs) THEN Verdict(bs[i], "KEEP_GPU", Unit)
                                          ELSE Verdict(bs[i], ByScore(s[i]), s[i])]

AggressiveByScore(s) ==
  IF s >= QuantizationMinImportance /\ QuantizationEnabled THEN "QUANTIZE"
  ELSE IF s >= OffloadThresholdScore /\ OffloadEnabled THEN "OFFLOAD_CPU"
  ELSE "EVICT"

HighPressure(bs, s) ==
  [i \in DOMAIN bs |->
     Verdict(bs[i], IF i \in Sinks(bs) \union HeavyHitters(s) THEN "KEEP_GPU"
                                                              ELSE AggressiveByScore(s[i]),
             s[i])]

\* s is the list of scores: the heuristic ones, or a loaded model's.
Hybrid(bs, m, s) ==
  IF MemoryPressure(m) < MemoryPressureLow THEN KeepAll(bs)
  ELSE IF MemoryPressure(m) < MemoryPressureHigh THEN MediumPressure(bs, s)
  ELSE HighPressure(bs, s)

-----------------------------------------------------------------------------
(* learned.py *)

\* The model's raw predictions, rescaled to [0, 1] over the batch
Normalised(raw) ==
  LET lo == -HighestOf(Descending(raw), 0)
      hi == HighestOf(raw, 0)
  IN  [i \in DOMAIN raw |-> IF hi > lo THEN Ratio(raw[i] - lo, hi - lo) ELSE Unit \div 2]

\* Prediction failed: relative attention, or 0.5 when there is none
AttentionFallback(bs) ==
  [i \in DOMAIN bs |-> IF MaxAttention(bs) > 0 THEN RelativeAttention(bs)[i] ELSE Unit \div 2]

\* A model is absent, failing, or gives raw predictions.
ScoreBlocks(bs, model) ==
  IF model.status = "failing" THEN AttentionFallback(bs) ELSE Normalised(model.raw)

ScoreToDecision(s) ==
  IF s >= QuantizationMinImportance THEN "KEEP_GPU"
  ELSE IF s >= OffloadThresholdScore /\ QuantizationEnabled THEN "QUANTIZE"
  ELSE IF 2 * s >= OffloadThresholdScore /\ OffloadEnabled THEN "OFFLOAD_CPU"
  ELSE "EVICT"

\* Without a model the H2O fallback decides.  The high threshold plays no part.
Learned(bs, m, model) ==
  LET s == ScoreBlocks(bs, model)
  IN  IF model.status = "absent" THEN H2O(bs, m)
      ELSE IF MemoryPressure(m) < MemoryPressureLow THEN KeepAll(bs)
      ELSE [i \in DOMAIN bs |->
              IF i \in Sinks(bs) THEN Verdict(bs[i], "KEEP_GPU", Unit)
                                 ELSE Verdict(bs[i], ScoreToDecision(s[i]), s[i])]

HybridScores(bs, m, model) ==
  IF model.status = "absent" THEN HeuristicScores(bs, m) ELSE ScoreBlocks(bs, model)

-----------------------------------------------------------------------------
\* What _run_policy_cycle tells a policy about the system (policy_engine.py)
SystemMetrics(bs, used, free, workload) ==
  [used |-> used, free |-> free, workload |-> workload,
   global_step |-> HighestOf(ByAccess(bs), 0),
   attn_max |-> HighestOf([i \in DOMAIN bs |-> bs[i].max_attention_score], Unit)]

Decide(policy, bs, m, model) ==
  CASE policy = "full_cache"     -> FullCache(bs, m)
    [] policy = "sliding_window" -> SlidingWindow(bs, m)
    [] policy = "h2o"            -> H2O(bs, m)
    [] policy = "prefix_caching" -> PrefixCaching(bs, m)
    [] policy = "quantize_only"  -> QuantizeOnly(bs, m)
    [] policy = "offload_only"   -> OffloadOnly(bs, m)
    [] policy = "hybrid"         -> Hybrid(bs, m, HybridScores(bs, m, model))
    [] policy = "learned"        -> Learned(bs, m, model)

\* _make_stats: how many verdicts, and how many of each kind
MakeStats(policy, ds, pressure, now) ==
  [timestamp |-> now, policy_name |-> policy, num_blocks_evaluated |-> Len(ds),
   decisions |-> [d \in Decisions |-> Cardinality({i \in DOMAIN ds : ds[i].decision = d})],
   gpu_mem_pressure |-> pressure]
=============================================================================
