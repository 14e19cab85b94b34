---------------------------- MODULE PolicyCases -----------------------------
(***************************************************************************)
(* What decide() promises, whatever list of blocks it is given.  A         *)
(* behaviour builds a list one block at a time, in any order of the ids    *)
(* (the dict order of the tracker), together with a model's raw prediction *)
(* for each block; every property is asked of every list on the way, for   *)
(* every policy, memory reading and state of the learned model.            *)
(***************************************************************************)
EXTENDS Policies

CONSTANTS Ids, Averages, Steps, Flags, PlacedTiers, RawScores,  \* the inputs
          Readings,   \* GPU memory readings [used, free]
          Workloads,
          MaxBlocks   \* bound: length of the list

ASSUME CasesAssumption ==
  /\ Ids \subseteq Nat /\ Averages \subseteq 0..Unit /\ Steps \subseteq Nat
  /\ RawScores \subseteq Int /\ MaxBlocks \in Nat
  /\ \A r \in Readings : r.used \in Nat /\ r.free \in Nat
  /\ Workloads \subseteq DOMAIN WorkloadDeltas

VARIABLES bs,       \* the list of blocks
          raw,      \* the raw predictions, one per block
          workload

vars == <<bs, raw, workload>>

Init == bs = <<>> /\ raw = <<>> /\ workload \in Workloads

AddBlock(b, prediction) ==
  /\ Len(bs) < MaxBlocks
  /\ \A i \in DOMAIN bs : bs[i].block_id # b.block_id
  /\ bs' = Append(bs, b)
  /\ raw' = Append(raw, prediction)
  /\ UNCHANGED workload

\* The first batch of a block sets its maximum to its mean at least.
Inputs == [block_id: Ids, avg_attention_score: Averages, max_attention_score: {Unit},
           last_access_step: Steps, prefix_reuse_flag: Flags, current_tier: PlacedTiers]

Next == \E b \in Inputs, prediction \in RawScores : AddBlock(b, prediction)

Spec == Init /\ [][Next]_vars

-----------------------------------------------------------------------------
Metrics(r) == SystemMetrics(bs, r.used, r.free, workload)
Models == {[status |-> "absent"], [status |-> "failing"], [status |-> "ready", raw |-> raw]}
ScoringPolicies == {"hybrid", "learned"}
\* Only hybrid and learned look at a model.
Calls == ((PolicyNames \ ScoringPolicies) \X Readings \X {[status |-> "absent"]})
           \union (ScoringPolicies \X Readings \X Models)
CallsOf(policies) == {c \in Calls : c[1] \in policies}
Result(c) == Decide(c[1], bs, Metrics(c[2]), c[3])

\* The verdict on a block, wherever it stands in the result
On(ds, b) == ds[CHOOSE i \in DOMAIN ds : ds[i].block_id = b.block_id]
Severity(v) == CASE v.decision = "KEEP_GPU" -> 0 [] v.decision = "QUANTIZE" -> 1
                 [] v.decision = "OFFLOAD_CPU" -> 2 [] v.decision = "EVICT" -> 3
Harshness(c) == LET ds == Result(c) IN [i \in DOMAIN bs |-> Severity(On(ds, bs[i]))]
Chosen(ds, d) == {i \in DOMAIN bs : On(ds, bs[i]).decision = d}
Pressure(r) == MemoryPressure(Metrics(r))

\* base.py's decide(): one verdict per block, though sorts, sets of ids and
\* merged lists lie between the input and the output.
OneVerdictPerBlock ==
  \A c \in Calls :
    LET ds == Result(c)
    IN  Len(ds) = Len(bs) /\ {ds[i].block_id : i \in DOMAIN ds} = {bs[i].block_id : i \in DOMAIN bs}

\* Every policy that knows sink tokens leaves the first blocks on the GPU in
\* fp16, whatever their scores, their tier and the pressure.
SinksKept ==
  \A c \in CallsOf(PolicyNames \ {"full_cache", "prefix_caching"}) :
    LET ds == Result(c) IN \A i \in Sinks(bs) : On(ds, bs[i]).decision = "KEEP_GPU"

\* Under high pressure the baselines remove exactly what they say: full_cache
\* a tenth, but at least one block; sliding_window everything between the sinks
\* and the window; h2o leaves the sinks and its share of heavy hitters.
EvictsItsShare ==
  \A c \in CallsOf({"full_cache", "sliding_window", "h2o"}) :
    LET n == Len(bs)
        out == Cardinality(Chosen(Result(c), "EVICT"))
        heavy == AtLeast(1, Share(n, HeavyHitterFraction))
    IN  n > 0 /\ Pressure(c[2]) >= MemoryPressureHigh =>
          CASE c[1] = "full_cache" -> out = AtLeast(1, n \div 10)
            [] c[1] = "sliding_window" ->
                 out = AtLeast(0, n - SinkTokenBlocks - SlidingWindowBlocks)
            [] c[1] = "h2o" -> n - out \in heavy..(SinkTokenBlocks + heavy)

\* offload_only never exceeds its cap, and among the blocks that are no sinks
\* it takes those with the least attention.
OffloadsLeastAttended ==
  \A c \in CallsOf({"offload_only"}) :
    LET gone == Chosen(Result(c), "OFFLOAD_CPU")
    IN  /\ Cardinality(gone) <= Share(Len(bs), OffloadMaxFraction)
        /\ \A i \in gone, j \in DOMAIN bs \ (gone \union Sinks(bs)) :
             bs[i].avg_attention_score <= bs[j].avg_attention_score

\* Every policy keeps to its budget, with the right blocks, and spares the sinks.
EvictionBudget == SinksKept /\ EvictsItsShare /\ OffloadsLeastAttended

\* hybrid and learned: of two blocks that are no sinks, the one with the higher
\* score is never treated more harshly.
Scores(c) == IF c[1] = "hybrid" THEN HybridScores(bs, Metrics(c[2]), c[3])
                                ELSE ScoreBlocks(bs, c[3])
ScoreMonotone ==
  \A c \in CallsOf(ScoringPolicies) : c[1] = "hybrid" \/ c[3].status # "absent" =>
    LET s == Scores(c)
        h == Harshness(c)
    IN  \A i, j \in DOMAIN bs \ Sinks(bs) : s[i] > s[j] => h[i] <= h[j]

\* More pressure never treats a block more gently, except for the heavy
\* hitters that hybrid spares only in its aggressive regime.
PressureMonotone ==
  \A c \in Calls, r \in Readings : Pressure(c[2]) < Pressure(r) =>
    LET before == Harshness(c)
        after == Harshness(<<c[1], r, c[3]>>)
    IN  \A i \in DOMAIN bs :
          \/ before[i] <= after[i]
          \/ c[1] = "hybrid" /\ i \in HeavyHitters(HybridScores(bs, Metrics(r), c[3]))

\* sliding_window and prefix_caching settle in one round: run again on what they
\* left, under the same pressure, they evict nothing more.
Left(ds) == DOMAIN bs \ Chosen(ds, "EVICT")
Survivors(ds) ==
  [k \in 1..Cardinality(Left(ds)) |->
     bs[CHOOSE i \in Left(ds) : Cardinality({j \in Left(ds) : j < i}) = k - 1]]
EvictionSettles ==
  \A c \in CallsOf({"sliding_window", "prefix_caching"}) :
    LET ds == Result(c)
        again == Decide(c[1], Survivors(ds), Metrics(c[2]), c[3])
    IN  \A i \in DOMAIN again : again[i].decision # "EVICT"

\* Between the thresholds, hybrid with a model and learned agree on every block.
LearnedAgreesWithHybrid ==
  \A c \in CallsOf({"learned"}) :
    c[3].status # "absent" /\ MemoryPressureLow <= Pressure(c[2]) /\ Pressure(c[2]) < MemoryPressureHigh
      => Result(c) = Result(<<"hybrid", c[2], c[3]>>)

\* The highest step is read before decide, and blocks are accessed meanwhile:
\* however stale it is, of two blocks of equal attention and reuse the one accessed
\* later never scores lower.
RecencyDecides ==
  LET m == Metrics([used |-> 3, free |-> 1])
      Alike(i, j) == /\ bs[i].avg_attention_score = bs[j].avg_attention_score
                     /\ bs[i].prefix_reuse_flag = bs[j].prefix_reuse_flag
  IN  \A stale \in 0..m.global_step, i, j \in DOMAIN bs :
        LET s == HeuristicScores(bs, [m EXCEPT !.global_step = stale])
        IN  Alike(i, j) /\ bs[i].last_access_step > bs[j].last_access_step => s[i] >= s[j]

\* The score decides, in the same way for the two policies that score.
ScoresDecide == ScoreMonotone /\ RecencyDecides /\ LearnedAgreesWithHybrid

\* base.py: one entry per block, "same ordering".
SameOrdering ==
  \A c \in Calls : \A i \in DOMAIN bs : Result(c)[i].block_id = bs[i].block_id

\* heuristic.py: "Higher score = accessed more recently."
RecencyFavoursRecent ==
  \A r \in Readings : \A i, j \in DOMAIN bs :
    LET now == Metrics(r).global_step
    IN  RecencyScore(bs[i], now) > RecencyScore(bs[j], now)
          => bs[i].last_access_step > bs[j].last_access_step
=============================================================================
