------------------------- MODULE PolicyCasesProofs --------------------------
(***************************************************************************)
(* What the cases of PolicyCases check on short lists, for lists of every  *)
(* length, every score, every reading and every configuration: one verdict *)
(* per block, pressure and scores in the right direction, and the budgets  *)
(* of the policies that evict.  The invariant only says which lists are    *)
(* built; each property then follows from the rows a policy gives.         *)
(***************************************************************************)
EXTENDS PolicyCases, PoliciesProofs

\* The inductive invariant: what the lists of the cases are.
CasesInv ==
  /\ bs \in Seq(Inputs) /\ raw \in Seq(RawScores) /\ Len(raw) = Len(bs)
  /\ \A i, j \in DOMAIN bs : bs[i].block_id = bs[j].block_id => i = j
  /\ workload \in Workloads

(***************************************************************************)
(* The lists the cases are built from: blocks with different ids, and one  *)
(* raw prediction of the model for each.                                   *)
(***************************************************************************)
THEOREM ListsBuilt == Spec => []CasesInv
<1>1. Init => CasesInv
  <2> SUFFICES ASSUME Init PROVE CasesInv
    OBVIOUS
  <2>1. bs = <<>> /\ raw = <<>> /\ workload \in Workloads
    BY DEF Init
  <2>2. DOMAIN bs = {}
    BY <2>1
  <2> QED BY <2>1, <2>2 DEF CasesInv
<1>2. ASSUME CasesInv, [Next]_vars
      PROVE  CasesInv'
  <2>1. ASSUME NEW b \in Inputs, NEW prediction \in RawScores, AddBlock(b, prediction)
        PROVE  CasesInv'
    <3>1. /\ bs' = Append(bs, b) /\ raw' = Append(raw, prediction) /\ workload' = workload
          /\ \A i \in DOMAIN bs : bs[i].block_id # b.block_id
      BY <2>1 DEF AddBlock
    <3>2. bs \in Seq(Inputs) /\ raw \in Seq(RawScores) /\ Len(raw) = Len(bs)
      BY <1>2 DEF CasesInv
    <3>3. /\ bs' \in Seq(Inputs) /\ raw' \in Seq(RawScores) /\ Len(raw') = Len(bs')
          /\ Len(bs) \in Nat /\ DOMAIN bs = 1..Len(bs) /\ DOMAIN bs' = 1..(Len(bs) + 1)
          /\ \A i \in 1..Len(bs) : bs'[i] = bs[i]
          /\ bs'[Len(bs) + 1] = b
      BY <3>1, <3>2
    <3>4. \A i, j \in DOMAIN bs' : bs'[i].block_id = bs'[j].block_id => i = j
      BY <1>2, <3>1, <3>3 DEF CasesInv
    <3> QED BY <1>2, <3>1, <3>3, <3>4 DEF CasesInv
  <2>2. CASE UNCHANGED vars
    BY <1>2, <2>2 DEF CasesInv, vars
  <2> QED BY <1>2, <2>1, <2>2 DEF Next
<1> QED BY <1>1, <1>2, PTL DEF Spec

(***************************************************************************)
(* Such a list is one the lemmas about the policies apply to, and so is    *)
(* what the engine reads from it under every reading.                      *)
(***************************************************************************)
LEMMA ListFits ==
  ASSUME CasesInv
  PROVE  /\ BlockList(bs)
         /\ \A i \in DOMAIN bs : bs[i] \in Inputs
         /\ \A r \in Readings : MetricsFit(Metrics(r))
<1>1. bs \in Seq(Inputs) /\ Len(bs) \in Nat /\ DOMAIN bs = 1..Len(bs)
  BY DEF CasesInv
<1>2. \A b \in Inputs : /\ b.block_id \in Nat /\ b.avg_attention_score \in 0..Unit
                        /\ b.max_attention_score = Unit /\ b.last_access_step \in Nat
  BY CasesAssumption DEF Inputs
<1>3. Unit \in Nat /\ 0..Unit \subseteq Nat
  BY DEF Unit
<1>4. BlockList(bs)
  <2>1. ASSUME NEW i \in 1..Len(bs)
        PROVE  /\ bs[i].block_id \in Nat /\ bs[i].avg_attention_score \in Nat
               /\ bs[i].max_attention_score \in Nat /\ bs[i].last_access_step \in Nat
    <3>1. bs[i] \in Inputs
      BY <1>1
    <3> QED BY <1>2, <1>3, <3>1
  <2> QED BY <1>1, <2>1 DEF CasesInv, BlockList
<1>5. ASSUME NEW r \in Readings
      PROVE  MetricsFit(Metrics(r))
  <2>1. HighestOf(ByAccess(bs), 0) \in Nat
    BY <1>1, <1>4, KeysType, HighestOfNat
  <2>2. HighestOf([i \in DOMAIN bs |-> bs[i].max_attention_score], Unit) \in Nat
    <3>1. [i \in DOMAIN bs |-> bs[i].max_attention_score] \in [1..Len(bs) -> Nat]
      BY <1>1, <1>4 DEF BlockList
    <3> QED BY <1>1, <1>3, <3>1, HighestOfNat
  <2>3. workload \in DOMAIN WorkloadDeltas /\ r.used \in Nat /\ r.free \in Nat
    BY CasesAssumption DEF CasesInv
  <2> QED BY <2>1, <2>2, <2>3 DEF Metrics, SystemMetrics, MetricsFit
<1> QED BY <1>1, <1>4, <1>5

(***************************************************************************)
(* So is every call: its policy, its reading and its model.                *)
(***************************************************************************)
LEMMA CallFits ==
  ASSUME CasesInv, NEW c \in Calls
  PROVE  /\ c[1] \in PolicyNames /\ c[2] \in Readings
         /\ MetricsFit(Metrics(c[2])) /\ ModelFits(c[3], bs)
<1>1. /\ c[1] \in PolicyNames /\ c[2] \in Readings
      /\ c[3] \in Models \union {[status |-> "absent"]}
  BY DEF Calls, ScoringPolicies, PolicyNames
<1>2. \A m \in Models \union {[status |-> "absent"]} : ModelFits(m, bs)
  <2>1. raw \in [1..Len(bs) -> Int]
    <3>1. raw \in Seq(RawScores) /\ Len(raw) = Len(bs)
      BY DEF CasesInv
    <3>2. RawScores \subseteq Int
      BY CasesAssumption
    <3>3. raw \in [1..Len(raw) -> RawScores]
      BY <3>1
    <3> QED BY <3>1, <3>2, <3>3
  <2> QED BY <2>1 DEF Models, ModelFits
<1> QED BY <1>1, <1>2, ListFits

\* The row of each block, and what it is called in the result
Row(c) == RowsOf(c[1], bs, Metrics(c[2]), c[3])

(***************************************************************************)
(* The rows of a call give every block a verdict that carries its id.      *)
(***************************************************************************)
LEMMA RowsFit ==
  ASSUME CasesInv, NEW c \in Calls
  PROVE  IsRows(Row(c), bs)
BY CallFits, ListFits, RowsType DEF Row

(***************************************************************************)
(* What a result says of a block is that block's row: no other row carries *)
(* its id, so neither a sort nor a merge can give it another's.            *)
(***************************************************************************)
LEMMA OnRow ==
  ASSUME CasesInv, NEW c \in Calls, NEW i \in DOMAIN bs
  PROVE  On(Result(c), bs[i]) = Row(c)[i]
<1> DEFINE ds == Result(c)
<1>0. BlockList(bs) /\ DOMAIN bs = 1..Len(bs)
  BY ListFits DEF BlockList
<1>1. /\ DOMAIN ds = 1..Len(bs)
      /\ \E place : /\ IsPlacing(place, Len(bs))
                    /\ \A j \in 1..Len(bs) : ds[place[j]] = Row(c)[j]
  BY <1>0, CallFits, DecidePlacesRows DEF Result, Row
<1> HIDE DEF ds
<1>2. PICK place : /\ IsPlacing(place, Len(bs))
                   /\ \A j \in 1..Len(bs) : ds[place[j]] = Row(c)[j]
  BY <1>1
<1>3. \A j \in 1..Len(bs) : Row(c)[j].block_id = bs[j].block_id
  BY RowsFit DEF IsRows
<1>4. ASSUME NEW k \in DOMAIN ds, ds[k].block_id = bs[i].block_id
      PROVE  ds[k] = Row(c)[i]
  <2>1. PICK j \in 1..Len(bs) : place[j] = k
    BY <1>1, <1>2 DEF IsPlacing
  <2>2. ds[k] = Row(c)[j]
    BY <1>2, <2>1
  <2>3. bs[j].block_id = bs[i].block_id
    BY <1>3, <1>4, <2>2
  <2>4. j = i
    BY <1>0, <2>3 DEF BlockList
  <2> QED BY <2>2, <2>4
<1>5. \E k \in DOMAIN ds : ds[k].block_id = bs[i].block_id
  <2>1. place[i] \in DOMAIN ds
    BY <1>0, <1>1, <1>2 DEF IsPlacing
  <2>2. ds[place[i]].block_id = bs[i].block_id
    BY <1>0, <1>2, <1>3
  <2> QED BY <2>1, <2>2
<1>6. PICK k \in DOMAIN ds : On(ds, bs[i]) = ds[k] /\ ds[k].block_id = bs[i].block_id
  BY <1>5 DEF On
<1> QED BY <1>4, <1>6 DEF ds

(***************************************************************************)
(* OneVerdictPerBlock: every policy returns one verdict for each block,    *)
(* and for no other block, whatever the list, the reading, the model and   *)
(* the configuration.                                                      *)
(***************************************************************************)
THEOREM OneVerdictEach == Spec => []OneVerdictPerBlock
<1>1. ASSUME CasesInv, NEW c \in Calls
      PROVE  LET ds == Result(c)
             IN  /\ Len(ds) = Len(bs)
                 /\ {ds[i].block_id : i \in DOMAIN ds} = {bs[i].block_id : i \in DOMAIN bs}
  <2> DEFINE ds == Result(c)
  <2>0. BlockList(bs) /\ DOMAIN bs = 1..Len(bs) /\ Len(bs) \in Nat
    BY <1>1, ListFits DEF BlockList
  <2>1. /\ ds \in [1..Len(bs) -> VerdictType]
        /\ \E place : /\ IsPlacing(place, Len(bs))
                      /\ \A j \in 1..Len(bs) : ds[place[j]] = Row(c)[j]
    BY <1>1, <2>0, CallFits, DecidePlacesRows DEF Result, Row
  <2> HIDE DEF ds
  <2>2. PICK place : /\ IsPlacing(place, Len(bs))
                     /\ \A j \in 1..Len(bs) : ds[place[j]] = Row(c)[j]
    BY <2>1
  <2>3. \A j \in 1..Len(bs) : Row(c)[j].block_id = bs[j].block_id
    BY <1>1, RowsFit DEF IsRows
  <2>4. Len(ds) = Len(bs)
    BY <2>0, <2>1
  <2>5. ASSUME NEW k \in DOMAIN ds
        PROVE  ds[k].block_id \in {bs[i].block_id : i \in DOMAIN bs}
    <3>1. PICK j \in 1..Len(bs) : place[j] = k
      BY <2>1, <2>2 DEF IsPlacing
    <3>2. ds[k].block_id = bs[j].block_id
      BY <2>2, <2>3, <3>1
    <3> QED BY <2>0, <3>2
  <2>6. ASSUME NEW i \in DOMAIN bs
        PROVE  bs[i].block_id \in {ds[k].block_id : k \in DOMAIN ds}
    <3>1. place[i] \in DOMAIN ds
      BY <2>0, <2>1, <2>2 DEF IsPlacing
    <3>2. ds[place[i]].block_id = bs[i].block_id
      BY <2>0, <2>2, <2>3
    <3> QED BY <3>1, <3>2
  <2>7. {ds[i].block_id : i \in DOMAIN ds} = {bs[i].block_id : i \in DOMAIN bs}
    BY <2>5, <2>6
  <2> QED BY <2>4, <2>7 DEF ds
<1>2. CasesInv => OneVerdictPerBlock
  BY <1>1 DEF OneVerdictPerBlock
<1> QED BY <1>2, ListsBuilt, PTL

-----------------------------------------------------------------------------
(***************************************************************************)
(* The severities, as numbers.                                             *)
(***************************************************************************)
LEMMA SeverityOf ==
  ASSUME NEW v
  PROVE  /\ v.decision = "KEEP_GPU" => Severity(v) = 0
         /\ v.decision = "QUANTIZE" => Severity(v) = 1
         /\ v.decision = "OFFLOAD_CPU" => Severity(v) = 2
         /\ v.decision = "EVICT" => Severity(v) = 3
         /\ v.decision \in Decisions => Severity(v) \in Nat
BY DEF Severity, Decisions

(***************************************************************************)
(* How harshly a call treats a block is read off the block's row.          *)
(***************************************************************************)
LEMMA HarshnessOf ==
  ASSUME CasesInv, NEW c \in Calls, NEW i \in DOMAIN bs
  PROVE  Harshness(c)[i] = Severity(Row(c)[i]) /\ Row(c)[i].decision \in Decisions
         /\ Severity(Row(c)[i]) \in Nat
<1>1. Harshness(c)[i] = Severity(Row(c)[i])
  BY OnRow DEF Harshness
<1>2. Row(c)[i] \in VerdictType
  BY RowsFit, ListFits DEF IsRows, BlockList
<1>3. Row(c)[i].decision \in Decisions
  BY <1>2 DEF VerdictType
<1> QED BY <1>1, <1>3, SeverityOf

(***************************************************************************)
(* Nothing is milder than keeping everything.                              *)
(***************************************************************************)
LEMMA KeptIsMildest ==
  ASSUME NEW i \in DOMAIN bs
  PROVE  Severity(KeepAll(bs)[i]) = 0
BY SeverityOf DEF KeepAll, Verdict

(***************************************************************************)
(* The scores of hybrid are made of the blocks, the step and the workload; *)
(* the memory readings do not enter them.                                  *)
(***************************************************************************)
LEMMA ScoresIgnoreReadings ==
  ASSUME NEW r, NEW q, NEW model
  PROVE  HybridScores(bs, Metrics(r), model) = HybridScores(bs, Metrics(q), model)
BY DEF HybridScores, HeuristicScores, ScoreBlock, Metrics, SystemMetrics

(***************************************************************************)
(* A pressure is a natural number.                                         *)
(***************************************************************************)
LEMMA PressureType ==
  ASSUME CasesInv, NEW r \in Readings
  PROVE  MemoryPressure(Metrics(r)) \in Nat
<1>1. Metrics(r).used \in Nat /\ Metrics(r).used + Metrics(r).free \in Int
  BY ListFits DEF MetricsFit
<1> QED BY <1>1, RatioNat DEF MemoryPressure

(***************************************************************************)
(* At every score, hybrid's aggressive thresholds are at least as harsh as *)
(* its normal ones.                                                        *)
(***************************************************************************)
LEMMA AggressiveIsHarsher ==
  ASSUME NEW s \in Nat, NEW v, v.decision = ByScore(s), NEW w, w.decision = AggressiveByScore(s)
  PROVE  Severity(v) <= Severity(w)
<1>1. QuantizationMinImportance \in Nat /\ OffloadThresholdScore \in Nat
  BY ConfigAssumption
<1>2. Severity(v) \in Nat /\ Severity(w) \in Nat
  BY SeverityOf DEF ByScore, AggressiveByScore, Decisions
<1>3. CASE ByScore(s) = "KEEP_GPU"
  BY <1>2, <1>3, SeverityOf
<1>4. CASE ByScore(s) # "KEEP_GPU" /\ AggressiveByScore(s) = "EVICT"
  <2>1. Severity(w) = 3
    BY <1>4, SeverityOf
  <2>2. ByScore(s) \in Decisions
    BY DEF ByScore, Decisions
  <2> QED BY <2>1, <2>2, SeverityOf DEF Decisions
<1>5. CASE ByScore(s) # "KEEP_GPU" /\ AggressiveByScore(s) # "EVICT"
  <2>1. ~(s >= QuantizationMinImportance)
    BY <1>5 DEF ByScore
  <2>2. s >= OffloadThresholdScore /\ OffloadEnabled /\ AggressiveByScore(s) = "OFFLOAD_CPU"
    BY <1>5, <2>1 DEF AggressiveByScore
  <2>3. 2 * s >= OffloadThresholdScore
    BY <1>1, <2>2
  <2>4. ByScore(s) \in {"QUANTIZE", "OFFLOAD_CPU"}
    BY <2>1, <2>2, <2>3 DEF ByScore
  <2> QED BY <2>2, <2>4, SeverityOf
<1> QED BY <1>3, <1>4, <1>5

(***************************************************************************)
(* Policy by policy, the row of a block under more pressure is at least as *)
(* harsh, where hybrid does not spare the block as a heavy hitter.         *)
(***************************************************************************)
LEMMA MorePressureIsHarsher ==
  ASSUME CasesInv, NEW c \in Calls, NEW r \in Readings, Pressure(c[2]) < Pressure(r),
         NEW i \in DOMAIN bs,
         ~(c[1] = "hybrid" /\ i \in HeavyHitters(HybridScores(bs, Metrics(r), c[3])))
  PROVE  Severity(Row(c)[i]) <= Severity(RowsOf(c[1], bs, Metrics(r), c[3])[i])
<1> DEFINE m == Metrics(c[2])
           M == Metrics(r)
           old == Row(c)
           new == RowsOf(c[1], bs, M, c[3])
<1> SUFFICES Severity(old[i]) <= Severity(new[i])
  OBVIOUS
<1>1. /\ MemoryPressure(m) \in Nat /\ MemoryPressure(M) \in Nat
      /\ MemoryPressure(m) < MemoryPressure(M)
      /\ MemoryPressureLow \in Nat /\ MemoryPressureHigh \in Nat
      /\ MemoryPressureLow <= MemoryPressureHigh
  BY CallFits, PressureType, ConfigAssumption DEF Pressure
<1>2. new[i] \in VerdictType /\ Severity(new[i]) \in Nat
  <2>1. IsRows(new, bs)
    BY CallFits, ListFits, RowsType
  <2>2. new[i] \in VerdictType
    BY <2>1, ListFits DEF IsRows, BlockList
  <2>3. new[i].decision \in Decisions
    BY <2>2 DEF VerdictType
  <2> QED BY <2>2, <2>3, SeverityOf
<1>3. ASSUME old = KeepAll(bs) \/ old = new
      PROVE  Severity(old[i]) <= Severity(new[i])
  BY <1>2, <1>3, KeptIsMildest
<1>a. old = RowsOf(c[1], bs, m, c[3]) /\ c[1] \in PolicyNames
  BY CallFits DEF Row
<1>b. HybridScores(bs, m, c[3]) = HybridScores(bs, M, c[3])
  BY ScoresIgnoreReadings
<1>c. HybridScores(bs, M, c[3])[i] \in Nat
  <2>1. HybridScores(bs, M, c[3]) \in [1..Len(bs) -> Nat]
    BY CallFits, ListFits, ScoresType
  <2> QED BY <2>1, ListFits DEF BlockList
<1>d. ~(c[1] = "hybrid" /\ i \in HeavyHitters(HybridScores(bs, M, c[3])))
  OBVIOUS
<1>e. new = RowsOf(c[1], bs, M, c[3])
  OBVIOUS
<1> HIDE DEF m, M, old, new
<1>4. CASE c[1] = "full_cache"
  BY <1>1, <1>3, <1>4, <1>a, <1>e DEF RowsOf, Decide, FullCache
<1>5. CASE c[1] = "sliding_window"
  BY <1>1, <1>3, <1>5, <1>a, <1>e DEF RowsOf, Decide, SlidingWindow
<1>6. H2O(bs, m) = KeepAll(bs) \/ H2O(bs, m) = H2O(bs, M)
  BY <1>1 DEF H2O
<1>7. CASE c[1] = "h2o"
  BY <1>3, <1>6, <1>7, <1>a, <1>e DEF RowsOf, Decide
<1>8. CASE c[1] = "quantize_only"
  BY <1>1, <1>3, <1>8, <1>a, <1>e DEF RowsOf, Decide, QuantizeOnly
<1>9. CASE c[1] = "offload_only"
  BY <1>1, <1>3, <1>9, <1>a, <1>e DEF RowsOf, OffloadRows
<1>10. CASE c[1] = "prefix_caching"
  <2>1. old = PrefixCaching(bs, m) /\ new = PrefixCaching(bs, M)
    BY <1>10, <1>a, <1>e DEF RowsOf, Decide
  <2>2. CASE MemoryPressure(m) < MemoryPressureLow
    BY <1>3, <2>1, <2>2 DEF PrefixCaching
  <2>3. CASE ~(MemoryPressure(m) < MemoryPressureLow)
    <3>1. PrefixCut(MemoryPressure(m)) \in Nat /\ PrefixCut(MemoryPressure(M)) \in Nat
          /\ PrefixCut(MemoryPressure(m)) <= PrefixCut(MemoryPressure(M))
      BY <1>1 DEF PrefixCut
    <3>2. PrefixScores(bs)[i] \in Nat
      BY ListFits, AttentionType DEF BlockList
    <3>3. /\ old[i].decision = IF ~bs[i].prefix_reuse_flag
                                    /\ PrefixScores(bs)[i] < PrefixCut(MemoryPressure(m))
                               THEN "EVICT" ELSE "KEEP_GPU"
          /\ new[i].decision = IF ~bs[i].prefix_reuse_flag
                                    /\ PrefixScores(bs)[i] < PrefixCut(MemoryPressure(M))
                               THEN "EVICT" ELSE "KEEP_GPU"
      BY <1>1, <2>1, <2>3 DEF PrefixCaching, Verdict
    <3>4. old[i].decision = "KEEP_GPU" \/ old[i].decision = new[i].decision
      BY <3>1, <3>2, <3>3
    <3> QED BY <1>2, <3>3, <3>4, SeverityOf
  <2> QED BY <2>2, <2>3
<1>11. CASE c[1] = "learned"
  <2>1. old = Learned(bs, m, c[3]) /\ new = Learned(bs, M, c[3])
    BY <1>11, <1>a, <1>e DEF RowsOf, Decide
  <2> QED BY <1>1, <1>3, <1>6, <2>1 DEF Learned
<1>12. CASE c[1] = "hybrid"
  <2> DEFINE s == HybridScores(bs, M, c[3])
  <2>1. HybridScores(bs, m, c[3]) = s
    BY <1>b
  <2>2. old = Hybrid(bs, m, s) /\ new = Hybrid(bs, M, s)
    BY <1>12, <1>a, <1>e, <2>1 DEF RowsOf, Decide
  <2>3. s[i] \in Nat
    BY <1>c
  <2>4. i \notin HeavyHitters(s)
    BY <1>12, <1>d
  <2> HIDE DEF s
  <2>5. CASE MemoryPressure(m) < MemoryPressureLow \/ MemoryPressure(M) < MemoryPressureHigh
             \/ ~(MemoryPressure(m) < MemoryPressureHigh)
    <3>1. old = KeepAll(bs) \/ old = new
      BY <1>1, <2>2, <2>5 DEF Hybrid
    <3> QED BY <1>3, <3>1
  <2>6. CASE ~(\/ MemoryPressure(m) < MemoryPressureLow
               \/ MemoryPressure(M) < MemoryPressureHigh
               \/ ~(MemoryPressure(m) < MemoryPressureHigh))
    <3>1. old = MediumPressure(bs, s) /\ new = HighPressure(bs, s)
      BY <1>1, <2>2, <2>6 DEF Hybrid
    <3>2. CASE i \in Sinks(bs)
      <4>1. old[i].decision = "KEEP_GPU" /\ new[i].decision = "KEEP_GPU"
        BY <3>1, <3>2 DEF MediumPressure, HighPressure, Verdict
      <4> QED BY <4>1, SeverityOf
    <3>3. CASE i \notin Sinks(bs)
      <4>1. old[i].decision = ByScore(s[i]) /\ new[i].decision = AggressiveByScore(s[i])
        BY <2>4, <3>1, <3>3 DEF MediumPressure, HighPressure, Verdict
      <4> QED BY <2>3, <4>1, AggressiveIsHarsher
    <3> QED BY <3>2, <3>3
  <2> QED BY <2>5, <2>6
<1> QED
  BY <1>4, <1>5, <1>7, <1>8, <1>9, <1>10, <1>11, <1>12, <1>a DEF PolicyNames

(***************************************************************************)
(* PressureMonotone, for every list, every pair of readings and every      *)
(* configuration whose thresholds are ordered.                             *)
(***************************************************************************)
THEOREM PressureIsMonotone == Spec => []PressureMonotone
<1>1. ASSUME CasesInv, NEW c \in Calls, NEW r \in Readings, Pressure(c[2]) < Pressure(r),
             NEW i \in DOMAIN bs,
             ~(c[1] = "hybrid" /\ i \in HeavyHitters(HybridScores(bs, Metrics(r), c[3])))
      PROVE  Harshness(c)[i] <= Harshness(<<c[1], r, c[3]>>)[i]
  <2> DEFINE d == <<c[1], r, c[3]>>
  <2>1. d \in Calls
    BY DEF Calls
  <2>2. d[1] = c[1] /\ d[2] = r /\ d[3] = c[3]
    OBVIOUS
  <2> HIDE DEF d
  <2>3. Harshness(c)[i] = Severity(Row(c)[i]) /\ Harshness(d)[i] = Severity(Row(d)[i])
    BY <1>1, <2>1, HarshnessOf
  <2>4. Row(d) = RowsOf(c[1], bs, Metrics(r), c[3])
    BY <2>2 DEF Row
  <2> QED BY <1>1, <2>3, <2>4, MorePressureIsHarsher DEF d
<1>2. CasesInv => PressureMonotone
  BY <1>1 DEF PressureMonotone
<1> QED BY <1>2, ListsBuilt, PTL

-----------------------------------------------------------------------------
(***************************************************************************)
(* Both of hybrid's tables are monotone: a higher score is never treated   *)
(* more harshly.                                                           *)
(***************************************************************************)
LEMMA HigherScoresAreMilder ==
  ASSUME NEW s \in Nat, NEW t \in Nat, t < s, NEW v, NEW w,
         \/ v.decision = ByScore(s) /\ w.decision = ByScore(t)
         \/ v.decision = AggressiveByScore(s) /\ w.decision = AggressiveByScore(t)
  PROVE  Severity(v) <= Severity(w)
<1>1. QuantizationMinImportance \in Nat /\ OffloadThresholdScore \in Nat
  BY ConfigAssumption
<1>2. CASE v.decision = ByScore(s) /\ w.decision = ByScore(t)
  <2>1. \/ v.decision = w.decision
        \/ v.decision = "KEEP_GPU"
        \/ v.decision = "QUANTIZE" /\ w.decision \in {"OFFLOAD_CPU", "EVICT"}
        \/ v.decision = "OFFLOAD_CPU" /\ w.decision = "EVICT"
    BY <1>1, <1>2 DEF ByScore
  <2>2. v.decision \in Decisions /\ w.decision \in Decisions
    BY <1>2 DEF ByScore, Decisions
  <2> QED BY <2>1, <2>2, SeverityOf DEF Decisions
<1>3. CASE v.decision = AggressiveByScore(s) /\ w.decision = AggressiveByScore(t)
  <2>1. \/ v.decision = w.decision
        \/ v.decision = "QUANTIZE" /\ w.decision \in {"OFFLOAD_CPU", "EVICT"}
        \/ v.decision = "OFFLOAD_CPU" /\ w.decision = "EVICT"
    BY <1>1, <1>3 DEF AggressiveByScore
  <2>2. v.decision \in Decisions /\ w.decision \in Decisions
    BY <1>3 DEF AggressiveByScore, Decisions
  <2> QED BY <2>1, <2>2, SeverityOf DEF Decisions
<1> QED BY <1>2, <1>3

(***************************************************************************)
(* learned and hybrid decide by the same thresholds between the two        *)
(* pressures, though each has its own copy of the table.                   *)
(***************************************************************************)
LEMMA SameThresholds == \A s : ScoreToDecision(s) = ByScore(s)
BY DEF ScoreToDecision, ByScore

(***************************************************************************)
(* hybrid never treats the higher of two scores more harshly: the heavy    *)
(* hitters it spares include, with a block, every block that scores        *)
(* higher.                                                                 *)
(***************************************************************************)
LEMMA HybridIsMonotone ==
  ASSUME CasesInv, NEW m, NEW s \in [1..Len(bs) -> Nat],
         NEW i \in DOMAIN bs \ Sinks(bs), NEW j \in DOMAIN bs \ Sinks(bs), s[i] > s[j]
  PROVE  Severity(Hybrid(bs, m, s)[i]) <= Severity(Hybrid(bs, m, s)[j])
<1>0. DOMAIN bs = 1..Len(bs) /\ Len(bs) \in Nat
  BY ListFits DEF BlockList
<1>1. s[i] \in Nat /\ s[j] \in Nat /\ s[j] < s[i]
  BY <1>0
<1>2. CASE MemoryPressure(m) < MemoryPressureLow
  BY <1>2, KeptIsMildest DEF Hybrid
<1>3. CASE ~(MemoryPressure(m) < MemoryPressureLow) /\ MemoryPressure(m) < MemoryPressureHigh
  <2>1. /\ Hybrid(bs, m, s)[i].decision = ByScore(s[i])
        /\ Hybrid(bs, m, s)[j].decision = ByScore(s[j])
    BY <1>3 DEF Hybrid, MediumPressure, Verdict
  <2> QED BY <1>1, <2>1, HigherScoresAreMilder
<1>4. CASE ~(MemoryPressure(m) < MemoryPressureLow) /\ ~(MemoryPressure(m) < MemoryPressureHigh)
  <2>1. Hybrid(bs, m, s) = HighPressure(bs, s)
    BY <1>4 DEF Hybrid
  <2>2. ASSUME NEW x \in DOMAIN bs \ Sinks(bs)
        PROVE  HighPressure(bs, s)[x].decision =
                 IF x \in HeavyHitters(s) THEN "KEEP_GPU" ELSE AggressiveByScore(s[x])
    BY <2>2 DEF HighPressure, Verdict
  <2>3. s \in [1..Len(bs) -> Int] /\ i \in 1..Len(bs)
    BY <1>0
  <2>4. ASSUME j \in HeavyHitters(s) PROVE i \in HeavyHitters(s)
    BY <1>0, <1>1, <2>3, <2>4, HeavyHittersClosed
  <2>5. CASE i \in HeavyHitters(s)
    <3>1. Severity(HighPressure(bs, s)[i]) = 0
      BY <2>2, <2>5, SeverityOf
    <3>2. HighPressure(bs, s)[j].decision \in Decisions
      BY <2>2 DEF AggressiveByScore, Decisions
    <3> QED BY <2>1, <3>1, <3>2, SeverityOf
  <2>6. CASE i \notin HeavyHitters(s)
    <3>1. /\ HighPressure(bs, s)[i].decision = AggressiveByScore(s[i])
          /\ HighPressure(bs, s)[j].decision = AggressiveByScore(s[j])
      BY <2>2, <2>4, <2>6
    <3> QED BY <1>1, <2>1, <3>1, HigherScoresAreMilder
  <2> QED BY <2>5, <2>6
<1> QED BY <1>2, <1>3, <1>4

(***************************************************************************)
(* With a model, what learned returns is hybrid's table on the model's     *)
(* scores.                                                                 *)
(***************************************************************************)
LEMMA LearnedIsHybrid ==
  ASSUME NEW m, NEW model, model.status # "absent"
  PROVE  Learned(bs, m, model) = IF MemoryPressure(m) < MemoryPressureLow THEN KeepAll(bs)
                                 ELSE MediumPressure(bs, HybridScores(bs, m, model))
<1> DEFINE s == ScoreBlocks(bs, model)
<1>1. HybridScores(bs, m, model) = s
  BY DEF HybridScores
<1>2. MediumPressure(bs, s) =
        [i \in DOMAIN bs |-> IF i \in Sinks(bs) THEN Verdict(bs[i], "KEEP_GPU", Unit)
                             ELSE Verdict(bs[i], ScoreToDecision(s[i]), s[i])]
  BY SameThresholds DEF MediumPressure
<1> QED BY <1>1, <1>2 DEF Learned

(***************************************************************************)
(* ScoreMonotone: of two blocks that are no sinks, the one with the higher *)
(* score is never treated more harshly.                                    *)
(***************************************************************************)
LEMMA ScoresAreMonotone ==
  ASSUME CasesInv
  PROVE  ScoreMonotone
<1> SUFFICES ASSUME NEW c \in CallsOf(ScoringPolicies), c[1] = "hybrid" \/ c[3].status # "absent",
                    NEW i \in DOMAIN bs \ Sinks(bs), NEW j \in DOMAIN bs \ Sinks(bs),
                    Scores(c)[i] > Scores(c)[j]
             PROVE  Harshness(c)[i] <= Harshness(c)[j]
  BY DEF ScoreMonotone
<1> DEFINE m == Metrics(c[2])
           s == Scores(c)
<1>1. c \in Calls /\ c[1] \in {"hybrid", "learned"}
  BY DEF CallsOf, ScoringPolicies
<1>2. /\ Harshness(c)[i] = Severity(Row(c)[i]) /\ Harshness(c)[j] = Severity(Row(c)[j])
  BY <1>1, HarshnessOf
<1>3. MetricsFit(m) /\ ModelFits(c[3], bs) /\ BlockList(bs)
  BY <1>1, CallFits, ListFits
<1>4. s \in [1..Len(bs) -> Nat] /\ s = HybridScores(bs, m, c[3])
  <2>1. HybridScores(bs, m, c[3]) \in [1..Len(bs) -> Nat]
    BY <1>3, ScoresType
  <2>2. s = HybridScores(bs, m, c[3])
    BY <1>1 DEF Scores, HybridScores
  <2> QED BY <2>1, <2>2
<1>5. CASE c[1] = "hybrid"
  <2>1. Row(c) = Hybrid(bs, m, s)
    BY <1>4, <1>5 DEF Row, RowsOf, Decide
  <2> HIDE DEF m, s
  <2>2. s[i] > s[j]
    BY DEF s
  <2> QED BY <1>2, <1>4, <2>1, <2>2, HybridIsMonotone
<1>6. CASE c[1] = "learned"
  <2>1. Row(c) = IF MemoryPressure(m) < MemoryPressureLow THEN KeepAll(bs)
                 ELSE MediumPressure(bs, s)
    BY <1>4, <1>6, LearnedIsHybrid DEF Row, RowsOf, Decide
  <2>2. CASE MemoryPressure(m) < MemoryPressureLow
    BY <1>2, <2>1, <2>2, KeptIsMildest
  <2>3. CASE ~(MemoryPressure(m) < MemoryPressureLow)
    <3>1. Row(c)[i].decision = ByScore(s[i]) /\ Row(c)[j].decision = ByScore(s[j])
      BY <2>1, <2>3 DEF MediumPressure, Verdict
    <3>2. s[i] \in Nat /\ s[j] \in Nat /\ s[j] < s[i]
      BY <1>3, <1>4 DEF BlockList
    <3> QED BY <1>2, <3>1, <3>2, HigherScoresAreMilder
  <2> QED BY <2>2, <2>3
<1> QED BY <1>1, <1>5, <1>6

(***************************************************************************)
(* RecencyDecides: the recency part is monotone in the last access however *)
(* stale the step it is compared with, and so is the weighted sum.         *)
(***************************************************************************)
LEMMA RecencyIsDecisive ==
  ASSUME CasesInv
  PROVE  RecencyDecides
<1> DEFINE m == Metrics([used |-> 3, free |-> 1])
           M(stale) == [m EXCEPT !.global_step = stale]
           Alike(i, j) == /\ bs[i].avg_attention_score = bs[j].avg_attention_score
                          /\ bs[i].prefix_reuse_flag = bs[j].prefix_reuse_flag
<1>1. ASSUME NEW stale \in 0..m.global_step, NEW i \in DOMAIN bs, NEW j \in DOMAIN bs,
             Alike(i, j), bs[i].last_access_step > bs[j].last_access_step
      PROVE  HeuristicScores(bs, M(stale))[i] >= HeuristicScores(bs, M(stale))[j]
  <2>0. BlockList(bs) /\ DOMAIN bs = 1..Len(bs) /\ stale \in Nat
    BY ListFits DEF BlockList
  <2>1. /\ M(stale).global_step = stale /\ M(stale).attn_max = m.attn_max
        /\ M(stale).workload = workload
    BY DEF Metrics, SystemMetrics
  <2>2. m.attn_max \in Nat
    <3>1. HighestOf([x \in DOMAIN bs |-> bs[x].max_attention_score], Unit) \in Nat
      <4>1. [x \in DOMAIN bs |-> bs[x].max_attention_score] \in [1..Len(bs) -> Nat]
        BY <2>0 DEF BlockList
      <4>2. Len(bs) \in Nat /\ Unit \in Nat
        BY <2>0 DEF BlockList, Unit
      <4> QED BY <4>1, <4>2, HighestOfNat
    <3> QED BY <3>1 DEF Metrics, SystemMetrics
  <2> HIDE DEF m
  <2> DEFINE now == M(stale)
             w == Weights(workload)
             Att(b) == IF Ratio(b.avg_attention_score, now.attn_max) > Unit THEN Unit
                       ELSE Ratio(b.avg_attention_score, now.attn_max)
             Reuse(b) == IF b.prefix_reuse_flag THEN Unit ELSE 0
  <2>3. \A b : ScoreBlock(b, now) = Composite(w, Recency(b, stale), Att(b), Reuse(b))
    BY <2>1 DEF ScoreBlock
  <2>4. w[1] \in Nat /\ w[2] \in Nat /\ w[3] \in Nat
    <3>1. workload \in DOMAIN WorkloadDeltas
      BY CasesAssumption DEF CasesInv
    <3> QED BY <3>1, WeightsType
  <2>5. /\ bs[i].last_access_step \in Nat /\ bs[j].last_access_step \in Nat
        /\ bs[i].avg_attention_score \in Nat
        /\ bs[j].last_access_step <= bs[i].last_access_step
    BY <1>1, <2>0 DEF BlockList
  <2>6. /\ Recency(bs[i], stale) \in Nat /\ Recency(bs[j], stale) \in Nat
        /\ Recency(bs[j], stale) <= Recency(bs[i], stale)
    BY <2>0, <2>5, RecencyNat, RecencyMonotone
  <2>7. Ratio(bs[i].avg_attention_score, now.attn_max) \in Nat
    BY <2>1, <2>2, <2>5, RatioNat
  <2>8. Att(bs[i]) \in Nat /\ Reuse(bs[i]) \in Nat
    BY <2>7 DEF Unit
  <2>9. Att(bs[j]) = Att(bs[i]) /\ Reuse(bs[j]) = Reuse(bs[i])
    BY <1>1
  <2>10. /\ HeuristicScores(bs, now)[i] = ScoreBlock(bs[i], now)
         /\ HeuristicScores(bs, now)[j] = ScoreBlock(bs[j], now)
    BY DEF HeuristicScores
  <2> HIDE DEF now, w, Att, Reuse
  <2> DEFINE hi == Composite(w, Recency(bs[i], stale), Att(bs[i]), Reuse(bs[i]))
             lo == Composite(w, Recency(bs[j], stale), Att(bs[i]), Reuse(bs[i]))
  <2>11. hi \in Nat /\ lo \in Nat /\ lo <= hi
    BY <2>4, <2>6, <2>8, CompositeNat, CompositeMonotone
  <2>12. HeuristicScores(bs, now)[i] = hi /\ HeuristicScores(bs, now)[j] = lo
    BY <2>3, <2>9, <2>10
  <2> HIDE DEF hi, lo
  <2> QED BY <2>11, <2>12 DEF now
<1> QED BY <1>1 DEF RecencyDecides

(***************************************************************************)
(* LearnedAgreesWithHybrid: with a model, between the thresholds, learned  *)
(* and hybrid return the same verdicts.                                    *)
(***************************************************************************)
LEMMA LearnedAgrees ==
  ASSUME CasesInv
  PROVE  LearnedAgreesWithHybrid
<1> SUFFICES ASSUME NEW c \in CallsOf({"learned"}), c[3].status # "absent",
                    MemoryPressureLow <= Pressure(c[2]), Pressure(c[2]) < MemoryPressureHigh
             PROVE  Result(c) = Result(<<"hybrid", c[2], c[3]>>)
  BY DEF LearnedAgreesWithHybrid
<1> DEFINE d == <<"hybrid", c[2], c[3]>>
           m == Metrics(c[2])
<1>1. c \in Calls /\ c[1] = "learned"
  BY DEF CallsOf
<1>2. d[1] = "hybrid" /\ d[2] = c[2] /\ d[3] = c[3]
  OBVIOUS
<1>3. MemoryPressure(m) \in Nat /\ MemoryPressureLow \in Nat
  BY <1>1, CallFits, PressureType, ConfigAssumption
<1>4. ~(MemoryPressure(m) < MemoryPressureLow) /\ MemoryPressure(m) < MemoryPressureHigh
  BY <1>3 DEF Pressure
<1> HIDE DEF d, m
<1>5. Result(c) = Learned(bs, m, c[3]) /\ Result(d) = Hybrid(bs, m, HybridScores(bs, m, c[3]))
  BY <1>1, <1>2 DEF Result, Decide, m
<1>6. Result(c) = MediumPressure(bs, HybridScores(bs, m, c[3]))
  BY <1>4, <1>5, LearnedIsHybrid
<1>7. Result(d) = MediumPressure(bs, HybridScores(bs, m, c[3]))
  BY <1>4, <1>5 DEF Hybrid
<1> QED BY <1>6, <1>7 DEF d

(***************************************************************************)
(* ScoresDecide, for every list, every reading and every prediction of the *)
(* model.                                                                  *)
(***************************************************************************)
THEOREM TheScoreDecides == Spec => []ScoresDecide
<1>1. CasesInv => ScoresDecide
  BY ScoresAreMonotone, RecencyIsDecisive, LearnedAgrees DEF ScoresDecide
<1> QED BY <1>1, ListsBuilt, PTL

-----------------------------------------------------------------------------
(***************************************************************************)
(* SinksKept: the policies that know sink tokens keep the first blocks of  *)
(* the list, by their ids, whatever their scores.                          *)
(***************************************************************************)
LEMMA SinksAreKept ==
  ASSUME CasesInv
  PROVE  SinksKept
<1> SUFFICES ASSUME NEW c \in CallsOf(PolicyNames \ {"full_cache", "prefix_caching"}),
                    NEW i \in Sinks(bs)
             PROVE  On(Result(c), bs[i]).decision = "KEEP_GPU"
  BY DEF SinksKept
<1> DEFINE m == Metrics(c[2])
<1>1. c \in Calls /\ c[1] \in PolicyNames \ {"full_cache", "prefix_caching"}
  BY DEF CallsOf
<1>2. i \in DOMAIN bs
  BY DEF Sinks, FirstOf, ById
<1>3. On(Result(c), bs[i]) = Row(c)[i]
  BY <1>1, <1>2, OnRow
<1>4. Row(c) = RowsOf(c[1], bs, m, c[3])
  BY DEF Row
<1> HIDE DEF m
<1>5. KeepAll(bs)[i].decision = "KEEP_GPU"
  BY <1>2 DEF KeepAll, Verdict
<1>6. \A s : Hybrid(bs, m, s)[i].decision = "KEEP_GPU"
  BY <1>2, <1>5 DEF Hybrid, MediumPressure, HighPressure, Verdict
<1>7. H2O(bs, m)[i].decision = "KEEP_GPU"
  BY <1>2, <1>5 DEF H2O, Verdict
<1>8. CASE c[1] = "sliding_window"
  BY <1>2, <1>3, <1>4, <1>5, <1>8 DEF RowsOf, Decide, SlidingWindow, Verdict
<1>9. CASE c[1] = "h2o"
  BY <1>3, <1>4, <1>7, <1>9 DEF RowsOf, Decide
<1>10. CASE c[1] = "quantize_only"
  BY <1>2, <1>3, <1>4, <1>5, <1>10 DEF RowsOf, Decide, QuantizeOnly, Verdict
<1>11. CASE c[1] = "offload_only"
  <2>1. i \notin Offloaded(bs)
    BY DEF Offloaded
  <2> QED BY <1>2, <1>3, <1>4, <1>5, <1>11, <2>1 DEF RowsOf, OffloadRows, Verdict
<1>12. CASE c[1] = "hybrid"
  BY <1>3, <1>4, <1>6, <1>12 DEF RowsOf, Decide
<1>13. CASE c[1] = "learned"
  <2>1. MediumPressure(bs, HybridScores(bs, m, c[3]))[i].decision = "KEEP_GPU"
    BY <1>2 DEF MediumPressure, Verdict
  <2>2. Learned(bs, m, c[3])[i].decision = "KEEP_GPU"
    BY <1>5, <1>7, <2>1, LearnedIsHybrid DEF Learned
  <2> QED BY <1>3, <1>4, <1>13, <2>2 DEF RowsOf, Decide
<1> QED BY <1>1, <1>8, <1>9, <1>10, <1>11, <1>12, <1>13 DEF PolicyNames

(***************************************************************************)
(* The blocks a result gives one decision, read off the rows.              *)
(***************************************************************************)
LEMMA ChosenRows ==
  ASSUME CasesInv, NEW c \in Calls, NEW d
  PROVE  Chosen(Result(c), d) = {i \in DOMAIN bs : Row(c)[i].decision = d}
BY OnRow DEF Chosen

(***************************************************************************)
(* Under high pressure full_cache evicts a tenth of the list, and at least *)
(* one block.                                                              *)
(***************************************************************************)
LEMMA FullCacheShare ==
  ASSUME CasesInv, NEW m, Len(bs) > 0, ~(MemoryPressure(m) < MemoryPressureHigh)
  PROVE  Cardinality({i \in DOMAIN bs : FullCache(bs, m)[i].decision = "EVICT"})
           = AtLeast(1, Len(bs) \div 10)
<1> DEFINE n == Len(bs)
           k == AtLeast(1, Share(n, 100))
           out == FirstOf(ByAccess(bs), k)
<1>1. BlockList(bs) /\ n \in Nat /\ n > 0 /\ DOMAIN bs = 1..n
  BY ListFits DEF BlockList
<1>2. Share(n, 100) = n \div 10
  BY <1>1 DEF Share, Unit
<1>3. k \in Nat /\ k = AtLeast(1, n \div 10) /\ ~(n < k)
  BY <1>1, <1>2 DEF AtLeast
<1>4. ByAccess(bs) \in [1..n -> Int]
  BY <1>1, KeysType
<1>5. \A i \in DOMAIN bs :
        FullCache(bs, m)[i].decision = IF i \in out THEN "EVICT" ELSE "KEEP_GPU"
  BY DEF FullCache, Verdict
<1> HIDE DEF k
<1>6. out \subseteq DOMAIN bs
  BY DEF FirstOf, ByAccess
<1>7. Cardinality(out) = k
  BY <1>1, <1>3, <1>4, FirstOfCardinality
<1> HIDE DEF out
<1>8. {i \in DOMAIN bs : FullCache(bs, m)[i].decision = "EVICT"} = out
  BY <1>5, <1>6
<1> QED BY <1>3, <1>7, <1>8

(***************************************************************************)
(* sliding_window evicts every block between the sinks and the window: the *)
(* ranks in between are counted.                                           *)
(***************************************************************************)
LEMMA SlidingWindowShare ==
  ASSUME CasesInv, NEW m, ~(MemoryPressure(m) < MemoryPressureLow)
  PROVE  Cardinality({i \in DOMAIN bs : SlidingWindow(bs, m)[i].decision = "EVICT"})
           = AtLeast(0, Len(bs) - SinkTokenBlocks - SlidingWindowBlocks)
<1> DEFINE n == Len(bs)
           key == ById(bs)
           hi == n - SlidingWindowBlocks - 1
           out == {i \in 1..n : Rank(key, i) \in SinkTokenBlocks..hi}
<1>1. BlockList(bs) /\ n \in Nat /\ DOMAIN bs = 1..n
  BY ListFits DEF BlockList
<1>2. SinkTokenBlocks \in Nat /\ SlidingWindowBlocks \in Nat
  BY ConfigAssumption
<1>3. key \in [1..n -> Int]
  BY <1>1, KeysType
<1>4. \A i \in DOMAIN bs :
        SlidingWindow(bs, m)[i].decision =
          IF i \in Sinks(bs) \union LastOf(key, SlidingWindowBlocks) THEN "KEEP_GPU" ELSE "EVICT"
  BY DEF SlidingWindow, Verdict
<1>5. Sinks(bs) = {i \in 1..n : Rank(key, i) < SinkTokenBlocks}
  BY <1>3 DEF Sinks, FirstOf
<1> HIDE DEF n, key
<1>6. LastOf(key, SlidingWindowBlocks) = {i \in 1..n : Rank(key, i) >= n - SlidingWindowBlocks}
  BY <1>1, <1>2, <1>3, LastOfRanks
<1>7. \A i \in 1..n : Rank(key, i) \in Int
  BY <1>1, <1>3, RankType
<1>8. \A i \in 1..n : i \in out <=> i \notin Sinks(bs) \union LastOf(key, SlidingWindowBlocks)
  BY <1>1, <1>2, <1>5, <1>6, <1>7
<1>9. hi \in Int /\ hi < n
  BY <1>1, <1>2
<1>10. Cardinality(out) = IF SinkTokenBlocks > hi THEN 0 ELSE hi - SinkTokenBlocks + 1
  BY <1>1, <1>2, <1>3, <1>9, RanksBetween
<1>11. out \subseteq 1..n
  OBVIOUS
<1> HIDE DEF out
<1>12. {i \in DOMAIN bs : SlidingWindow(bs, m)[i].decision = "EVICT"} = out
  BY <1>1, <1>4, <1>8, <1>11
<1>13. Cardinality(out) = AtLeast(0, n - SinkTokenBlocks - SlidingWindowBlocks)
  BY <1>1, <1>2, <1>10 DEF AtLeast
<1> QED BY <1>12, <1>13 DEF n

(***************************************************************************)
(* h2o keeps its share of heavy hitters and, beside them, no more than the *)
(* sinks.                                                                  *)
(***************************************************************************)
LEMMA H2OShare ==
  ASSUME CasesInv, NEW m, Len(bs) > 0, ~(MemoryPressure(m) < MemoryPressureLow),
         HeavyHitterFraction <= Unit
  PROVE  LET heavy == AtLeast(1, Share(Len(bs), HeavyHitterFraction))
         IN  Len(bs) - Cardinality({i \in DOMAIN bs : H2O(bs, m)[i].decision = "EVICT"})
               \in heavy..(SinkTokenBlocks + heavy)
<1> DEFINE n == Len(bs)
           heavy == AtLeast(1, Share(n, HeavyHitterFraction))
           sinks == Sinks(bs)
           hitters == HeavyHitters(ByAttention(bs))
           kept == sinks \union hitters
           out == {i \in DOMAIN bs : H2O(bs, m)[i].decision = "EVICT"}
<1>1. BlockList(bs) /\ n \in Nat /\ n > 0 /\ DOMAIN bs = 1..n
  BY ListFits DEF BlockList
<1>2. HeavyHitterFraction \in Nat /\ SinkTokenBlocks \in Nat
  BY ConfigAssumption
<1>3. ById(bs) \in [1..n -> Int] /\ ByAttention(bs) \in [1..n -> Int]
  BY <1>1, KeysType
<1>4. /\ heavy \in Nat /\ IsFiniteSet(hitters)
      /\ Cardinality(hitters) = IF heavy < n THEN heavy ELSE n
  BY <1>1, <1>3, HeavyHittersShare
<1>5. ~(n < heavy)
  <2>1. Share(n, HeavyHitterFraction) \in Nat /\ Share(n, HeavyHitterFraction) <= n
    BY <1>1, <1>2, ShareBounded
  <2> HIDE DEF n
  <2> QED BY <1>1, <2>1 DEF AtLeast
<1>6. IsFiniteSet(sinks) /\ Cardinality(sinks) = IF SinkTokenBlocks < n THEN SinkTokenBlocks ELSE n
  BY <1>1, <1>2, <1>3, FirstOfCardinality DEF Sinks
<1>7. kept \subseteq DOMAIN bs
  <2>1. sinks \subseteq DOMAIN bs
    BY DEF Sinks, FirstOf, ById
  <2>2. hitters \subseteq DOMAIN bs
    BY DEF HeavyHitters, FirstOf, Descending, ByAttention
  <2> QED BY <2>1, <2>2
<1>8. out = DOMAIN bs \ kept
  <2>1. \A i \in DOMAIN bs :
          H2O(bs, m)[i].decision = IF i \in kept THEN "KEEP_GPU" ELSE "EVICT"
    BY DEF H2O, Verdict
  <2> HIDE DEF kept
  <2> QED BY <2>1
<1> HIDE DEF n, heavy, sinks, hitters, out
<1>9. /\ IsFiniteSet(kept) /\ Cardinality(kept) \in Nat
      /\ Cardinality(hitters) <= Cardinality(kept)
      /\ Cardinality(kept) <= Cardinality(sinks) + Cardinality(hitters)
  <2>1. /\ IsFiniteSet(kept)
        /\ Cardinality(kept) = Cardinality(sinks) + Cardinality(hitters)
                                 - Cardinality(sinks \cap hitters)
    BY <1>4, <1>6, FS_Union
  <2>2. IsFiniteSet(sinks \cap hitters)
    BY <1>4, FS_Subset
  <2>3. /\ Cardinality(sinks \cap hitters) \in Nat /\ Cardinality(sinks) \in Nat
        /\ Cardinality(hitters) \in Nat /\ Cardinality(kept) \in Nat
    BY <1>4, <1>6, <2>1, <2>2, FS_CardinalityType
  <2>4. Cardinality(hitters) <= Cardinality(kept)
    BY <2>1, FS_Subset
  <2> QED BY <2>1, <2>3, <2>4
<1>10. Cardinality(out) = n - Cardinality(kept)
  <2>1. IsFiniteSet(1..n) /\ Cardinality(1..n) = n
    BY <1>1, FS_Interval
  <2>2. (1..n) \cap kept = kept
    BY <1>1, <1>7
  <2>3. Cardinality((1..n) \ kept) = Cardinality(1..n) - Cardinality((1..n) \cap kept)
    BY <1>9, <2>1, FS_Difference
  <2> QED BY <1>1, <1>8, <2>1, <2>2, <2>3
<1>11. n - Cardinality(out) \in heavy..(SinkTokenBlocks + heavy)
  BY <1>1, <1>2, <1>4, <1>5, <1>6, <1>9, <1>10
<1> QED BY <1>11 DEF n, heavy, out

(***************************************************************************)
(* EvictsItsShare: each of the three keeps to its share.                   *)
(***************************************************************************)
LEMMA SharesAreEvicted ==
  ASSUME CasesInv, HeavyHitterFraction <= Unit
  PROVE  EvictsItsShare
<1> SUFFICES ASSUME NEW c \in CallsOf({"full_cache", "sliding_window", "h2o"}),
                    Len(bs) > 0, Pressure(c[2]) >= MemoryPressureHigh
             PROVE  LET n == Len(bs)
                        out == Cardinality(Chosen(Result(c), "EVICT"))
                        heavy == AtLeast(1, Share(n, HeavyHitterFraction))
                    IN  CASE c[1] = "full_cache" -> out = AtLeast(1, n \div 10)
                          [] c[1] = "sliding_window" ->
                               out = AtLeast(0, n - SinkTokenBlocks - SlidingWindowBlocks)
                          [] c[1] = "h2o" -> n - out \in heavy..(SinkTokenBlocks + heavy)
  BY DEF EvictsItsShare
<1> DEFINE m == Metrics(c[2])
<1>1. c \in Calls /\ c[1] \in {"full_cache", "sliding_window", "h2o"}
  BY DEF CallsOf
<1>2. ~(MemoryPressure(m) < MemoryPressureHigh) /\ ~(MemoryPressure(m) < MemoryPressureLow)
  <2>1. MemoryPressure(m) \in Nat
    BY <1>1, CallFits, PressureType
  <2> QED BY <2>1, ConfigAssumption DEF Pressure
<1>3. Chosen(Result(c), "EVICT") = {i \in DOMAIN bs : Row(c)[i].decision = "EVICT"}
  BY <1>1, ChosenRows
<1> HIDE DEF m
<1>4. CASE c[1] = "full_cache"
  <2>1. Row(c) = FullCache(bs, m)
    BY <1>4 DEF Row, RowsOf, Decide, m
  <2> QED BY <1>2, <1>3, <1>4, <2>1, FullCacheShare
<1>5. CASE c[1] = "sliding_window"
  <2>1. Row(c) = SlidingWindow(bs, m)
    BY <1>5 DEF Row, RowsOf, Decide, m
  <2> QED BY <1>2, <1>3, <1>5, <2>1, SlidingWindowShare
<1>6. CASE c[1] = "h2o"
  <2>1. Row(c) = H2O(bs, m)
    BY <1>6 DEF Row, RowsOf, Decide, m
  <2> QED BY <1>2, <1>3, <1>6, <2>1, H2OShare
<1> QED BY <1>1, <1>4, <1>5, <1>6

(***************************************************************************)
(* Averages are fractions of the highest, which is one unit at most, so    *)
(* two different averages have different fractions: no tie is made by      *)
(* rounding.                                                               *)
(***************************************************************************)
LEMMA RelativeAttentionStrict ==
  ASSUME CasesInv, NEW i \in DOMAIN bs, NEW j \in DOMAIN bs,
         bs[i].avg_attention_score < bs[j].avg_attention_score
  PROVE  RelativeAttention(bs)[i] < RelativeAttention(bs)[j]
<1>1. BlockList(bs) /\ Len(bs) \in Nat /\ DOMAIN bs = 1..Len(bs) /\ Len(bs) > 0
  BY ListFits DEF BlockList
<1>2. \A k \in DOMAIN bs : bs[k].avg_attention_score \in 0..Unit
  BY ListFits, CasesAssumption DEF Inputs
<1>3. ByAttention(bs) \in [1..Len(bs) -> Int]
      /\ \A k \in DOMAIN bs : ByAttention(bs)[k] = bs[k].avg_attention_score
  BY <1>1, <1>2 DEF ByAttention
<1>4. /\ \E k \in 1..Len(bs) : MaxAttention(bs) = ByAttention(bs)[k]
      /\ \A k \in 1..Len(bs) : ByAttention(bs)[k] <= MaxAttention(bs)
  BY <1>1, <1>3, HighestOfType DEF MaxAttention
<1>5. /\ MaxAttention(bs) \in 0..Unit /\ bs[j].avg_attention_score <= MaxAttention(bs)
  BY <1>1, <1>2, <1>3, <1>4
<1>6. /\ bs[i].avg_attention_score \in Nat /\ bs[j].avg_attention_score \in Nat
      /\ MaxAttention(bs) \in Nat /\ 0 < MaxAttention(bs) /\ MaxAttention(bs) <= Unit
  <2>1. 0..Unit \subseteq Nat /\ \A x \in 0..Unit : x <= Unit
    BY DEF Unit
  <2>2. bs[i].avg_attention_score \in Nat /\ bs[j].avg_attention_score \in Nat
    BY <1>2, <2>1
  <2>3. MaxAttention(bs) \in Nat /\ MaxAttention(bs) <= Unit
    BY <1>5, <2>1
  <2> QED BY <1>5, <2>2, <2>3
<1> QED BY <1>6, RatioStrict DEF RelativeAttention

(***************************************************************************)
(* OffloadsLeastAttended: the cap holds, since the offloaded blocks have   *)
(* different ranks below it, and no block that stays has less attention    *)
(* than one that goes.                                                     *)
(***************************************************************************)
LEMMA LeastAttendedGo ==
  ASSUME CasesInv
  PROVE  OffloadsLeastAttended
<1> DEFINE n == Len(bs)
           s == RelativeAttention(bs)
           cap == Share(n, OffloadMaxFraction)
           eligible == {i \in DOMAIN bs \ Sinks(bs) : s[i] <= OffloadThresholdScore}
<1>1. BlockList(bs) /\ n \in Nat /\ DOMAIN bs = 1..n
  BY ListFits DEF BlockList
<1>2. cap \in Nat /\ OffloadThresholdScore \in Nat
  <2>1. n * OffloadMaxFraction \in Nat /\ Unit \in Nat \ {0} /\ OffloadThresholdScore \in Nat
    BY <1>1, ConfigAssumption DEF Unit
  <2> QED BY <2>1, DivNat DEF Share
<1>3. s \in [1..n -> Int] /\ \A i \in 1..n : s[i] \in Nat
  BY <1>1, AttentionType
<1>4. eligible \in SUBSET (1..n)
  BY <1>1
<1>5. Offloaded(bs) = {i \in eligible : Cardinality(Below(s, eligible, i)) < cap}
  BY DEF Offloaded, Below
<1>6. \A i, j \in DOMAIN bs : s[i] <= s[j] => bs[i].avg_attention_score <= bs[j].avg_attention_score
  <2> SUFFICES ASSUME NEW i \in DOMAIN bs, NEW j \in DOMAIN bs, s[i] <= s[j]
               PROVE  bs[i].avg_attention_score <= bs[j].avg_attention_score
    OBVIOUS
  <2>1. bs[i].avg_attention_score \in Nat /\ bs[j].avg_attention_score \in Nat
    BY <1>1 DEF BlockList
  <2>2. ~(s[j] < s[i])
    BY <1>1, <1>3
  <2> QED BY <2>1, <2>2, RelativeAttentionStrict
<1> HIDE DEF n, s, cap, eligible
<1>7. Cardinality(Offloaded(bs)) <= cap /\ Cardinality({}) <= cap
  <2> DEFINE f == [i \in Offloaded(bs) |-> Cardinality(Below(s, eligible, i))]
  <2>1. \A i \in eligible : Cardinality(Below(s, eligible, i)) \in Nat
    <3>1. Cardinality(eligible) \in Nat
      BY <1>1, <1>4, PlacesFinite
    <3>2. \A i \in eligible :
            Cardinality(Below(s, eligible, i)) \in 0..(Cardinality(eligible) - 1)
      BY <1>1, <1>3, <1>4, BelowType
    <3> QED BY <3>1, <3>2
  <2>2. f \in [Offloaded(bs) -> 0..(cap - 1)]
    BY <1>2, <1>5, <2>1
  <2>3. \A i, j \in Offloaded(bs) : f[i] = f[j] => i = j
    <3> SUFFICES ASSUME NEW i \in Offloaded(bs), NEW j \in Offloaded(bs), f[i] = f[j], i # j
                 PROVE  FALSE
      OBVIOUS
    <3>1. i \in eligible /\ j \in eligible /\ i \in 1..n /\ j \in 1..n
      BY <1>4, <1>5
    <3>2. s[i] \in Int /\ s[j] \in Int
      BY <1>3, <3>1
    <3>3. Before(s, i, j) \/ Before(s, j, i)
      BY <3>1, <3>2 DEF Before
    <3>4. /\ Before(s, i, j) => f[i] < f[j]
          /\ Before(s, j, i) => f[j] < f[i]
      BY <1>1, <1>3, <1>4, <3>1, BelowOrdered
    <3>5. f[i] \in Nat /\ f[j] \in Nat
      BY <2>1, <3>1
    <3> QED BY <3>3, <3>4, <3>5
  <2>4. f \in Injection(Offloaded(bs), 0..(cap - 1))
    BY <2>2, <2>3 DEF Injection, IsInjective
  <2>5. IsFiniteSet(0..(cap - 1)) /\ Cardinality(0..(cap - 1)) = cap
    BY <1>2, FS_Interval
  <2> HIDE DEF f
  <2>6. Cardinality(Offloaded(bs)) <= cap
    BY <2>4, <2>5, FS_Injection
  <2> QED BY <1>2, <2>6, FS_EmptySet
<1>8. ASSUME NEW i \in Offloaded(bs), NEW j \in DOMAIN bs \ (Offloaded(bs) \union Sinks(bs))
      PROVE  bs[i].avg_attention_score <= bs[j].avg_attention_score
  <2>1. /\ i \in eligible /\ i \in 1..n /\ j \in 1..n /\ i \in DOMAIN bs
        /\ s[i] <= OffloadThresholdScore
    BY <1>1, <1>4, <1>5 DEF eligible
  <2>2. s[i] \in Nat /\ s[j] \in Nat
    BY <1>3, <2>1
  <2>3. CASE j \in eligible
    <3>1. ~(Cardinality(Below(s, eligible, j)) < cap) /\ Cardinality(Below(s, eligible, i)) < cap
      BY <1>5, <1>8, <2>3
    <3>2. ~Before(s, j, i)
      <4> SUFFICES ASSUME Before(s, j, i) PROVE FALSE
        OBVIOUS
      <4>1. Cardinality(Below(s, eligible, j)) < Cardinality(Below(s, eligible, i))
        BY <1>1, <1>3, <1>4, <2>1, <2>3, BelowOrdered
      <4>2. Cardinality(eligible) \in Nat
        BY <1>1, <1>4, PlacesFinite
      <4>3. /\ Cardinality(Below(s, eligible, i)) \in 0..(Cardinality(eligible) - 1)
            /\ Cardinality(Below(s, eligible, j)) \in 0..(Cardinality(eligible) - 1)
        BY <1>1, <1>3, <1>4, <2>1, <2>3, BelowType
      <4> QED BY <1>2, <3>1, <4>1, <4>2, <4>3
    <3>3. s[i] <= s[j]
      BY <2>2, <3>2 DEF Before
    <3> QED BY <1>6, <2>1, <3>3
  <2>4. CASE j \notin eligible
    <3>1. ~(s[j] <= OffloadThresholdScore)
      BY <2>4 DEF eligible
    <3>2. s[i] <= s[j]
      BY <1>2, <2>1, <2>2, <3>1
    <3> QED BY <1>6, <2>1, <3>2
  <2> QED BY <2>3, <2>4
<1>9. ASSUME NEW c \in CallsOf({"offload_only"})
      PROVE  LET gone == Chosen(Result(c), "OFFLOAD_CPU")
             IN  gone = {} \/ gone = Offloaded(bs)
  <2>1. c \in Calls /\ c[1] = "offload_only"
    BY DEF CallsOf
  <2>2. Chosen(Result(c), "OFFLOAD_CPU") = {i \in DOMAIN bs : Row(c)[i].decision = "OFFLOAD_CPU"}
    BY <2>1, ChosenRows
  <2>3. Row(c) = OffloadRows(bs, Metrics(c[2]))
    BY <2>1 DEF Row, RowsOf
  <2>4. Offloaded(bs) \subseteq DOMAIN bs
    BY <1>1, <1>4, <1>5
  <2>5. CASE ~OffloadEnabled \/ MemoryPressure(Metrics(c[2])) < MemoryPressureLow
    <3>1. \A i \in DOMAIN bs : Row(c)[i].decision = "KEEP_GPU"
      BY <2>3, <2>5 DEF OffloadRows, KeepAll, Verdict
    <3> QED BY <2>2, <3>1
  <2>6. CASE ~(~OffloadEnabled \/ MemoryPressure(Metrics(c[2])) < MemoryPressureLow)
    <3>1. \A i \in DOMAIN bs : Row(c)[i].decision = "OFFLOAD_CPU" <=> i \in Offloaded(bs)
      BY <2>3, <2>6 DEF OffloadRows, Verdict
    <3> QED BY <2>2, <2>4, <3>1
  <2> QED BY <2>5, <2>6
<1> QED BY <1>7, <1>8, <1>9 DEF OffloadsLeastAttended, n, cap

(***************************************************************************)
(* EvictionBudget, where the share of heavy hitters is a fraction. Nothing *)
(* in the code checks that it is: with a larger one h2o keeps the whole    *)
(* list, which is fewer blocks than the share it asks for.                 *)
(***************************************************************************)
THEOREM EvictionKeepsBudget ==
  ASSUME HeavyHitterFraction <= Unit
  PROVE  Spec => []EvictionBudget
<1>1. CasesInv => EvictionBudget
  BY SinksAreKept, SharesAreEvicted, LeastAttendedGo DEF EvictionBudget
<1> QED BY <1>1, ListsBuilt, PTL
-----------------------------------------------------------------------------
(***************************************************************************)
(* What a round leaves: some places of the list, taken in their order, so  *)
(* that every place that was left is taken once.                           *)
(***************************************************************************)
Pick(left) ==
  [k \in 1..Cardinality(left) |->
     CHOOSE i \in left : Cardinality({j \in left : j < i}) = k - 1]

LEMMA PickTakesAll ==
  ASSUME NEW n \in Nat, NEW left \in SUBSET (1..n)
  PROVE  /\ Cardinality(left) \in 0..n
         /\ Pick(left) \in Bijection(1..Cardinality(left), left)
<1> DEFINE m == Cardinality(left)
           key == [i \in 1..n |-> i]
<1>1. IsFiniteSet(left) /\ m \in Nat
  BY PlacesFinite
<1> HIDE DEF m
<1>2. IsFiniteSet(1..m) /\ Cardinality(1..m) = m
  BY <1>1, FS_Interval
<1>3. m <= n
  <2>1. IsFiniteSet(1..n) /\ Cardinality(1..n) = n
    BY FS_Interval
  <2>2. Cardinality(left) <= Cardinality(1..n)
    BY <2>1, FS_Subset
  <2> QED BY <2>1, <2>2 DEF m
<1>4. ASSUME NEW k \in 1..m
      PROVE  /\ Pick(left)[k] \in left
             /\ Cardinality({j \in left : j < Pick(left)[k]}) = k - 1
  <2>1. key \in [1..n -> Int] /\ k - 1 \in 0..(Cardinality(left) - 1)
    BY <1>1 DEF m
  <2>2. PICK i \in left : Cardinality(Below(key, left, i)) = k - 1
    BY <2>1, BelowOnto
  <2>3. Below(key, left, i) = {j \in left : j < i}
    BY DEF Below, Before
  <2>4. \E p \in left : Cardinality({j \in left : j < p}) = k - 1
    BY <2>2, <2>3
  <2>5. Pick(left)[k] = CHOOSE p \in left : Cardinality({j \in left : j < p}) = k - 1
    BY DEF Pick, m
  <2> QED BY <2>4, <2>5
<1>5. Pick(left) \in [1..m -> left]
  BY <1>4 DEF Pick, m
<1>6. \A k, l \in 1..m : Pick(left)[k] = Pick(left)[l] => k = l
  <2> SUFFICES ASSUME NEW k \in 1..m, NEW l \in 1..m, Pick(left)[k] = Pick(left)[l]
               PROVE  k = l
    OBVIOUS
  <2>1. k - 1 = l - 1
    BY <1>4
  <2> QED BY <1>1, <2>1
<1>7. Pick(left) \in Injection(1..m, left)
  BY <1>5, <1>6 DEF Injection, IsInjective
<1>8. Pick(left) \in Surjection(1..m, left)
  BY <1>1, <1>2, <1>7, FS_Injection DEF m
<1> QED BY <1>1, <1>3, <1>7, <1>8 DEF Bijection, m

\* The blocks of these places
Rest(left) == [k \in 1..Cardinality(left) |-> bs[Pick(left)[k]]]

(***************************************************************************)
(* They are a list of blocks again.                                        *)
(***************************************************************************)
LEMMA RestIsList ==
  ASSUME CasesInv, NEW left \in SUBSET DOMAIN bs
  PROVE  /\ BlockList(Rest(left)) /\ Len(Rest(left)) = Cardinality(left)
         /\ Cardinality(left) \in 0..Len(bs)
         /\ DOMAIN Rest(left) = 1..Cardinality(left)
         /\ Pick(left) \in Bijection(1..Cardinality(left), left)
         /\ \A k \in 1..Cardinality(left) : /\ Pick(left)[k] \in left
                                            /\ Rest(left)[k] = bs[Pick(left)[k]]
<1> DEFINE m == Cardinality(left)
<1>1. BlockList(bs) /\ DOMAIN bs = 1..Len(bs) /\ Len(bs) \in Nat
  BY ListFits DEF BlockList
<1>2. m \in 0..Len(bs) /\ Pick(left) \in Bijection(1..m, left)
  BY <1>1, PickTakesAll
<1>3. \A k \in 1..m : Pick(left)[k] \in left /\ Rest(left)[k] = bs[Pick(left)[k]]
  BY <1>2 DEF Rest, Bijection, Injection
<1>4. DOMAIN Rest(left) = 1..m /\ Len(Rest(left)) = m
  <2>1. Rest(left) \in Seq({bs[i] : i \in DOMAIN bs})
    BY <1>1, <1>2, <1>3 DEF Rest
  <2>2. DOMAIN Rest(left) = 1..m
    BY DEF Rest
  <2> QED BY <1>2, <2>1, <2>2
<1>5. \A k, l \in 1..m : Rest(left)[k].block_id = Rest(left)[l].block_id => k = l
  <2>1. \A k, l \in 1..m : Pick(left)[k] = Pick(left)[l] => k = l
    BY <1>2 DEF Bijection, Injection, IsInjective
  <2>2. \A i, j \in left : bs[i].block_id = bs[j].block_id => i = j
    BY <1>1 DEF BlockList
  <2> QED BY <1>3, <2>1, <2>2
<1>6. ASSUME NEW k \in 1..m
      PROVE  /\ Rest(left)[k].block_id \in Nat /\ Rest(left)[k].avg_attention_score \in Nat
             /\ Rest(left)[k].max_attention_score \in Nat /\ Rest(left)[k].last_access_step \in Nat
  BY <1>1, <1>3 DEF BlockList
<1> HIDE DEF m
<1>7. BlockList(Rest(left))
  BY <1>2, <1>4, <1>5, <1>6 DEF BlockList
<1> QED BY <1>2, <1>3, <1>4, <1>7 DEF m

(***************************************************************************)
(* By id, a block of what is left has as many before it as before, less    *)
(* those that went: no more, and no fewer than by their number.            *)
(***************************************************************************)
LEMMA RankInRest ==
  ASSUME CasesInv, NEW left \in SUBSET DOMAIN bs, NEW k \in 1..Cardinality(left)
  PROVE  LET old == Rank(ById(bs), Pick(left)[k])
             new == Rank(ById(Rest(left)), k)
         IN  /\ old \in Nat /\ new \in Nat /\ new <= old
             /\ old <= new + (Len(bs) - Cardinality(left))
<1> DEFINE n == Len(bs)
           m == Cardinality(left)
           pick == Pick(left)
           i == pick[k]
           key == ById(bs)
           keyR == ById(Rest(left))
           A == Below(keyR, 1..m, k)
           B == {j \in left : Before(key, j, i)}
<1>1. /\ BlockList(bs) /\ n \in Nat /\ DOMAIN bs = 1..n /\ m \in 0..n
      /\ BlockList(Rest(left)) /\ Len(Rest(left)) = m /\ DOMAIN Rest(left) = 1..m
      /\ pick \in Bijection(1..m, left) /\ i \in left
      /\ \A l \in 1..m : pick[l] \in left /\ Rest(left)[l] = bs[pick[l]]
  BY ListFits, RestIsList DEF BlockList
<1>2. key \in [1..n -> Int] /\ keyR \in [1..m -> Int]
  BY <1>1, KeysType
<1>3. \A j, l \in left : Before(key, j, l) <=> bs[j].block_id < bs[l].block_id
  <2>1. \A j, l \in left : key[j] = key[l] => j = l
    BY <1>1 DEF BlockList, ById
  <2>2. \A j \in left : key[j] = bs[j].block_id /\ key[j] \in Int /\ j \in Int
    BY <1>1, <1>2 DEF ById
  <2> QED BY <2>1, <2>2 DEF Before
<1>4. \A j, l \in 1..m : Before(keyR, j, l) <=> Before(key, pick[j], pick[l])
  <2>1. \A j, l \in 1..m : keyR[j] = keyR[l] => j = l
    BY <1>1 DEF BlockList, ById
  <2>2. \A j \in 1..m : keyR[j] = bs[pick[j]].block_id /\ keyR[j] \in Int /\ j \in Int
    BY <1>1, <1>2 DEF ById
  <2> QED BY <1>1, <1>3, <2>1, <2>2 DEF Before
<1>5. IsFiniteSet(A) /\ Rank(keyR, k) = Cardinality(A) /\ Cardinality(A) \in Nat
  <2>1. A \in SUBSET (1..m) /\ m \in Nat
    BY <1>1 DEF Below
  <2> QED BY <1>2, <2>1, PlacesFinite, RankType
<1>6. IsFiniteSet(B) /\ Cardinality(B) = Cardinality(A)
  <2> DEFINE f == [j \in A |-> pick[j]]
  <2>1. \A j \in A : j \in 1..m /\ f[j] = pick[j] /\ f[j] \in B
    BY <1>1, <1>4 DEF Below
  <2>2. \A j, l \in A : f[j] = f[l] => j = l
    BY <1>1, <2>1 DEF Bijection, Injection, IsInjective
  <2>3. \A p \in B : \E j \in A : f[j] = p
    <3> SUFFICES ASSUME NEW p \in B PROVE \E j \in A : f[j] = p
      OBVIOUS
    <3>1. PICK j \in 1..m : pick[j] = p
      BY <1>1 DEF Bijection, Surjection
    <3>2. j \in A
      BY <1>4, <3>1 DEF Below
    <3> QED BY <2>1, <3>1, <3>2
  <2>4. f \in [A -> B]
    BY <2>1
  <2>5. f \in Bijection(A, B)
    BY <2>2, <2>3, <2>4 DEF Bijection, Injection, Surjection, IsInjective
  <2> QED BY <1>5, <2>5, FS_Bijection DEF ExistsBijection
<1>7. /\ IsFiniteSet(Below(key, 1..n, i)) /\ Rank(key, i) = Cardinality(Below(key, 1..n, i))
      /\ Rank(key, i) \in Nat
  <2>1. Below(key, 1..n, i) \in SUBSET (1..n) /\ i \in 1..n
    BY <1>1 DEF Below
  <2> QED BY <1>1, <1>2, <2>1, PlacesFinite, RankType
<1>8. Cardinality(B) <= Rank(key, i)
  <2>1. B \in SUBSET Below(key, 1..n, i)
    BY <1>1 DEF Below
  <2> QED BY <1>7, <2>1, FS_Subset
<1>9. Rank(key, i) <= Cardinality(B) + (n - m)
  <2> DEFINE gone == (1..n) \ left
  <2>1. IsFiniteSet(gone) /\ Cardinality(gone) = n - m
    <3> HIDE DEF n
    <3>1. IsFiniteSet(1..n) /\ Cardinality(1..n) = n
      BY <1>1, FS_Interval
    <3>2. (1..n) \cap left = left
      BY <1>1
    <3>3. /\ IsFiniteSet((1..n) \ left)
          /\ Cardinality((1..n) \ left) = Cardinality(1..n) - Cardinality((1..n) \cap left)
      BY <3>1, FS_Difference
    <3> QED BY <3>1, <3>2, <3>3
  <2>2. /\ IsFiniteSet(B \union gone)
        /\ Cardinality(B \union gone) = Cardinality(B) + Cardinality(gone) - Cardinality(B \cap gone)
    BY <1>6, <2>1, FS_Union
  <2>3. B \cap gone = {}
    OBVIOUS
  <2>4. Cardinality({}) = 0
    BY FS_EmptySet
  <2>5. Below(key, 1..n, i) \in SUBSET (B \union gone)
    BY DEF Below
  <2>6. Rank(key, i) <= Cardinality(B \union gone)
    BY <1>7, <2>2, <2>5, FS_Subset
  <2>7. Cardinality(B \union gone) = Cardinality(B) + (n - m)
    <3> HIDE DEF n, m, gone, A, B
    <3>1. n \in Nat /\ m \in Nat /\ Cardinality(B) \in Nat
      BY <1>1, <1>5, <1>6
    <3> QED BY <2>1, <2>2, <2>3, <2>4, <3>1
  <2> QED BY <2>6, <2>7
<1> HIDE DEF A, B
<1> QED BY <1>1, <1>5, <1>6, <1>7, <1>8, <1>9

(***************************************************************************)
(* What sliding_window kept is in the sinks or the window of what is left. *)
(***************************************************************************)
LEMMA WindowSettles ==
  ASSUME CasesInv, NEW m,
         NEW left, left = Sinks(bs) \union LastOf(ById(bs), SlidingWindowBlocks),
         NEW k \in 1..Cardinality(left)
  PROVE  SlidingWindow(Rest(left), m)[k].decision = "KEEP_GPU"
<1> DEFINE i == Pick(left)[k]
           rest == Rest(left)
           kept == Sinks(rest) \union LastOf(ById(rest), SlidingWindowBlocks)
<1>1. BlockList(bs) /\ Len(bs) \in Nat /\ DOMAIN bs = 1..Len(bs) /\ ById(bs) \in [1..Len(bs) -> Int]
  BY ListFits, KeysType DEF BlockList
<1>2. left \in SUBSET DOMAIN bs
  BY <1>1 DEF Sinks, FirstOf, LastOf
<1>3. /\ Len(rest) = Cardinality(left) /\ Cardinality(left) \in 0..Len(bs)
      /\ DOMAIN rest = 1..Cardinality(left) /\ i \in left
      /\ ById(rest) \in [1..Cardinality(left) -> Int]
  BY <1>2, RestIsList, KeysType
<1>4. SinkTokenBlocks \in Nat /\ SlidingWindowBlocks \in Nat
  BY ConfigAssumption
<1> DEFINE old == Rank(ById(bs), i)
           new == Rank(ById(rest), k)
<1>5. /\ old \in Nat /\ new \in Nat /\ new <= old
      /\ old <= new + (Len(bs) - Cardinality(left))
  BY <1>2, RankInRest
<1>6. ASSUME i \in Sinks(bs)
      PROVE  k \in Sinks(rest)
  <2>1. old < SinkTokenBlocks
    BY <1>6 DEF Sinks, FirstOf
  <2>2. new < SinkTokenBlocks
    <3> HIDE DEF old, new
    <3> QED BY <1>4, <1>5, <2>1
  <2> QED BY <1>3, <2>2 DEF Sinks, FirstOf
<1>7. ASSUME i \in LastOf(ById(bs), SlidingWindowBlocks)
      PROVE  k \in LastOf(ById(rest), SlidingWindowBlocks)
  <2>1. old >= Len(bs) - SlidingWindowBlocks
    BY <1>1, <1>4, <1>7, LastOfRanks
  <2>2. new >= Cardinality(left) - SlidingWindowBlocks
    <3> HIDE DEF old, new
    <3>1. Cardinality(left) \in Nat
      BY <1>1, <1>3
    <3> QED BY <1>1, <1>4, <1>5, <2>1, <3>1
  <2>3. Cardinality(left) \in Nat
    BY <1>1, <1>3
  <2>4. LastOf(ById(rest), SlidingWindowBlocks)
          = {j \in 1..Cardinality(left) : Rank(ById(rest), j) >= Cardinality(left) - SlidingWindowBlocks}
    <3> DEFINE size == Cardinality(left)
               key == ById(rest)
    <3>1. size \in Nat /\ key \in [1..size -> Int] /\ SlidingWindowBlocks \in Nat
      BY <1>3, <1>4, <2>3
    <3> HIDE DEF size, key
    <3>2. LastOf(key, SlidingWindowBlocks) = {j \in 1..size : Rank(key, j) >= size - SlidingWindowBlocks}
      BY <3>1, LastOfRanks
    <3> QED BY <3>2 DEF size, key
  <2> QED BY <2>2, <2>4
<1>8. k \in kept
  <2>1. i \in Sinks(bs) \union LastOf(ById(bs), SlidingWindowBlocks)
    BY <1>3
  <2> QED BY <1>6, <1>7, <2>1
<1> QED BY <1>3, <1>8 DEF SlidingWindow, KeepAll, Verdict

(***************************************************************************)
(* A smaller divisor never gives a smaller ratio.                          *)
(***************************************************************************)
LEMMA RatioOfLess ==
  ASSUME NEW a \in Nat, NEW b \in Nat \ {0}, NEW c \in Nat, b <= c
  PROVE  Ratio(a, c) <= Ratio(a, b)
<1> DEFINE x == Unit * a
           p == x \div b
           q == x \div c
<1>1. x \in Nat /\ c \in Nat \ {0}
  BY DEF Unit
<1> HIDE DEF x
<1>2. p \in Nat /\ q \in Nat /\ x < b * p + b /\ c * q <= x
  BY <1>1, DivBounds, DivNat
<1> HIDE DEF p, q
<1>3. b * q <= c * q
  BY <1>1, <1>2
<1>4. b * q < b * (p + 1)
  BY <1>1, <1>2, <1>3
<1>5. q < p + 1
  BY <1>2, <1>4
<1>6. Ratio(a, c) = q /\ Ratio(a, b) = p
  BY <1>1 DEF Ratio, p, q, x
<1> QED BY <1>2, <1>5, <1>6

(***************************************************************************)
(* What prefix_caching kept is flagged, or so well attended that it is the *)
(* more so beside fewer others.                                            *)
(***************************************************************************)
LEMMA PrefixesSettle ==
  ASSUME CasesInv, NEW m, NEW left \in SUBSET DOMAIN bs,
         \A i \in left : bs[i].prefix_reuse_flag \/ PrefixScores(bs)[i] >= PrefixCut(MemoryPressure(m)),
         NEW k \in 1..Cardinality(left)
  PROVE  PrefixCaching(Rest(left), m)[k].decision = "KEEP_GPU"
<1> DEFINE i == Pick(left)[k]
           rest == Rest(left)
           cut == PrefixCut(MemoryPressure(m))
<1>1. /\ BlockList(bs) /\ Len(bs) \in Nat /\ DOMAIN bs = 1..Len(bs)
      /\ BlockList(rest) /\ Len(rest) = Cardinality(left) /\ Cardinality(left) \in 0..Len(bs)
      /\ DOMAIN rest = 1..Cardinality(left) /\ i \in left /\ rest[k] = bs[i]
      /\ \A l \in 1..Cardinality(left) : Pick(left)[l] \in left /\ rest[l] = bs[Pick(left)[l]]
  BY ListFits, RestIsList DEF BlockList
<1>2. DOMAIN PrefixCaching(rest, m) = DOMAIN rest
  BY DEF PrefixCaching, KeepAll
<1>3. ASSUME ~bs[i].prefix_reuse_flag
      PROVE  PrefixScores(rest)[k] >= cut
  <2> DEFINE a == bs[i].avg_attention_score
             old == MaxAttention(bs)
             new == MaxAttention(rest)
  <2>1. PrefixScores(bs)[i] = Ratio(a, old) /\ PrefixScores(rest)[k] = Ratio(a, new)
    BY <1>1, <1>3 DEF PrefixScores, RelativeAttention
  <2>2. a \in Nat /\ old \in Nat /\ new \in Nat /\ a <= new /\ new <= old
    <3>1. /\ ByAttention(bs) \in [1..Len(bs) -> Int]
          /\ ByAttention(rest) \in [1..Cardinality(left) -> Int]
      BY <1>1, KeysType
    <3>a. Cardinality(left) \in Nat /\ Cardinality(left) > 0 /\ Len(bs) > 0
      BY <1>1
    <3>b. \A j \in 1..Len(bs) : ByAttention(bs)[j] <= old
      BY <1>1, <3>1, <3>a, HighestOfType DEF MaxAttention
    <3>2. /\ \E l \in 1..Cardinality(left) : new = ByAttention(rest)[l]
          /\ \A l \in 1..Cardinality(left) : ByAttention(rest)[l] <= new
      BY <3>1, <3>a, HighestOfType DEF MaxAttention
    <3>3. \A l \in 1..Cardinality(left) :
            /\ ByAttention(rest)[l] = ByAttention(bs)[Pick(left)[l]]
            /\ Pick(left)[l] \in 1..Len(bs)
      BY <1>1 DEF ByAttention
    <3>4. ByAttention(rest)[k] = a /\ a \in Nat
      BY <1>1 DEF ByAttention, BlockList
    <3>5. old \in Nat /\ new \in Nat
      BY <1>1, AttentionType
    <3> QED BY <3>b, <3>2, <3>3, <3>4, <3>5
  <2>3. Ratio(a, old) >= cut /\ cut \in Nat /\ cut > 0
    BY <1>1, <1>3, <2>1 DEF PrefixCut
  <2>4. CASE new = 0
    <3>1. a = 0
      BY <2>2, <2>4
    <3>2. Ratio(a, old) = 0
      BY <2>2, <3>1 DEF Ratio, Unit
    <3> QED BY <2>3, <3>2
  <2>5. CASE new # 0
    <3>1. Ratio(a, old) <= Ratio(a, new)
      BY <2>2, <2>5, RatioOfLess
    <3>2. Ratio(a, old) \in Nat /\ Ratio(a, new) \in Nat
      <4>1. a \in Nat /\ old \in Int /\ new \in Int
        BY <2>2
      <4> QED BY <4>1, RatioNat
    <3> QED BY <2>1, <2>3, <3>1, <3>2
  <2> QED BY <2>4, <2>5
<1>4. CASE MemoryPressure(m) < MemoryPressureLow
  BY <1>1, <1>4 DEF PrefixCaching, KeepAll, Verdict
<1>5. CASE ~(MemoryPressure(m) < MemoryPressureLow)
  <2>1. PrefixCaching(rest, m)[k].decision
          = IF ~rest[k].prefix_reuse_flag /\ PrefixScores(rest)[k] < cut THEN "EVICT" ELSE "KEEP_GPU"
    BY <1>1, <1>5 DEF PrefixCaching, Verdict
  <2>2. ~bs[i].prefix_reuse_flag => ~(PrefixScores(rest)[k] < cut)
    <3>1. PrefixScores(rest)[k] \in Nat /\ cut \in Nat
      BY <1>1, AttentionType DEF PrefixCut
    <3> QED BY <1>3, <3>1
  <2> QED BY <1>1, <2>1, <2>2
<1> QED BY <1>4, <1>5

(***************************************************************************)
(* EvictionSettles: sliding_window and prefix_caching evict nothing of     *)
(* what they left under the same pressure, whatever the list.              *)
(***************************************************************************)
THEOREM EvictionIsSettled == Spec => []EvictionSettles
<1>1. ASSUME CasesInv, NEW c \in CallsOf({"sliding_window", "prefix_caching"})
      PROVE  LET again == Decide(c[1], Survivors(Result(c)), Metrics(c[2]), c[3])
             IN  \A k \in DOMAIN again : again[k].decision # "EVICT"
  <2> DEFINE left == Left(Result(c))
             m == Metrics(c[2])
             again == Decide(c[1], Survivors(Result(c)), m, c[3])
  <2>1. c \in Calls /\ c[1] \in {"sliding_window", "prefix_caching"}
    BY DEF CallsOf
  <2>2. left = {i \in DOMAIN bs : Row(c)[i].decision # "EVICT"}
    BY <1>1, <2>1, ChosenRows DEF Left
  <2>3. Survivors(Result(c)) = Rest(left) /\ left \in SUBSET DOMAIN bs
    BY <1>1, RestIsList DEF Survivors, Rest, Pick, Left
  <2>4. /\ DOMAIN Rest(left) = 1..Cardinality(left) /\ BlockList(bs) /\ DOMAIN bs = 1..Len(bs)
    BY <1>1, <2>3, RestIsList, ListFits DEF BlockList
  <2> HIDE DEF left
  <2>5. CASE MemoryPressure(m) < MemoryPressureLow
    <3>1. again = KeepAll(Rest(left))
      BY <2>1, <2>3, <2>5 DEF Decide, SlidingWindow, PrefixCaching
    <3> QED BY <3>1 DEF KeepAll, Verdict
  <2>6. CASE ~(MemoryPressure(m) < MemoryPressureLow) /\ c[1] = "sliding_window"
    <3>1. Row(c) = SlidingWindow(bs, m) /\ again = SlidingWindow(Rest(left), m)
      BY <2>3, <2>6 DEF Row, RowsOf, Decide
    <3>2. left = Sinks(bs) \union LastOf(ById(bs), SlidingWindowBlocks)
      <4>1. Sinks(bs) \union LastOf(ById(bs), SlidingWindowBlocks) \subseteq DOMAIN bs
        BY DEF Sinks, FirstOf, LastOf, ById
      <4>2. \A i \in DOMAIN bs : Row(c)[i].decision # "EVICT"
                                   <=> i \in Sinks(bs) \union LastOf(ById(bs), SlidingWindowBlocks)
        BY <2>6, <3>1 DEF SlidingWindow, Verdict
      <4> QED BY <2>2, <4>1, <4>2
    <3>3. \A k \in 1..Cardinality(left) : again[k].decision = "KEEP_GPU"
      BY <1>1, <3>1, <3>2, WindowSettles
    <3>4. DOMAIN again = 1..Cardinality(left)
      BY <2>4, <3>1 DEF SlidingWindow, KeepAll
    <3> QED BY <3>3, <3>4
  <2>7. CASE ~(MemoryPressure(m) < MemoryPressureLow) /\ c[1] = "prefix_caching"
    <3>1. Row(c) = PrefixCaching(bs, m) /\ again = PrefixCaching(Rest(left), m)
      BY <2>3, <2>7 DEF Row, RowsOf, Decide
    <3>2. \A i \in left : \/ bs[i].prefix_reuse_flag
                          \/ PrefixScores(bs)[i] >= PrefixCut(MemoryPressure(m))
      <4>1. \A i \in DOMAIN bs : PrefixScores(bs)[i] \in Nat
        BY <2>4, AttentionType
      <4>2. PrefixCut(MemoryPressure(m)) \in Nat
        BY DEF PrefixCut
      <4>3. \A i \in DOMAIN bs : Row(c)[i].decision # "EVICT"
              => ~(~bs[i].prefix_reuse_flag /\ PrefixScores(bs)[i] < PrefixCut(MemoryPressure(m)))
        BY <2>7, <3>1 DEF PrefixCaching, Verdict
      <4> QED BY <2>2, <4>1, <4>2, <4>3
    <3>3. \A k \in 1..Cardinality(left) : again[k].decision = "KEEP_GPU"
      BY <1>1, <2>3, <3>1, <3>2, PrefixesSettle
    <3>4. DOMAIN again = 1..Cardinality(left)
      BY <2>4, <3>1 DEF PrefixCaching, KeepAll
    <3> QED BY <3>3, <3>4
  <2> QED BY <2>1, <2>5, <2>6, <2>7
<1>2. CasesInv => EvictionSettles
  BY <1>1 DEF EvictionSettles
<1> QED BY <1>2, ListsBuilt, PTL
=============================================================================
