-------------------------- MODULE PolicyEngineProofs --------------------------
(***************************************************************************)
(* Theorems of PolicyEngine and PolicyLoop, for every set of blocks, every *)
(* policy the operator may switch between, every configuration and every   *)
(* interleaving with the serving engine.  (TrackerReaders comes with       *)
(* BlockTrackerProofs; nothing here is about its reader.)                  *)
(***************************************************************************)
EXTENDS PolicyEngine, PolicyLoop, PoliciesProofs, BlockTrackerProofs

-----------------------------------------------------------------------------
\* A step of the tracker adds objects only, and an object keeps its id.
Kept ==
  /\ DOMAIN heap \subseteq DOMAIN heap'
  /\ \A r \in DOMAIN heap : heap'[r].block_id = heap[r].block_id

\* ... and, but for the object the id b names, its tier and its score.
Spares(b) ==
  /\ Kept
  /\ \A c \in BlockIds \ {b} : blocks'[c] = blocks[c]
  /\ \A r \in DOMAIN heap \ {blocks[b]} :
       /\ heap'[r].current_tier = heap[r].current_tier
       /\ heap'[r].importance_score = heap[r].importance_score

(***************************************************************************)
(* A field update puts one object in the place of another and leaves the   *)
(* rest.                                                                   *)
(***************************************************************************)
LEMMA UpdateShape ==
  ASSUME IInv, NEW b \in BlockIds, NEW s, Update(b, s)
  PROVE  /\ b \in Registered /\ blocks' = blocks /\ step' = step
         /\ blocks[b] \in DOMAIN heap /\ heap[blocks[b]] \in BlockState
         /\ DOMAIN heap' = DOMAIN heap
         /\ \A r \in DOMAIN heap : heap'[r] = IF r = blocks[b] THEN s ELSE heap[r]
<1>1. b \in Registered /\ heap' = [heap EXCEPT ![blocks[b]] = s] /\ blocks' = blocks /\ step' = step
  BY DEF Update
<1>2. blocks[b] \in DOMAIN heap /\ heap[blocks[b]] \in BlockState
  BY <1>1, LookupType DEF IInv
<1> QED BY <1>1, <1>2

(***************************************************************************)
(* The serving engine's calls never touch a tier or a score, and the only  *)
(* object they put under an id is a new one.                               *)
(***************************************************************************)
LEMMA ServingShape ==
  ASSUME IInv, ServingStep
  PROVE  /\ Kept
         /\ \A r \in DOMAIN heap : /\ heap'[r].current_tier = heap[r].current_tier
                                   /\ heap'[r].importance_score = heap[r].importance_score
         /\ \A b \in BlockIds : blocks'[b] \in {blocks[b], Absent, Len(heap) + 1}
<1> DEFINE Goal ==
      /\ Kept
      /\ \A r \in DOMAIN heap : /\ heap'[r].current_tier = heap[r].current_tier
                                /\ heap'[r].importance_score = heap[r].importance_score
      /\ \A b \in BlockIds : blocks'[b] \in {blocks[b], Absent, Len(heap) + 1}
<1>a. /\ heap \in Seq(BlockState) /\ Len(heap) \in Nat /\ DOMAIN heap = 1..Len(heap)
      /\ blocks \in [BlockIds -> {Absent} \union DOMAIN heap]
      /\ \A r \in DOMAIN heap : heap[r] \in BlockState
  BY DEF IInv, TypeOK
<1>1. ASSUME NEW b \in BlockIds, NEW q \in RequestIds, RegisterBlock(b, q)
      PROVE  Goal
  <2>1. heap' = Append(heap, NewBlock(b, q)) /\ blocks' = [blocks EXCEPT ![b] = Len(heap) + 1]
    BY <1>1 DEF RegisterBlock, NextRef
  <2>2. NewBlock(b, q) \in BlockState
    BY NewBlockType
  <2>3. DOMAIN heap' = 1..(Len(heap) + 1) /\ \A r \in DOMAIN heap : heap'[r] = heap[r]
    BY <1>a, <2>1, <2>2
  <2> QED BY <1>a, <2>1, <2>3 DEF Kept
<1>2. ASSUME NEW b \in BlockIds, NEW s, Update(b, s),
             s.block_id = heap[blocks[b]].block_id,
             s.current_tier = heap[blocks[b]].current_tier,
             s.importance_score = heap[blocks[b]].importance_score
      PROVE  Goal
  BY <1>2, UpdateShape DEF Kept
<1>3. ASSUME NEW b \in BlockIds, NEW a \in Attention, UpdateAttention(b, a)
      PROVE  Goal
  <2> DEFINE o == heap[blocks[b]]
  <2>1. Update(b, WithAttention(o, a)) /\ o \in BlockState
    BY <1>3, UpdateShape DEF UpdateAttention
  <2>2. /\ WithAttention(o, a).block_id = o.block_id
        /\ WithAttention(o, a).current_tier = o.current_tier
        /\ WithAttention(o, a).importance_score = o.importance_score
    BY <2>1 DEF WithAttention, BlockState
  <2> QED BY <1>2, <2>1, <2>2
<1>4. ASSUME NEW b \in Registered, MarkAccessed(b, step)
      PROVE  Goal
  <2> DEFINE o == heap[blocks[b]]
  <2>1. Update(b, Accessed(o, step)) /\ b \in BlockIds
    BY <1>4 DEF MarkAccessed, Registered
  <2>2. o \in BlockState
    BY <2>1, UpdateShape
  <2>3. /\ Accessed(o, step).block_id = o.block_id
        /\ Accessed(o, step).current_tier = o.current_tier
        /\ Accessed(o, step).importance_score = o.importance_score
    BY <2>2 DEF Accessed, BlockState
  <2> QED BY <1>2, <2>1, <2>3
<1>5. ASSUME NEW b \in BlockIds,
             \/ \E m \in MemSnapshots : UpdateMemorySnapshot(b, m)
             \/ \E f \in BOOLEAN : MarkPrefixReuse(b, f)
      PROVE  Goal
  <2> DEFINE o == heap[blocks[b]]
  <2>1. PICK s : /\ Update(b, s)
                 /\ (\E m : s = [o EXCEPT !.gpu_mem_mb = m])
                      \/ (\E f : s = [o EXCEPT !.prefix_reuse_flag = f])
    BY <1>5 DEF UpdateMemorySnapshot, MarkPrefixReuse
  <2>2. o \in BlockState
    BY <2>1, UpdateShape
  <2>3. /\ s.block_id = o.block_id /\ s.current_tier = o.current_tier
        /\ s.importance_score = o.importance_score
    BY <2>1, <2>2 DEF BlockState
  <2> QED BY <1>2, <2>1, <2>3
<1>6. ASSUME NEW q \in RequestIds, ReleaseRequestBlocks(q)
      PROVE  Goal
  BY <1>6, <1>a DEF ReleaseRequestBlocks, Kept
<1>7. CASE IncrementAge
  <2>1. /\ blocks' = blocks /\ DOMAIN heap' = DOMAIN heap
        /\ \A r \in DOMAIN heap :
             heap'[r] = IF r \in TrackedRefs THEN [heap[r] EXCEPT !.block_age_steps = step + 1]
                                             ELSE heap[r]
    BY <1>7 DEF IncrementAge, Aging
  <2>2. ASSUME NEW r \in DOMAIN heap
        PROVE  /\ heap'[r].block_id = heap[r].block_id
               /\ heap'[r].current_tier = heap[r].current_tier
               /\ heap'[r].importance_score = heap[r].importance_score
    BY <1>a, <2>1 DEF BlockState
  <2> QED BY <2>1, <2>2 DEF Kept
<1>8. Goal
  BY <1>1, <1>3, <1>4, <1>5, <1>6, <1>7 DEF ServingStep
<1> QED BY <1>8

(***************************************************************************)
(* What each call of a cycle does to the tracker: to the id b it is about, *)
(* and to nothing else.                                                    *)
(***************************************************************************)
LEMMA EvictShape ==
  ASSUME IInv, NEW b \in BlockIds, IfTracked(b, EvictBlock(b))
  PROVE  IInv' /\ Spares(b) /\ blocks'[b] = Absent
<1>a. blocks \in [BlockIds -> {Absent} \union DOMAIN heap]
      /\ \A r \in DOMAIN heap : heap[r] \in BlockState
  BY DEF IInv, TypeOK
<1>1. CASE b \in Registered
  <2>1. EvictBlock(b)
    BY <1>1 DEF IfTracked
  <2>2. /\ heap' = [heap EXCEPT ![blocks[b]] = [heap[blocks[b]] EXCEPT !.current_tier = "EVICTED"]]
        /\ blocks' = [blocks EXCEPT ![b] = Absent]
    BY <2>1 DEF EvictBlock
  <2>3. IInv'
    BY <2>1, EvictPreserves
  <2>4. blocks[b] \in DOMAIN heap /\ heap[blocks[b]] \in BlockState
    BY <1>1, LookupType DEF IInv
  <2>5. heap'[blocks[b]].block_id = heap[blocks[b]].block_id
    BY <2>2, <2>4 DEF BlockState
  <2> QED BY <1>a, <2>2, <2>3, <2>4, <2>5 DEF Spares, Kept
<1>2. CASE b \notin Registered
  <2>1. UNCHANGED trackerVars /\ blocks[b] = Absent
    BY <1>2 DEF IfTracked, Registered
  <2>2. IInv'
    BY <2>1, StepPreserves
  <2> QED BY <2>1, <2>2 DEF Spares, Kept, trackerVars
<1> QED BY <1>1, <1>2

(***************************************************************************)
(* A verdict to keep a block moves the object its id names, if it names    *)
(* one, to the tier of the verdict.                                        *)
(***************************************************************************)
LEMMA TierShape ==
  ASSUME IInv, NEW b \in BlockIds, NEW t \in Tiers \ {"EVICTED"}, IfTracked(b, UpdateTier(b, t))
  PROVE  /\ IInv' /\ Spares(b) /\ blocks' = blocks
         /\ b \in Registered => heap'[blocks[b]].current_tier = t
<1>1. CASE b \in Registered
  <2> DEFINE o == heap[blocks[b]]
             s == [o EXCEPT !.current_tier = t]
  <2>1. UpdateTier(b, t) /\ Update(b, s)
    BY <1>1 DEF IfTracked, UpdateTier
  <2>2. TrackerNext
    BY <2>1 DEF TrackerNext, PolicyStep
  <2>3. IInv'
    BY <2>2, StepPreserves
  <2>4. o \in BlockState
    BY <2>1, UpdateShape
  <2>5. s.block_id = o.block_id /\ s.current_tier = t
    BY <2>4 DEF BlockState
  <2> HIDE DEF s
  <2> QED BY <2>1, <2>3, <2>5, UpdateShape DEF Spares, Kept
<1>2. CASE b \notin Registered
  <2>1. UNCHANGED trackerVars
    BY <1>2 DEF IfTracked
  <2>2. IInv'
    BY <2>1, StepPreserves
  <2> QED BY <1>2, <2>1, <2>2 DEF Spares, Kept, trackerVars
<1> QED BY <1>1, <1>2

(***************************************************************************)
(* The score of a verdict goes to the object its id names, and no tier     *)
(* changes.                                                                *)
(***************************************************************************)
LEMMA ScoreShape ==
  ASSUME IInv, NEW b \in BlockIds, NEW x \in Nat, IfTracked(b, SetImportanceScore(b, x))
  PROVE  /\ IInv' /\ Spares(b) /\ blocks' = blocks
         /\ \A r \in DOMAIN heap : heap'[r].current_tier = heap[r].current_tier
         /\ b \in Registered => heap'[blocks[b]].importance_score = x
<1>1. CASE b \in Registered
  <2> DEFINE o == heap[blocks[b]]
             s == [o EXCEPT !.importance_score = x]
  <2>1. Update(b, s)
    BY <1>1 DEF IfTracked, SetImportanceScore
  <2>2. o \in BlockState /\ blocks[b] \in DOMAIN heap /\ blocks[b] \in TrackedRefs
    BY <1>1, <2>1, UpdateShape DEF TrackedRefs
  <2>3. /\ s \in BlockState /\ s.block_id = o.block_id /\ s.current_tier = o.current_tier
        /\ s.avg_attention_score = o.avg_attention_score
        /\ s.max_attention_score = o.max_attention_score
        /\ s.last_access_step = o.last_access_step
        /\ s.block_age_steps = o.block_age_steps
        /\ s.importance_score = x
    BY <2>2 DEF BlockState
  <2>4. /\ o.current_tier # "EVICTED"
        /\ o.avg_attention_score <= o.max_attention_score
        /\ o.last_access_step <= o.block_age_steps
        /\ o.block_age_steps <= step
    BY <1>1, <2>2 DEF IInv, TrackedSound, AttentionBounded, StepsOrdered
  <2> HIDE DEF s
  <2>5. IInv'
    BY <2>1, <2>3, <2>4, UpdatePreserves
  <2> QED BY <2>1, <2>3, <2>5, UpdateShape DEF Spares, Kept
<1>2. CASE b \notin Registered
  <2>1. UNCHANGED trackerVars
    BY <1>2 DEF IfTracked
  <2>2. IInv'
    BY <2>1, StepPreserves
  <2> QED BY <1>2, <2>1, <2>2 DEF Spares, Kept, trackerVars
<1> QED BY <1>1, <1>2

-----------------------------------------------------------------------------
\* The list of a cycle: objects with different ids, whatever became of them.
Working == cycle.pc \in {"applying", "scoring", "recording"}

ListInv ==
  cycle.pc # "idle" =>
    /\ cycle.listed \in Seq(Nat)
    /\ \A i \in DOMAIN cycle.listed : cycle.listed[i] \in DOMAIN heap
    /\ \A i, j \in DOMAIN cycle.listed :
         heap[cycle.listed[i]].block_id = heap[cycle.listed[j]].block_id => i = j

Records == [verdict : Nat, ref : Nat, tier : Tiers]
WorkingCycle ==
  [pc : {"applying", "scoring", "recording"}, listed : Seq(Nat),
   decisions : Seq(VerdictType), at : Nat \ {0}, recorded : SUBSET Records]

\* The verdicts of a cycle are about listed blocks, one each, and the cycle works
\* through them from the first to the last.
VerdictsInv ==
  Working =>
    /\ cycle \in WorkingCycle
    /\ \A i \in DOMAIN Verdicts : \E r \in Listed : Verdicts[i].block_id = heap[r].block_id
    /\ \A i, j \in DOMAIN Verdicts : Verdicts[i].block_id = Verdicts[j].block_id => i = j
    /\ cycle.pc = "scoring" => cycle.at \in DOMAIN Verdicts

\* Verdict i has had its effect on the tier, or on the score, of its block, if
\* the block it was about is still the one its id names.
TierHolds(i) ==
  LET v == Verdicts[i]
      r == blocks[v.block_id]
  IN  r \in Listed => v.decision # "EVICT" /\ heap[r].current_tier = Placement[v.decision]
ScoreHolds(i) ==
  LET v == Verdicts[i]
      r == blocks[v.block_id]
  IN  r \in Listed => heap[r].importance_score = v.score

AppliedInv ==
  Working =>
    \A i \in DOMAIN Verdicts :
      /\ i < cycle.at \/ (i = cycle.at /\ cycle.pc = "scoring") \/ cycle.pc = "recording"
           => TierHolds(i)
      /\ i < cycle.at \/ cycle.pc = "recording" => ScoreHolds(i)

RecordedInv ==
  Working =>
    \A t \in cycle.recorded :
      /\ t.verdict \in DOMAIN Verdicts
      /\ t.ref \in Listed => t.tier = TierOf(Verdicts[t.verdict].decision)

CycleInv ==
  /\ cycle.pc \in {"idle", "listed", "measured", "applying", "scoring", "recording"}
  /\ ListInv
  /\ cycle.pc = "measured" => MetricsFit(cycle.metrics)
  /\ VerdictsInv /\ AppliedInv /\ RecordedInv

(***************************************************************************)
(* The two tables from decisions to tiers agree where both are defined.    *)
(***************************************************************************)
LEMMA TierOfPlacement ==
  ASSUME NEW d \in Decisions, d # "EVICT"
  PROVE  TierOf(d) = Placement[d] /\ TierOf(d) \in Tiers \ {"EVICTED"}
BY DEF Decisions, TierOf, Placement, Tiers

(***************************************************************************)
(* A listed block is an object of the heap, and its id one of BlockIds.    *)
(***************************************************************************)
LEMMA ListedType ==
  ASSUME IInv, ListInv, cycle.pc # "idle"
  PROVE  /\ Listed \subseteq DOMAIN heap /\ Absent \notin Listed
         /\ \A r \in Listed : heap[r].block_id \in BlockIds
<1>1. Listed \subseteq DOMAIN heap
  BY DEF ListInv, Listed
<1>2. Absent \notin DOMAIN heap /\ \A r \in DOMAIN heap : heap[r] \in BlockState
  BY DEF IInv, TypeOK, Absent
<1> QED BY <1>1, <1>2 DEF BlockState

(***************************************************************************)
(* As long as objects keep their ids, the list stays a list of blocks with *)
(* different ids, and the verdicts stay about them.                        *)
(***************************************************************************)
LEMMA ListStays ==
  ASSUME ListInv, Kept, cycle.pc # "idle", cycle'.pc # "idle", cycle'.listed = cycle.listed
  PROVE  /\ ListInv' /\ Listed' = Listed
         /\ \A r \in Listed : heap'[r].block_id = heap[r].block_id
<1>1. Listed' = Listed
  BY DEF Listed
<1>2. Listed \subseteq DOMAIN heap
  BY DEF ListInv, Listed
<1>3. ListInv'
  BY DEF ListInv, Kept
<1> QED BY <1>1, <1>2, <1>3 DEF Kept

(***************************************************************************)
(* A call about one id leaves what was done for every other verdict.       *)
(***************************************************************************)
LEMMA OthersHold ==
  ASSUME IInv, ListInv, cycle.pc # "idle", NEW b \in BlockIds, Spares(b),
         Verdicts' = Verdicts, Listed' = Listed,
         NEW i \in DOMAIN Verdicts, Verdicts[i].block_id \in BlockIds \ {b}
  PROVE  (TierHolds(i) => TierHolds(i)') /\ (ScoreHolds(i) => ScoreHolds(i)')
<1> DEFINE c == Verdicts[i].block_id
           r == blocks[c]
<1>1. blocks'[c] = r /\ c \in BlockIds /\ c # b
  BY DEF Spares
<1>2. ASSUME r \in Listed
      PROVE  /\ heap'[r].current_tier = heap[r].current_tier
             /\ heap'[r].importance_score = heap[r].importance_score
  <2>1. r \in DOMAIN heap /\ r # Absent
    BY <1>2, ListedType
  <2>2. c \in Registered
    BY <1>1, <2>1 DEF Registered
  <2>3. r # blocks[b]
    <3>1. CASE b \in Registered
      BY <1>1, <2>2, <3>1, LookupInjective DEF IInv
    <3>2. CASE b \notin Registered
      BY <2>1, <3>2 DEF Registered
    <3> QED BY <3>1, <3>2
  <2> QED BY <2>1, <2>3 DEF Spares
<1>3. Verdicts'[i] = Verdicts[i]
  OBVIOUS
<1>4. TierHolds(i) => TierHolds(i)'
  BY <1>1, <1>2, <1>3 DEF TierHolds
<1>5. ScoreHolds(i) => ScoreHolds(i)'
  BY <1>1, <1>2, <1>3 DEF ScoreHolds
<1> QED BY <1>4, <1>5

(***************************************************************************)
(* Nor does the serving engine: it moves no block, and an id whose listed  *)
(* block it replaces or releases no longer names a listed block.           *)
(***************************************************************************)
LEMMA ServingHolds ==
  ASSUME IInv, ListInv, cycle.pc # "idle", ServingStep,
         Verdicts' = Verdicts, Listed' = Listed,
         NEW i \in DOMAIN Verdicts, Verdicts[i].block_id \in BlockIds
  PROVE  (TierHolds(i) => TierHolds(i)') /\ (ScoreHolds(i) => ScoreHolds(i)')
<1> DEFINE c == Verdicts[i].block_id
           r == blocks'[c]
<1>1. /\ r \in {blocks[c], Absent, Len(heap) + 1}
      /\ \A o \in DOMAIN heap : /\ heap'[o].current_tier = heap[o].current_tier
                                /\ heap'[o].importance_score = heap[o].importance_score
  BY ServingShape
<1>2. Len(heap) + 1 \notin DOMAIN heap
  <2>1. Len(heap) \in Nat /\ DOMAIN heap = 1..Len(heap)
    BY DEF IInv, TypeOK
  <2> QED BY <2>1
<1>3. r \in Listed => r = blocks[c] /\ r \in DOMAIN heap
  BY <1>1, <1>2, ListedType
<1>4. Verdicts'[i] = Verdicts[i]
  OBVIOUS
<1>5. TierHolds(i) => TierHolds(i)'
  BY <1>1, <1>3, <1>4 DEF TierHolds
<1>6. ScoreHolds(i) => ScoreHolds(i)'
  BY <1>1, <1>3, <1>4 DEF ScoreHolds
<1> QED BY <1>5, <1>6

(***************************************************************************)
(* A working cycle has its verdicts, and counts through them from one.     *)
(***************************************************************************)
LEMMA WorkingType ==
  ASSUME VerdictsInv, Working
  PROVE  /\ cycle \in WorkingCycle /\ Len(Verdicts) \in Nat /\ DOMAIN Verdicts = 1..Len(Verdicts)
         /\ cycle.at \in Nat \ {0} /\ cycle.at + 1 \in Nat \ {0}
         /\ cycle.recorded \in SUBSET Records
         /\ \A i \in DOMAIN Verdicts : Verdicts[i] \in VerdictType
BY DEF VerdictsInv, WorkingCycle, Verdicts

(***************************************************************************)
(* The verdicts stay what they are as long as objects keep their ids.      *)
(***************************************************************************)
LEMMA VerdictsStay ==
  ASSUME IInv, ListInv, VerdictsInv, Working, Kept, cycle' \in WorkingCycle,
         cycle'.listed = cycle.listed, cycle'.decisions = cycle.decisions,
         cycle'.pc = "scoring" => cycle'.at \in DOMAIN Verdicts
  PROVE  ListInv' /\ VerdictsInv' /\ Working' /\ Listed' = Listed /\ Verdicts' = Verdicts
<1>1. cycle.pc # "idle" /\ cycle'.pc # "idle" /\ Working' /\ Verdicts' = Verdicts
  BY DEF Working, WorkingCycle, Verdicts
<1>2. /\ ListInv' /\ Listed' = Listed
      /\ \A r \in Listed : heap'[r].block_id = heap[r].block_id
  BY <1>1, ListStays
<1>3. \A i \in DOMAIN Verdicts : \E r \in Listed : Verdicts[i].block_id = heap'[r].block_id
  BY <1>2 DEF VerdictsInv
<1>4. VerdictsInv'
  BY <1>1, <1>2, <1>3 DEF VerdictsInv
<1> QED BY <1>1, <1>2, <1>4

(***************************************************************************)
(* The verdict a working cycle is at.                                      *)
(***************************************************************************)
LEMMA CurrentType ==
  ASSUME IInv, ListInv, VerdictsInv, Working, NEW i \in DOMAIN Verdicts
  PROVE  /\ Verdicts[i] \in VerdictType /\ Verdicts[i].block_id \in BlockIds
         /\ Verdicts[i].decision \in Decisions /\ Verdicts[i].score \in Nat
<1>1. cycle.pc # "idle"
  BY DEF Working
<1>2. Verdicts[i] \in VerdictType /\ Verdicts[i].block_id \in BlockIds
  BY <1>1, WorkingType, ListedType DEF VerdictsInv
<1> QED BY <1>2 DEF VerdictType

-----------------------------------------------------------------------------
(***************************************************************************)
(* get_all_blocks: the tracked objects have different ids, since a lookup  *)
(* by id finds an object with that id.                                     *)
(***************************************************************************)
LEMMA SnapshotPreserves ==
  ASSUME IInv, CycleInv, Snapshot
  PROVE  CycleInv'
<1>1. PICK s \in Orders(TrackedRefs) : cycle' = [pc |-> "listed", listed |-> s]
  BY DEF Snapshot
<1>2. heap' = heap /\ blocks' = blocks
  BY DEF Snapshot, trackerVars
<1>3. TrackedRefs \in SUBSET DOMAIN heap
  BY LookupType DEF TrackedRefs, IInv
<1> DEFINE n == Cardinality(TrackedRefs)
<1>4. n \in Nat
  BY <1>3, ListsFinite DEF IInv
<1>5. s \in [1..n -> TrackedRefs] /\ \A i, j \in 1..n : s[i] = s[j] => i = j
  BY DEF Orders
<1> HIDE DEF n
<1>6. s \in Seq(Nat) /\ DOMAIN s = 1..n
  <2>1. TrackedRefs \subseteq Nat
    BY <1>3 DEF IInv, TypeOK
  <2>2. s \in [1..n -> Nat]
    BY <1>5, <2>1
  <2> QED BY <1>4, <2>2
<1>7. \A r, o \in TrackedRefs : heap[r].block_id = heap[o].block_id => r = o
  BY DEF TrackedRefs, IInv, TrackedSound
<1>8. ListInv'
  BY <1>1, <1>2, <1>3, <1>4, <1>5, <1>6, <1>7 DEF ListInv, n
<1>9. cycle'.pc = "listed"
  BY <1>1
<1> QED BY <1>8, <1>9 DEF CycleInv, Working, VerdictsInv, AppliedInv, RecordedInv

(***************************************************************************)
(* The list of a cycle is one the policies apply to, and what the cycle    *)
(* measures is what they expect.                                           *)
(***************************************************************************)
LEMMA LiveFits ==
  ASSUME IInv, ListInv, cycle.pc # "idle"
  PROVE  /\ BlockList(Live(cycle)) /\ Len(Live(cycle)) = Len(cycle.listed)
         /\ \A i \in DOMAIN cycle.listed : Live(cycle)[i] = heap[cycle.listed[i]]
         /\ MetricsFit(SystemMetrics(Live(cycle), GpuUsed, GpuFree, "unknown"))
<1> DEFINE bs == Live(cycle)
           n == Len(cycle.listed)
<1>1. /\ n \in Nat /\ DOMAIN cycle.listed = 1..n
      /\ \A i \in 1..n : cycle.listed[i] \in DOMAIN heap
  BY DEF ListInv
<1>2. bs = [i \in 1..n |-> heap[cycle.listed[i]]]
  BY <1>1 DEF Live
<1>3. Len(bs) = n /\ DOMAIN bs = 1..n /\ \A i \in 1..n : bs[i] = heap[cycle.listed[i]]
  BY <1>1, <1>2
<1>4. \A i \in 1..n : bs[i] \in BlockState
  BY <1>1, <1>3 DEF IInv, TypeOK
<1> HIDE DEF bs
<1>5. BlockList(bs)
  <2>1. ASSUME NEW i \in 1..n
        PROVE  /\ bs[i].block_id \in Nat /\ bs[i].avg_attention_score \in Nat
               /\ bs[i].max_attention_score \in Nat /\ bs[i].last_access_step \in Nat
    BY <1>4, BlockIdsAssumption DEF BlockState
  <2>2. \A i, j \in 1..n : bs[i].block_id = bs[j].block_id => i = j
    BY <1>1, <1>3 DEF ListInv
  <2> QED BY <1>1, <1>3, <2>1, <2>2 DEF BlockList
<1>6. HighestOf(ByAccess(bs), 0) \in Nat
  BY <1>1, <1>3, <1>5, KeysType, HighestOfNat
<1>7. HighestOf([i \in DOMAIN bs |-> bs[i].max_attention_score], Unit) \in Nat
  <2>1. [i \in DOMAIN bs |-> bs[i].max_attention_score] \in [1..n -> Nat] /\ Unit \in Nat
    BY <1>3, <1>5 DEF BlockList, Unit
  <2> QED BY <1>1, <2>1, HighestOfNat
<1>8. GpuUsed \in Nat
  <2>1. TrackedRefs \subseteq DOMAIN heap
    BY LookupType DEF TrackedRefs, IInv
  <2> DEFINE fp16 == {r \in TrackedRefs : heap[r].current_tier = "GPU_FP16"}
             int8 == {r \in TrackedRefs : heap[r].current_tier = "GPU_QUANTIZED"}
  <2>2. fp16 \in SUBSET DOMAIN heap /\ int8 \in SUBSET DOMAIN heap
    BY <2>1
  <2>3. Cardinality(fp16) \in Nat /\ Cardinality(int8) \in Nat
    BY <2>2, ListsFinite DEF IInv
  <2>4. GpuUsed = 2 * Cardinality(fp16) + Cardinality(int8)
    BY DEF GpuUsed
  <2> HIDE DEF fp16, int8
  <2> QED BY <2>3, <2>4
<1>9. GpuFree \in Nat /\ "unknown" \in DOMAIN WorkloadDeltas
  BY DEF GpuFree, WorkloadDeltas
<1>10. MetricsFit(SystemMetrics(bs, GpuUsed, GpuFree, "unknown"))
  BY <1>6, <1>7, <1>8, <1>9 DEF SystemMetrics, MetricsFit
<1> QED BY <1>1, <1>3, <1>5, <1>10 DEF bs

(***************************************************************************)
(* Reading the pressure leaves the list alone.                             *)
(***************************************************************************)
LEMMA MeasurePreserves ==
  ASSUME IInv, CycleInv, Measure
  PROVE  CycleInv'
<1>1. /\ heap' = heap /\ blocks' = blocks /\ cycle.pc # "idle"
      /\ cycle' = [pc |-> "measured", listed |-> cycle.listed,
                   metrics |-> SystemMetrics(Live(cycle), GpuUsed, GpuFree, "unknown")]
  BY DEF Measure, trackerVars
<1>2. MetricsFit(cycle'.metrics) /\ cycle'.pc = "measured" /\ cycle'.listed = cycle.listed
  BY <1>1, LiveFits DEF CycleInv
<1>3. ListInv'
  BY <1>1, <1>2 DEF CycleInv, ListInv
<1> QED BY <1>2, <1>3 DEF CycleInv, Working, VerdictsInv, AppliedInv, RecordedInv

(***************************************************************************)
(* decide() returns one verdict for each listed block, wherever it puts    *)
(* it.                                                                     *)
(***************************************************************************)
LEMMA DecideAboutListed ==
  ASSUME IInv, ListInv, cycle.pc # "idle", NEW m, MetricsFit(m), policy \in PolicyNames
  PROVE  LET ds == Decide(policy, Live(cycle), m, [status |-> ModelStatus])
         IN  /\ ds \in Seq(VerdictType)
             /\ \A i \in DOMAIN ds : \E r \in Listed : ds[i].block_id = heap[r].block_id
             /\ \A i, j \in DOMAIN ds : ds[i].block_id = ds[j].block_id => i = j
<1> DEFINE bs == Live(cycle)
           n == Len(bs)
           model == [status |-> ModelStatus]
           ds == Decide(policy, bs, m, model)
           rows == RowsOf(policy, bs, m, model)
<1>1. /\ BlockList(bs) /\ n = Len(cycle.listed) /\ n \in Nat /\ DOMAIN cycle.listed = 1..n
      /\ \A i \in 1..n : bs[i] = heap[cycle.listed[i]]
  BY LiveFits DEF ListInv
<1>2. ModelFits(model, bs)
  BY EngineAssumption DEF ModelFits
<1> HIDE DEF bs, model
<1>3. /\ ds \in [1..n -> VerdictType]
      /\ \E place : IsPlacing(place, n) /\ \A i \in 1..n : ds[place[i]] = rows[i]
  BY <1>1, <1>2, DecidePlacesRows
<1>4. IsRows(rows, bs)
  BY <1>1, <1>2, RowsType
<1> HIDE DEF ds, rows
<1>5. PICK place : IsPlacing(place, n) /\ \A i \in 1..n : ds[place[i]] = rows[i]
  BY <1>3
<1>6. Len(ds) = n /\ DOMAIN ds = 1..n
  BY <1>1, <1>3
<1>7. ASSUME NEW k \in 1..n
      PROVE  \E i \in 1..n : place[i] = k /\ ds[k].block_id = heap[cycle.listed[i]].block_id
  <2>1. PICK i \in 1..n : place[i] = k
    BY <1>5 DEF IsPlacing
  <2>2. ds[k] = rows[i] /\ rows[i].block_id = bs[i].block_id
    BY <1>4, <1>5, <2>1 DEF IsRows
  <2> QED BY <1>1, <2>1, <2>2
<1>8. \A k \in DOMAIN ds : \E r \in Listed : ds[k].block_id = heap[r].block_id
  BY <1>1, <1>6, <1>7 DEF Listed
<1>9. ASSUME NEW k \in 1..n, NEW l \in 1..n, ds[k].block_id = ds[l].block_id
      PROVE  k = l
  <2>1. PICK i \in 1..n : place[i] = k /\ ds[k].block_id = heap[cycle.listed[i]].block_id
    BY <1>7
  <2>2. PICK j \in 1..n : place[j] = l /\ ds[l].block_id = heap[cycle.listed[j]].block_id
    BY <1>7
  <2>3. i = j
    BY <1>1, <1>9, <2>1, <2>2 DEF ListInv
  <2> QED BY <2>1, <2>2, <2>3
<1> QED BY <1>1, <1>3, <1>6, <1>8, <1>9 DEF ds, bs, model

(***************************************************************************)
(* After decide() nothing is applied and nothing is recorded.              *)
(***************************************************************************)
LEMMA RunDecidePreserves ==
  ASSUME IInv, CycleInv, policy \in PolicyNames, RunDecide
  PROVE  CycleInv'
<1> DEFINE ds == Decide(policy, Live(cycle), cycle.metrics, [status |-> ModelStatus])
<1>1. /\ heap' = heap /\ blocks' = blocks /\ cycle.pc = "measured"
      /\ cycle' = [pc |-> "applying", listed |-> cycle.listed, decisions |-> ds,
                   at |-> 1, recorded |-> {}]
  BY DEF RunDecide, trackerVars
<1>2. /\ ds \in Seq(VerdictType)
      /\ \A i \in DOMAIN ds : \E r \in Listed : ds[i].block_id = heap[r].block_id
      /\ \A i, j \in DOMAIN ds : ds[i].block_id = ds[j].block_id => i = j
  BY <1>1, DecideAboutListed DEF CycleInv
<1> HIDE DEF ds
<1>3. /\ cycle'.pc = "applying" /\ cycle'.listed = cycle.listed /\ Verdicts' = ds
      /\ cycle'.at = 1 /\ cycle'.recorded = {} /\ cycle' \in WorkingCycle
  <2>1. cycle.listed \in Seq(Nat)
    BY <1>1 DEF CycleInv, ListInv
  <2> QED BY <1>1, <1>2, <2>1 DEF Verdicts, WorkingCycle
<1>4. Listed' = Listed
  BY <1>3 DEF Listed
<1>5. ListInv'
  BY <1>1, <1>3 DEF CycleInv, ListInv
<1>6. VerdictsInv'
  BY <1>1, <1>2, <1>3, <1>4 DEF VerdictsInv
<1>7. AppliedInv'
  <2>1. \A i \in DOMAIN Verdicts' : ~(i < 1)
    BY <1>2, <1>3
  <2> QED BY <1>3, <2>1 DEF AppliedInv
<1>8. RecordedInv'
  BY <1>3 DEF RecordedInv
<1> QED BY <1>3, <1>5, <1>6, <1>7, <1>8 DEF CycleInv

(***************************************************************************)
(* While the serving engine works, a cycle keeps what it has done.         *)
(***************************************************************************)
LEMMA ServingPreserves ==
  ASSUME IInv, CycleInv, ServingStep, cycle' = cycle
  PROVE  CycleInv'
<1>1. Kept
  BY ServingShape
<1>2. CASE cycle.pc = "idle"
  BY <1>2 DEF CycleInv, ListInv, Working, VerdictsInv, AppliedInv, RecordedInv
<1>3. CASE cycle.pc # "idle"
  <2>1. ListInv' /\ Listed' = Listed /\ Verdicts' = Verdicts
        /\ \A r \in Listed : heap'[r].block_id = heap[r].block_id
    BY <1>1, <1>3, ListStays DEF CycleInv, Verdicts
  <2>2. CASE ~Working
    BY <2>1, <2>2 DEF CycleInv, Working, VerdictsInv, AppliedInv, RecordedInv
  <2>3. CASE Working
    <3>1. VerdictsInv'
      BY <2>1, <2>3 DEF CycleInv, VerdictsInv, Working
    <3>2. ASSUME NEW i \in DOMAIN Verdicts
          PROVE  (TierHolds(i) => TierHolds(i)') /\ (ScoreHolds(i) => ScoreHolds(i)')
      BY <1>3, <2>1, <2>3, CurrentType, ServingHolds DEF CycleInv
    <3>3. AppliedInv'
      BY <2>1, <2>3, <3>2 DEF CycleInv, AppliedInv, Working
    <3>4. RecordedInv'
      BY <2>1, <2>3 DEF CycleInv, RecordedInv, Working
    <3> QED BY <2>1, <2>3, <3>1, <3>3, <3>4 DEF CycleInv, Working
  <2> QED BY <2>2, <2>3
<1> QED BY <1>2, <1>3

-----------------------------------------------------------------------------
(***************************************************************************)
(* Evicting the block of the current verdict: its id names nothing after.  *)
(***************************************************************************)
LEMMA ApplyEvictPreserves ==
  ASSUME IInv, CycleInv, ApplyEvict
  PROVE  IInv' /\ CycleInv'
<1> DEFINE b == Current.block_id
<1>1. /\ cycle.pc = "applying" /\ cycle.at \in DOMAIN Verdicts /\ Working
      /\ IfTracked(b, EvictBlock(b))
      /\ cycle' = [cycle EXCEPT !.pc = "applying", !.at = @ + 1]
  BY DEF ApplyEvict, At, Advance, Working
<1>2. /\ ListInv /\ VerdictsInv /\ AppliedInv /\ RecordedInv /\ cycle.pc # "idle"
      /\ cycle.at \in Nat \ {0} /\ DOMAIN Verdicts = 1..Len(Verdicts) /\ Len(Verdicts) \in Nat
  BY <1>1, WorkingType DEF CycleInv
<1>3. b \in BlockIds
  BY <1>1, <1>2, CurrentType DEF Current
<1>4. IInv' /\ Spares(b) /\ blocks'[b] = Absent
  BY <1>1, <1>3, EvictShape
<1>n. PICK n \in Nat \ {0} : n = cycle.at + 1
  BY <1>1, <1>2, WorkingType
<1>5. /\ cycle' \in WorkingCycle /\ cycle'.pc = "applying" /\ cycle'.at = n
      /\ cycle'.recorded = cycle.recorded
      /\ cycle'.listed = cycle.listed /\ cycle'.decisions = cycle.decisions
  <2>1. cycle' = [cycle EXCEPT !.pc = "applying", !.at = n]
    BY <1>1, <1>n
  <2>2. cycle \in WorkingCycle /\ cycle.recorded \in SUBSET Records
    BY <1>1, <1>2, WorkingType
  <2> QED BY <2>1, <2>2 DEF WorkingCycle
<1>6. /\ cycle'.pc = "applying" /\ cycle'.at = n /\ cycle'.recorded = cycle.recorded
      /\ ListInv' /\ VerdictsInv' /\ Working' /\ Listed' = Listed /\ Verdicts' = Verdicts
  <2>1. Kept
    BY <1>4 DEF Spares
  <2> QED BY <1>1, <1>2, <1>5, <2>1, VerdictsStay
<1>7. AppliedInv'
  <2>1. ASSUME NEW i \in DOMAIN Verdicts, i < n
        PROVE  TierHolds(i)' /\ ScoreHolds(i)'
    <3>1. CASE i = cycle.at
      <4>1. Verdicts'[i].block_id = b /\ blocks'[b] \notin Listed'
        BY <1>2, <1>4, <1>6, <3>1, ListedType DEF Current
      <4> QED BY <4>1 DEF TierHolds, ScoreHolds
    <3>2. CASE i # cycle.at
      <4>1. i < cycle.at
        BY <1>2, <1>n, <2>1, <3>2
      <4>2. Verdicts[i].block_id \in BlockIds \ {b}
        BY <1>1, <1>2, <3>2, CurrentType DEF Current, VerdictsInv
      <4>3. TierHolds(i) /\ ScoreHolds(i)
        BY <1>1, <1>2, <4>1 DEF AppliedInv
      <4> QED BY <1>2, <1>3, <1>4, <1>6, <4>2, <4>3, OthersHold
    <3> QED BY <3>1, <3>2
  <2> QED BY <1>6, <2>1 DEF AppliedInv
<1>8. RecordedInv'
  BY <1>1, <1>2, <1>6 DEF RecordedInv
<1> QED BY <1>4, <1>6, <1>7, <1>8 DEF CycleInv

(***************************************************************************)
(* Moving it: if its id still names it, it is in the verdict's tier.       *)
(***************************************************************************)
LEMMA ApplyTierPreserves ==
  ASSUME IInv, CycleInv, ApplyTier
  PROVE  IInv' /\ CycleInv'
<1> DEFINE b == Current.block_id
           t == TierOf(Current.decision)
<1>1. /\ cycle.pc = "applying" /\ cycle.at \in DOMAIN Verdicts /\ Working
      /\ Current.decision # "EVICT" /\ IfTracked(b, UpdateTier(b, t))
      /\ cycle' = [cycle EXCEPT !.pc = "scoring"]
  BY DEF ApplyTier, At, Working
<1>2. /\ ListInv /\ VerdictsInv /\ AppliedInv /\ RecordedInv /\ cycle.pc # "idle"
      /\ cycle.at \in Nat \ {0} /\ DOMAIN Verdicts = 1..Len(Verdicts) /\ Len(Verdicts) \in Nat
  BY <1>1, WorkingType DEF CycleInv
<1>3. b \in BlockIds /\ t \in Tiers \ {"EVICTED"} /\ t = Placement[Current.decision]
  BY <1>1, <1>2, CurrentType, TierOfPlacement DEF Current
<1> HIDE DEF t
<1>4. /\ IInv' /\ Spares(b) /\ blocks' = blocks
      /\ b \in Registered => heap'[blocks[b]].current_tier = t
  BY <1>1, <1>3, TierShape
<1>5. /\ cycle' \in WorkingCycle /\ cycle'.pc = "scoring" /\ cycle'.at = cycle.at
      /\ cycle'.recorded = cycle.recorded
      /\ cycle'.listed = cycle.listed /\ cycle'.decisions = cycle.decisions
  <2>1. cycle' = [cycle EXCEPT !.pc = "scoring"]
    BY <1>1
  <2>2. cycle \in WorkingCycle /\ cycle.recorded \in SUBSET Records
    BY <1>1, <1>2, WorkingType
  <2> QED BY <2>1, <2>2 DEF WorkingCycle
<1>6. /\ cycle'.pc = "scoring" /\ cycle'.at = cycle.at /\ cycle'.recorded = cycle.recorded
      /\ ListInv' /\ VerdictsInv' /\ Working' /\ Listed' = Listed /\ Verdicts' = Verdicts
  <2>1. Kept
    BY <1>4 DEF Spares
  <2> QED BY <1>1, <1>2, <1>5, <2>1, VerdictsStay
<1>7. ASSUME NEW i \in DOMAIN Verdicts, i < cycle.at
      PROVE  TierHolds(i)' /\ ScoreHolds(i)'
  <2>1. Verdicts[i].block_id \in BlockIds \ {b}
    BY <1>1, <1>2, <1>7, CurrentType DEF Current, VerdictsInv
  <2>2. TierHolds(i) /\ ScoreHolds(i)
    BY <1>1, <1>2, <1>7 DEF AppliedInv
  <2> QED BY <1>2, <1>3, <1>4, <1>6, <2>1, <2>2, OthersHold
<1>k. PICK k \in DOMAIN Verdicts : k = cycle.at
  BY <1>1
<1>8. TierHolds(k)'
  <2> SUFFICES ASSUME blocks'[b] \in Listed
               PROVE  heap'[blocks'[b]].current_tier = t
    BY <1>1, <1>3, <1>6, <1>k DEF TierHolds, Current
  <2>1. b \in Registered
    BY <1>2, <1>3, <1>4, ListedType DEF Registered
  <2> QED BY <1>4, <2>1
<1>9. AppliedInv'
  <2>1. \A i \in DOMAIN Verdicts : i < cycle.at \/ i = cycle.at => TierHolds(i)'
    BY <1>7, <1>8, <1>k
  <2> QED BY <1>6, <1>7, <2>1 DEF AppliedInv
<1>10. RecordedInv'
  BY <1>1, <1>2, <1>6 DEF RecordedInv
<1> QED BY <1>4, <1>6, <1>9, <1>10 DEF CycleInv

(***************************************************************************)
(* Scoring it, which leaves its tier.  Between the two calls the serving   *)
(* engine may have given the id to another block: then nothing is claimed. *)
(***************************************************************************)
LEMMA ApplyScorePreserves ==
  ASSUME IInv, CycleInv, ApplyScore
  PROVE  IInv' /\ CycleInv'
<1> DEFINE b == Current.block_id
           x == Current.score
<1>1. /\ cycle.pc = "scoring" /\ cycle.at \in DOMAIN Verdicts /\ Working
      /\ IfTracked(b, SetImportanceScore(b, x))
      /\ cycle' = [cycle EXCEPT !.pc = "applying", !.at = @ + 1]
  BY DEF ApplyScore, At, Advance, Working
<1>2. /\ ListInv /\ VerdictsInv /\ AppliedInv /\ RecordedInv /\ cycle.pc # "idle"
      /\ cycle.at \in Nat \ {0} /\ DOMAIN Verdicts = 1..Len(Verdicts) /\ Len(Verdicts) \in Nat
  BY <1>1, WorkingType DEF CycleInv
<1>3. b \in BlockIds /\ x \in Nat
  BY <1>1, <1>2, CurrentType DEF Current
<1>4. /\ IInv' /\ Spares(b) /\ blocks' = blocks
      /\ \A r \in DOMAIN heap : heap'[r].current_tier = heap[r].current_tier
      /\ b \in Registered => heap'[blocks[b]].importance_score = x
  BY <1>1, <1>3, ScoreShape
<1>n. PICK n \in Nat \ {0} : n = cycle.at + 1
  BY <1>1, <1>2, WorkingType
<1>5. /\ cycle' \in WorkingCycle /\ cycle'.pc = "applying" /\ cycle'.at = n
      /\ cycle'.recorded = cycle.recorded
      /\ cycle'.listed = cycle.listed /\ cycle'.decisions = cycle.decisions
  <2>1. cycle' = [cycle EXCEPT !.pc = "applying", !.at = n]
    BY <1>1, <1>n
  <2>2. cycle \in WorkingCycle /\ cycle.recorded \in SUBSET Records
    BY <1>1, <1>2, WorkingType
  <2> QED BY <2>1, <2>2 DEF WorkingCycle
<1>6. /\ cycle'.pc = "applying" /\ cycle'.at = n /\ cycle'.recorded = cycle.recorded
      /\ ListInv' /\ VerdictsInv' /\ Working' /\ Listed' = Listed /\ Verdicts' = Verdicts
  <2>1. Kept
    BY <1>4 DEF Spares
  <2> QED BY <1>1, <1>2, <1>5, <2>1, VerdictsStay
<1>7. ASSUME NEW i \in DOMAIN Verdicts, i < cycle.at
      PROVE  TierHolds(i)' /\ ScoreHolds(i)'
  <2>1. Verdicts[i].block_id \in BlockIds \ {b}
    BY <1>1, <1>2, <1>7, CurrentType DEF Current, VerdictsInv
  <2>2. TierHolds(i) /\ ScoreHolds(i)
    BY <1>1, <1>2, <1>7 DEF AppliedInv
  <2> QED BY <1>2, <1>3, <1>4, <1>6, <2>1, <2>2, OthersHold
<1>k. PICK k \in DOMAIN Verdicts : k = cycle.at
  BY <1>1
<1>8. TierHolds(k)' /\ ScoreHolds(k)'
  <2>1. TierHolds(k) /\ Verdicts[k] = Current
    BY <1>1, <1>2, <1>k DEF AppliedInv, Current
  <2>2. ASSUME blocks[b] \in Listed
        PROVE  b \in Registered /\ blocks[b] \in DOMAIN heap
    BY <1>2, <1>3, <2>2, ListedType DEF Registered
  <2>3. TierHolds(k)'
    BY <1>4, <1>6, <2>1, <2>2 DEF TierHolds
  <2>4. ScoreHolds(k)'
    BY <1>4, <1>6, <2>1, <2>2 DEF ScoreHolds
  <2> QED BY <2>3, <2>4
<1>9. AppliedInv'
  <2>1. \A i \in DOMAIN Verdicts : i < n => i < cycle.at \/ i = k
    BY <1>2, <1>k, <1>n
  <2>2. \A i \in DOMAIN Verdicts : i < n => TierHolds(i)' /\ ScoreHolds(i)'
    BY <1>7, <1>8, <2>1
  <2> QED BY <1>6, <2>2 DEF AppliedInv
<1>10. RecordedInv'
  BY <1>1, <1>2, <1>6 DEF RecordedInv
<1> QED BY <1>4, <1>6, <1>9, <1>10 DEF CycleInv

(***************************************************************************)
(* The last verdict applied, every verdict holds.                          *)
(***************************************************************************)
LEMMA StartRecordingPreserves ==
  ASSUME IInv, CycleInv, StartRecording
  PROVE  CycleInv'
<1>1. /\ cycle.pc = "applying" /\ cycle.at \notin DOMAIN Verdicts /\ Working
      /\ cycle' = [cycle EXCEPT !.pc = "recording", !.at = 1]
      /\ heap' = heap /\ blocks' = blocks
  BY DEF StartRecording, Working, trackerVars
<1>2. /\ ListInv /\ VerdictsInv /\ AppliedInv /\ RecordedInv
      /\ cycle.at \in Nat \ {0} /\ DOMAIN Verdicts = 1..Len(Verdicts) /\ Len(Verdicts) \in Nat
  BY <1>1, WorkingType DEF CycleInv
<1>3. /\ cycle' \in WorkingCycle /\ cycle'.pc = "recording" /\ cycle'.at = 1
      /\ cycle'.recorded = cycle.recorded
      /\ cycle'.listed = cycle.listed /\ cycle'.decisions = cycle.decisions
  <2>1. PICK n \in Nat \ {0} : n = 1
    OBVIOUS
  <2>2. cycle' = [cycle EXCEPT !.pc = "recording", !.at = n]
    BY <1>1, <2>1
  <2>3. cycle \in WorkingCycle /\ cycle.recorded \in SUBSET Records
    BY <1>1, <1>2, WorkingType
  <2>4. /\ cycle' \in WorkingCycle /\ cycle'.pc = "recording" /\ cycle'.at = n
        /\ cycle'.recorded = cycle.recorded
        /\ cycle'.listed = cycle.listed /\ cycle'.decisions = cycle.decisions
    BY <2>2, <2>3 DEF WorkingCycle
  <2> QED BY <2>1, <2>4
<1>4. /\ cycle'.pc = "recording" /\ cycle'.recorded = cycle.recorded
      /\ ListInv' /\ VerdictsInv' /\ Working' /\ Listed' = Listed /\ Verdicts' = Verdicts
  <2>1. Kept
    BY <1>1 DEF Kept
  <2> QED BY <1>1, <1>2, <1>3, <2>1, VerdictsStay
<1>5. ASSUME NEW i \in DOMAIN Verdicts
      PROVE  TierHolds(i)' /\ ScoreHolds(i)'
  <2>1. CASE i < cycle.at
    BY <1>1, <1>2, <1>4, <2>1 DEF AppliedInv, TierHolds, ScoreHolds
  <2>2. CASE ~(i < cycle.at)
    BY <1>1, <1>2, <2>2
  <2> QED BY <2>1, <2>2
<1>6. AppliedInv'
  BY <1>4, <1>5 DEF AppliedInv
<1>7. RecordedInv'
  BY <1>1, <1>2, <1>4 DEF RecordedInv
<1> QED BY <1>4, <1>6, <1>7 DEF CycleInv

(***************************************************************************)
(* A record is of the object the verdict's id names: a listed block is     *)
(* still where its verdict put it.                                         *)
(***************************************************************************)
LEMMA RecordPreserves ==
  ASSUME IInv, CycleInv, Record
  PROVE  CycleInv'
<1> DEFINE b == Current.block_id
           t == [verdict |-> cycle.at, ref |-> blocks[b], tier |-> heap[blocks[b]].current_tier]
           rec == IF b \in Registered THEN cycle.recorded \union {t} ELSE cycle.recorded
<1>1. /\ cycle.pc = "recording" /\ cycle.at \in DOMAIN Verdicts /\ Working
      /\ cycle' = [cycle EXCEPT !.at = cycle.at + 1, !.recorded = rec]
      /\ heap' = heap /\ blocks' = blocks
  BY DEF Record, At, Working, trackerVars
<1>2. /\ ListInv /\ VerdictsInv /\ AppliedInv /\ RecordedInv /\ cycle.pc # "idle"
      /\ cycle.at \in Nat \ {0} /\ cycle \in WorkingCycle /\ cycle.recorded \in SUBSET Records
  BY <1>1, WorkingType DEF CycleInv
<1>3. b \in BlockIds
  BY <1>1, <1>2, CurrentType DEF Current
<1>4. rec \in SUBSET Records
  <2>1. CASE b \in Registered
    <3>1. blocks[b] \in DOMAIN heap /\ heap[blocks[b]] \in BlockState
      BY <2>1, LookupType DEF IInv
    <3>2. blocks[b] \in Nat /\ heap[blocks[b]].current_tier \in Tiers
      <4>1. DOMAIN heap \subseteq Nat
        BY DEF IInv, TypeOK
      <4> QED BY <3>1, <4>1 DEF BlockState
    <3>3. t \in Records
      BY <1>2, <3>2 DEF Records
    <3> QED BY <1>2, <2>1, <3>3
  <2>2. CASE b \notin Registered
    BY <1>2, <2>2
  <2> QED BY <2>1, <2>2
<1>n. PICK n \in Nat \ {0} : n = cycle.at + 1
  BY <1>1, <1>2, WorkingType
<1>5. /\ cycle' \in WorkingCycle /\ cycle'.pc = "recording" /\ cycle'.recorded = rec
      /\ cycle'.listed = cycle.listed /\ cycle'.decisions = cycle.decisions
  <2> HIDE DEF rec
  <2>1. cycle' = [cycle EXCEPT !.at = n, !.recorded = rec]
    BY <1>1, <1>n
  <2> QED BY <1>1, <1>2, <1>4, <2>1 DEF WorkingCycle
<1>6. /\ cycle'.pc = "recording" /\ cycle'.recorded = rec
      /\ ListInv' /\ VerdictsInv' /\ Working' /\ Listed' = Listed /\ Verdicts' = Verdicts
  <2>1. Kept
    BY <1>1 DEF Kept
  <2> QED BY <1>1, <1>2, <1>5, <2>1, VerdictsStay
<1>7. AppliedInv'
  <2>1. ASSUME NEW i \in DOMAIN Verdicts
        PROVE  TierHolds(i)' /\ ScoreHolds(i)'
    BY <1>1, <1>2, <1>6 DEF AppliedInv, TierHolds, ScoreHolds
  <2> QED BY <1>6, <2>1 DEF AppliedInv
<1>8. RecordedInv'
  <2>1. ASSUME NEW o \in rec
        PROVE  /\ o.verdict \in DOMAIN Verdicts
               /\ o.ref \in Listed => o.tier = TierOf(Verdicts[o.verdict].decision)
    <3>1. CASE o \in cycle.recorded
      BY <1>1, <1>2, <3>1 DEF RecordedInv
    <3>2. CASE o = t
      <4>1. PICK k \in DOMAIN Verdicts : k = cycle.at
        BY <1>1
      <4>2. o.verdict = k /\ o.ref = blocks[b] /\ o.tier = heap[blocks[b]].current_tier
            /\ Verdicts[k].block_id = b
        BY <3>2, <4>1 DEF Current
      <4>3. TierHolds(k) /\ Verdicts[k].decision \in Decisions
        BY <1>1, <1>2, CurrentType DEF AppliedInv
      <4> QED BY <4>2, <4>3, TierOfPlacement DEF TierHolds
    <3> QED BY <2>1, <3>1, <3>2
  <2> HIDE DEF rec
  <2> QED BY <1>6, <2>1 DEF RecordedInv
<1> QED BY <1>6, <1>7, <1>8 DEF CycleInv

-----------------------------------------------------------------------------
\* The statistics a policy object leaves: while a cycle works, those of the policy
\* at work are about its verdicts, unless that policy delegated them.
StatsRecords ==
  [timestamp : Nat, policy_name : PolicyNames, num_blocks_evaluated : Nat,
   decisions : [Decisions -> Nat], gpu_mem_pressure : Nat]

StatsInv ==
  /\ policy \in ActivePolicies /\ cycle_count \in Nat
  /\ last_stats \in [PolicyNames -> StatsRecords \union {NoStats}]
  /\ history \in Seq(StatsRecords)
  /\ Working /\ ~Delegates =>
       /\ last_stats[policy] \in StatsRecords
       /\ last_stats[policy].timestamp = cycle_count
       /\ last_stats[policy].policy_name = policy
       /\ last_stats[policy].num_blocks_evaluated = Len(Verdicts)

EngineInv == IInv /\ CycleInv /\ StatsInv

(***************************************************************************)
(* A policy in use is one of the eight, and statistics are never mistaken   *)
(* for their absence.                                                      *)
(***************************************************************************)
LEMMA PolicyType ==
  ASSUME StatsInv
  PROVE  policy \in PolicyNames /\ \A s \in StatsRecords : s # NoStats
<1>1. \A s \in StatsRecords : s.timestamp \in Nat
  BY DEF StatsRecords
<1>2. NoStats.timestamp = -1 /\ -1 \notin Nat
  BY DEF NoStats
<1>3. policy \in PolicyNames
  BY EngineAssumption DEF StatsInv
<1> QED BY <1>1, <1>2, <1>3

(***************************************************************************)
(* The statistics of a list of verdicts are about that list.               *)
(***************************************************************************)
LEMMA MakeStatsType ==
  ASSUME NEW p \in PolicyNames, NEW ds \in Seq(VerdictType), NEW x \in Nat, NEW now \in Nat
  PROVE  LET s == MakeStats(p, ds, x, now)
         IN  /\ s \in StatsRecords /\ s.timestamp = now /\ s.policy_name = p
             /\ s.num_blocks_evaluated = Len(ds)
<1> DEFINE count == [d \in Decisions |-> Cardinality({i \in DOMAIN ds : ds[i].decision = d})]
<1>1. ASSUME NEW d \in Decisions
      PROVE  Cardinality({i \in DOMAIN ds : ds[i].decision = d}) \in Nat
  <2> DEFINE S == {i \in DOMAIN ds : ds[i].decision = d}
  <2>1. DOMAIN ds = 1..Len(ds) /\ Len(ds) \in Nat
    OBVIOUS
  <2>2. IsFiniteSet(1..Len(ds)) /\ S \subseteq 1..Len(ds)
    BY <2>1, FS_Interval
  <2>3. IsFiniteSet(S)
    BY <2>2, FS_Subset
  <2> QED BY <2>3, FS_CardinalityType
<1>2. count \in [Decisions -> Nat]
  BY <1>1
<1>3. Len(ds) \in Nat
  OBVIOUS
<1>4. MakeStats(p, ds, x, now) =
        [timestamp |-> now, policy_name |-> p, num_blocks_evaluated |-> Len(ds),
         decisions |-> count, gpu_mem_pressure |-> x]
  BY DEF MakeStats
<1> HIDE DEF count
<1> QED BY <1>2, <1>3, <1>4 DEF StatsRecords

(***************************************************************************)
(* decide() leaves its statistics with the policy object at work.          *)
(***************************************************************************)
LEMMA RunDecideStats ==
  ASSUME EngineInv, RunDecide
  PROVE  StatsInv'
<1> DEFINE ds == Decide(policy, Live(cycle), cycle.metrics, [status |-> ModelStatus])
           x == MemoryPressure(cycle.metrics)
           s == MakeStats(policy, ds, x, cycle_count)
<1>1. /\ cycle.pc = "measured" /\ policy' = policy /\ history' = history
      /\ cycle_count' = cycle_count
      /\ cycle' = [pc |-> "applying", listed |-> cycle.listed, decisions |-> ds,
                   at |-> 1, recorded |-> {}]
      /\ last_stats' = IF Delegates THEN last_stats ELSE [last_stats EXCEPT ![policy] = s]
  BY DEF RunDecide
<1>2. policy \in PolicyNames /\ MetricsFit(cycle.metrics)
  BY <1>1, PolicyType DEF EngineInv, CycleInv
<1>3. ds \in Seq(VerdictType)
  BY <1>1, <1>2, DecideAboutListed DEF EngineInv, CycleInv
<1>4. x \in Nat
  <2>1. cycle.metrics.used \in Nat /\ cycle.metrics.used + cycle.metrics.free \in Int
    BY <1>2 DEF MetricsFit
  <2> QED BY <2>1, RatioNat DEF MemoryPressure
<1>5. cycle_count \in Nat
  BY DEF EngineInv, StatsInv
<1> HIDE DEF ds, x
<1>6. /\ s \in StatsRecords /\ s.timestamp = cycle_count /\ s.policy_name = policy
      /\ s.num_blocks_evaluated = Len(ds)
  BY <1>2, <1>3, <1>4, <1>5, MakeStatsType
<1> HIDE DEF s
<1>7. Verdicts' = ds /\ Delegates' = Delegates
  BY <1>1 DEF Verdicts, Delegates
<1>8. last_stats \in [PolicyNames -> StatsRecords \union {NoStats}]
  BY DEF EngineInv, StatsInv
<1>9. /\ last_stats' \in [PolicyNames -> StatsRecords \union {NoStats}]
      /\ ~Delegates => last_stats'[policy] = s
  BY <1>1, <1>2, <1>6, <1>8
<1> QED BY <1>1, <1>6, <1>7, <1>9 DEF EngineInv, StatsInv

(***************************************************************************)
(* Any other step of a cycle leaves the statistics and the verdicts alone, *)
(* until the cycle is over.                                                *)
(***************************************************************************)
LEMMA StatsStay ==
  ASSUME StatsInv, UNCHANGED <<policy, last_stats, history, cycle_count>>,
         Working' => Working /\ Verdicts' = Verdicts
  PROVE  StatsInv'
BY DEF StatsInv, Delegates

(***************************************************************************)
(* A full ring gives up its oldest entry and, unless it holds none at all, *)
(* ends with the new one.                                                  *)
(***************************************************************************)
LEMMA PushedType ==
  ASSUME NEW h \in Seq(StatsRecords), NEW s \in StatsRecords
  PROVE  /\ Pushed(h, s) \in Seq(StatsRecords)
         /\ HistorySize > 0 => Pushed(h, s) # <<>> /\ Pushed(h, s)[Len(Pushed(h, s))] = s
<1> DEFINE a == Append(h, s)
<1>1. /\ a \in Seq(StatsRecords) /\ Len(a) = Len(h) + 1 /\ a[Len(h) + 1] = s
      /\ Len(h) \in Nat /\ HistorySize \in Nat
  BY EngineAssumption
<1> HIDE DEF a
<1>2. CASE Len(h) < HistorySize
  <2>1. Pushed(h, s) = a
    BY <1>2 DEF Pushed, a
  <2> QED BY <1>1, <2>1
<1>3. CASE ~(Len(h) < HistorySize)
  <2>1. Pushed(h, s) = Tail(a)
    BY <1>3 DEF Pushed, a
  <2>2. /\ Tail(a) \in Seq(StatsRecords) /\ Len(Tail(a)) = Len(h)
        /\ \A i \in 1..Len(h) : Tail(a)[i] = a[i + 1]
    BY <1>1
  <2> QED BY <1>1, <1>3, <2>1, <2>2
<1> QED BY <1>2, <1>3

-----------------------------------------------------------------------------
(***************************************************************************)
(* The first state: no cycle, no statistics, an empty ring.                *)
(***************************************************************************)
LEMMA EngineInitInv ==
  ASSUME EngineInit
  PROVE  EngineInv
<1>1. IInv
  BY InitLemma DEF EngineInit
<1>2. cycle.pc = "idle"
  BY DEF EngineInit, Idle
<1>3. CycleInv
  BY <1>2 DEF CycleInv, ListInv, Working, VerdictsInv, AppliedInv, RecordedInv
<1>4. StatsInv
  BY <1>2 DEF EngineInit, StatsInv, Working
<1> QED BY <1>1, <1>3, <1>4 DEF EngineInv

(***************************************************************************)
(* The end of a cycle: its statistics join the ring.                       *)
(***************************************************************************)
LEMMA FinishPreserves ==
  ASSUME EngineInv, FinishCycle
  PROVE  CycleInv' /\ StatsInv'
<1>1. /\ cycle'.pc = "idle" /\ policy' = policy /\ last_stats' = last_stats
      /\ history' = IF last_stats[policy] = NoStats THEN history
                    ELSE Pushed(history, last_stats[policy])
      /\ cycle_count' = IF cycle_count < MaxCycles THEN cycle_count + 1 ELSE cycle_count
  BY DEF FinishCycle, Idle
<1>2. CycleInv'
  BY <1>1 DEF CycleInv, ListInv, Working, VerdictsInv, AppliedInv, RecordedInv
<1>3. StatsInv /\ policy \in PolicyNames
  BY PolicyType DEF EngineInv
<1>4. last_stats[policy] \in StatsRecords \union {NoStats} /\ history \in Seq(StatsRecords)
  BY <1>3 DEF StatsInv
<1>5. history' \in Seq(StatsRecords)
  BY <1>1, <1>4, PushedType
<1>6. cycle_count' \in Nat
  BY <1>1, <1>3 DEF StatsInv
<1>7. StatsInv'
  BY <1>1, <1>3, <1>5, <1>6 DEF StatsInv, Working
<1> QED BY <1>2, <1>7

(***************************************************************************)
(* The invariant of the engine is inductive: whatever the serving engine   *)
(* does between two calls of a cycle, and whenever the operator switches   *)
(* the policy.                                                             *)
(***************************************************************************)
LEMMA EngineStepPreserves ==
  ASSUME EngineInv, [Next]_vars
  PROVE  EngineInv'
<1> USE DEF EngineInv
<1>p. policy \in PolicyNames
  BY PolicyType
<1>t. ASSUME UNCHANGED trackerVars
      PROVE  IInv'
  BY <1>t, StepPreserves
<1>1. CASE ServingStep /\ UNCHANGED engineVars
  <2>1. TrackerNext /\ cycle' = cycle
    BY <1>1 DEF TrackerNext, engineVars
  <2>2. IInv' /\ CycleInv'
    BY <1>1, <2>1, StepPreserves, ServingPreserves
  <2>3. StatsInv'
    BY <1>1, StatsStay DEF engineVars, Working, Verdicts
  <2> QED BY <2>2, <2>3
<1>2. CASE Snapshot
  <2>1. UNCHANGED trackerVars /\ UNCHANGED <<policy, last_stats, history, cycle_count>> /\ ~Working'
    BY <1>2 DEF Snapshot, Working
  <2> QED BY <1>2, <1>t, <2>1, SnapshotPreserves, StatsStay
<1>3. CASE Measure
  <2>1. UNCHANGED trackerVars /\ UNCHANGED <<policy, last_stats, history, cycle_count>> /\ ~Working'
    BY <1>3 DEF Measure, Working
  <2> QED BY <1>3, <1>t, <2>1, MeasurePreserves, StatsStay
<1>4. CASE RunDecide
  <2>1. UNCHANGED trackerVars
    BY <1>4 DEF RunDecide
  <2> QED BY <1>4, <1>p, <1>t, <2>1, RunDecidePreserves, RunDecideStats
<1>w. ASSUME Working, VerdictsInv,
             UNCHANGED <<policy, last_stats, history, cycle_count>>,
             \/ \E pc : cycle' = [cycle EXCEPT !.pc = pc]
             \/ \E pc, at : cycle' = [cycle EXCEPT !.pc = pc, !.at = at]
             \/ \E at, rec : cycle' = [cycle EXCEPT !.at = at, !.recorded = rec]
      PROVE  StatsInv'
  <2>1. cycle \in WorkingCycle
    BY <1>w, WorkingType
  <2>2. cycle'.decisions = cycle.decisions
    BY <1>w, <2>1 DEF WorkingCycle
  <2> QED BY <1>w, <2>2, StatsStay DEF Verdicts
<1>5. CASE ApplyEvict
  <2>1. StatsInv'
    BY <1>5, <1>w DEF ApplyEvict, Advance, At, Working, CycleInv
  <2> QED BY <1>5, <2>1, ApplyEvictPreserves
<1>6. CASE ApplyTier
  <2>1. StatsInv'
    BY <1>6, <1>w DEF ApplyTier, At, Working, CycleInv
  <2> QED BY <1>6, <2>1, ApplyTierPreserves
<1>7. CASE ApplyScore
  <2>1. StatsInv'
    BY <1>7, <1>w DEF ApplyScore, Advance, At, Working, CycleInv
  <2> QED BY <1>7, <2>1, ApplyScorePreserves
<1>8. CASE StartRecording
  <2>1. StatsInv' /\ UNCHANGED trackerVars
    BY <1>8, <1>w DEF StartRecording, Working, CycleInv
  <2> QED BY <1>8, <1>t, <2>1, StartRecordingPreserves
<1>9. CASE Record
  <2>1. StatsInv' /\ UNCHANGED trackerVars
    BY <1>9, <1>w DEF Record, At, Working, CycleInv
  <2> QED BY <1>9, <1>t, <2>1, RecordPreserves
<1>10. CASE FinishCycle
  <2>1. UNCHANGED trackerVars
    BY <1>10 DEF FinishCycle
  <2> QED BY <1>10, <1>t, <2>1, FinishPreserves
<1>11. ASSUME NEW p \in ActivePolicies, OverridePolicy(p)
       PROVE  EngineInv'
  <2>1. /\ UNCHANGED trackerVars /\ cycle' = cycle /\ cycle.pc = "idle"
        /\ policy' = p /\ last_stats' = last_stats /\ history' = history
        /\ cycle_count' = cycle_count
    BY <1>11 DEF OverridePolicy
  <2>2. CycleInv'
    BY <2>1 DEF CycleInv, ListInv, Working, VerdictsInv, AppliedInv, RecordedInv
  <2>3. StatsInv'
    BY <2>1 DEF StatsInv, Working
  <2> QED BY <1>t, <2>1, <2>2, <2>3
<1>12. CASE UNCHANGED vars
  <2>1. UNCHANGED trackerVars /\ UNCHANGED engineVars
    BY <1>12 DEF vars, trackerVars, engineVars
  <2>2. CycleInv'
    BY <2>1 DEF CycleInv, ListInv, Working, VerdictsInv, AppliedInv, RecordedInv,
       TierHolds, ScoreHolds, Verdicts, Listed, trackerVars, engineVars
  <2>3. StatsInv'
    BY <2>1, StatsStay DEF engineVars, Working, Verdicts
  <2> QED BY <1>t, <2>1, <2>2, <2>3
<1> QED
  BY <1>1, <1>2, <1>3, <1>4, <1>5, <1>6, <1>7, <1>8, <1>9, <1>10, <1>11, <1>12 DEF Next, CycleStep

(***************************************************************************)
(* A cycle that records has applied every one of its verdicts.             *)
(***************************************************************************)
LEMMA AppliedHold ==
  CycleInv => VerdictsHold
<1> SUFFICES ASSUME CycleInv, cycle.pc = "recording", NEW i \in DOMAIN Verdicts
             PROVE  LET v == Verdicts[i]
                        r == blocks[v.block_id]
                    IN  r \in Listed => /\ v.decision # "EVICT"
                                        /\ heap[r].current_tier = Placement[v.decision]
                                        /\ heap[r].importance_score = v.score
  BY DEF VerdictsHold
<1>1. TierHolds(i) /\ ScoreHolds(i)
  BY DEF CycleInv, AppliedInv, Working
<1> QED BY <1>1 DEF TierHolds, ScoreHolds

(***************************************************************************)
(* ... and its records show it.                                            *)
(***************************************************************************)
LEMMA RecordsShowVerdicts ==
  CycleInv => RecordsTruthful
BY DEF CycleInv, RecordedInv, Working, RecordsTruthful

(***************************************************************************)
(* When a cycle has applied its verdicts, every block of its snapshot that *)
(* its id still names is in the tier of its verdict, with its score, and   *)
(* was not to be evicted; and no block the serving engine put in the place *)
(* of one has to be.                                                       *)
(***************************************************************************)
THEOREM VerdictsTakeEffect == Spec => []VerdictsHold
<1>1. EngineInit => EngineInv
  BY EngineInitInv
<1>2. EngineInv /\ [Next]_vars => EngineInv'
  BY EngineStepPreserves
<1>3. EngineInv => VerdictsHold
  BY AppliedHold DEF EngineInv
<1> QED BY <1>1, <1>2, <1>3, PTL DEF Spec

(***************************************************************************)
(* The records of a cycle show the listed blocks where its verdicts put    *)
(* them.                                                                   *)
(***************************************************************************)
THEOREM RecordsShowPlacement == Spec => []RecordsTruthful
<1>1. EngineInit => EngineInv
  BY EngineInitInv
<1>2. EngineInv /\ [Next]_vars => EngineInv'
  BY EngineStepPreserves
<1>3. EngineInv => RecordsTruthful
  BY RecordsShowVerdicts DEF EngineInv
<1> QED BY <1>1, <1>2, <1>3, PTL DEF Spec

(***************************************************************************)
(* While the policy engine works beside the serving engine the tracker     *)
(* keeps its own invariant: the two use it only by calls it guards.        *)
(***************************************************************************)
THEOREM TrackerStaysSound == Spec => []TrackedSound
<1>1. EngineInit => EngineInv
  BY EngineInitInv
<1>2. EngineInv /\ [Next]_vars => EngineInv'
  BY EngineStepPreserves
<1>3. EngineInv => TrackedSound
  BY DEF EngineInv, IInv
<1> QED BY <1>1, <1>2, <1>3, PTL DEF Spec

(***************************************************************************)
(* Unless the learned policy delegates for want of a model, every finished *)
(* cycle leaves its own statistics at the end of the ring.                 *)
(***************************************************************************)
THEOREM HistoryKept ==
  ASSUME HistorySize > 0, "learned" \notin ActivePolicies \/ ModelStatus # "absent"
  PROVE  Spec => HistoryShowsCycle
<1> DEFINE Shown ==
      FinishCycle => /\ history' # <<>>
                     /\ history'[Len(history')].timestamp = cycle_count
                     /\ history'[Len(history')].policy_name = policy
                     /\ history'[Len(history')].num_blocks_evaluated = Len(Verdicts)
<1>1. ASSUME EngineInv, FinishCycle
      PROVE  Shown
  <2>1. Working /\ ~Delegates
    BY <1>1 DEF FinishCycle, Working, Delegates, EngineInv, StatsInv
  <2>2. /\ last_stats[policy] \in StatsRecords /\ history \in Seq(StatsRecords)
        /\ last_stats[policy].timestamp = cycle_count
        /\ last_stats[policy].policy_name = policy
        /\ last_stats[policy].num_blocks_evaluated = Len(Verdicts)
    BY <1>1, <2>1 DEF EngineInv, StatsInv
  <2>3. history' = Pushed(history, last_stats[policy])
    BY <1>1, <2>2, PolicyType DEF FinishCycle, EngineInv
  <2>4. history' # <<>> /\ history'[Len(history')] = last_stats[policy]
    BY <2>2, <2>3, PushedType
  <2> QED BY <2>2, <2>4
<1>2. EngineInv /\ [Next]_vars => [Shown]_vars
  BY <1>1
<1>3. EngineInit => EngineInv
  BY EngineInitInv
<1>4. EngineInv /\ [Next]_vars => EngineInv'
  BY EngineStepPreserves
<1>5. Spec => [][Shown]_vars
  BY <1>2, <1>3, <1>4, PTL DEF Spec
<1> QED BY <1>5 DEF HistoryShowsCycle

(***************************************************************************)
(* A call about the id of a verdict moves only a block of this id, which   *)
(* is the id of a listed block.                                            *)
(***************************************************************************)
LEMMA MovesItsId ==
  ASSUME IInv, CycleInv, At("applying") \/ At("scoring"), Spares(Current.block_id),
         NEW r \in TrackedRefs, heap'[r].current_tier # heap[r].current_tier
  PROVE  heap[r].block_id \in {heap[l].block_id : l \in Listed}
<1> DEFINE b == Current.block_id
<1>1. Working /\ cycle.at \in DOMAIN Verdicts /\ ListInv /\ VerdictsInv
  BY DEF At, Working, CycleInv
<1>2. PICK l \in Listed : b = heap[l].block_id
  BY <1>1 DEF VerdictsInv, Current
<1>3. b \in BlockIds
  BY <1>1, CurrentType DEF Current
<1>4. PICK c \in Registered : r = blocks[c]
  BY DEF TrackedRefs
<1>5. r \in DOMAIN heap /\ r # Absent /\ heap[r].block_id = c
  BY <1>4, LookupType DEF IInv, TrackedSound, Registered
<1>6. r = blocks[b]
  BY <1>5 DEF Spares
<1>7. b \in Registered
  BY <1>3, <1>5, <1>6 DEF Registered
<1>8. heap[r].block_id = b
  BY <1>6, <1>7 DEF IInv, TrackedSound
<1> QED BY <1>2, <1>8

(***************************************************************************)
(* What a cycle moves carries an id it looked at: no call of a cycle       *)
(* touches the tier of any other block, however ids are used again.        *)
(***************************************************************************)
THEOREM MovesOnlyListedIds == Spec => OnlyListedIdsMoved
<1> DEFINE Moves ==
      CycleStep => \A r \in TrackedRefs :
        heap'[r].current_tier # heap[r].current_tier =>
          heap[r].block_id \in {heap[l].block_id : l \in Listed}
<1>1. ASSUME EngineInv, CycleStep
      PROVE  Moves
  <2>1. CASE heap' = heap
    BY <2>1
  <2>2. ASSUME At("applying") \/ At("scoring")
        PROVE  Current.block_id \in BlockIds /\ Current.score \in Nat
               /\ (Current.decision # "EVICT" => TierOf(Current.decision) \in Tiers \ {"EVICTED"})
    <3>1. Working /\ cycle.at \in DOMAIN Verdicts
      BY <2>2 DEF At, Working
    <3> QED BY <1>1, <3>1, CurrentType, TierOfPlacement DEF Current, EngineInv, CycleInv
  <2>3. CASE ApplyEvict
    BY <1>1, <2>2, <2>3, EvictShape, MovesItsId DEF ApplyEvict, At, EngineInv
  <2>4. CASE ApplyTier
    <3>1. Spares(Current.block_id)
      BY <1>1, <2>2, <2>4, TierShape DEF ApplyTier, EngineInv
    <3> QED BY <1>1, <2>4, <3>1, MovesItsId DEF ApplyTier, EngineInv
  <2>5. CASE ApplyScore
    <3>1. Spares(Current.block_id)
      BY <1>1, <2>2, <2>5, ScoreShape DEF ApplyScore, EngineInv
    <3> QED BY <1>1, <2>5, <3>1, MovesItsId DEF ApplyScore, EngineInv
  <2> QED
    BY <1>1, <2>1, <2>3, <2>4, <2>5
    DEF CycleStep, Snapshot, Measure, RunDecide, StartRecording, Record, FinishCycle, trackerVars
<1>2. EngineInv /\ [Next]_vars => [Moves]_vars
  BY <1>1
<1>3. EngineInit => EngineInv
  BY EngineInitInv
<1>4. EngineInv /\ [Next]_vars => EngineInv'
  BY EngineStepPreserves
<1>5. Spec => [][Moves]_vars
  BY <1>2, <1>3, <1>4, PTL DEF Spec
<1> QED BY <1>5 DEF OnlyListedIdsMoved

-----------------------------------------------------------------------------
\* The task created last is the one _task names.
LoopInv == LoopTypeOK /\ task = Len(state) /\ OneLoop

(***************************************************************************)
(* A second task is created only when no task loops, and one that was      *)
(* cancelled or is done never loops again.                                 *)
(***************************************************************************)
LEMMA LoopStepPreserves ==
  ASSUME LoopInv, [LoopNext]_loopVars
  PROVE  LoopInv'
<1> USE DEF LoopInv, LoopTypeOK, OneLoop, Looping
<1>1. CASE Start
  <2>1. /\ \A t \in DOMAIN state : state[t] # "ready"
        /\ state' = Append(state, "ready") /\ running' = TRUE /\ task' = Len(state) + 1
        /\ awaiting' = awaiting
    BY <1>1 DEF Start
  <2>2. state \in Seq({"ready", "cancelled", "done"})
    OBVIOUS
  <2>3. /\ state' \in Seq({"ready", "cancelled", "done"}) /\ Len(state') = Len(state) + 1
        /\ \A t \in 1..Len(state) : state'[t] = state[t]
        /\ state'[Len(state) + 1] = "ready"
    BY <2>1, <2>2, AppendProperties
  <2>4. DOMAIN state = 1..Len(state) /\ DOMAIN state' = 1..Len(state') /\ Len(state) \in Nat
    BY <2>2, <2>3, LenProperties
  <2>5. \A t \in DOMAIN state' : state'[t] = "ready" => t = task'
    BY <2>1, <2>3, <2>4
  <2>6. awaiting' \in [Callers -> 0..Len(state')]
    BY <2>1, <2>3, <2>4
  <2> QED
    BY <2>1, <2>3, <2>4, <2>5, <2>6
<1>2. ASSUME NEW c \in Callers, Stop(c) PROVE LoopInv'
  <2>1. running' = FALSE /\ task' = task
    BY <1>2 DEF Stop
  <2>2. state \in Seq({"ready", "cancelled", "done"}) /\ DOMAIN state = 1..Len(state)
        /\ Len(state) \in Nat
    BY LenProperties
  <2>3. CASE task # 0 /\ state[task] # "done"
    <3>1. task \in 1..Len(state) /\ state' = [state EXCEPT ![task] = "cancelled"]
          /\ awaiting' = [awaiting EXCEPT ![c] = task]
      BY <1>2, <2>2, <2>3 DEF Stop, Cancelled
    <3>2. state' \in Seq({"ready", "cancelled", "done"}) /\ Len(state') = Len(state)
          /\ DOMAIN state' = 1..Len(state)
      BY <2>2, <3>1, ExceptSeq, LenProperties
    <3>3. \A t \in DOMAIN state' : state'[t] # "ready"
      BY <2>2, <3>1, <3>2
    <3>4. awaiting' \in [Callers -> 0..Len(state')]
      BY <2>2, <3>1, <3>2
    <3>5. OneLoop'
      BY <2>1, <3>3, Zenon
    <3> QED
      BY <2>1, <3>2, <3>4, <3>5
  <2>4. CASE ~(task # 0 /\ state[task] # "done")
    <3>1. UNCHANGED <<state, awaiting>>
      BY <1>2, <2>4 DEF Stop
    <3>2. \A t \in DOMAIN state : state[t] # "ready"
      BY <2>2, <2>4
    <3> QED
      BY <2>1, <2>2, <3>1, <3>2
  <2> QED
    BY <2>3, <2>4
<1>3. ASSUME NEW c \in Callers, StopReturns(c) PROVE LoopInv'
  BY <1>3 DEF StopReturns
<1>4. ASSUME NEW t \in DOMAIN state, Turn(t) PROVE LoopInv'
  BY <1>4 DEF Turn, AfterCycle, Outcomes
<1>5. ASSUME NEW t \in DOMAIN state, Die(t) PROVE LoopInv'
  BY <1>5 DEF Die
<1>6. CASE UNCHANGED loopVars
  BY <1>6 DEF loopVars
<1> QED
  BY <1>1, <1>2, <1>3, <1>4, <1>5, <1>6 DEF LoopNext

(***************************************************************************)
(* However often and by however many callers the engine is started and     *)
(* stopped, at most one task of it loops, and one does while it is         *)
(* running.                                                                *)
(***************************************************************************)
THEOREM AtMostOneLoop == LoopSpec => []OneLoop
<1>1. LoopInit => LoopInv
  <2>1. <<>> \in Seq({"ready", "cancelled", "done"}) /\ Len(<<>>) = 0 /\ DOMAIN <<>> = {}
    OBVIOUS
  <2>2. ASSUME LoopInit PROVE awaiting \in [Callers -> 0..Len(state)] /\ task = Len(state)
    BY <2>1, <2>2 DEF LoopInit
  <2>3. ASSUME LoopInit PROVE OneLoop
    <3>1. state = <<>> /\ running = FALSE
      BY <2>3 DEF LoopInit
    <3> QED
      BY <2>1, <3>1, Zenon DEF OneLoop
  <2>4. ASSUME LoopInit PROVE LoopTypeOK
    <3>1. running \in BOOLEAN /\ task \in Nat /\ state \in Seq({"ready", "cancelled", "done"})
      BY <2>1, <2>4 DEF LoopInit
    <3> QED
      BY <2>2, <2>4, <3>1 DEF LoopTypeOK
  <2> QED
    BY <2>2, <2>3, <2>4 DEF LoopInv
<1>2. LoopInv /\ [LoopNext]_loopVars => LoopInv'
  BY LoopStepPreserves
<1>3. LoopInv => OneLoop
  BY DEF LoopInv
<1> QED
  BY <1>1, <1>2, <1>3, PTL DEF LoopSpec
=============================================================================
