------------------------- MODULE BlockTrackerProofs -------------------------
(***************************************************************************)
(* Theorems of BlockTracker, TrackerReaders and TrackerLock, for every set *)
(* of ids and threads, every attention batch and every bound.              *)
(***************************************************************************)
EXTENDS TrackerReaders, TrackerLock, FiniteSetTheorems, SequenceTheorems, TLAPS

(***************************************************************************)
(* A new block, and what each update makes of a block, is a block.         *)
(***************************************************************************)
LEMMA NewBlockType ==
  ASSUME NEW b \in BlockIds, NEW q \in RequestIds
  PROVE  NewBlock(b, q) \in BlockState
BY DEF NewBlock, BlockState, Tiers

(***************************************************************************)
(* One batch keeps a block a block and its average below its maximum: the  *)
(* average of a first batch is below that batch's maximum, and a smoothed  *)
(* average lies between two numbers that are both below the new maximum.   *)
(***************************************************************************)
LEMMA WithAttentionLemma ==
  ASSUME NEW s \in BlockState, NEW a \in Attention
  PROVE  /\ WithAttention(s, a) \in BlockState
         /\ s.avg_attention_score <= s.max_attention_score
              => WithAttention(s, a).avg_attention_score
                   <= WithAttention(s, a).max_attention_score
<1>1. a.mean \in Nat /\ a.max \in Nat /\ a.mean <= a.max
  BY AttentionAssumption
<1>2. ASSUME NEW avg \in Nat
      PROVE  /\ Smoothed(avg, a.mean) \in Nat
             /\ \A m \in Nat : avg <= m => Smoothed(avg, a.mean) <= Larger(m, a.max)
  BY <1>1 DEF Smoothed, Larger
<1>3. \A m \in Nat : Larger(m, a.max) \in Nat
  BY <1>1 DEF Larger
<1>4. s.avg_attention_score \in Nat /\ s.max_attention_score \in Nat
  BY DEF BlockState
<1>5. CASE s.access_count = 0
  <2>1. WithAttention(s, a) =
          [s EXCEPT !.avg_attention_score = a.mean, !.max_attention_score = a.max]
    BY <1>5 DEF WithAttention
  <2> QED BY <1>1, <2>1 DEF BlockState
<1>6. CASE s.access_count # 0
  <2>1. WithAttention(s, a) =
          [s EXCEPT !.avg_attention_score = Smoothed(s.avg_attention_score, a.mean),
                    !.max_attention_score = Larger(s.max_attention_score, a.max)]
    BY <1>6 DEF WithAttention, BlockState
  <2> QED BY <1>2, <1>3, <1>4, <2>1 DEF BlockState
<1> QED BY <1>5, <1>6

-----------------------------------------------------------------------------
\* The inductive invariant.  TrackedSound is what makes lookups injective: two
\* ids that shared an object would both have to be its block_id.
IInv == TypeOK /\ TrackedSound /\ AttentionBounded /\ StepsOrdered

(***************************************************************************)
(* Different ids name different objects.                                   *)
(***************************************************************************)
LEMMA LookupInjective ==
  ASSUME TrackedSound, NEW b \in Registered, NEW c \in Registered, b # c
  PROVE  blocks[b] # blocks[c]
BY DEF TrackedSound

(***************************************************************************)
(* A lookup that finds something finds a block of the heap.                *)
(***************************************************************************)
LEMMA LookupType ==
  ASSUME TypeOK, NEW b \in Registered
  PROVE  /\ blocks[b] \in DOMAIN heap
         /\ heap[blocks[b]] \in BlockState
         /\ blocks[b] \in TrackedRefs
BY DEF TypeOK, Registered, TrackedRefs

(***************************************************************************)
(* The pattern of every field update: replacing the object of a registered *)
(* id by one that keeps its id, is not evicted and has its averages and    *)
(* counters in order preserves the invariant.                              *)
(***************************************************************************)
LEMMA UpdatePreserves ==
  ASSUME IInv, NEW b \in BlockIds, NEW s \in BlockState, Update(b, s),
         s.block_id = heap[blocks[b]].block_id,
         s.current_tier # "EVICTED",
         s.avg_attention_score <= s.max_attention_score,
         s.last_access_step <= s.block_age_steps,
         s.block_age_steps <= step
  PROVE  IInv'
<1> USE DEF IInv
<1>1. b \in Registered /\ heap' = [heap EXCEPT ![blocks[b]] = s]
      /\ blocks' = blocks /\ step' = step
  BY DEF Update
<1>2. blocks[b] \in DOMAIN heap
  BY <1>1, LookupType
<1>3. DOMAIN heap' = DOMAIN heap /\ heap' \in Seq(BlockState)
  BY <1>1, <1>2 DEF TypeOK
<1>4. \A r \in DOMAIN heap : heap'[r] = IF r = blocks[b] THEN s ELSE heap[r]
  BY <1>1 DEF TypeOK
<1>5. Registered' = Registered /\ TrackedRefs' = TrackedRefs
  BY <1>1 DEF Registered, TrackedRefs
<1>6. \A c \in Registered : blocks[c] \in DOMAIN heap
  BY LookupType
<1>7. TypeOK'
  BY <1>1, <1>3 DEF TypeOK
<1>8. TrackedSound'
  BY <1>1, <1>4, <1>5, <1>6 DEF TrackedSound
<1>9. AttentionBounded'
  BY <1>3, <1>4 DEF AttentionBounded
<1>10. StepsOrdered'
  <2> SUFFICES ASSUME NEW r \in TrackedRefs
               PROVE  /\ heap'[r].last_access_step <= heap'[r].block_age_steps
                      /\ heap'[r].block_age_steps <= step
    BY <1>1, <1>5 DEF StepsOrdered
  <2>1. r \in DOMAIN heap
    BY <1>6 DEF TrackedRefs
  <2> QED BY <1>4, <2>1 DEF StepsOrdered
<1> QED BY <1>7, <1>8, <1>9, <1>10

(***************************************************************************)
(* Registering: the new object is sound, and the object it may replace     *)
(* only leaves the dict.                                                   *)
(***************************************************************************)
LEMMA RegisterPreserves ==
  ASSUME IInv, NEW b \in BlockIds, NEW q \in RequestIds, RegisterBlock(b, q)
  PROVE  IInv'
<1> USE DEF IInv
<1> DEFINE n == Len(heap) + 1
<1>1. /\ heap' = Append(heap, NewBlock(b, q))
      /\ blocks' = [blocks EXCEPT ![b] = n]
      /\ step' = step
  BY DEF RegisterBlock, NextRef
<1>2. /\ heap \in Seq(BlockState) /\ Len(heap) \in Nat /\ DOMAIN heap = 1..Len(heap)
      /\ step \in Nat
  BY DEF TypeOK
<1>3. NewBlock(b, q) \in BlockState
  BY NewBlockType
<1>4. /\ heap' \in Seq(BlockState) /\ DOMAIN heap' = 1..n
      /\ heap'[n] = NewBlock(b, q)
      /\ \A r \in DOMAIN heap : r \in DOMAIN heap' /\ heap'[r] = heap[r]
  BY <1>1, <1>2, <1>3
<1>5. n # Absent /\ n \in DOMAIN heap'
  BY <1>2, <1>4 DEF Absent
<1>6. \A c \in BlockIds : blocks'[c] = IF c = b THEN n ELSE blocks[c]
  BY <1>1 DEF TypeOK
<1>7. \A c \in Registered : blocks[c] \in DOMAIN heap
  BY LookupType
<1>8. TypeOK'
  BY <1>1, <1>2, <1>4, <1>5 DEF TypeOK
<1>9. \A c \in Registered' : \/ c = b /\ blocks'[c] = n
                             \/ c \in Registered /\ blocks'[c] = blocks[c]
  BY <1>6 DEF Registered
<1>10. TrackedSound'
  <2> SUFFICES ASSUME NEW c \in Registered'
               PROVE  heap'[blocks'[c]].block_id = c
                      /\ heap'[blocks'[c]].current_tier # "EVICTED"
    BY DEF TrackedSound
  <2>1. CASE c = b /\ blocks'[c] = n
    BY <1>4, <2>1 DEF NewBlock
  <2>2. CASE c \in Registered /\ blocks'[c] = blocks[c]
    BY <1>4, <1>7, <2>2 DEF TrackedSound
  <2> QED BY <1>9, <2>1, <2>2
<1>11. AttentionBounded'
  <2> SUFFICES ASSUME NEW r \in DOMAIN heap'
               PROVE  heap'[r].avg_attention_score <= heap'[r].max_attention_score
    BY DEF AttentionBounded
  <2>1. r \in DOMAIN heap \/ r = n
    BY <1>2, <1>4
  <2> QED BY <1>4, <2>1 DEF AttentionBounded, NewBlock
<1>12. StepsOrdered'
  <2> SUFFICES ASSUME NEW c \in Registered'
               PROVE  LET r == blocks'[c] IN
                      /\ heap'[r].last_access_step <= heap'[r].block_age_steps
                      /\ heap'[r].block_age_steps <= step
    BY <1>1 DEF StepsOrdered, TrackedRefs
  <2>1. CASE c = b /\ blocks'[c] = n
    BY <1>2, <1>4, <2>1 DEF NewBlock
  <2>2. CASE c \in Registered /\ blocks'[c] = blocks[c]
    BY <1>4, <1>7, <2>2 DEF StepsOrdered, TrackedRefs
  <2> QED BY <1>9, <2>1, <2>2
<1> QED BY <1>8, <1>10, <1>11, <1>12

(***************************************************************************)
(* Evicting marks an object and drops it from the dict in one step, so the *)
(* mark is never seen through a lookup.                                    *)
(***************************************************************************)
LEMMA EvictPreserves ==
  ASSUME IInv, NEW b \in BlockIds, EvictBlock(b)
  PROVE  IInv'
<1> USE DEF IInv
<1>1. /\ b \in Registered
      /\ heap' = [heap EXCEPT ![blocks[b]] =
                    [heap[blocks[b]] EXCEPT !.current_tier = "EVICTED"]]
      /\ blocks' = [blocks EXCEPT ![b] = Absent]
      /\ step' = step
  BY DEF EvictBlock
<1>2. blocks[b] \in DOMAIN heap /\ heap[blocks[b]] \in BlockState
  BY <1>1, LookupType
<1>3. [heap[blocks[b]] EXCEPT !.current_tier = "EVICTED"] \in BlockState
  BY <1>2 DEF BlockState, Tiers
<1>4. DOMAIN heap' = DOMAIN heap /\ heap' \in Seq(BlockState)
  BY <1>1, <1>2, <1>3 DEF TypeOK
<1>5. \A r \in DOMAIN heap : /\ r # blocks[b] => heap'[r] = heap[r]
                             /\ heap'[r].avg_attention_score = heap[r].avg_attention_score
                             /\ heap'[r].max_attention_score = heap[r].max_attention_score
  BY <1>1, <1>2 DEF TypeOK, BlockState
<1>6. \A c \in Registered' : /\ c \in Registered /\ c # b
                             /\ blocks'[c] = blocks[c]
                             /\ blocks[c] # blocks[b]
                             /\ blocks[c] \in DOMAIN heap
  <2> SUFFICES ASSUME NEW c \in Registered'
               PROVE  /\ c \in Registered /\ c # b
                      /\ blocks'[c] = blocks[c]
                      /\ blocks[c] # blocks[b]
                      /\ blocks[c] \in DOMAIN heap
    OBVIOUS
  <2>1. c \in Registered /\ c # b /\ blocks'[c] = blocks[c]
    BY <1>1 DEF Registered, TypeOK
  <2> QED BY <1>1, <2>1, LookupInjective, LookupType
<1>7. TypeOK'
  BY <1>1, <1>4 DEF TypeOK
<1>8. TrackedSound'
  BY <1>5, <1>6 DEF TrackedSound
<1>9. AttentionBounded'
  BY <1>4, <1>5 DEF AttentionBounded
<1>10. StepsOrdered'
  BY <1>1, <1>5, <1>6 DEF StepsOrdered, TrackedRefs
<1> QED BY <1>7, <1>8, <1>9, <1>10

(***************************************************************************)
(* Releasing a request only shortens the dict.                             *)
(***************************************************************************)
LEMMA ReleasePreserves ==
  ASSUME IInv, NEW q \in RequestIds, ReleaseRequestBlocks(q)
  PROVE  IInv'
<1> USE DEF IInv
<1>1. /\ heap' = heap /\ step' = step
      /\ blocks' = [b \in BlockIds |-> IF b \in BlocksOf(q) THEN Absent ELSE blocks[b]]
  BY DEF ReleaseRequestBlocks
<1>2. \A c \in Registered' : c \in Registered /\ blocks'[c] = blocks[c]
  BY <1>1 DEF Registered
<1>3. TypeOK'
  BY <1>1 DEF TypeOK
<1> QED BY <1>1, <1>2, <1>3 DEF TrackedSound, AttentionBounded, StepsOrdered, TrackedRefs

(***************************************************************************)
(* A forward pass moves the engine's step and the age of every tracked     *)
(* block to it together.                                                   *)
(***************************************************************************)
LEMMA IncrementAgePreserves ==
  ASSUME IInv, IncrementAge
  PROVE  IInv'
<1> USE DEF IInv
<1>1. /\ step' = step + 1 /\ blocks' = blocks
      /\ heap' = [r \in DOMAIN heap |->
                    IF r \in TrackedRefs THEN [heap[r] EXCEPT !.block_age_steps = step + 1]
                                         ELSE heap[r]]
  BY DEF IncrementAge, Aging
<1>2. step \in Nat /\ heap \in Seq(BlockState) /\ DOMAIN heap = 1..Len(heap) /\ Len(heap) \in Nat
  BY DEF TypeOK
<1>3. \A r \in DOMAIN heap : heap[r] \in BlockState
  BY <1>2
<1>4. \A r \in DOMAIN heap : heap'[r] \in BlockState
  <2>1. ASSUME NEW s \in BlockState, NEW n \in Nat
        PROVE  [s EXCEPT !.block_age_steps = n] \in BlockState
    BY DEF BlockState
  <2>2. step + 1 \in Nat
    BY <1>2
  <2> QED BY <1>1, <1>3, <2>1, <2>2
<1>5. heap' \in [1..Len(heap) -> BlockState]
  BY <1>1, <1>2, <1>4
<1>6. heap' \in Seq(BlockState) /\ DOMAIN heap' = DOMAIN heap
  BY <1>2, <1>5, SeqDef
<1>7. Registered' = Registered /\ TrackedRefs' = TrackedRefs
  BY <1>1 DEF Registered, TrackedRefs
<1>8. \A r \in DOMAIN heap : /\ heap'[r].block_id = heap[r].block_id
                             /\ heap'[r].current_tier = heap[r].current_tier
                             /\ heap'[r].avg_attention_score = heap[r].avg_attention_score
                             /\ heap'[r].max_attention_score = heap[r].max_attention_score
                             /\ heap'[r].last_access_step = heap[r].last_access_step
                             /\ r \in TrackedRefs => heap'[r].block_age_steps = step + 1
  BY <1>1, <1>3 DEF BlockState
<1>9. TrackedRefs \subseteq DOMAIN heap
  BY LookupType DEF TrackedRefs
<1>10. TypeOK'
  BY <1>1, <1>2, <1>6 DEF TypeOK
<1>11. TrackedSound'
  BY <1>1, <1>7, <1>8, LookupType DEF TrackedSound
<1>12. AttentionBounded'
  BY <1>6, <1>8 DEF AttentionBounded
<1>13. StepsOrdered'
  <2> SUFFICES ASSUME NEW r \in TrackedRefs
               PROVE  /\ heap'[r].last_access_step <= heap'[r].block_age_steps
                      /\ heap'[r].block_age_steps <= step'
    BY <1>7 DEF StepsOrdered
  <2>1. heap[r].last_access_step <= heap[r].block_age_steps
        /\ heap[r].block_age_steps <= step /\ heap[r] \in BlockState
    BY <1>3, <1>9 DEF StepsOrdered
  <2>2. heap[r].last_access_step \in Nat /\ heap[r].block_age_steps \in Nat
    BY <2>1 DEF BlockState
  <2> QED BY <1>1, <1>2, <1>8, <1>9, <2>1, <2>2
<1> QED BY <1>10, <1>11, <1>12, <1>13

(***************************************************************************)
(* Every step of the two engines preserves the invariant: one case per     *)
(* method of the tracker.                                                  *)
(***************************************************************************)
LEMMA StepPreserves ==
  ASSUME IInv, [TrackerNext]_trackerVars
  PROVE  IInv'
<1> USE DEF IInv
<1>u. ASSUME NEW b \in Registered
      PROVE  /\ heap[blocks[b]] \in BlockState
             /\ heap[blocks[b]].current_tier # "EVICTED"
             /\ heap[blocks[b]].avg_attention_score <= heap[blocks[b]].max_attention_score
             /\ heap[blocks[b]].last_access_step <= heap[blocks[b]].block_age_steps
             /\ heap[blocks[b]].block_age_steps <= step
  BY LookupType DEF TrackedSound, AttentionBounded, StepsOrdered
<1>1. ASSUME NEW b \in BlockIds, NEW q \in RequestIds, RegisterBlock(b, q)
      PROVE  IInv'
  BY <1>1, RegisterPreserves
<1>2. ASSUME NEW b \in BlockIds, NEW a \in Attention, UpdateAttention(b, a)
      PROVE  IInv'
  <2> DEFINE s == heap[blocks[b]]
  <2>1. b \in Registered
    BY <1>2 DEF UpdateAttention, Update
  <2>2. /\ WithAttention(s, a) \in BlockState
        /\ WithAttention(s, a).avg_attention_score <= WithAttention(s, a).max_attention_score
    BY <1>u, <2>1, WithAttentionLemma
  <2>3. s \in BlockState
    BY <1>u, <2>1
  <2>4. /\ WithAttention(s, a).block_id = s.block_id
        /\ WithAttention(s, a).current_tier = s.current_tier
        /\ WithAttention(s, a).last_access_step = s.last_access_step
        /\ WithAttention(s, a).block_age_steps = s.block_age_steps
    BY <2>3 DEF WithAttention, BlockState
  <2>5. Update(b, WithAttention(s, a))
    BY <1>2 DEF UpdateAttention
  <2> QED BY <1>u, <2>1, <2>2, <2>4, <2>5, UpdatePreserves
<1>3. ASSUME NEW b \in Registered, MarkAccessed(b, step)
      PROVE  IInv'
  <2> DEFINE s == heap[blocks[b]]
  <2>1. step \in Nat /\ b \in BlockIds /\ s \in BlockState
    BY <1>u DEF TypeOK, Registered
  <2>2. Accessed(s, step) \in BlockState
    <3>1. s.access_count + 1 \in Nat
      BY <2>1 DEF BlockState
    <3> HIDE DEF s
    <3> QED BY <2>1, <3>1 DEF Accessed, BlockState
  <2>3. /\ Accessed(s, step).block_id = s.block_id
        /\ Accessed(s, step).current_tier = s.current_tier
        /\ Accessed(s, step).avg_attention_score = s.avg_attention_score
        /\ Accessed(s, step).max_attention_score = s.max_attention_score
        /\ Accessed(s, step).last_access_step = step
        /\ Accessed(s, step).block_age_steps = step
    BY <2>1 DEF Accessed, BlockState
  <2>4. Update(b, Accessed(s, step))
    BY <1>3 DEF MarkAccessed
  <2> QED BY <1>u, <2>1, <2>2, <2>3, <2>4, UpdatePreserves
<1>4. ASSUME NEW b \in BlockIds,
             \/ \E m \in MemSnapshots : UpdateMemorySnapshot(b, m)
             \/ \E f \in BOOLEAN : MarkPrefixReuse(b, f)
             \/ \E t \in Tiers \ {"EVICTED"} : UpdateTier(b, t)
             \/ \E x \in Importance : SetImportanceScore(b, x)
      PROVE  IInv'
  <2> DEFINE s == heap[blocks[b]]
  <2>1. b \in Registered
    BY <1>4 DEF UpdateMemorySnapshot, MarkPrefixReuse, UpdateTier, SetImportanceScore, Update
  <2>2. s \in BlockState /\ s.current_tier # "EVICTED"
    BY <1>u, <2>1
  <2>3. PICK v \in BlockState :
          /\ Update(b, v)
          /\ v.block_id = s.block_id /\ v.current_tier # "EVICTED"
          /\ v.avg_attention_score = s.avg_attention_score
          /\ v.max_attention_score = s.max_attention_score
          /\ v.last_access_step = s.last_access_step
          /\ v.block_age_steps = s.block_age_steps
    <3>1. CASE \E m \in MemSnapshots : UpdateMemorySnapshot(b, m)
      <4>1. PICK m \in MemSnapshots : Update(b, [s EXCEPT !.gpu_mem_mb = m])
        BY <3>1 DEF UpdateMemorySnapshot
      <4>2. m \in Nat
        BY ScoresAssumption
      <4>3. [s EXCEPT !.gpu_mem_mb = m] \in BlockState
        BY <2>2, <4>2 DEF BlockState
      <4> QED BY <2>2, <4>1, <4>3 DEF BlockState
    <3>2. CASE \E f \in BOOLEAN : MarkPrefixReuse(b, f)
      <4>1. PICK f \in BOOLEAN : Update(b, [s EXCEPT !.prefix_reuse_flag = f])
        BY <3>2 DEF MarkPrefixReuse
      <4>3. [s EXCEPT !.prefix_reuse_flag = f] \in BlockState
        BY <2>2 DEF BlockState
      <4> QED BY <2>2, <4>1, <4>3 DEF BlockState
    <3>3. CASE \E t \in Tiers \ {"EVICTED"} : UpdateTier(b, t)
      <4>1. PICK t \in Tiers \ {"EVICTED"} : Update(b, [s EXCEPT !.current_tier = t])
        BY <3>3 DEF UpdateTier
      <4>3. [s EXCEPT !.current_tier = t] \in BlockState
        BY <2>2 DEF BlockState
      <4> QED BY <2>2, <4>1, <4>3 DEF BlockState
    <3>4. CASE \E x \in Importance : SetImportanceScore(b, x)
      <4>1. PICK x \in Importance : Update(b, [s EXCEPT !.importance_score = x])
        BY <3>4 DEF SetImportanceScore
      <4>2. x \in Nat
        BY ScoresAssumption
      <4>3. [s EXCEPT !.importance_score = x] \in BlockState
        BY <2>2, <4>2 DEF BlockState
      <4> QED BY <2>2, <4>1, <4>3 DEF BlockState
    <3> QED BY <1>4, <3>1, <3>2, <3>3, <3>4
  <2> QED BY <1>u, <2>1, <2>3, UpdatePreserves
<1>5. ASSUME NEW b \in BlockIds, EvictBlock(b)
      PROVE  IInv'
  BY <1>5, EvictPreserves
<1>6. ASSUME NEW q \in RequestIds, ReleaseRequestBlocks(q)
      PROVE  IInv'
  BY <1>6, ReleasePreserves
<1>7. CASE IncrementAge
  BY <1>7, IncrementAgePreserves
<1>8. CASE UNCHANGED trackerVars
  BY <1>8 DEF trackerVars, TypeOK, TrackedSound, AttentionBounded, StepsOrdered,
              TrackedRefs, Registered
<1> QED
  BY <1>1, <1>2, <1>3, <1>4, <1>5, <1>6, <1>7, <1>8
  DEF TrackerNext, ServingStep, PolicyStep

(***************************************************************************)
(* An empty tracker satisfies the invariant.                               *)
(***************************************************************************)
LEMMA InitLemma == ASSUME Init PROVE IInv
<1>1. heap \in Seq(BlockState) /\ DOMAIN heap = {}
  BY DEF Init
<1>2. Registered = {} /\ TrackedRefs = {}
  BY DEF Init, Registered, TrackedRefs
<1> QED BY <1>1, <1>2 DEF Init, IInv, TypeOK, TrackedSound, AttentionBounded, StepsOrdered

(***************************************************************************)
(* The inductive invariant holds in every reachable state.                 *)
(***************************************************************************)
THEOREM Invariance == TrackerSpec => []IInv
<1>1. Init => IInv
  BY InitLemma
<1>2. IInv /\ [TrackerNext]_trackerVars => IInv'
  BY StepPreserves
<1> QED BY <1>1, <1>2, PTL DEF TrackerSpec

(***************************************************************************)
(* Types: the dict only ever names objects that exist.                     *)
(***************************************************************************)
THEOREM TypeCorrect == TrackerSpec => []TypeOK
BY Invariance, PTL DEF IInv

(***************************************************************************)
(* evict_block and register_block: a lookup by id finds an object that     *)
(* carries the id and is not evicted.                                      *)
(***************************************************************************)
THEOREM LookupsAreSound == TrackerSpec => []TrackedSound
BY Invariance, PTL DEF IInv

(***************************************************************************)
(* update_attention: no sequence of batches, accesses and registrations    *)
(* takes a block's average above its maximum.                              *)
(***************************************************************************)
THEOREM AveragesBounded == TrackerSpec => []AttentionBounded
BY Invariance, PTL DEF IInv

(***************************************************************************)
(* mark_accessed and increment_age keep the step counters of a tracked     *)
(* block in order.                                                         *)
(***************************************************************************)
THEOREM CountersOrdered == TrackerSpec => []StepsOrdered
BY Invariance, PTL DEF IInv

-----------------------------------------------------------------------------
(***************************************************************************)
(* What a step can do to identities: put a new object under an id, or drop *)
(* a set of ids, possibly none.  No step changes an object that no id      *)
(* names.                                                                  *)
(***************************************************************************)
Dropped(B) == [b \in BlockIds |-> IF b \in B THEN Absent ELSE blocks[b]]

Named(b) ==
  /\ DOMAIN heap' = 1..(Len(heap) + 1)
  /\ \A r \in DOMAIN heap : heap'[r] = heap[r]
  /\ blocks' = [blocks EXCEPT ![b] = Len(heap) + 1]
  /\ Len(heap) < MaxObjects

Withdrawn(B) ==
  /\ DOMAIN heap' = DOMAIN heap
  /\ \A r \in DOMAIN heap \ TrackedRefs : heap'[r] = heap[r]
  /\ blocks' = Dropped(B)

LEMMA StepShape ==
  ASSUME IInv, [TrackerNext]_trackerVars
  PROVE  \/ \E b \in BlockIds : Named(b)
         \/ \E B \in SUBSET BlockIds : Withdrawn(B)
<1> USE DEF IInv
<1>a. /\ heap \in Seq(BlockState) /\ Len(heap) \in Nat /\ DOMAIN heap = 1..Len(heap)
      /\ blocks \in [BlockIds -> {Absent} \union DOMAIN heap]
  BY DEF TypeOK
<1>b. Dropped({}) = blocks
  BY <1>a DEF Dropped
<1>1. ASSUME NEW b \in BlockIds, NEW q \in RequestIds, RegisterBlock(b, q)
      PROVE  Named(b)
  BY <1>1, <1>a, NewBlockType DEF RegisterBlock, NextRef, Named
<1>2. ASSUME NEW b \in BlockIds, NEW v, Update(b, v)
      PROVE  Withdrawn({})
  <2>1. b \in Registered /\ blocks[b] \in TrackedRefs /\ blocks[b] \in DOMAIN heap
    BY <1>2, LookupType DEF Update
  <2>2. heap' = [heap EXCEPT ![blocks[b]] = v] /\ blocks' = blocks
    BY <1>2 DEF Update
  <2> QED BY <1>a, <1>b, <2>1, <2>2 DEF Withdrawn
<1>3. ASSUME NEW b \in BlockIds, EvictBlock(b)
      PROVE  Withdrawn({b})
  <2>1. b \in Registered /\ blocks[b] \in TrackedRefs /\ blocks[b] \in DOMAIN heap
    BY <1>3, LookupType DEF EvictBlock
  <2>2. /\ heap' = [heap EXCEPT ![blocks[b]] =
                      [heap[blocks[b]] EXCEPT !.current_tier = "EVICTED"]]
        /\ blocks' = [blocks EXCEPT ![b] = Absent]
    BY <1>3 DEF EvictBlock
  <2>3. blocks' = Dropped({b})
    BY <1>a, <2>2 DEF Dropped
  <2> QED BY <1>a, <2>1, <2>2, <2>3 DEF Withdrawn
<1>4. ASSUME NEW q \in RequestIds, ReleaseRequestBlocks(q)
      PROVE  BlocksOf(q) \in SUBSET BlockIds /\ Withdrawn(BlocksOf(q))
  BY <1>4 DEF ReleaseRequestBlocks, Withdrawn, Dropped, BlocksOf, Registered
<1>5. CASE IncrementAge
  <2>1. Withdrawn({})
    BY <1>5, <1>b DEF IncrementAge, Aging, Withdrawn
  <2> QED BY <2>1
<1>6. CASE UNCHANGED trackerVars
  <2>1. Withdrawn({})
    BY <1>6, <1>b DEF trackerVars, Withdrawn
  <2> QED BY <2>1
<1>7. ASSUME NEW b \in BlockIds,
             \/ \E a \in Attention : UpdateAttention(b, a)
             \/ MarkAccessed(b, step)
             \/ \E m \in MemSnapshots : UpdateMemorySnapshot(b, m)
             \/ \E f \in BOOLEAN : MarkPrefixReuse(b, f)
             \/ \E t \in Tiers \ {"EVICTED"} : UpdateTier(b, t)
             \/ \E x \in Importance : SetImportanceScore(b, x)
      PROVE  Withdrawn({})
  <2>1. \E v : Update(b, v)
    BY <1>7 DEF UpdateAttention, MarkAccessed, UpdateMemorySnapshot, MarkPrefixReuse,
                UpdateTier, SetImportanceScore
  <2> QED BY <1>2, <2>1
<1>8. CASE TrackerNext
  BY <1>1, <1>3, <1>4, <1>5, <1>7, <1>8
  DEF TrackerNext, ServingStep, PolicyStep, Registered
<1> QED BY <1>6, <1>8

(***************************************************************************)
(* The identities after each of the two kinds of step.                     *)
(***************************************************************************)
LEMMA NamedRemoved ==
  ASSUME IInv, NEW b \in BlockIds, Named(b)
  PROVE  /\ Len(heap) + 1 \notin TrackedRefs \union Removed
         /\ Len(heap) + 1 \in 1..MaxObjects
         /\ Removed' = Removed \union ({blocks[b]} \ {Absent})
<1> DEFINE n == Len(heap) + 1
<1>1. /\ Len(heap) \in Nat /\ DOMAIN heap = 1..Len(heap) /\ MaxObjects \in Nat
      /\ blocks \in [BlockIds -> {Absent} \union DOMAIN heap]
  BY BoundsAssumption DEF IInv, TypeOK
<1>2. /\ DOMAIN heap' = 1..n /\ Len(heap) < MaxObjects
      /\ \A c \in BlockIds : blocks'[c] = IF c = b THEN n ELSE blocks[c]
  BY <1>1 DEF Named
<1>3. TrackedRefs \subseteq DOMAIN heap
  BY <1>1 DEF TrackedRefs, Registered
<1>4. n # Absent /\ n \notin DOMAIN heap
  BY <1>1 DEF Absent
<1>5. TrackedRefs' = (TrackedRefs \ {blocks[b]}) \union {n}
  <2>1. \A c \in Registered : c # b => blocks[c] # blocks[b]
    <3> SUFFICES ASSUME NEW c \in Registered, c # b, blocks[c] = blocks[b]
                 PROVE  FALSE
      OBVIOUS
    <3>1. b \in Registered
      BY DEF Registered
    <3> QED BY <3>1, LookupInjective DEF IInv
  <2> QED BY <1>2, <1>4, <2>1 DEF TrackedRefs, Registered
<1>6. blocks[b] # Absent => blocks[b] \in TrackedRefs
  BY DEF TrackedRefs, Registered
<1>7. 1..n = (1..Len(heap)) \union {n}
  BY <1>1
<1>8. Removed' = Removed \union ({blocks[b]} \ {Absent})
  <2>1. Removed' = (DOMAIN heap \union {n}) \ ((TrackedRefs \ {blocks[b]}) \union {n})
    BY <1>1, <1>2, <1>5, <1>7 DEF Removed
  <2>2. Absent \notin DOMAIN heap
    BY <1>1 DEF Absent
  <2> HIDE DEF n
  <2> QED BY <1>1, <1>3, <1>4, <1>6, <2>1, <2>2 DEF Removed
<1> QED BY <1>1, <1>2, <1>3, <1>4, <1>8 DEF Removed

LEMMA WithdrawnRemoved ==
  ASSUME IInv, NEW B \in SUBSET BlockIds, Withdrawn(B)
  PROVE  Removed' = Removed \union ({blocks[b] : b \in B} \ {Absent})
<1>1. /\ blocks \in [BlockIds -> {Absent} \union DOMAIN heap] /\ Absent \notin DOMAIN heap
  BY DEF IInv, TypeOK, Absent
<1>2. \A c \in BlockIds : blocks'[c] = IF c \in B THEN Absent ELSE blocks[c]
  BY DEF Withdrawn, Dropped
<1>3. TrackedRefs' = TrackedRefs \ {blocks[b] : b \in B}
  <2>1. \A c, d \in Registered : c # d => blocks[c] # blocks[d]
    BY LookupInjective DEF IInv
  <2>2. Registered' = Registered \ B /\ \A c \in Registered' : blocks'[c] = blocks[c]
    BY <1>2 DEF Registered
  <2>3. TrackedRefs' \subseteq TrackedRefs \ {blocks[b] : b \in B}
    BY <2>1, <2>2 DEF TrackedRefs, Registered
  <2>4. TrackedRefs \ {blocks[b] : b \in B} \subseteq TrackedRefs'
    BY <2>2 DEF TrackedRefs, Registered
  <2> QED BY <2>3, <2>4
<1>4. \A b \in B : blocks[b] # Absent => blocks[b] \in DOMAIN heap
  BY <1>1
<1> QED BY <1>1, <1>3, <1>4 DEF Removed, Withdrawn

(***************************************************************************)
(* No call touches an object that left the tracker or brings it back.      *)
(***************************************************************************)
THEOREM RemovedStaysFrozen == TrackerSpec => RemovedFrozen
<1>1. ASSUME IInv, [TrackerNext]_trackerVars
      PROVE  \A r \in Removed : r \in Removed' /\ heap'[r] = heap[r]
  <2>1. CASE \E b \in BlockIds : Named(b)
    BY <1>1, <2>1, NamedRemoved DEF Named, Removed
  <2>2. CASE \E B \in SUBSET BlockIds : Withdrawn(B)
    BY <1>1, <2>2, WithdrawnRemoved DEF Withdrawn, Removed
  <2> QED BY <1>1, <2>1, <2>2, StepShape
<1> QED BY <1>1, Invariance, PTL DEF TrackerSpec, RemovedFrozen

(***************************************************************************)
(* The tracker implements BlockLifecycle: registering is Appear, and every *)
(* other step withdraws a set of ids, possibly the empty one.              *)
(***************************************************************************)
THEOREM TrackerImplementsLifecycle == TrackerSpec => LifecycleSpec
<1>1. Init => Lifecycle!Init
  <2> SUFFICES ASSUME Init PROVE Lifecycle!Init
    OBVIOUS
  <2>1. Removed = {}
    BY DEF Init, Removed
  <2> QED BY <2>1 DEF Init, Lifecycle!Init
<1>2. ASSUME IInv, [TrackerNext]_trackerVars
      PROVE  [Lifecycle!Next]_(Lifecycle!vars)
  <2>1. ASSUME NEW b \in BlockIds, Named(b)
        PROVE  Lifecycle!Next
    <3>1. Len(heap) + 1 \in 1..MaxObjects
      BY <1>2, <2>1, NamedRemoved
    <3>2. Len(heap) + 1 \notin Lifecycle!Held \union Removed
      <4>1. Lifecycle!Held = TrackedRefs
        BY DEF Lifecycle!Held, TrackedRefs, Registered
      <4> QED BY <1>2, <2>1, <4>1, NamedRemoved
    <3>3. Lifecycle!Appear(b, Len(heap) + 1)
      BY <1>2, <2>1, <3>2, NamedRemoved DEF Lifecycle!Appear, Named
    <3> QED BY <3>1, <3>3 DEF Lifecycle!Next
  <2>2. ASSUME NEW B \in SUBSET BlockIds, Withdrawn(B)
        PROVE  Lifecycle!Next
    <3>1. Lifecycle!Withdraw(B)
      BY <1>2, <2>2, WithdrawnRemoved DEF Lifecycle!Withdraw, Withdrawn, Dropped
    <3> QED BY <3>1 DEF Lifecycle!Next
  <2> QED BY <1>2, <2>1, <2>2, StepShape
<1> QED BY <1>1, <1>2, Invariance, PTL DEF TrackerSpec, LifecycleSpec, Lifecycle!Spec

-----------------------------------------------------------------------------
\* The arguments each method is called with.
Args ==
  [update_attention |-> Attention, mark_accessed |-> Nat, update_tier |-> Tiers,
   update_memory_snapshot |-> Nat, set_importance_score |-> Nat,
   mark_prefix_reuse |-> BOOLEAN, evict_block |-> Tiers, increment_age |-> Nat]

\* A body that lists ids to pop, and one that assigns fields of objects.
Popping(c) == \E P \in SUBSET BlockIds : c = [NoCall EXCEPT !.pops = P]
AssigningTo(c, refs) ==
  \E m \in DOMAIN Assigned : \E x \in Args[m] :
    /\ c = [method |-> m, arg |-> x, pops |-> {}, writes |-> c.writes]
    /\ \A w \in c.writes : \E r \in refs, f \in Assigned[m] : w = <<r, f>>

\* The inductive invariant: only the thread inside the lock has a body to finish.
LockInv ==
  /\ TypeOK
  /\ lock \subseteq Threads /\ \A t, u \in lock : t = u
  /\ call = [t \in Threads |-> call[t]]
  /\ \A t \in Threads : Popping(call[t]) \/ AssigningTo(call[t], DOMAIN heap)
  /\ \A t \in Threads \ lock : call[t] = NoCall

(***************************************************************************)
(* The assignments of one body are independent: each reads its own field   *)
(* and, for the attention, an access count that the body does not change.  *)
(* So they may be made one at a time and in any order.                     *)
(***************************************************************************)
LEMMA FieldByField ==
  ASSUME NEW m \in DOMAIN Assigned, NEW x \in Args[m], NEW s \in BlockState,
         NEW c, c.method = m, c.arg = x
  PROVE  /\ After(c, s) \in BlockState
         /\ Assigned[m] \subseteq DOMAIN s
         /\ \A g \in DOMAIN s \ Assigned[m] : After(c, s)[g] = s[g]
         /\ \A f \in Assigned[m] :
              /\ Assign(c, s, f) \in BlockState
              /\ \A g \in Assigned[m] \ {f} : After(c, Assign(c, s, f))[g] = After(c, s)[g]
<1> USE ScoresAssumption
<1>1. DOMAIN s = {"block_id", "request_id", "block_age_steps", "last_access_step",
                  "access_count", "avg_attention_score", "max_attention_score",
                  "prefix_reuse_flag", "current_tier", "gpu_mem_mb", "importance_score"}
  BY DEF BlockState
<1>2. CASE m = "update_attention"
  <2>1. x \in Attention /\ Assigned[m] = {"avg_attention_score", "max_attention_score"}
    BY <1>2 DEF Args, Assigned
  <2>2. After(c, s) = WithAttention(s, x) /\ \A n : After(c, n) = WithAttention(n, x)
    BY <1>2 DEF After
  <2>3. WithAttention(s, x) \in BlockState
    BY <2>1, WithAttentionLemma
  <2>4. \A g \in DOMAIN s \ Assigned[m] : WithAttention(s, x)[g] = s[g]
    BY <1>1, <2>1 DEF WithAttention, BlockState, Assign
  <2>5. ASSUME NEW f \in Assigned[m], NEW n, n = Assign(c, s, f)
        PROVE  /\ n \in BlockState
               /\ \A g \in Assigned[m] \ {f} : WithAttention(n, x)[g] = WithAttention(s, x)[g]
    <3>1. CASE f = "avg_attention_score"
      BY <1>1, <2>1, <2>2, <2>3, <2>5, <3>1 DEF WithAttention, BlockState, Assign
    <3>2. CASE f = "max_attention_score"
      BY <1>1, <2>1, <2>2, <2>3, <2>5, <3>2 DEF WithAttention, BlockState, Assign
    <3> QED BY <2>1, <3>1, <3>2
  <2>6. Assigned[m] \subseteq DOMAIN s
    BY <1>1, <2>1
  <2> QED BY <2>2, <2>3, <2>4, <2>5, <2>6
<1>3. CASE m = "mark_accessed"
  <2>1. x \in Nat /\ Assigned[m] = {"access_count", "last_access_step", "block_age_steps"}
    BY <1>3 DEF Args, Assigned
  <2>2. After(c, s) = Accessed(s, x) /\ \A n : After(c, n) = Accessed(n, x)
    BY <1>3 DEF After
  <2>3. Accessed(s, x) \in BlockState
    <3>1. s.access_count + 1 \in Nat
      BY DEF BlockState
    <3> QED BY <2>1, <3>1 DEF Accessed, BlockState, Assign
  <2>4. \A g \in DOMAIN s \ Assigned[m] : Accessed(s, x)[g] = s[g]
    BY <1>1, <2>1 DEF Accessed, BlockState, Assign
  <2>5. ASSUME NEW f \in Assigned[m], NEW n, n = Assign(c, s, f)
        PROVE  /\ n \in BlockState
               /\ \A g \in Assigned[m] \ {f} : Accessed(n, x)[g] = Accessed(s, x)[g]
    BY <1>1, <2>1, <2>2, <2>3, <2>5 DEF Accessed, BlockState, Assign
  <2>6. Assigned[m] \subseteq DOMAIN s
    BY <1>1, <2>1
  <2> QED BY <2>2, <2>3, <2>4, <2>5, <2>6
<1>4. CASE m \in {"update_tier", "evict_block"}
  <2>1. x \in Tiers /\ Assigned[m] = {"current_tier"}
    BY <1>4 DEF Args, Assigned
  <2>2. \A q : After(c, q) = [q EXCEPT !.current_tier = x]
    BY <1>4 DEF After
  <2> QED BY <1>1, <2>1, <2>2 DEF BlockState, Assign
<1>5. CASE m = "update_memory_snapshot"
  <2>1. x \in Nat /\ Assigned[m] = {"gpu_mem_mb"}
    BY <1>5 DEF Args, Assigned
  <2>2. \A q : After(c, q) = [q EXCEPT !.gpu_mem_mb = x]
    BY <1>5 DEF After
  <2> QED BY <1>1, <2>1, <2>2 DEF BlockState, Assign
<1>6. CASE m = "set_importance_score"
  <2>1. x \in Nat /\ Assigned[m] = {"importance_score"}
    BY <1>6 DEF Args, Assigned
  <2>2. \A q : After(c, q) = [q EXCEPT !.importance_score = x]
    BY <1>6 DEF After
  <2> QED BY <1>1, <2>1, <2>2 DEF BlockState, Assign
<1>7. CASE m = "mark_prefix_reuse"
  <2>1. x \in BOOLEAN /\ Assigned[m] = {"prefix_reuse_flag"}
    BY <1>7 DEF Args, Assigned
  <2>2. \A q : After(c, q) = [q EXCEPT !.prefix_reuse_flag = x]
    BY <1>7 DEF After
  <2> QED BY <1>1, <2>1, <2>2 DEF BlockState, Assign
<1>8. CASE m = "increment_age"
  <2>1. x \in Nat /\ Assigned[m] = {"block_age_steps"}
    BY <1>8 DEF Args, Assigned
  <2>2. \A q : After(c, q) = [q EXCEPT !.block_age_steps = x]
    BY <1>8 DEF After
  <2> QED BY <1>1, <2>1, <2>2 DEF BlockState, Assign
<1> QED BY <1>2, <1>3, <1>4, <1>5, <1>6, <1>7, <1>8 DEF Assigned

\* The heap once the assignments left to call c are made, and the dict once its
\* pops are.
ObjectAfter(c, r, s) ==
  [f \in DOMAIN s |-> IF <<r, f>> \in c.writes THEN After(c, s)[f] ELSE s[f]]
HeapAfter(c) == [r \in DOMAIN heap |-> ObjectAfter(c, r, heap[r])]
BlocksAfter(c) == [b \in BlockIds |-> IF b \in c.pops THEN Absent ELSE blocks[b]]

(***************************************************************************)
(* What is pending is the rest of the body of the thread inside the lock,  *)
(* and nothing while the lock is free.                                     *)
(***************************************************************************)
LEMMA DoneInside ==
  ASSUME LockInv, NEW t \in lock
  PROVE  HeapDone = HeapAfter(call[t]) /\ BlocksDone = BlocksAfter(call[t])
<1>1. t \in Threads /\ \A u \in Threads : u # t => call[u] = NoCall
  BY DEF LockInv
<1>2. NoCall.pops = {} /\ NoCall.writes = {}
  BY DEF NoCall
<1>3. BlocksDone = BlocksAfter(call[t])
  BY <1>1, <1>2 DEF BlocksDone, BlocksAfter
<1>4. ASSUME NEW r, NEW f
      PROVE  FieldDone(r, f) = IF <<r, f>> \in call[t].writes THEN After(call[t], heap[r])[f]
                                                             ELSE heap[r][f]
  <2>1. Writers(r, f) = IF <<r, f>> \in call[t].writes THEN {t} ELSE {}
    BY <1>1, <1>2 DEF Writers
  <2>2. (CHOOSE u \in {t} : TRUE) = t
    OBVIOUS
  <2> QED BY <2>1, <2>2 DEF FieldDone
<1>5. HeapDone = HeapAfter(call[t])
  BY <1>4 DEF HeapDone, HeapAfter, ObjectAfter
<1> QED BY <1>3, <1>5

(***************************************************************************)
(* While no call is in progress the tracker is what it will be.            *)
(***************************************************************************)
LEMMA DoneAtRest ==
  ASSUME LockInv, \A t \in Threads : call[t] = NoCall
  PROVE  HeapDone = heap /\ BlocksDone = blocks
<1>1. NoCall.pops = {} /\ NoCall.writes = {}
  BY DEF NoCall
<1>2. BlocksDone = blocks
  BY <1>1 DEF BlocksDone, LockInv, TypeOK
<1>3. \A r, f : FieldDone(r, f) = heap[r][f]
  BY <1>1 DEF FieldDone, Writers
<1>4. \A r \in DOMAIN heap : heap[r] \in BlockState
  BY DEF LockInv, TypeOK
<1>5. \A r \in DOMAIN heap : heap[r] = [f \in DOMAIN heap[r] |-> heap[r][f]]
  BY <1>4 DEF BlockState
<1>6. heap = [r \in DOMAIN heap |-> heap[r]]
  BY DEF LockInv, TypeOK
<1>7. HeapDone = [r \in DOMAIN heap |-> [f \in DOMAIN heap[r] |-> heap[r][f]]]
  BY <1>3 DEF HeapDone
<1> QED BY <1>2, <1>5, <1>6, <1>7

(***************************************************************************)
(* One assignment leaves what the whole body makes of the object unchanged.*)
(***************************************************************************)
LEMMA AssignObject ==
  ASSUME NEW m \in DOMAIN Assigned, NEW x \in Args[m], NEW s \in BlockState,
         NEW f \in Assigned[m], NEW r, NEW W,
         \A g : <<r, g>> \in W => g \in Assigned[m],
         NEW c, c.method = m, c.arg = x, c.writes = W,
         NEW d, d.method = m, d.arg = x, d.writes = W \ {<<r, f>>},
         <<r, f>> \in W,
         NEW n, n = Assign(c, s, f)
  PROVE  /\ n \in BlockState
         /\ ObjectAfter(d, r, n) = ObjectAfter(c, r, s)
         /\ \A q, u : q # r => ObjectAfter(d, q, u) = ObjectAfter(c, q, u)
<1>1. c.method = m /\ c.arg = x /\ c.writes = W
  OBVIOUS
<1>2. d.method = m /\ d.arg = x /\ d.writes = W \ {<<r, f>>}
  OBVIOUS
<1>3. \A u : After(d, u) = After(c, u)
  BY <1>1, <1>2 DEF After
<1>4. /\ n \in BlockState /\ f \in DOMAIN s
      /\ \A g \in Assigned[m] \ {f} : After(c, n)[g] = After(c, s)[g]
  <2>1. Assigned[m] \subseteq DOMAIN s
    BY <1>1, FieldByField
  <2>2. /\ Assign(c, s, f) \in BlockState
        /\ \A g \in Assigned[m] \ {f} : After(c, Assign(c, s, f))[g] = After(c, s)[g]
    BY <1>1, FieldByField
  <2> QED BY <2>1, <2>2
<1>5. DOMAIN n = DOMAIN s /\ \A g \in DOMAIN s : n[g] = IF g = f THEN After(c, s)[f] ELSE s[g]
  BY DEF Assign, BlockState
<1>6. ASSUME NEW g \in DOMAIN s
      PROVE  (IF <<r, g>> \in d.writes THEN After(d, n)[g] ELSE n[g])
               = (IF <<r, g>> \in c.writes THEN After(c, s)[g] ELSE s[g])
  <2>1. CASE g = f
    BY <1>1, <1>2, <1>4, <1>5, <2>1
  <2>2. CASE g # f
    <3>1. n[g] = s[g]
      BY <1>5, <2>2
    <3>2. <<r, g>> \in d.writes <=> <<r, g>> \in c.writes
      BY <1>1, <1>2, <2>2
    <3>3. <<r, g>> \in c.writes => After(d, n)[g] = After(c, s)[g]
      BY <1>1, <1>3, <1>4, <2>2
    <3> QED BY <3>1, <3>2, <3>3
  <2> QED BY <2>1, <2>2
<1>7. ObjectAfter(d, r, n) = ObjectAfter(c, r, s)
  BY <1>5, <1>6 DEF ObjectAfter
<1>8. ASSUME NEW q, NEW u, q # r
      PROVE  ObjectAfter(d, q, u) = ObjectAfter(c, q, u)
  <2>1. \A g : <<q, g>> \in d.writes <=> <<q, g>> \in c.writes
    BY <1>1, <1>2, <1>8
  <2> QED BY <1>3, <2>1 DEF ObjectAfter
<1> QED BY <1>4, <1>7, <1>8

(***************************************************************************)
(* So an assignment is no news to those who see the bodies as done, and it *)
(* keeps the invariant.                                                    *)
(***************************************************************************)
LEMMA AssignIsStutter ==
  ASSUME LockInv, NEW t \in Threads, NEW w \in call[t].writes, AssignOne(t, w)
  PROVE  /\ t \in lock /\ LockInv'
         /\ HeapAfter(call[t])' = HeapAfter(call[t])
         /\ BlocksAfter(call[t])' = BlocksAfter(call[t])
<1>1. NoCall.writes = {} /\ NoCall.pops = {}
  BY DEF NoCall
<1>2. t \in lock
  BY <1>1 DEF LockInv
<1>3. ~Popping(call[t])
  BY <1>1 DEF Popping, NoCall
<1>m. PICK m \in DOMAIN Assigned : \E x \in Args[m] :
        /\ call[t] = [method |-> m, arg |-> x, pops |-> {}, writes |-> call[t].writes]
        /\ \A v \in call[t].writes : \E r \in DOMAIN heap, f \in Assigned[m] : v = <<r, f>>
  BY <1>3 DEF LockInv, AssigningTo
<1>4. PICK x \in Args[m] :
        /\ call[t] = [method |-> m, arg |-> x, pops |-> {}, writes |-> call[t].writes]
        /\ \A v \in call[t].writes : \E r \in DOMAIN heap, f \in Assigned[m] : v = <<r, f>>
  BY <1>m
<1> DEFINE W == call[t].writes
<1>5. PICK r \in DOMAIN heap, f \in Assigned[m] : w = <<r, f>>
  BY <1>4
<1> DEFINE n == Assign(call[t], heap[r], f)
           d == [method |-> m, arg |-> x, pops |-> {}, writes |-> W \ {<<r, f>>}]
<1>6. heap[r] \in BlockState /\ <<r, f>> \in W
  BY <1>4, <1>5 DEF LockInv, TypeOK
<1>7. /\ n \in BlockState
      /\ ObjectAfter(d, r, n) = ObjectAfter(call[t], r, heap[r])
      /\ \A q, u : q # r => ObjectAfter(d, q, u) = ObjectAfter(call[t], q, u)
  <2>1. \A g : <<r, g>> \in W => g \in Assigned[m]
    BY <1>4
  <2> QED BY <1>4, <1>6, <2>1, AssignObject
<1>8. heap' = [heap EXCEPT ![r] = n]
  BY <1>5 DEF AssignOne
<1>9. call' = [call EXCEPT ![t] = d] /\ UNCHANGED <<blocks, step, lock>>
  <2>1. call' = [call EXCEPT ![t] = [call[t] EXCEPT !.writes = W \ {w}]]
    BY DEF AssignOne
  <2>2. [call[t] EXCEPT !.writes = W \ {w}] = d
    <3>1. \A V, U, c : c = [method |-> m, arg |-> x, pops |-> {}, writes |-> V] =>
            [c EXCEPT !.writes = U] = [method |-> m, arg |-> x, pops |-> {}, writes |-> U]
      OBVIOUS
    <3> QED BY <1>4, <1>5, <3>1
  <2> QED BY <2>1, <2>2 DEF AssignOne
<1> HIDE DEF n, d
<1>10. /\ heap' \in Seq(BlockState) /\ DOMAIN heap' = DOMAIN heap
       /\ \A q \in DOMAIN heap : heap'[q] = IF q = r THEN n ELSE heap[q]
  BY <1>7, <1>8 DEF LockInv, TypeOK
<1>11. /\ call'[t] = d /\ \A u \in Threads : u # t => call'[u] = call[u]
       /\ call' = [u \in Threads |-> call'[u]]
  BY <1>9 DEF LockInv
<1>12. LockInv'
  <2>1. TypeOK'
    BY <1>9, <1>10 DEF LockInv, TypeOK
  <2>3. AssigningTo(d, DOMAIN heap')
    <3>1. d = [method |-> m, arg |-> x, pops |-> {}, writes |-> d.writes]
      BY DEF d
    <3>2. \A v \in d.writes : v \in W
      BY DEF d
    <3> QED BY <1>4, <1>10, <3>1, <3>2 DEF AssigningTo
  <2>4. \A u \in Threads : u # t => Popping(call'[u]) \/ AssigningTo(call'[u], DOMAIN heap')
    BY <1>10, <1>11 DEF LockInv
  <2> QED BY <1>2, <1>9, <1>11, <2>1, <2>3, <2>4 DEF LockInv, Popping, AssigningTo
<1>13. HeapAfter(call[t])' = HeapAfter(call[t])
  BY <1>7, <1>10, <1>11 DEF HeapAfter
<1>14. BlocksAfter(call[t])' = BlocksAfter(call[t])
  <2>1. call[t].pops = {}
    BY <1>4
  <2>2. call'[t].pops = {}
    BY <1>11 DEF d
  <2> QED BY <1>9, <2>1, <2>2 DEF BlocksAfter
<1> QED BY <1>2, <1>12, <1>13, <1>14

(***************************************************************************)
(* The same two facts of the state after a step.                           *)
(***************************************************************************)
LEMMA DoneInsideNext ==
  (LockInv => \A t \in lock : HeapDone = HeapAfter(call[t]) /\ BlocksDone = BlocksAfter(call[t]))'
<1>1. LockInv => \A t \in lock : HeapDone = HeapAfter(call[t]) /\ BlocksDone = BlocksAfter(call[t])
  BY DoneInside
<1> QED BY <1>1, PTL

(***************************************************************************)
(* And while the lock is free.                                             *)
(***************************************************************************)
LEMMA DoneAtRestNext ==
  (LockInv /\ lock = {} => HeapDone = heap /\ BlocksDone = blocks)'
<1>1. LockInv /\ lock = {} => HeapDone = heap /\ BlocksDone = blocks
  BY DoneAtRest DEF LockInv
<1> QED BY <1>1, PTL

(***************************************************************************)
(* A pop is no news either.                                                *)
(***************************************************************************)
LEMMA PopIsStutter ==
  ASSUME LockInv, NEW t \in Threads, NEW b \in BlockIds, PopOne(t, b)
  PROVE  /\ t \in lock /\ LockInv'
         /\ HeapAfter(call[t])' = HeapAfter(call[t])
         /\ BlocksAfter(call[t])' = BlocksAfter(call[t])
<1>1. NoCall.writes = {} /\ NoCall.pops = {}
  BY DEF NoCall
<1>2. t \in lock
  BY <1>1 DEF LockInv, PopOne
<1>3. ~AssigningTo(call[t], DOMAIN heap)
  <2>1. b \in call[t].pops
    BY DEF PopOne
  <2>2. \A c : AssigningTo(c, DOMAIN heap) => c.pops = {}
    BY DEF AssigningTo
  <2> QED BY <2>1, <2>2
<1>4. PICK P \in SUBSET BlockIds : call[t] = [NoCall EXCEPT !.pops = P]
  BY <1>3 DEF LockInv, Popping
<1> DEFINE d == [NoCall EXCEPT !.pops = P \ {b}]
<1>5. call[t].pops = P /\ call[t].writes = {} /\ d.pops = P \ {b} /\ d.writes = {}
  BY <1>4 DEF NoCall
<1>6. /\ call' = [call EXCEPT ![t] = d]
      /\ blocks' = [blocks EXCEPT ![b] = Absent]
      /\ UNCHANGED <<heap, step, lock>>
  BY <1>4 DEF PopOne, NoCall
<1>7. /\ call'[t] = d /\ \A u \in Threads : u # t => call'[u] = call[u]
      /\ call' = [u \in Threads |-> call'[u]]
  BY <1>6 DEF LockInv
<1> HIDE DEF d
<1>8. LockInv'
  <2>1. TypeOK'
    BY <1>6 DEF LockInv, TypeOK
  <2>2. Popping(d)
    BY DEF Popping, d
  <2>4. \A u \in Threads : u # t => Popping(call'[u]) \/ AssigningTo(call'[u], DOMAIN heap')
    BY <1>6, <1>7 DEF LockInv
  <2> QED BY <1>2, <1>6, <1>7, <2>1, <2>2, <2>4 DEF LockInv, Popping, AssigningTo
<1>9. HeapAfter(call[t])' = HeapAfter(call[t])
  BY <1>5, <1>6, <1>7 DEF HeapAfter, ObjectAfter
<1>10. BlocksAfter(call[t])' = BlocksAfter(call[t])
  <2>1. \A e \in BlockIds : blocks'[e] = IF e = b THEN Absent ELSE blocks[e]
    BY <1>6 DEF LockInv, TypeOK
  <2>2. \A e \in BlockIds : (IF e \in call'[t].pops THEN Absent ELSE blocks'[e])
                              = (IF e \in call[t].pops THEN Absent ELSE blocks[e])
    <3>1. b \in call[t].pops
      BY DEF PopOne
    <3> QED BY <1>5, <1>7, <2>1, <3>1
  <2> QED BY <2>2 DEF BlocksAfter
<1> QED BY <1>2, <1>8, <1>9, <1>10

(***************************************************************************)
(* Nor is leaving the lock, when nothing of the body is left.              *)
(***************************************************************************)
LEMMA LeaveIsStutter ==
  ASSUME LockInv, NEW t \in Threads, Leave(t)
  PROVE  /\ LockInv' /\ UNCHANGED <<HeapDone, BlocksDone, step>>
<1>1. /\ t \in lock /\ call[t].pops = {} /\ call[t].writes = {}
      /\ lock' = lock \ {t} /\ call' = [call EXCEPT ![t] = NoCall]
      /\ heap' = heap /\ blocks' = blocks /\ step' = step
  BY DEF Leave, trackerVars
<1>2. lock = {t} /\ lock' = {}
  BY <1>1 DEF LockInv
<1>3. /\ \A u \in Threads : call'[u] = NoCall
      /\ call' = [u \in Threads |-> call'[u]]
  BY <1>1, <1>2 DEF LockInv
<1>4. LockInv'
  <2>1. Popping(NoCall)
    <3>1. NoCall = [NoCall EXCEPT !.pops = {}]
      BY DEF NoCall
    <3> QED BY <3>1 DEF Popping
  <2>2. TypeOK'
    BY <1>1 DEF LockInv, TypeOK
  <2> QED BY <1>2, <1>3, <2>1, <2>2 DEF LockInv, Popping
<1>5. HeapDone' = heap /\ BlocksDone' = blocks
  BY <1>1, <1>2, <1>4, DoneAtRestNext
<1>6. HeapDone = HeapAfter(call[t]) /\ BlocksDone = BlocksAfter(call[t])
  BY <1>1, DoneInside
<1>7. BlocksAfter(call[t]) = blocks
  BY <1>1 DEF BlocksAfter, LockInv, TypeOK
<1>8. HeapAfter(call[t]) = heap
  <2>1. ASSUME NEW r \in DOMAIN heap
        PROVE  ObjectAfter(call[t], r, heap[r]) = heap[r]
    <3>1. heap[r] = [f \in DOMAIN heap[r] |-> heap[r][f]]
      <4>1. heap[r] \in BlockState
        BY DEF LockInv, TypeOK
      <4> QED BY <4>1 DEF BlockState
    <3> QED BY <1>1, <3>1 DEF ObjectAfter
  <2>2. heap = [r \in DOMAIN heap |-> heap[r]]
    BY DEF LockInv, TypeOK
  <2> QED BY <2>1, <2>2 DEF HeapAfter
<1> QED BY <1>1, <1>4, <1>5, <1>6, <1>7, <1>8

(***************************************************************************)
(* Taking the lock: nothing was pending before, and what is pending after  *)
(* is the body of the thread that took it.                                 *)
(***************************************************************************)
LEMMA EnterLemma ==
  ASSUME LockInv, NEW t \in Threads, NEW c, Enter(t, c), TypeOK',
         Popping(c) \/ AssigningTo(c, DOMAIN heap')
  PROVE  /\ LockInv'
         /\ HeapDone = heap /\ BlocksDone = blocks
         /\ HeapDone' = [r \in DOMAIN heap' |-> ObjectAfter(c, r, heap'[r])]
         /\ BlocksDone' = [b \in BlockIds |-> IF b \in c.pops THEN Absent ELSE blocks'[b]]
<1>1. lock = {} /\ lock' = {t} /\ call' = [call EXCEPT ![t] = c]
  BY DEF Enter, Take
<1>2. \A u \in Threads : call[u] = NoCall
  BY <1>1 DEF LockInv
<1>3. HeapDone = heap /\ BlocksDone = blocks
  BY <1>2, DoneAtRest
<1>4. /\ call'[t] = c /\ \A u \in Threads : u # t => call'[u] = NoCall
      /\ call' = [u \in Threads |-> call'[u]]
  BY <1>1, <1>2 DEF LockInv
<1>5. LockInv'
  <2>1. Popping(NoCall)
    <3>1. NoCall = [NoCall EXCEPT !.pops = {}]
      BY DEF NoCall
    <3> QED BY <3>1 DEF Popping
  <2> QED BY <1>1, <1>4, <2>1 DEF LockInv, Popping, AssigningTo
<1>6. HeapDone' = HeapAfter(call[t])' /\ BlocksDone' = BlocksAfter(call[t])'
  BY <1>1, <1>5, DoneInsideNext
<1> QED BY <1>3, <1>4, <1>5, <1>6 DEF HeapAfter, BlocksAfter

(***************************************************************************)
(* A call that finds its objects and assigns their fields: seen as done,   *)
(* it replaces them all at once.                                           *)
(***************************************************************************)
LEMMA AssigningLemma ==
  ASSUME LockInv, NEW t \in Threads, NEW m \in DOMAIN Assigned, NEW x \in Args[m],
         NEW refs \in SUBSET DOMAIN heap, Enter(t, Assigning(m, x, refs)), heap' = heap, TypeOK'
  PROVE  /\ LockInv'
         /\ HeapDone = heap /\ BlocksDone = blocks /\ BlocksDone' = blocks'
         /\ HeapDone' = [r \in DOMAIN heap |->
                           IF r \in refs THEN After(Assigning(m, x, refs), heap[r]) ELSE heap[r]]
<1> DEFINE c == Assigning(m, x, refs)
<1>1. c.method = m /\ c.arg = x /\ c.pops = {} /\ c.writes = refs \X Assigned[m]
  BY DEF Assigning
<1>c. c = [method |-> m, arg |-> x, pops |-> {}, writes |-> c.writes]
  BY DEF Assigning
<1> HIDE DEF c
<1>2. AssigningTo(c, DOMAIN heap')
  <2>1. \A w \in c.writes : \E r \in DOMAIN heap', f \in Assigned[m] : w = <<r, f>>
    BY <1>1
  <2> QED BY <1>c, <2>1 DEF AssigningTo
<1>3. /\ LockInv'
      /\ HeapDone = heap /\ BlocksDone = blocks
      /\ HeapDone' = [r \in DOMAIN heap |-> ObjectAfter(c, r, heap[r])]
      /\ BlocksDone' = [b \in BlockIds |-> IF b \in c.pops THEN Absent ELSE blocks'[b]]
  BY <1>2, EnterLemma DEF c
<1>4. BlocksDone' = blocks'
  BY <1>1, <1>3 DEF TypeOK
<1>5. ASSUME NEW r \in DOMAIN heap
      PROVE  ObjectAfter(c, r, heap[r]) = IF r \in refs THEN After(c, heap[r]) ELSE heap[r]
  <2>1. heap[r] \in BlockState
    BY DEF LockInv, TypeOK
  <2>2. heap[r] = [f \in DOMAIN heap[r] |-> heap[r][f]]
    BY <2>1 DEF BlockState
  <2>3. CASE r \notin refs
    BY <1>1, <2>2, <2>3 DEF ObjectAfter
  <2>4. CASE r \in refs
    <3>1. /\ After(c, heap[r]) \in BlockState
          /\ Assigned[m] \subseteq DOMAIN heap[r]
          /\ \A g \in DOMAIN heap[r] \ Assigned[m] : After(c, heap[r])[g] = heap[r][g]
      BY <1>1, <2>1, FieldByField
    <3>2. /\ DOMAIN After(c, heap[r]) = DOMAIN heap[r]
          /\ After(c, heap[r]) = [f \in DOMAIN heap[r] |-> After(c, heap[r])[f]]
      BY <2>1, <3>1 DEF BlockState
    <3>3. \A g : <<r, g>> \in c.writes <=> g \in Assigned[m]
      BY <1>1, <2>4
    <3>4. \A g \in DOMAIN heap[r] : (IF <<r, g>> \in c.writes THEN After(c, heap[r])[g] ELSE heap[r][g])
                                     = After(c, heap[r])[g]
      BY <3>1, <3>3
    <3>5. ObjectAfter(c, r, heap[r]) = [f \in DOMAIN heap[r] |-> After(c, heap[r])[f]]
      BY <3>4 DEF ObjectAfter
    <3> QED BY <2>4, <3>2, <3>5
  <2> QED BY <2>3, <2>4
<1> QED BY <1>3, <1>4, <1>5 DEF c

(***************************************************************************)
(* A field update takes effect at its lookup.                              *)
(***************************************************************************)
LEMMA FindIsUpdate ==
  ASSUME LockInv, NEW t \in Threads, NEW b \in BlockIds,
         NEW m \in DOMAIN Assigned, NEW x \in Args[m], Find(t, b, m, x)
  PROVE  /\ LockInv'
         /\ HeapDone = heap /\ BlocksDone = blocks
         /\ Atomic!Update(b, After(Assigning(m, x, {blocks[b]}), heap[blocks[b]]))
<1>1. /\ b \in Registered /\ Enter(t, Assigning(m, x, {blocks[b]}))
      /\ heap' = heap /\ blocks' = blocks /\ step' = step
  BY DEF Find, trackerVars
<1>2. blocks[b] \in DOMAIN heap /\ heap = [r \in DOMAIN heap |-> heap[r]]
  BY <1>1, LookupType DEF LockInv, TypeOK
<1>3. TypeOK'
  BY <1>1 DEF LockInv, TypeOK
<1> DEFINE s == After(Assigning(m, x, {blocks[b]}), heap[blocks[b]])
<1>4. /\ LockInv'
      /\ HeapDone = heap /\ BlocksDone = blocks /\ BlocksDone' = blocks'
      /\ HeapDone' = [r \in DOMAIN heap |->
                        IF r \in {blocks[b]} THEN After(Assigning(m, x, {blocks[b]}), heap[r])
                                             ELSE heap[r]]
  BY <1>1, <1>2, <1>3, AssigningLemma
<1>5. HeapDone' = [heap EXCEPT ![blocks[b]] = s]
  BY <1>2, <1>4
<1> HIDE DEF s
<1>6. b \in Atomic!Registered
  BY <1>1, <1>4 DEF Registered, Atomic!Registered, Absent, Atomic!Absent
<1>7. Atomic!Update(b, s)
  BY <1>1, <1>4, <1>5, <1>6 DEF Atomic!Update
<1> QED BY <1>4, <1>7 DEF s

(***************************************************************************)
(* Every first step of a body is the whole call of the atomic tracker.     *)
(***************************************************************************)
LEMMA BeginIsCall ==
  ASSUME LockInv, NEW t \in Threads, Begin(t)
  PROVE  LockInv' /\ Atomic!TrackerNext
<1> USE DEF Atomic!TrackerNext, Atomic!ServingStep, Atomic!PolicyStep
<1>0. /\ TypeOK /\ heap \in Seq(BlockState) /\ step \in Nat
      /\ blocks \in [BlockIds -> {Absent} \union DOMAIN heap]
      /\ DOMAIN Assigned = {"update_attention", "mark_accessed", "update_tier",
                            "update_memory_snapshot", "set_importance_score",
                            "mark_prefix_reuse", "evict_block", "increment_age"}
  BY DEF LockInv, TypeOK, Assigned
<1>1. ASSUME NEW b \in BlockIds, NEW q \in RequestIds, Register(t, b, q)
      PROVE  LockInv' /\ Atomic!TrackerNext
  <2>1. /\ Enter(t, NoCall) /\ Len(heap) < MaxObjects /\ step' = step
        /\ heap' = Append(heap, NewBlock(b, q))
        /\ blocks' = [blocks EXCEPT ![b] = Len(heap) + 1]
    BY <1>1 DEF Register, RegisterBlock, NextRef
  <2>2. /\ heap' \in Seq(BlockState) /\ Len(heap') = Len(heap) + 1 /\ Len(heap) \in Nat
        /\ \A r \in DOMAIN heap' : heap'[r] \in BlockState
    BY <1>0, <2>1, NewBlockType
  <2>3. TypeOK'
    BY <1>0, <2>1, <2>2 DEF TypeOK
  <2>4. Popping(NoCall) /\ NoCall.pops = {} /\ NoCall.writes = {}
    <3>1. NoCall = [NoCall EXCEPT !.pops = {}]
      BY DEF NoCall
    <3> QED BY <3>1 DEF Popping, NoCall
  <2>5. /\ LockInv' /\ HeapDone = heap /\ BlocksDone = blocks
        /\ HeapDone' = [r \in DOMAIN heap' |-> ObjectAfter(NoCall, r, heap'[r])]
        /\ BlocksDone' = [c \in BlockIds |-> IF c \in NoCall.pops THEN Absent ELSE blocks'[c]]
    BY <2>1, <2>3, <2>4, EnterLemma
  <2>6. HeapDone' = heap' /\ BlocksDone' = blocks'
    <3>1. ASSUME NEW r \in DOMAIN heap'
          PROVE  ObjectAfter(NoCall, r, heap'[r]) = heap'[r]
      <4>1. heap'[r] = [f \in DOMAIN heap'[r] |-> heap'[r][f]]
        BY <2>2 DEF BlockState
      <4> QED BY <2>4, <4>1 DEF ObjectAfter
    <3>2. heap' = [r \in DOMAIN heap' |-> heap'[r]]
      BY <2>2
    <3> QED BY <2>3, <2>4, <2>5, <3>1, <3>2 DEF TypeOK
  <2>7. Atomic!RegisterBlock(b, q)
    BY <2>1, <2>5, <2>6 DEF Atomic!RegisterBlock, Atomic!NextRef, Atomic!NewBlock, NewBlock
  <2> QED BY <2>5, <2>7
<1>2. ASSUME NEW b \in BlockIds, Evict(t, b)
      PROVE  LockInv' /\ Atomic!TrackerNext
  <2> DEFINE c == Assigning("evict_block", "EVICTED", {blocks[b]})
  <2>1. /\ b \in Registered /\ Enter(t, c)
        /\ heap' = heap /\ blocks' = [blocks EXCEPT ![b] = Absent] /\ step' = step
    BY <1>2 DEF Evict
  <2>2. blocks[b] \in DOMAIN heap /\ heap = [r \in DOMAIN heap |-> heap[r]]
    BY <1>0, <2>1, LookupType
  <2>3. TypeOK'
    BY <1>0, <2>1 DEF TypeOK
  <2>4. "EVICTED" \in Args["evict_block"]
    BY DEF Args, Tiers
  <2>5. /\ LockInv' /\ HeapDone = heap /\ BlocksDone = blocks /\ BlocksDone' = blocks'
        /\ HeapDone' = [r \in DOMAIN heap |-> IF r \in {blocks[b]} THEN After(c, heap[r]) ELSE heap[r]]
    BY <1>0, <2>1, <2>2, <2>3, <2>4, AssigningLemma
  <2>6. After(c, heap[blocks[b]]) = [heap[blocks[b]] EXCEPT !.current_tier = "EVICTED"]
    BY DEF After, Assigning
  <2> HIDE DEF c
  <2>7. HeapDone' = [heap EXCEPT ![blocks[b]] = [heap[blocks[b]] EXCEPT !.current_tier = "EVICTED"]]
    BY <2>2, <2>5, <2>6
  <2>8. Atomic!EvictBlock(b)
    BY <2>1, <2>5, <2>7, <1>0 DEF Atomic!EvictBlock, Atomic!Registered, Atomic!Absent, Registered, Absent
  <2> QED BY <2>5, <2>8
<1>3. ASSUME NEW b \in BlockIds, NEW a \in Attention, Find(t, b, "update_attention", a)
      PROVE  LockInv' /\ Atomic!TrackerNext
  <2>1. a \in Args["update_attention"]
    BY DEF Args
  <2>2. /\ LockInv' /\ HeapDone = heap /\ BlocksDone = blocks
        /\ Atomic!Update(b, After(Assigning("update_attention", a, {blocks[b]}), heap[blocks[b]]))
    BY <1>0, <1>3, <2>1, FindIsUpdate
  <2>3. After(Assigning("update_attention", a, {blocks[b]}), heap[blocks[b]])
          = WithAttention(heap[blocks[b]], a)
    BY DEF After, Assigning
  <2>4. Atomic!UpdateAttention(b, a)
    BY <2>2, <2>3 DEF Atomic!UpdateAttention, Atomic!WithAttention, Atomic!Smoothed, Atomic!Larger,
                      WithAttention, Smoothed, Larger
  <2> QED BY <2>2, <2>4
<1>4. ASSUME NEW b \in Registered, heap[blocks[b]].access_count < MaxAccesses,
             Find(t, b, "mark_accessed", step)
      PROVE  LockInv' /\ Atomic!TrackerNext
  <2>1. step \in Args["mark_accessed"] /\ b \in BlockIds
    BY <1>0 DEF Args, Registered
  <2>2. /\ LockInv' /\ HeapDone = heap /\ BlocksDone = blocks
        /\ Atomic!Update(b, After(Assigning("mark_accessed", step, {blocks[b]}), heap[blocks[b]]))
    BY <1>0, <1>4, <2>1, FindIsUpdate
  <2>3. After(Assigning("mark_accessed", step, {blocks[b]}), heap[blocks[b]])
          = Accessed(heap[blocks[b]], step)
    BY DEF After, Assigning
  <2>4. Atomic!MarkAccessed(b, step)
    BY <2>2, <2>3 DEF Atomic!MarkAccessed, Atomic!Accessed, Accessed
  <2>5. b \in Atomic!Registered
    BY <2>2 DEF Atomic!Update
  <2> QED BY <1>4, <2>2, <2>4, <2>5
<1>5. ASSUME NEW b \in BlockIds, NEW x \in Tiers \ {"EVICTED"}, Find(t, b, "update_tier", x)
      PROVE  LockInv' /\ Atomic!TrackerNext
  <2>1. x \in Args["update_tier"] /\ x \in Atomic!Tiers \ {"EVICTED"}
    BY DEF Args, Tiers, Atomic!Tiers
  <2>2. /\ LockInv' /\ HeapDone = heap /\ BlocksDone = blocks
        /\ Atomic!Update(b, After(Assigning("update_tier", x, {blocks[b]}), heap[blocks[b]]))
    BY <1>0, <1>5, <2>1, FindIsUpdate
  <2>3. After(Assigning("update_tier", x, {blocks[b]}), heap[blocks[b]])
          = [heap[blocks[b]] EXCEPT !.current_tier = x]
    BY DEF After, Assigning
  <2>4. Atomic!UpdateTier(b, x)
    BY <2>2, <2>3 DEF Atomic!UpdateTier
  <2> QED BY <2>1, <2>2, <2>4
<1>6. ASSUME NEW b \in BlockIds, NEW x \in MemSnapshots, Find(t, b, "update_memory_snapshot", x)
      PROVE  LockInv' /\ Atomic!TrackerNext
  <2>1. x \in Args["update_memory_snapshot"]
    BY ScoresAssumption DEF Args
  <2>2. /\ LockInv' /\ HeapDone = heap /\ BlocksDone = blocks
        /\ Atomic!Update(b, After(Assigning("update_memory_snapshot", x, {blocks[b]}), heap[blocks[b]]))
    BY <1>0, <1>6, <2>1, FindIsUpdate
  <2>3. After(Assigning("update_memory_snapshot", x, {blocks[b]}), heap[blocks[b]])
          = [heap[blocks[b]] EXCEPT !.gpu_mem_mb = x]
    BY DEF After, Assigning
  <2>4. Atomic!UpdateMemorySnapshot(b, x)
    BY <2>2, <2>3 DEF Atomic!UpdateMemorySnapshot
  <2> QED BY <2>2, <2>4
<1>7. ASSUME NEW b \in BlockIds, NEW x \in Importance, Find(t, b, "set_importance_score", x)
      PROVE  LockInv' /\ Atomic!TrackerNext
  <2>1. x \in Args["set_importance_score"]
    BY ScoresAssumption DEF Args
  <2>2. /\ LockInv' /\ HeapDone = heap /\ BlocksDone = blocks
        /\ Atomic!Update(b, After(Assigning("set_importance_score", x, {blocks[b]}), heap[blocks[b]]))
    BY <1>0, <1>7, <2>1, FindIsUpdate
  <2>3. After(Assigning("set_importance_score", x, {blocks[b]}), heap[blocks[b]])
          = [heap[blocks[b]] EXCEPT !.importance_score = x]
    BY DEF After, Assigning
  <2>4. Atomic!SetImportanceScore(b, x)
    BY <2>2, <2>3 DEF Atomic!SetImportanceScore
  <2> QED BY <2>2, <2>4
<1>8. ASSUME NEW b \in BlockIds, NEW x \in BOOLEAN, Find(t, b, "mark_prefix_reuse", x)
      PROVE  LockInv' /\ Atomic!TrackerNext
  <2>1. x \in Args["mark_prefix_reuse"]
    BY DEF Args
  <2>2. /\ LockInv' /\ HeapDone = heap /\ BlocksDone = blocks
        /\ Atomic!Update(b, After(Assigning("mark_prefix_reuse", x, {blocks[b]}), heap[blocks[b]]))
    BY <1>0, <1>8, <2>1, FindIsUpdate
  <2>3. After(Assigning("mark_prefix_reuse", x, {blocks[b]}), heap[blocks[b]])
          = [heap[blocks[b]] EXCEPT !.prefix_reuse_flag = x]
    BY DEF After, Assigning
  <2>4. Atomic!MarkPrefixReuse(b, x)
    BY <2>2, <2>3 DEF Atomic!MarkPrefixReuse
  <2> QED BY <2>2, <2>4
<1>9. ASSUME NEW q \in RequestIds, Release(t, q)
      PROVE  LockInv' /\ Atomic!TrackerNext
  <2> DEFINE c == [NoCall EXCEPT !.pops = BlocksOf(q)]
  <2>1. /\ BlocksOf(q) # {} /\ Enter(t, c)
        /\ heap' = heap /\ blocks' = blocks /\ step' = step
    BY <1>9 DEF Release, trackerVars
  <2>2. TypeOK'
    BY <1>0, <2>1 DEF TypeOK
  <2>3. /\ BlocksOf(q) \in SUBSET BlockIds /\ Popping(c)
        /\ c.pops = BlocksOf(q) /\ c.writes = {}
    BY DEF BlocksOf, Registered, Popping, NoCall
  <2> HIDE DEF c
  <2>4. /\ LockInv' /\ HeapDone = heap /\ BlocksDone = blocks
        /\ HeapDone' = [r \in DOMAIN heap |-> ObjectAfter(c, r, heap[r])]
        /\ BlocksDone' = [b \in BlockIds |-> IF b \in BlocksOf(q) THEN Absent ELSE blocks[b]]
    BY <2>1, <2>2, <2>3, EnterLemma
  <2>5. HeapDone' = heap
    <3>1. ASSUME NEW r \in DOMAIN heap
          PROVE  ObjectAfter(c, r, heap[r]) = heap[r]
      <4>1. heap[r] \in BlockState
        BY <1>0
      <4>2. heap[r] = [f \in DOMAIN heap[r] |-> heap[r][f]]
        BY <4>1 DEF BlockState
      <4> QED BY <2>3, <4>2 DEF ObjectAfter
    <3>2. heap = [r \in DOMAIN heap |-> heap[r]]
      BY <1>0
    <3> QED BY <2>4, <3>1, <3>2
  <2>6. Atomic!BlocksOf(q) = BlocksOf(q)
    BY <2>4 DEF Atomic!BlocksOf, Atomic!Registered, Atomic!Absent, BlocksOf, Registered, Absent
  <2>7. Atomic!ReleaseRequestBlocks(q)
    BY <2>1, <2>4, <2>5, <2>6 DEF Atomic!ReleaseRequestBlocks, Atomic!Absent, Absent
  <2> QED BY <2>4, <2>7
<1>10. ASSUME Age(t)
       PROVE  LockInv' /\ Atomic!TrackerNext
  <2> DEFINE c == Assigning("increment_age", step + 1, TrackedRefs)
  <2>1. /\ step < MaxStep /\ step' = step + 1 /\ Enter(t, c)
        /\ heap' = heap /\ blocks' = blocks
    BY <1>10 DEF Age
  <2>2. step + 1 \in Args["increment_age"] /\ TrackedRefs \in SUBSET DOMAIN heap
    BY <1>0, LookupType DEF Args, TrackedRefs
  <2>3. TypeOK'
    BY <1>0, <2>1 DEF TypeOK
  <2>4. /\ LockInv' /\ HeapDone = heap /\ BlocksDone = blocks /\ BlocksDone' = blocks'
        /\ HeapDone' = [r \in DOMAIN heap |-> IF r \in TrackedRefs THEN After(c, heap[r]) ELSE heap[r]]
    BY <1>0, <2>1, <2>2, <2>3, AssigningLemma
  <2>5. \A s : After(c, s) = [s EXCEPT !.block_age_steps = step + 1]
    BY DEF After, Assigning
  <2> HIDE DEF c
  <2>6. Atomic!Aging = TrackedRefs
    BY <2>4 DEF Atomic!Aging, Atomic!TrackedRefs, Atomic!Registered, Atomic!Absent,
                TrackedRefs, Registered, Absent
  <2>7. Atomic!IncrementAge
    BY <2>1, <2>4, <2>5, <2>6 DEF Atomic!IncrementAge
  <2> QED BY <2>4, <2>7
<1> QED BY <1>1, <1>2, <1>3, <1>4, <1>5, <1>6, <1>7, <1>8, <1>9, <1>10 DEF Begin

(***************************************************************************)
(* The lock makes every method atomic: whatever the threads do between two *)
(* pops or assignments of a body, the tracker behaves as if each call      *)
(* happened at once.                                                       *)
(***************************************************************************)
THEOREM CallsTakeEffectAtOnce == LockSpec => AtomicSpec
<1>1. LockInit => LockInv /\ Atomic!Init
  <2> SUFFICES ASSUME LockInit PROVE LockInv /\ Atomic!Init
    OBVIOUS
  <2>1. TypeOK
    BY InitLemma DEF LockInit, IInv
  <2>2. Popping(NoCall)
    <3>1. NoCall = [NoCall EXCEPT !.pops = {}]
      BY DEF NoCall
    <3> QED BY <3>1 DEF Popping
  <2>3. LockInv
    BY <2>1, <2>2 DEF LockInit, LockInv, Popping
  <2>4. HeapDone = heap /\ BlocksDone = blocks
    BY <2>3, DoneAtRest DEF LockInit
  <2> QED BY <2>3, <2>4 DEF LockInit, Init, Atomic!Init, Absent, Atomic!Absent
<1>2. ASSUME LockInv, [LockNext]_lockVars
      PROVE  LockInv' /\ [Atomic!TrackerNext]_(Atomic!trackerVars)
  <2>1. ASSUME NEW t \in Threads, Begin(t)
        PROVE  LockInv' /\ Atomic!TrackerNext
    BY <1>2, <2>1, BeginIsCall
  <2>2. ASSUME NEW t \in Threads, t \in lock, LockInv', lock' = lock, step' = step,
               HeapAfter(call[t])' = HeapAfter(call[t]),
               BlocksAfter(call[t])' = BlocksAfter(call[t])
        PROVE  LockInv' /\ UNCHANGED Atomic!trackerVars
    BY <1>2, <2>2, DoneInside, DoneInsideNext DEF Atomic!trackerVars
  <2>3. ASSUME NEW t \in Threads, NEW b \in BlockIds, PopOne(t, b)
        PROVE  LockInv' /\ UNCHANGED Atomic!trackerVars
    BY <1>2, <2>2, <2>3, PopIsStutter DEF PopOne
  <2>4. ASSUME NEW t \in Threads, NEW w \in call[t].writes, AssignOne(t, w)
        PROVE  LockInv' /\ UNCHANGED Atomic!trackerVars
    BY <1>2, <2>2, <2>4, AssignIsStutter DEF AssignOne
  <2>5. ASSUME NEW t \in Threads, Leave(t)
        PROVE  LockInv' /\ UNCHANGED Atomic!trackerVars
    BY <1>2, <2>5, LeaveIsStutter DEF Atomic!trackerVars
  <2>6. CASE UNCHANGED lockVars
    <3>1. heap' = heap /\ blocks' = blocks /\ step' = step /\ lock' = lock /\ call' = call
      BY <2>6 DEF lockVars
    <3>2. LockInv'
      <4>1. TypeOK'
        BY <1>2, <3>1 DEF LockInv, TypeOK
      <4>2. \A t \in Threads : (Popping(call[t]) \/ AssigningTo(call[t], DOMAIN heap))'
        BY <1>2, <3>1 DEF LockInv, Popping, AssigningTo
      <4> QED BY <1>2, <3>1, <4>1, <4>2 DEF LockInv
    <3>3. UNCHANGED Atomic!trackerVars
      BY <3>1 DEF Atomic!trackerVars, HeapDone, BlocksDone, FieldDone, Writers
    <3> QED BY <3>2, <3>3
  <2> QED BY <1>2, <2>1, <2>3, <2>4, <2>5, <2>6 DEF LockNext
<1> QED BY <1>1, <1>2, PTL DEF LockSpec, AtomicSpec, Atomic!TrackerSpec

-----------------------------------------------------------------------------
\* What a reader that is counting holds: the list it copied, a part of it that
\* it has yet to look at, and one count for each object it has looked at.
Tally(counts) ==
  counts["GPU_FP16"] + counts["GPU_QUANTIZED"] + counts["CPU_OFFLOADED"] + counts["EVICTED"]

ReaderInv ==
  /\ reader.pc = "counting" =>
       \E listed, todo \in SUBSET DOMAIN heap, counts \in [Tiers -> Nat] :
         /\ todo \subseteq listed
         /\ reader = [pc |-> "counting", op |-> "stats", listed |-> listed,
                      todo |-> todo, counts |-> counts]
         /\ Tally(counts) + Cardinality(todo) = Cardinality(listed)
  /\ StatsAddUp

(***************************************************************************)
(* Counting one more object adds one to one of the four counts.            *)
(***************************************************************************)
LEMMA TallyOne ==
  ASSUME NEW counts \in [Tiers -> Nat], NEW t \in Tiers
  PROVE  /\ [counts EXCEPT ![t] = @ + 1] \in [Tiers -> Nat]
         /\ Tally(counts) \in Nat
         /\ Tally([counts EXCEPT ![t] = @ + 1]) = Tally(counts) + 1
<1>1. \A u \in Tiers : counts[u] \in Nat
  OBVIOUS
<1>2. \A u \in Tiers : [counts EXCEPT ![t] = @ + 1][u] = IF u = t THEN counts[t] + 1 ELSE counts[u]
  OBVIOUS
<1>3. [counts EXCEPT ![t] = @ + 1] \in [Tiers -> Nat]
  BY <1>1
<1>4. t \in {"GPU_FP16", "GPU_QUANTIZED", "CPU_OFFLOADED", "EVICTED"}
  BY DEF Tiers
<1> QED BY <1>1, <1>2, <1>3, <1>4 DEF Tally, Tiers

(***************************************************************************)
(* A list of objects of the heap is finite, and so is each part of it.     *)
(***************************************************************************)
LEMMA ListsFinite ==
  ASSUME TypeOK, NEW S \in SUBSET DOMAIN heap
  PROVE  IsFiniteSet(S) /\ Cardinality(S) \in Nat
<1>1. heap \in Seq(BlockState) /\ Len(heap) \in Nat /\ DOMAIN heap = 1..Len(heap)
  BY DEF TypeOK
<1>2. IsFiniteSet(1..Len(heap))
  BY <1>1, FS_Interval
<1>3. IsFiniteSet(S)
  BY <1>1, <1>2, FS_Subset
<1> QED BY <1>3, FS_CardinalityType

(***************************************************************************)
(* The two engines only ever add objects, so they leave a reader's list a  *)
(* list of existing objects.                                               *)
(***************************************************************************)
LEMMA HeapGrows ==
  ASSUME IInv, [TrackerNext]_trackerVars
  PROVE  DOMAIN heap \subseteq DOMAIN heap'
<1>1. heap \in Seq(BlockState) /\ Len(heap) \in Nat /\ DOMAIN heap = 1..Len(heap)
  BY DEF IInv, TypeOK
<1> QED BY <1>1, StepShape DEF Named, Withdrawn

(***************************************************************************)
(* The reader's steps and those of the engines preserve what it counts.    *)
(* Each object is counted once, under the tier it has when it is looked    *)
(* at, so where it moves before or after makes no difference.              *)
(***************************************************************************)
LEMMA ReaderPreserves ==
  ASSUME IInv, ReaderInv, [ReadersNext]_readerVars
  PROVE  ReaderInv'
<1> USE DEF ReaderInv
<1>1. CASE UNCHANGED reader /\ [TrackerNext]_trackerVars
  BY <1>1, HeapGrows DEF StatsAddUp, Returned
<1>2. CASE ListForStats
  <2>1. /\ reader' = [pc |-> "counting", op |-> "stats", listed |-> TrackedRefs,
                      todo |-> TrackedRefs, counts |-> NoCounts]
        /\ heap' = heap
    BY <1>2 DEF ListForStats, trackerVars
  <2>2. TrackedRefs \in SUBSET DOMAIN heap
    BY LookupType DEF TrackedRefs, IInv
  <2>3. NoCounts \in [Tiers -> Nat] /\ Tally(NoCounts) = 0
    BY DEF NoCounts, Tally, Tiers
  <2>4. Cardinality(TrackedRefs) \in Nat
    BY <2>2, ListsFinite DEF IInv
  <2>5. Tally(NoCounts) + Cardinality(TrackedRefs) = Cardinality(TrackedRefs)
    BY <2>3, <2>4
  <2>6. TrackedRefs \in SUBSET TrackedRefs /\ reader'.pc = "counting"
    BY <2>1
  <2> QED BY <2>1, <2>2, <2>3, <2>5, <2>6 DEF StatsAddUp, Returned
<1>3. ASSUME NEW r \in DOMAIN heap, CountOne(r)
      PROVE  ReaderInv'
  <2>1. PICK listed \in SUBSET DOMAIN heap, todo \in SUBSET DOMAIN heap, counts \in [Tiers -> Nat] :
          /\ todo \subseteq listed
          /\ reader = [pc |-> "counting", op |-> "stats", listed |-> listed,
                       todo |-> todo, counts |-> counts]
          /\ Tally(counts) + Cardinality(todo) = Cardinality(listed)
    BY <1>3 DEF CountOne
  <2>2. heap[r] \in BlockState /\ heap[r].current_tier \in Tiers
    <3>1. heap[r] \in BlockState
      BY DEF IInv, TypeOK
    <3> QED BY <3>1 DEF BlockState
  <2> DEFINE t == heap[r].current_tier
             more == [counts EXCEPT ![t] = @ + 1]
  <2>3. /\ r \in todo /\ heap' = heap
        /\ reader' = [pc |-> "counting", op |-> "stats", listed |-> listed,
                      todo |-> todo \ {r}, counts |-> more]
    BY <1>3, <2>1 DEF CountOne, trackerVars
  <2>4. more \in [Tiers -> Nat] /\ Tally(counts) \in Nat /\ Tally(more) = Tally(counts) + 1
    BY <2>2, TallyOne
  <2> HIDE DEF more
  <2>5. /\ IsFiniteSet(todo) /\ Cardinality(todo) \in Nat /\ Cardinality(listed) \in Nat
    BY ListsFinite DEF IInv
  <2>6. Cardinality(todo \ {r}) = Cardinality(todo) - 1
    BY <2>3, <2>5, FS_RemoveElement
  <2>7. Tally(more) + Cardinality(todo \ {r}) = Cardinality(listed)
    BY <2>1, <2>4, <2>5, <2>6
  <2>8. todo \ {r} \in SUBSET DOMAIN heap /\ todo \ {r} \subseteq listed
    BY <2>1
  <2> QED BY <2>3, <2>4, <2>7, <2>8 DEF StatsAddUp, Returned
<1>4. CASE ReturnStats
  <2>1. PICK listed \in SUBSET DOMAIN heap, todo \in SUBSET DOMAIN heap, counts \in [Tiers -> Nat] :
          /\ todo \subseteq listed
          /\ reader = [pc |-> "counting", op |-> "stats", listed |-> listed,
                       todo |-> todo, counts |-> counts]
          /\ Tally(counts) + Cardinality(todo) = Cardinality(listed)
    BY <1>4 DEF ReturnStats
  <2>2. /\ todo = {}
        /\ reader' = [pc |-> "returned", op |-> "stats", total |-> Cardinality(listed),
                      counts |-> counts]
    BY <1>4, <2>1 DEF ReturnStats, TotalBlocks
  <2>3. Cardinality({}) = 0
    BY FS_EmptySet
  <2>4. Tally(counts) \in Nat
    BY TallyOne DEF Tally, Tiers
  <2>5. Cardinality(listed) = Tally(counts)
    BY <2>1, <2>2, <2>3, <2>4
  <2> QED BY <2>2, <2>5 DEF StatsAddUp, Returned, Tally
<1>5. CASE (\E s \in Strategies : ListCandidates(s)) \/ ReturnCandidates
  <2>1. reader'.pc \in {"sorting", "returned"} /\ reader'.op = "candidates"
    BY <1>5 DEF ListCandidates, ReturnCandidates
  <2> QED BY <2>1 DEF StatsAddUp, Returned
<1>6. CASE UNCHANGED readerVars
  <2>1. UNCHANGED reader /\ UNCHANGED trackerVars
    BY <1>6 DEF readerVars, trackerVars
  <2> QED BY <1>1, <2>1
<1> QED BY <1>1, <1>2, <1>3, <1>4, <1>5, <1>6 DEF ReadersNext, ReaderStep

(***************************************************************************)
(* get_memory_stats: whatever the engines do while it walks over its copy  *)
(* of the list, the counts per tier add up to the length of the copy.      *)
(***************************************************************************)
THEOREM TierCountsAddUp == ReadersSpec => []StatsAddUp
<1>1. ReaderInit => IInv /\ ReaderInv
  <2> SUFFICES ASSUME ReaderInit PROVE IInv /\ ReaderInv
    OBVIOUS
  <2>1. IInv
    BY InitLemma DEF ReaderInit
  <2>2. reader.pc = "idle"
    BY DEF ReaderInit
  <2> QED BY <2>1, <2>2 DEF ReaderInv, StatsAddUp, Returned
<1>2. ASSUME IInv, ReaderInv, [ReadersNext]_readerVars
      PROVE  IInv' /\ ReaderInv'
  <2>1. [TrackerNext]_trackerVars
    BY <1>2 DEF ReadersNext, ReaderStep, ListForStats, CountOne, ReturnStats, ListCandidates,
                ReturnCandidates, readerVars, trackerVars
  <2> QED BY <1>2, <2>1, StepPreserves, ReaderPreserves
<1>3. IInv /\ ReaderInv => StatsAddUp
  BY DEF ReaderInv
<1> QED BY <1>1, <1>2, <1>3, PTL DEF ReadersSpec
=============================================================================
