---------------------------- MODULE BlockTracker ----------------------------
(***************************************************************************)
(* The registry of live KV-cache blocks: src/src/telemetry/block_tracker.py *)
(* with the BlockState objects of src/src/telemetry/schema.py.              *)
(*                                                                         *)
(* Python hands out references, so identity matters: heap is the sequence  *)
(* of every BlockState ever created and blocks is the dict _blocks, from   *)
(* an id to the position of its object in heap.  An object that left the   *)
(* dict is still reachable from whoever holds it.  Each public method is   *)
(* one action, because each runs under the tracker's re-entrant lock:      *)
(* TrackerLock has the bodies step by step and implements this module.     *)
(* The accessors that work outside the lock are in TrackerReaders.         *)
(*                                                                         *)
(* Abstractions: layer_id, head_group and the byte sizes are left out; a   *)
(* score is an integer count of a fixed unit, so the moving average is     *)
(* rounded down to that unit.                                              *)
(***************************************************************************)
EXTENDS Integers, Sequences, FiniteSets

CONSTANTS BlockIds,      \* the block ids callers use
          RequestIds,    \* the request ids callers use
          Attention,     \* attention arrays, as the finite mean and max of each
          Importance,    \* scores a policy may write
          MemSnapshots,  \* GPU memory readings
          MaxObjects,    \* bound: BlockState objects ever created
          MaxAccesses,   \* bound: accesses of one block
          MaxStep        \* bound: decoding steps

ASSUME BlockIdsAssumption == BlockIds \subseteq Nat
ASSUME AttentionAssumption ==
  \A a \in Attention : a.mean \in Nat /\ a.max \in Nat /\ a.mean <= a.max
ASSUME ScoresAssumption == Importance \subseteq Nat /\ MemSnapshots \subseteq Nat
ASSUME BoundsAssumption == {MaxObjects, MaxAccesses, MaxStep} \subseteq Nat

VARIABLES heap,    \* every BlockState ever created, in order of creation
          blocks,  \* _blocks: block id -> position in heap, or Absent
          step     \* the serving engine's decoding step, which callers pass in

trackerVars == <<heap, blocks, step>>

Absent == 0

-----------------------------------------------------------------------------
Tiers == {"GPU_FP16", "GPU_QUANTIZED", "CPU_OFFLOADED", "EVICTED"}
GpuTiers == {"GPU_FP16", "GPU_QUANTIZED"}

BlockState ==
  [block_id: BlockIds, request_id: RequestIds, block_age_steps: Nat,
   last_access_step: Nat, access_count: Nat, avg_attention_score: Nat,
   max_attention_score: Nat, prefix_reuse_flag: BOOLEAN, current_tier: Tiers,
   gpu_mem_mb: Nat, importance_score: Nat]

NewBlock(b, q) ==
  [block_id |-> b, request_id |-> q, block_age_steps |-> 0,
   last_access_step |-> 0, access_count |-> 0, avg_attention_score |-> 0,
   max_attention_score |-> 0, prefix_reuse_flag |-> FALSE,
   current_tier |-> "GPU_FP16", gpu_mem_mb |-> 0, importance_score |-> 0]

\* Where the next object goes.
Faulty_NextRef == Len(heap)
NextRef == Len(heap) + 1

Registered == {b \in BlockIds : blocks[b] # Absent}
TrackedRefs == {blocks[b] : b \in Registered}

-----------------------------------------------------------------------------
BlocksOf(q) == {b \in Registered : heap[blocks[b]].request_id = q}

Init ==
  /\ heap = <<>>
  /\ blocks = [b \in BlockIds |-> Absent]
  /\ step = 0

\* An id already in the dict is overwritten: its old object leaves the dict.
RegisterBlock(b, q) ==
  /\ Len(heap) < MaxObjects
  /\ heap' = Append(heap, NewBlock(b, q))
  /\ blocks' = [blocks EXCEPT ![b] = NextRef]
  /\ UNCHANGED step

Faulty_EvictBlock(b) ==
  /\ b \in Registered
  /\ heap' = [heap EXCEPT ![blocks[b]].current_tier = "EVICTED"]
  /\ UNCHANGED <<blocks, step>>

EvictBlock(b) ==
  /\ b \in Registered
  /\ heap' = [heap EXCEPT ![blocks[b]].current_tier = "EVICTED"]
  /\ blocks' = [blocks EXCEPT ![b] = Absent]
  /\ UNCHANGED step

\* Every field update looks the id up under the lock and gives up if it is gone.
Update(b, state) ==
  /\ b \in Registered
  /\ heap' = [heap EXCEPT ![blocks[b]] = state]
  /\ UNCHANGED <<blocks, step>>

\* alpha = 0.1: the moving average after a batch, and the maximum after it.
Smoothed(avg, mean) == (mean + 9 * avg) \div 10
Larger(x, y) == IF x >= y THEN x ELSE y

Faulty_WithAttention(s, a) ==         \* an accessed block keeps its maximum
  IF s.access_count = 0
  THEN [s EXCEPT !.avg_attention_score = a.mean, !.max_attention_score = a.max]
  ELSE [s EXCEPT !.avg_attention_score = Smoothed(@, a.mean)]
WithAttention(s, a) ==
  IF s.access_count = 0
  THEN [s EXCEPT !.avg_attention_score = a.mean, !.max_attention_score = a.max]
  ELSE [s EXCEPT !.avg_attention_score = Smoothed(@, a.mean),
                 !.max_attention_score = Larger(@, a.max)]

\* An array with no finite score returns before the lock and changes nothing.
UpdateAttention(b, a) == Update(b, WithAttention(heap[blocks[b]], a))

Faulty_Accessed(s, n) ==
  [s EXCEPT !.access_count = @ + 1, !.last_access_step = n]
Accessed(s, n) ==
  [s EXCEPT !.access_count = @ + 1, !.last_access_step = n, !.block_age_steps = n]

MarkAccessed(b, n) == Update(b, Accessed(heap[blocks[b]], n))

UpdateTier(b, t) == Update(b, [heap[blocks[b]] EXCEPT !.current_tier = t])

UpdateMemorySnapshot(b, m) == Update(b, [heap[blocks[b]] EXCEPT !.gpu_mem_mb = m])

SetImportanceScore(b, x) ==
  Update(b, [heap[blocks[b]] EXCEPT !.importance_score = x])

MarkPrefixReuse(b, f) ==
  Update(b, [heap[blocks[b]] EXCEPT !.prefix_reuse_flag = f])

\* The blocks of a completed request leave the dict; their tier is not touched.
ReleaseRequestBlocks(q) ==
  /\ BlocksOf(q) # {}
  /\ blocks' = [b \in BlockIds |-> IF b \in BlocksOf(q) THEN Absent ELSE blocks[b]]
  /\ UNCHANGED <<heap, step>>

\* One forward pass: the engine's step counter moves and every tracked block's
\* age is set to it.
Faulty_Aging == DOMAIN heap
Aging == TrackedRefs

IncrementAge ==
  /\ step < MaxStep
  /\ step' = step + 1
  /\ heap' = [r \in DOMAIN heap |->
                IF r \in Aging THEN [heap[r] EXCEPT !.block_age_steps = step + 1]
                               ELSE heap[r]]
  /\ UNCHANGED blocks

-----------------------------------------------------------------------------
\* The serving engine's calls.  It stamps an access with its current step.
ServingStep ==
  \/ \E b \in BlockIds, q \in RequestIds : RegisterBlock(b, q)
  \/ \E b \in BlockIds, a \in Attention : UpdateAttention(b, a)
  \/ \E b \in Registered : /\ heap[blocks[b]].access_count < MaxAccesses
                           /\ MarkAccessed(b, step)
  \/ \E b \in BlockIds, m \in MemSnapshots : UpdateMemorySnapshot(b, m)
  \/ \E b \in BlockIds, f \in BOOLEAN : MarkPrefixReuse(b, f)
  \/ \E q \in RequestIds : ReleaseRequestBlocks(q)
  \/ IncrementAge

\* The policy engine's calls: it never moves a block to the EVICTED tier with
\* update_tier, it removes it.
PolicyStep ==
  \/ \E b \in BlockIds : EvictBlock(b)
  \/ \E b \in BlockIds, t \in Tiers \ {"EVICTED"} : UpdateTier(b, t)
  \/ \E b \in BlockIds, x \in Importance : SetImportanceScore(b, x)

TrackerNext == ServingStep \/ PolicyStep

TrackerSpec == Init /\ [][TrackerNext]_trackerVars

-----------------------------------------------------------------------------
\* Types of the three variables; the dict only holds objects that exist.
TypeOK ==
  /\ heap \in Seq(BlockState)
  /\ blocks \in [BlockIds -> {Absent} \union DOMAIN heap]
  /\ step \in Nat

\* A lookup by id finds an object that carries this id and is not evicted:
\* the pop and the change of tier of evict_block, and the overwriting of a
\* registered id, leave no entry behind.
TrackedSound ==
  \A b \in Registered : /\ heap[blocks[b]].block_id = b
                        /\ heap[blocks[b]].current_tier # "EVICTED"

\* The running average of the attention never exceeds the maximum seen, for
\* the first batch, the smoothed ones, and any order of accesses and batches.
AttentionBounded ==
  \A r \in DOMAIN heap : heap[r].avg_attention_score <= heap[r].max_attention_score

\* The two step counters of a tracked block are ordered: it is never younger
\* than its last access, and neither is ahead of the engine.
StepsOrdered ==
  \A r \in TrackedRefs : /\ heap[r].last_access_step <= heap[r].block_age_steps
                         /\ heap[r].block_age_steps <= step

\* Objects that were registered once and have left the dict.
Removed == DOMAIN heap \ TrackedRefs

\* No later call touches an object that left the tracker or brings it back,
\* whatever stale references its readers still hold and whoever reuses its id.
RemovedFrozen ==
  [][\A r \in Removed : r \in Removed' /\ heap'[r] = heap[r]]_trackerVars

\* Seen through the identity of its objects, the tracker is a BlockLifecycle.
Lifecycle == INSTANCE BlockLifecycle
               WITH Ids <- BlockIds, Objects <- 1..MaxObjects, Nobody <- Absent,
                    holder <- blocks, gone <- Removed
LifecycleSpec == Lifecycle!Spec

\* update_attention documents an exponential moving average with alpha = 0.1,
\* so one batch lowers an average by a tenth of it at most.
AverageIsSmoothed ==
  [][\A r \in TrackedRefs :
       10 * heap'[r].avg_attention_score >= 9 * heap[r].avg_attention_score - 9]_trackerVars
=============================================================================
