---------------------------- MODULE PolicyEngine ----------------------------
(***************************************************************************)
(* One policy engine beside the serving engine, on one BlockTracker:       *)
(* _run_policy_cycle and apply_decisions of                                *)
(* src/src/cache_policies/policy_engine.py.                                *)
(*                                                                         *)
(* The cycle takes the tracker's lock once per call it makes, and between  *)
(* two calls the serving thread may do anything BlockTracker allows it.    *)
(* The list the cycle works on holds the live objects, so each of its      *)
(* steps sees the state of that moment.  A step of the model is one locked *)
(* call, or the reading of the listed objects by one statement.            *)
(***************************************************************************)
EXTENDS BlockTracker, Policies

CONSTANTS ActivePolicies,  \* policies the operator switches between
          ModelStatus,     \* of the learned policy: "absent" or "failing"
          ReuseIds,        \* may a block id be registered a second time?
          HistorySize,     \* stats_buffer_size
          MaxCycles        \* bound: the cycle counter saturates here

ASSUME EngineAssumption ==
  /\ ActivePolicies \subseteq PolicyNames
  /\ ModelStatus \in {"absent", "failing"} /\ ReuseIds \in BOOLEAN
  /\ HistorySize \in Nat /\ MaxCycles \in Nat

VARIABLES policy,       \* the active policy
          last_stats,   \* _last_stats of every policy object
          cycle,        \* the cycle in progress
          history,      \* _history, a ring buffer
          cycle_count

engineVars == <<policy, last_stats, cycle, history, cycle_count>>
vars == <<heap, blocks, step, policy, last_stats, cycle, history, cycle_count>>

NoStats == [timestamp |-> -1]
Idle == [pc |-> "idle"]

EngineInit ==
  /\ Init
  /\ policy \in ActivePolicies
  /\ last_stats = [p \in PolicyNames |-> NoStats]
  /\ cycle = Idle /\ history = <<>> /\ cycle_count = 0

\* Any order of the listed objects; the dict order only breaks ties.
Orders(S) == {s \in [1..Cardinality(S) -> S] : \A i, j \in DOMAIN s : s[i] = s[j] => i = j}

-----------------------------------------------------------------------------
\* get_all_blocks; an empty tracker ends the cycle before it starts.
Snapshot ==
  /\ cycle.pc = "idle" /\ TrackedRefs # {}
  /\ \E s \in Orders(TrackedRefs) : cycle' = [pc |-> "listed", listed |-> s]
  /\ UNCHANGED <<trackerVars, policy, last_stats, history, cycle_count>>

Live(c) == [i \in DOMAIN c.listed |-> heap[c.listed[i]]]

\* get_memory_stats: an int8 block takes half the bytes of an fp16 block.
GpuUsed == 2 * Cardinality({r \in TrackedRefs : heap[r].current_tier = "GPU_FP16"})
             + Cardinality({r \in TrackedRefs : heap[r].current_tier = "GPU_QUANTIZED"})
\* "placeholder until engine provides real values"
GpuFree == 0

Measure ==
  /\ cycle.pc = "listed"
  /\ cycle' = [pc |-> "measured", listed |-> cycle.listed,
               metrics |-> SystemMetrics(Live(cycle), GpuUsed, GpuFree, "unknown")]
  /\ UNCHANGED <<trackerVars, policy, last_stats, history, cycle_count>>

\* decide() leaves its statistics with the policy object that did the work: the
\* learned policy without a model delegates to its own H2O object.
Delegates == policy = "learned" /\ ModelStatus = "absent"

RunDecide ==
  /\ cycle.pc = "measured"
  /\ LET ds == Decide(policy, Live(cycle), cycle.metrics, [status |-> ModelStatus])
         stats == MakeStats(policy, ds, MemoryPressure(cycle.metrics), cycle_count)
     IN  /\ cycle' = [pc |-> "applying", listed |-> cycle.listed, decisions |-> ds,
                      at |-> 1, recorded |-> {}]
         /\ last_stats' = IF Delegates THEN last_stats ELSE [last_stats EXCEPT ![policy] = stats]
  /\ UNCHANGED <<trackerVars, policy, history, cycle_count>>

-----------------------------------------------------------------------------
\* _DECISION_TO_TIER
TierOf(d) == [KEEP_GPU |-> "GPU_FP16", QUANTIZE |-> "GPU_QUANTIZED",
              OFFLOAD_CPU |-> "CPU_OFFLOADED", EVICT |-> "EVICTED"][d]

Verdicts == cycle.decisions
Current == Verdicts[cycle.at]
At(pc) == cycle.pc = pc /\ cycle.at \in DOMAIN Verdicts
Advance(pc) == cycle' = [cycle EXCEPT !.pc = pc, !.at = @ + 1]

\* A call for an id that is no longer registered does nothing.
IfTracked(b, call) == IF b \in Registered THEN call ELSE UNCHANGED trackerVars

ApplyEvict ==
  /\ At("applying") /\ Current.decision = "EVICT"
  /\ IfTracked(Current.block_id, EvictBlock(Current.block_id))
  /\ Advance("applying")
  /\ UNCHANGED <<policy, last_stats, history, cycle_count>>

Faulty_ApplyTier ==      \* verdicts matched with a new list of blocks by position
  /\ At("applying") /\ Current.decision # "EVICT"
  /\ \E b \in Registered : UpdateTier(b, TierOf(Current.decision))
  /\ cycle' = [cycle EXCEPT !.pc = "scoring"]
  /\ UNCHANGED <<policy, last_stats, history, cycle_count>>

ApplyTier ==
  /\ At("applying") /\ Current.decision # "EVICT"
  /\ IfTracked(Current.block_id,
               UpdateTier(Current.block_id, TierOf(Current.decision)))
  /\ cycle' = [cycle EXCEPT !.pc = "scoring"]
  /\ UNCHANGED <<policy, last_stats, history, cycle_count>>

ApplyScore ==
  /\ At("scoring")
  /\ IfTracked(Current.block_id, SetImportanceScore(Current.block_id, Current.score))
  /\ Advance("applying")
  /\ UNCHANGED <<policy, last_stats, history, cycle_count>>

StartRecording ==
  /\ cycle.pc = "applying" /\ cycle.at \notin DOMAIN Verdicts
  /\ cycle' = [cycle EXCEPT !.pc = "recording", !.at = 1]
  /\ UNCHANGED <<trackerVars, policy, last_stats, history, cycle_count>>

\* get_block, then a record with the decision and the tier the object has now.
Record ==
  /\ At("recording")
  /\ LET b == Current.block_id
         r == [verdict |-> cycle.at, ref |-> blocks[b], tier |-> heap[blocks[b]].current_tier]
     IN  cycle' = [cycle EXCEPT !.at = @ + 1,
                                !.recorded = IF b \in Registered THEN @ \union {r} ELSE @]
  /\ UNCHANGED <<trackerVars, policy, last_stats, history, cycle_count>>

\* deque(maxlen=HistorySize)
Faulty_Pushed(h, x) == IF Len(h) = HistorySize THEN h ELSE Append(h, x)
Pushed(h, x) == IF Len(h) < HistorySize THEN Append(h, x) ELSE Tail(Append(h, x))

FinishCycle ==
  /\ cycle.pc = "recording" /\ cycle.at \notin DOMAIN Verdicts
  /\ history' = IF last_stats[policy] = NoStats THEN history
                ELSE Pushed(history, last_stats[policy])
  /\ cycle_count' = IF cycle_count < MaxCycles THEN cycle_count + 1 ELSE cycle_count
  /\ cycle' = Idle
  /\ UNCHANGED <<trackerVars, policy, last_stats>>

\* Called on the event loop, where no cycle is in progress.
OverridePolicy(p) ==
  /\ cycle.pc = "idle" /\ p # policy
  /\ policy' = p
  /\ UNCHANGED <<trackerVars, last_stats, cycle, history, cycle_count>>

CycleStep == \/ Snapshot
             \/ Measure
             \/ RunDecide
             \/ ApplyEvict
             \/ ApplyTier
             \/ ApplyScore
             \/ StartRecording
             \/ Record
             \/ FinishCycle

FreshIds ==
  \A r \in DOMAIN heap' \ DOMAIN heap, o \in DOMAIN heap : heap'[r].block_id # heap[o].block_id

Next == \/ ServingStep /\ (ReuseIds \/ FreshIds) /\ UNCHANGED engineVars
        \/ CycleStep
        \/ \E p \in ActivePolicies : OverridePolicy(p)

Spec == EngineInit /\ [][Next]_vars

\* The loop runs a cycle every interval, and each call of a cycle returns.
Fairness == WF_vars(CycleStep)
FairSpec == Spec /\ Fairness

-----------------------------------------------------------------------------
Listed == {cycle.listed[i] : i \in DOMAIN cycle.listed}

\* When the verdicts have been applied, every block of the snapshot that is
\* still tracked is where its verdict puts it, with the score of that verdict,
\* whatever the serving engine did meanwhile to it or to its id.
Placement == [KEEP_GPU |-> "GPU_FP16", QUANTIZE |-> "GPU_QUANTIZED",
              OFFLOAD_CPU |-> "CPU_OFFLOADED"]
VerdictsHold ==
  cycle.pc = "recording" =>
    \A i \in DOMAIN Verdicts :
      LET v == Verdicts[i]
          r == blocks[v.block_id]
      IN  r \in Listed => /\ v.decision # "EVICT"
                          /\ heap[r].current_tier = Placement[v.decision]
                          /\ heap[r].importance_score = v.score

\* A cycle changes the placement of the blocks it looked at and of no other.
OnlyListedBlocksMoved ==
  [][CycleStep => \A r \in TrackedRefs :
       heap'[r].current_tier # heap[r].current_tier => r \in Listed]_vars

\* What a cycle moves carries an id it looked at: the block itself, or one that
\* was registered under this id since.
OnlyListedIdsMoved ==
  [][CycleStep => \A r \in TrackedRefs :
       heap'[r].current_tier # heap[r].current_tier =>
         heap[r].block_id \in {heap[l].block_id : l \in Listed}]_vars

\* A telemetry record of a block the cycle looked at shows it in the tier its
\* decision put it in.
RecordsTruthful ==
  cycle.pc = "recording" =>
    \A t \in cycle.recorded :
      t.ref \in Listed => t.tier = TierOf(Verdicts[t.verdict].decision)

\* The record of a decision describes the block the decision was about.
RecordsOfListedBlocks ==
  cycle.pc = "recording" => \A t \in cycle.recorded : t.ref \in Listed

\* policy_engine.py: "emits TelemetryRecord events for each block decision", the
\* decisions to evict included.
EvictionsRecorded ==
  [][FinishCycle => \A i \in DOMAIN Verdicts :
       Verdicts[i].decision = "EVICT" => \E t \in cycle.recorded : t.verdict = i]_vars

\* base.py: "importance score in [0, 1]".
ScoreIsFraction ==
  cycle.pc \in {"applying", "scoring", "recording"} =>
    \A i \in DOMAIN Verdicts : Verdicts[i].score \in 0..Unit

\* Every finished cycle leaves its own statistics at the end of the ring: the
\* blocks it judged, by the policy that judged them.
HistoryShowsCycle ==
  [][FinishCycle => /\ history' # <<>>
                    /\ history'[Len(history')].timestamp = cycle_count
                    /\ history'[Len(history')].policy_name = policy
                    /\ history'[Len(history')].num_blocks_evaluated = Len(Verdicts)]_vars

\* quantize_only keeps blocks quantised: it takes a block back to fp16 only
\* when the block is no longer among the low-attention ones.
LowAttentionStaysQuantised ==
  [][ApplyTier /\ policy = "quantize_only" =>
       \A r \in TrackedRefs :
         heap[r].current_tier = "GPU_QUANTIZED" /\ heap[r].avg_attention_score = 0
           => heap'[r].current_tier = "GPU_QUANTIZED"]_vars

\* Once registrations stop and the operator settles on sliding_window, it brings
\* the tracker down to the sinks and the window, and keeps it there.
WindowReached ==
  <>[](policy = "sliding_window") =>
    <>[](Cardinality(TrackedRefs) <= SinkTokenBlocks + SlidingWindowBlocks)
=============================================================================
