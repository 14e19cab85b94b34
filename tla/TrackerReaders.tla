--------------------------- MODULE TrackerReaders ---------------------------
(***************************************************************************)
(* The two accessors of BlockTracker that copy a list under the lock and   *)
(* work on its live objects after releasing it: get_memory_stats and       *)
(* get_candidate_blocks.  One reader thread calls them while the serving   *)
(* and policy engines of BlockTracker go on.  The dict order only breaks   *)
(* ties, so the objects are read in any order.                             *)
(***************************************************************************)
EXTENDS BlockTracker

CONSTANTS Strategies,    \* the strategies asked for
          MaxCandidates  \* the n asked for

ASSUME ReadersAssumption ==
  /\ Strategies \subseteq {"lru", "low_attention", "age", "importance"}
  /\ MaxCandidates \in Nat

VARIABLE reader  \* the call in progress, or the last one

readerVars == <<heap, blocks, step, reader>>

ReaderIdle == reader.pc \in {"idle", "returned"}
NoCounts == [t \in Tiers |-> 0]

ReaderInit == Init /\ reader = [pc |-> "idle"]

-----------------------------------------------------------------------------
\* get_memory_stats: the list, under the lock.
ListForStats ==
  /\ ReaderIdle
  /\ reader' = [pc |-> "counting", op |-> "stats", listed |-> TrackedRefs,
                todo |-> TrackedRefs, counts |-> NoCounts]
  /\ UNCHANGED trackerVars

\* The loop over the list reads the tier of one live object at a time.
CountOne(r) ==
  /\ reader.pc = "counting" /\ r \in reader.todo
  /\ reader' = [reader EXCEPT !.todo = @ \ {r},
                              !.counts[heap[r].current_tier] = @ + 1]
  /\ UNCHANGED trackerVars

\* total_blocks is the length of the copied list.
Faulty_TotalBlocks == Cardinality(TrackedRefs)
TotalBlocks == Cardinality(reader.listed)

ReturnStats ==
  /\ reader.pc = "counting" /\ reader.todo = {}
  /\ reader' = [pc |-> "returned", op |-> "stats", total |-> TotalBlocks,
                counts |-> reader.counts]
  /\ UNCHANGED trackerVars

\* get_candidate_blocks: the blocks on GPU, under the lock.
OnGpu == {r \in TrackedRefs : heap[r].current_tier \in GpuTiers}

ListCandidates(s) ==
  /\ ReaderIdle
  /\ reader' = [pc |-> "sorting", op |-> "candidates", strategy |-> s, listed |-> OnGpu]
  /\ UNCHANGED trackerVars

\* The sort keys, smallest first, read from the live objects.
Key(s, r) ==
  CASE s = "lru"           -> heap[r].last_access_step
    [] s = "low_attention" -> heap[r].avg_attention_score
    [] s = "age"           -> -heap[r].block_age_steps
    [] s = "importance"    -> heap[r].importance_score

\* The first n of a sort: n objects, none with a larger key than one left out.
FirstBy(s, listed, n) ==
  {C \in SUBSET listed :
     /\ Cardinality(C) = IF Cardinality(listed) < n THEN Cardinality(listed) ELSE n
     /\ \A r \in C, o \in listed \ C : Key(s, r) <= Key(s, o)}

ReturnCandidates ==
  /\ reader.pc = "sorting"
  /\ \E C \in FirstBy(reader.strategy, reader.listed, MaxCandidates) :
       reader' = [pc |-> "returned", op |-> "candidates",
                  strategy |-> reader.strategy, listed |-> reader.listed, result |-> C]
  /\ UNCHANGED trackerVars

-----------------------------------------------------------------------------
ReaderStep == \/ ListForStats
              \/ \E r \in DOMAIN heap : CountOne(r)
              \/ ReturnStats
              \/ \E s \in Strategies : ListCandidates(s)
              \/ ReturnCandidates

ReadersNext == \/ TrackerNext /\ UNCHANGED reader
               \/ ReaderStep

ReadersSpec == ReaderInit /\ [][ReadersNext]_readerVars

-----------------------------------------------------------------------------
Returned(op) == reader.pc = "returned" /\ reader.op = op

\* The per-tier counts of get_memory_stats add up to its total_blocks, however
\* many blocks are evicted, released or registered while it counts.
StatsAddUp ==
  Returned("stats") =>
    reader.total = reader.counts["GPU_FP16"] + reader.counts["GPU_QUANTIZED"]
                   + reader.counts["CPU_OFFLOADED"] + reader.counts["EVICTED"]

\* A read under the lock never meets an evicted block (TrackedSound), so
\* statistics that are read under the lock report none.
StatsSeeNoEvicted == Returned("stats") => reader.counts["EVICTED"] = 0

\* The candidates are copies: what the tracker does later does not show in them.
CandidatesAreSnapshots ==
  [][Returned("candidates") /\ reader' = reader
       => \A r \in reader.result : heap'[r] = heap[r]]_readerVars

\* With strategy "age", a block left out was not registered before one returned.
OldestFirst ==
  Returned("candidates") /\ reader.strategy = "age"
    => \A r \in reader.result, o \in reader.listed \ reader.result : r <= o
=============================================================================
