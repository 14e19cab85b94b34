----------------------------- MODULE TrackerLock -----------------------------
(***************************************************************************)
(* The bodies of the tracker's methods, step by step, in several threads.  *)
(* BlockTracker takes each public method as one action; this module says   *)
(* why it may.  A method takes the lock, looks up what it works on, makes  *)
(* its pops and assignments one at a time, and leaves the lock.  Between   *)
(* two of them other threads run, and only the lock keeps them out.        *)
(*                                                                         *)
(* An assignment reads its operands when it is made, and those of one body *)
(* are made in any order.  The lock is re-entrant, which no method uses.   *)
(***************************************************************************)
EXTENDS BlockTracker

CONSTANT Threads  \* the threads that call the tracker

VARIABLES lock,  \* _lock: the threads inside it
          call   \* thread -> the method it is in, and what is left of its body

lockVars == <<heap, blocks, step, lock, call>>

\* The fields each method assigns.
Assigned ==
  [update_attention       |-> {"avg_attention_score", "max_attention_score"},
   mark_accessed          |-> {"access_count", "last_access_step", "block_age_steps"},
   update_tier            |-> {"current_tier"},
   update_memory_snapshot |-> {"gpu_mem_mb"},
   set_importance_score   |-> {"importance_score"},
   mark_prefix_reuse      |-> {"prefix_reuse_flag"},
   evict_block            |-> {"current_tier"},
   increment_age          |-> {"block_age_steps"}]

\* What a call makes of an object once all its assignments are made.
After(c, s) ==
  CASE c.method = "update_attention"       -> WithAttention(s, c.arg)
    [] c.method = "mark_accessed"          -> Accessed(s, c.arg)
    [] c.method = "update_tier"            -> [s EXCEPT !.current_tier = c.arg]
    [] c.method = "update_memory_snapshot" -> [s EXCEPT !.gpu_mem_mb = c.arg]
    [] c.method = "set_importance_score"   -> [s EXCEPT !.importance_score = c.arg]
    [] c.method = "mark_prefix_reuse"      -> [s EXCEPT !.prefix_reuse_flag = c.arg]
    [] c.method = "evict_block"            -> [s EXCEPT !.current_tier = c.arg]
    [] c.method = "increment_age"          -> [s EXCEPT !.block_age_steps = c.arg]

\* One of the assignments.
Assign(c, s, f) == [s EXCEPT ![f] = After(c, s)[f]]

NoCall == [method |-> "none", pops |-> {}, writes |-> {}]

\* A call that has the fields that m assigns to the objects in refs ahead of it.
Assigning(m, x, refs) ==
  [method |-> m, arg |-> x, pops |-> {}, writes |-> refs \X Assigned[m]]

LockInit == Init /\ lock = {} /\ call = [t \in Threads |-> NoCall]

-----------------------------------------------------------------------------
Take(t) == lock = {} /\ lock' = {t}

Enter(t, c) == Take(t) /\ call' = [call EXCEPT ![t] = c]

\* One store: nothing of the body is left after it.
Register(t, b, q) == Enter(t, NoCall) /\ RegisterBlock(b, q)

\* The pop, before the tier of the object it returned is set.
Evict(t, b) ==
  /\ b \in Registered
  /\ Enter(t, Assigning("evict_block", "EVICTED", {blocks[b]}))
  /\ blocks' = [blocks EXCEPT ![b] = Absent]
  /\ UNCHANGED <<heap, step>>

\* The lookup of every field update.
Find(t, b, m, x) ==
  /\ b \in Registered
  /\ Enter(t, Assigning(m, x, {blocks[b]}))
  /\ UNCHANGED trackerVars

\* The ids of the request are listed first.
Faulty_Release(t, q) ==               \* released without the lock
  /\ lock # {t} /\ call[t] = NoCall
  /\ BlocksOf(q) # {}
  /\ call' = [call EXCEPT ![t] = [NoCall EXCEPT !.pops = BlocksOf(q)]]
  /\ UNCHANGED <<lock, heap, blocks, step>>
Release(t, q) ==
  /\ BlocksOf(q) # {}
  /\ Enter(t, [NoCall EXCEPT !.pops = BlocksOf(q)])
  /\ UNCHANGED trackerVars

\* The engine's step has moved when it calls increment_age with it.
Age(t) ==
  /\ step < MaxStep
  /\ step' = step + 1
  /\ Enter(t, Assigning("increment_age", step + 1, TrackedRefs))
  /\ UNCHANGED <<heap, blocks>>

\* The rest of a body: a pop, or an assignment.
PopOne(t, b) ==
  /\ b \in call[t].pops
  /\ blocks' = [blocks EXCEPT ![b] = Absent]
  /\ call' = [call EXCEPT ![t].pops = @ \ {b}]
  /\ UNCHANGED <<heap, step, lock>>

AssignOne(t, w) ==
  /\ w \in call[t].writes
  /\ LET r == w[1]
         f == w[2]
     IN  heap' = [heap EXCEPT ![r] = Assign(call[t], @, f)]
  /\ call' = [call EXCEPT ![t].writes = @ \ {w}]
  /\ UNCHANGED <<blocks, step, lock>>

Leave(t) ==
  /\ t \in lock
  /\ call[t].pops = {} /\ call[t].writes = {}
  /\ lock' = lock \ {t}
  /\ call' = [call EXCEPT ![t] = NoCall]
  /\ UNCHANGED trackerVars

-----------------------------------------------------------------------------
\* The calls of the serving and policy engines, in any thread.
Begin(t) ==
  \/ \E b \in BlockIds, q \in RequestIds : Register(t, b, q)
  \/ \E b \in BlockIds : Evict(t, b)
  \/ \E b \in BlockIds, a \in Attention : Find(t, b, "update_attention", a)
  \/ \E b \in Registered : /\ heap[blocks[b]].access_count < MaxAccesses
                           /\ Find(t, b, "mark_accessed", step)
  \/ \E b \in BlockIds, x \in Tiers \ {"EVICTED"} : Find(t, b, "update_tier", x)
  \/ \E b \in BlockIds, m \in MemSnapshots : Find(t, b, "update_memory_snapshot", m)
  \/ \E b \in BlockIds, x \in Importance : Find(t, b, "set_importance_score", x)
  \/ \E b \in BlockIds, f \in BOOLEAN : Find(t, b, "mark_prefix_reuse", f)
  \/ \E q \in RequestIds : Release(t, q)
  \/ Age(t)

LockNext ==
  \E t \in Threads : \/ Begin(t)
                     \/ \E b \in BlockIds : PopOne(t, b)
                     \/ \E w \in call[t].writes : AssignOne(t, w)
                     \/ Leave(t)

LockSpec == LockInit /\ [][LockNext]_lockVars

-----------------------------------------------------------------------------
\* The tracker as it will be when the calls in progress have made the rest of
\* their bodies.
BlocksDone ==
  [b \in BlockIds |-> IF \E t \in Threads : b \in call[t].pops THEN Absent ELSE blocks[b]]

Writers(r, f) == {t \in Threads : <<r, f>> \in call[t].writes}

FieldDone(r, f) ==
  IF Writers(r, f) = {} THEN heap[r][f]
  ELSE After(call[CHOOSE t \in Writers(r, f) : TRUE], heap[r])[f]

HeapDone == [r \in DOMAIN heap |-> [f \in DOMAIN heap[r] |-> FieldDone(r, f)]]

\* Every method takes effect at once, when it takes the lock: seen with the
\* bodies in progress done, the threads' steps are those of BlockTracker, and
\* the rest of a body changes nothing.  Were the ids of a request listed under
\* the lock and popped outside it, an id that was registered again in between
\* would lose its new block.
Atomic == INSTANCE BlockTracker WITH heap <- HeapDone, blocks <- BlocksDone
AtomicSpec == Atomic!TrackerSpec
=============================================================================
