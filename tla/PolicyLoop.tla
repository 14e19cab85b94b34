----------------------------- MODULE PolicyLoop -----------------------------
(***************************************************************************)
(* The life of the policy engine's background task: start, stop and _loop  *)
(* of src/src/cache_policies/policy_engine.py on one asyncio event loop.   *)
(*                                                                         *)
(* A coroutine runs until its next await, so a step of the model is what   *)
(* happens between two awaits.  A cycle awaits nothing that suspends: a    *)
(* task is either about to run, first or after its sleep ("ready"), or was *)
(* cancelled there and not told yet ("cancelled"), or is over ("done").    *)
(***************************************************************************)
EXTENDS Integers, Sequences

CONSTANTS Callers,   \* coroutines that call stop
          MaxTasks   \* bound: calls of start that create a task

ASSUME LoopAssumption == MaxTasks \in Nat

VARIABLES running,   \* _running
          task,      \* _task: the number of the last task created, 0 for None
          state,     \* of every task ever created
          awaiting   \* the task a caller of stop awaits, 0 for none

loopVars == <<running, task, state, awaiting>>

LoopInit == /\ running = FALSE /\ task = 0 /\ state = <<>>
            /\ awaiting = [c \in Callers |-> 0]

Start ==
  /\ ~running /\ Len(state) < MaxTasks
  /\ running' = TRUE /\ task' = Len(state) + 1
  /\ state' = Append(state, "ready")
  /\ UNCHANGED awaiting

\* Task.cancel() on a task that is not done
Faulty_Cancelled(t) == state            \* the flag alone is to end the loop
Cancelled(t) == [state EXCEPT ![t] = "cancelled"]

Stop(c) ==
  /\ awaiting[c] = 0 /\ running' = FALSE
  /\ IF task # 0 /\ state[task] # "done"
     THEN state' = Cancelled(task) /\ awaiting' = [awaiting EXCEPT ![c] = task]
     ELSE UNCHANGED <<state, awaiting>>
  /\ UNCHANGED task

\* The awaited task ended; its CancelledError is caught.
StopReturns(c) ==
  /\ awaiting[c] # 0 /\ state[awaiting[c]] = "done"
  /\ awaiting' = [awaiting EXCEPT ![c] = 0]
  /\ UNCHANGED <<running, task, state>>

\* What a cycle leaves of its task: an exception is logged, then the task sleeps.
Outcomes == {"ran", "raised"}
Faulty_AfterCycle(outcome) == IF outcome = "raised" THEN "done" ELSE "ready"
AfterCycle(outcome) == "ready"

\* One turn of the while loop, from the test of the flag to the sleep.
Turn(t) ==
  /\ state[t] = "ready"
  /\ \E outcome \in Outcomes :
       state' = [state EXCEPT ![t] = IF running THEN AfterCycle(outcome) ELSE "done"]
  /\ UNCHANGED <<running, task, awaiting>>

\* CancelledError is no Exception: it leaves _loop, from the sleep or unstarted.
Die(t) ==
  /\ state[t] = "cancelled" /\ state' = [state EXCEPT ![t] = "done"]
  /\ UNCHANGED <<running, task, awaiting>>

LoopNext == \/ Start
            \/ \E c \in Callers : Stop(c) \/ StopReturns(c)
            \/ \E t \in DOMAIN state : Turn(t) \/ Die(t)

LoopSpec == LoopInit /\ [][LoopNext]_loopVars

\* The event loop resumes whatever is ready.
LoopFairness == /\ \A c \in Callers : WF_loopVars(StopReturns(c))
                /\ \A t \in 1..MaxTasks : WF_loopVars(t \in DOMAIN state /\ (Turn(t) \/ Die(t)))

LoopFairSpec == LoopSpec /\ LoopFairness

-----------------------------------------------------------------------------
LoopTypeOK ==
  /\ running \in BOOLEAN /\ task \in Nat /\ awaiting \in [Callers -> 0..Len(state)]
  /\ state \in Seq({"ready", "cancelled", "done"})

Looping(t) == state[t] = "ready"

\* Whatever the order of starts and stops, at most one task will take another
\* turn, it is the one stop would cancel, and there is one as long as the engine
\* says it is running, errors in cycles notwithstanding.
OneLoop ==
  /\ \A t \in DOMAIN state : Looping(t) => running /\ t = task
  /\ running => task \in DOMAIN state /\ Looping(task)

\* stop returns, even if the engine is started again before it does.
EveryStopReturns == \A c \in Callers : awaiting[c] # 0 ~> awaiting[c] = 0
=============================================================================
