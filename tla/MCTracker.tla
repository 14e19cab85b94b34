------------------------------ MODULE MCTracker ------------------------------
(***************************************************************************)
(* Four small instances of the tracker, one per behaviour, each with the   *)
(* data its hazards need: ids that are registered again, scores and steps  *)
(* of one block, a reader beside the writers, and two threads whose        *)
(* methods run step by step.                                               *)
(***************************************************************************)
EXTENDS TrackerReaders

CONSTANTS ra, rb, ta, tb

VARIABLES scenario,
          objects, dict, clock,  \* the heap, dict and step of the threads
          lock, call

threadVars == <<objects, dict, clock, lock, call>>

Batches == {[mean |-> 0, max |-> 0], [mean |-> 6, max |-> 10], [mean |-> 20, max |-> 20]}
OneBatch == {[mean |-> 6, max |-> 10]}
OneRequest == {ra}

Fields == INSTANCE BlockTracker
            WITH RequestIds <- OneRequest, Attention <- Batches, Importance <- {3},
                 MemSnapshots <- {1}, MaxObjects <- 1, MaxAccesses <- 2, MaxStep <- 2
Reading == INSTANCE TrackerReaders
             WITH RequestIds <- OneRequest, MaxObjects <- 2, MaxAccesses <- 1
Locked == INSTANCE TrackerLock
            WITH heap <- objects, blocks <- dict, step <- clock, Threads <- {ta, tb},
                 Attention <- OneBatch, Importance <- {3}, MemSnapshots <- {1}, MaxAccesses <- 1
LockedIds == INSTANCE TrackerLock
               WITH heap <- objects, blocks <- dict, step <- clock, Threads <- {ta, tb},
                    MaxObjects <- 2
LockedFields == INSTANCE TrackerLock
                  WITH heap <- objects, blocks <- dict, step <- clock, Threads <- {ta, tb},
                       RequestIds <- OneRequest, Attention <- OneBatch, Importance <- {3},
                       MemSnapshots <- {1}, MaxObjects <- 1, MaxAccesses <- 1

MCInit == /\ ReaderInit /\ Locked!LockInit
          /\ scenario \in {"ids", "fields", "reading", "locked ids", "locked fields"}

MCNext ==
  \/ scenario = "ids" /\ TrackerNext /\ UNCHANGED <<reader, threadVars, scenario>>
  \/ scenario = "fields" /\ Fields!TrackerNext /\ UNCHANGED <<reader, threadVars, scenario>>
  \/ scenario = "reading" /\ Reading!ReadersNext /\ UNCHANGED <<threadVars, scenario>>
  \/ scenario = "locked ids" /\ LockedIds!LockNext /\ UNCHANGED <<readerVars, scenario>>
  \/ scenario = "locked fields" /\ LockedFields!LockNext /\ UNCHANGED <<readerVars, scenario>>

MCSpec == MCInit /\ [][MCNext]_<<readerVars, threadVars, scenario>>

\* Every method takes effect at once, when it takes the lock: AtomicSpec of
\* TrackerLock.  (Its step formula is spelled out to spare TLC the scenarios in
\* which no thread moves.)
CallsAreAtomic ==
  /\ Locked!Atomic!Init
  /\ [][UNCHANGED threadVars \/ Locked!Atomic!TrackerNext]_(Locked!Atomic!trackerVars)
=============================================================================
