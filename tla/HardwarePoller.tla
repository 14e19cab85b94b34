--------------------------- MODULE HardwarePoller ---------------------------
(***************************************************************************)
(* The hardware-polling threads of SystemMetricsCollector (src/src/        *)
(* evaluators/system_metrics.py): start, stop and _poll_loop.              *)
(*                                                                         *)
(* One thread calls start and stop.  start does not look whether a poller  *)
(* runs; stop sets the event and joins the thread started last for two     *)
(* seconds, which a hung driver call outlasts.                             *)
(***************************************************************************)
EXTENDS Integers, FiniteSets

CONSTANTS MaxStarts,    \* bound: calls of start
          MayTimeOut    \* whether a poll may take longer than the join waits

ASSUME PollerAssumption == MaxStarts \in Nat /\ MayTimeOut \in BOOLEAN

VARIABLES control,  \* where the calling thread is
          stop,     \* the event _stop
          last,     \* _thread: the number of the thread started last, 0 for None
          thread    \* of every thread that is or may be started

vars == <<control, stop, last, thread>>

Threads == 1..MaxStarts
Controls == {"fresh", "started", "stopping", "stopped"}
ThreadStates == {"unborn", "waiting", "polling", "ending", "done"}

Init == /\ control = "fresh" /\ stop = FALSE /\ last = 0
        /\ thread = [t \in Threads |-> "unborn"]

\* _stop.wait as a thread enters it
Waits == IF stop THEN "ending" ELSE "waiting"

\* Event.set wakes whoever is in wait; clear does not take that back.
Woken == [t \in Threads |-> IF thread[t] = "waiting" THEN "ending" ELSE thread[t]]

Start ==
  /\ control # "stopping" /\ last < MaxStarts
  /\ control' = "started" /\ stop' = FALSE /\ last' = last + 1
  /\ thread' = [thread EXCEPT ![last'] = "waiting"]

Stop ==
  /\ control # "stopping"
  /\ control' = "stopping" /\ stop' = TRUE /\ thread' = Woken
  /\ UNCHANGED last

\* The join of stop returns.
Faulty_StopReturns ==         \* the thread is not joined
  /\ control = "stopping"
  /\ control' = "stopped" /\ UNCHANGED <<stop, last, thread>>
StopReturns ==
  /\ control = "stopping"
  /\ last # 0 /\ ~MayTimeOut => thread[last] = "done"
  /\ control' = "stopped" /\ UNCHANGED <<stop, last, thread>>

\* The interval is over: the thread begins to read the hardware.
Wake(t) ==
  /\ thread[t] = "waiting"
  /\ thread' = [thread EXCEPT ![t] = "polling"]
  /\ UNCHANGED <<control, stop, last>>

\* It publishes its snapshot and waits again.
Publish(t) ==
  /\ thread[t] = "polling"
  /\ thread' = [thread EXCEPT ![t] = Waits]
  /\ UNCHANGED <<control, stop, last>>

End(t) ==
  /\ thread[t] = "ending"
  /\ thread' = [thread EXCEPT ![t] = "done"]
  /\ UNCHANGED <<control, stop, last>>

Poller == \E t \in Threads : Wake(t) \/ Publish(t) \/ End(t)

Next == Start \/ Stop \/ StopReturns \/ Poller

\* A caller that starts a collector that is stopped, and no other.
Alternating == control \in {"fresh", "stopped"}

AlternatingSpec ==
  Init /\ [][(Alternating /\ Start) \/ Stop \/ StopReturns \/ Poller]_vars

\* Any order of calls.
Spec == Init /\ [][Next]_vars

-----------------------------------------------------------------------------
Alive(t) == thread[t] \in {"waiting", "polling"}

\* "polls hardware stats in a background thread": never do two poll at a time,
\* however often the collector is stopped and started.
OnePoller == \A t, u \in Threads : Alive(t) /\ Alive(u) => t = u

\* When stop has returned and start was not called since, no thread is left to
\* publish another snapshot.
StoppedIsQuiet == control = "stopped" => \A t \in Threads : ~Alive(t)

\* stop leaves nothing behind that start, or nobody, would poll beside.
PollersJoined == OnePoller /\ StoppedIsQuiet

=============================================================================
