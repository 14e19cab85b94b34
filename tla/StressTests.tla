----------------------------- MODULE StressTests ----------------------------
(***************************************************************************)
(* StressTestRunner (src/src/benchmarks/stress_tests.py): five workloads,  *)
(* each of which launches coroutines that call the serving API, gathers    *)
(* them (exceptions included) and counts what they left behind.            *)
(*                                                                         *)
(* A coroutine is how many calls it has had answered and where it is: its  *)
(* next call "queued", "sent" to the server, or the coroutine "returned"   *)
(* or "raised".  Arrivals and the end of a workload are a matter of time,  *)
(* so any step; MaxWaves bounds how many waves of calls are launched.      *)
(***************************************************************************)
EXTENDS Integers, Sequences, FiniteSets, FiniteSetsExt

CONSTANTS Workloads,    \* the names of the tests that are run
          BurstSize,    \* of bursty_arrivals
          Requests,     \* num_variations, n_requests
          GuardConcurrency,     \* of the two tests with a semaphore
          Sessions, Turns,      \* of long_chat_session
          Ramp, Peak,   \* of memory_spike: int(ramp_up_s), peak_concurrency
          MaxWaves

Guarded == {"repeated_prefix_reuse", "mixed_context_batch"}

ASSUME StressAssumption ==
  /\ Workloads \subseteq Guarded \cup {"bursty_arrivals", "long_chat_session", "memory_spike"}
  /\ {BurstSize, Requests, GuardConcurrency, Sessions, Turns, Peak, MaxWaves} \subseteq Nat \ {0}
  /\ Ramp \in 0..MaxWaves

VARIABLES test, wave,   \* which workload, how many waves of it were launched
          launching,    \* whether more may come, or gather was called
          coroutines,   \* in the order of their creation
          outcome       \* the result, once gathered

stressVars == <<test, wave, launching, coroutines, outcome>>

None == <<>>
StressInit ==
  /\ test \in Workloads /\ wave = 0 /\ launching = TRUE /\ coroutines = <<>>
  /\ outcome = None

At(where) == {i \in DOMAIN coroutines : coroutines[i].at = where}
AllOver == \A i \in DOMAIN coroutines : coroutines[i].at \in {"returned", "raised"}

-----------------------------------------------------------------------------
Larger(a, b) == IF a > b THEN a ELSE b
RampSteps == Larger(1, Ramp)

\* How many coroutines the next wave has; the ramp of the spike starts with one.
WaveSize ==
  CASE test = "bursty_arrivals" -> BurstSize
    [] test \in Guarded -> Requests
    [] test = "long_chat_session" -> Sessions
    [] test = "memory_spike" ->
         IF wave < RampSteps THEN Larger(1, (Peak * wave) \div RampSteps) ELSE Peak

\* The fewest and the most waves; a ramp is never cut short.
Fewest == IF test = "memory_spike" THEN RampSteps ELSE 1
Most == IF test \in {"bursty_arrivals", "memory_spike"} THEN MaxWaves ELSE 1

CallsOf == IF test = "long_chat_session" THEN Turns ELSE 1

Launch ==
  /\ launching /\ wave < Most
  /\ coroutines' = coroutines \o [i \in 1..WaveSize |-> [answered |-> 0, at |-> "queued"]]
  /\ wave' = wave + 1 /\ UNCHANGED <<test, launching, outcome>>

Gather ==
  /\ launching /\ wave >= Fewest
  /\ launching' = FALSE /\ UNCHANGED <<test, wave, coroutines, outcome>>

-----------------------------------------------------------------------------
MaySend(i) ==
  test \in Guarded => Cardinality(At("sent")) < GuardConcurrency /\ i = Min(At("queued"))

SendCall(i) ==
  /\ i \in At("queued") /\ MaySend(i)
  /\ coroutines' = [coroutines EXCEPT ![i].at = "sent"] /\ UNCHANGED <<test, wave, launching, outcome>>

\* A session goes on to its next turn, the others return.
Answered(i) ==
  /\ i \in At("sent")
  /\ coroutines' = [coroutines EXCEPT ![i] =
                     [answered |-> @.answered + 1,
                      at |-> IF @.answered + 1 = CallsOf THEN "returned" ELSE "queued"]]
  /\ UNCHANGED <<test, wave, launching, outcome>>

\* A time-out or a status: the exception ends the coroutine, a session with all
\* the turns it still had, and what it had measured is lost.
Raised(i) ==
  /\ i \in At("sent")
  /\ coroutines' = [coroutines EXCEPT ![i].at = "raised"] /\ UNCHANGED <<test, wave, launching, outcome>>

-----------------------------------------------------------------------------
\* round(a / b, 4), in ten-thousandths
Rate(a, b) == IF b = 0 THEN 0 ELSE (20000 * a + b) \div (2 * b)

Measured == {m \in (DOMAIN coroutines) \X (1..CallsOf) : m[2] <= coroutines[m[1]].answered}

Faulty_Latencies == Measured      \* what a coroutine had measured before it raised is kept
Latencies == {m \in Measured : coroutines[m[1]].at # "raised"}

\* What the loop over the responses counts, and finalise.
Tally ==
  LET failed == Cardinality(At("raised"))
      total == Len(coroutines) * CallsOf
  IN [successful |-> Cardinality(Latencies), failed |-> failed, total |-> total,
      latencies |-> Latencies, errors |-> Rate(failed, total)]

Finish ==
  /\ ~launching /\ AllOver /\ outcome = None
  /\ outcome' = Tally /\ UNCHANGED <<test, wave, launching, coroutines>>

StressNext ==
  \/ Launch \/ Gather \/ Finish
  \/ \E i \in DOMAIN coroutines : SendCall(i) \/ Answered(i) \/ Raised(i)

\* Time passes, the loop runs what is ready, and the client gives up after 120 s.
StressFairness ==
  /\ WF_stressVars(Launch) /\ WF_stressVars(Gather) /\ WF_stressVars(Finish)
  /\ WF_stressVars(\E i \in DOMAIN coroutines : SendCall(i))
  /\ WF_stressVars(\E i \in DOMAIN coroutines : Answered(i) \/ Raised(i))

StressSpec == StressInit /\ [][StressNext]_stressVars

-----------------------------------------------------------------------------
\* The latencies of a result are those of the coroutines that returned, one for every
\* call each had to make; successful_requests is their number, so that percentiles and
\* throughput are about the same requests.
LatenciesTrue ==
  outcome # None =>
    /\ outcome.latencies = At("returned") \X (1..CallsOf)
    /\ outcome.successful = Cardinality(At("returned")) * CallsOf

\* The error rate is the share of the requests that were not successful: what fails
\* and what succeeds add up to the total.
ErrorRateTrue ==
  outcome # None => /\ outcome.successful + outcome.failed = outcome.total
                   /\ outcome.errors = Rate(outcome.total - outcome.successful, outcome.total)

\* In the tests with a semaphore at most `concurrency' requests are at the server,
\* also while others fail: a permit is given back on an exception too.
GuardHolds == test \in Guarded => Cardinality(At("sent")) <= GuardConcurrency

\* "Peak concurrency for memory spike test": no more than that many requests are
\* at the server at a time.
PeakHolds == test = "memory_spike" => Cardinality(At("sent")) <= Peak

\* A workload ends with a result however many of its requests fail.
WorkloadEnds == <>(outcome # None)
=============================================================================
