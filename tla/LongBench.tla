----------------------------- MODULE LongBench ------------------------------
(***************************************************************************)
(* LongBenchRunner (src/src/benchmarks/longbench.py): run_all_async takes  *)
(* the tasks in order, run_task_async sends the samples of one of them to  *)
(* the serving API, at most `concurrency' at a time, and gathers what the  *)
(* calls left behind.                                                      *)
(*                                                                         *)
(* A sample is its index.  Answers come in any order; a call fails by a    *)
(* time-out, a refused connection, a status or a body that does not parse. *)
(* A text is right, with score Whole, or wrong, with score 0, and a sample *)
(* without a text ("") counts as wrong.                                    *)
(***************************************************************************)
EXTENDS Counting, Integers, Sequences, FiniteSets, FiniteSetsExt, SequencesExt

CONSTANTS Samples,      \* of every task, in order: how many samples are loaded
          Concurrency,
          Whole         \* a score of 1.0, a multiple of every number of samples

ASSUME BenchAssumption ==
  /\ Samples \in Seq(Nat) /\ Concurrency \in Nat \ {0} /\ Whole \in Nat
  /\ \A k \in DOMAIN Samples : Samples[k] # 0 => Whole % Samples[k] = 0

VARIABLES task,         \* the task being run
          call,         \* of its samples: where the coroutine _call is
          predictions,  \* by sample: <<sample, right>> for the text of an answer
          latencies,    \* the samples whose latency was recorded, in order
          failed,
          task_results, \* a record for each finished task
          aggregate     \* aggregate_quality, in units of Whole

benchVars == <<task, call, predictions, latencies, failed, task_results, aggregate>>
calling == <<task, task_results, aggregate>>

NoText == <<0, FALSE>>
Queued(k) == [i \in 1..(IF k \in DOMAIN Samples THEN Samples[k] ELSE 0) |-> "queued"]

BenchInit ==
  /\ task = 1 /\ call = Queued(1)
  /\ predictions = [i \in DOMAIN call |-> NoText]
  /\ latencies = <<>> /\ failed = 0 /\ task_results = <<>> /\ aggregate = -1

Running == task \in DOMAIN Samples
In(where) == {i \in DOMAIN call : call[i] = where}

-----------------------------------------------------------------------------
\* The semaphore lets the calls in, first come first served.
Permit == Cardinality(In("sent")) < Concurrency

Send(i) ==
  /\ Running /\ In("queued") # {} /\ i = Min(In("queued")) /\ Permit
  /\ call' = [call EXCEPT ![i] = "sent"]
  /\ UNCHANGED <<calling, predictions, latencies, failed>>

Faulty_Answer(i, right) ==      \* appended in the order of the answers
  /\ i \in In("sent") /\ call' = [call EXCEPT ![i] = "over"]
  /\ predictions' = [predictions EXCEPT ![Len(latencies) + 1] = <<i, right>>]
  /\ latencies' = Append(latencies, i)
  /\ UNCHANGED <<calling, failed>>
Answer(i, right) ==
  /\ i \in In("sent") /\ call' = [call EXCEPT ![i] = "over"]
  /\ predictions' = [predictions EXCEPT ![i] = <<i, right>>]
  /\ latencies' = Append(latencies, i)
  /\ UNCHANGED <<calling, failed>>

\* The answer has no text.
AnswerEmpty(i) ==
  /\ i \in In("sent") /\ call' = [call EXCEPT ![i] = "over"]
  /\ latencies' = Append(latencies, i)
  /\ UNCHANGED <<calling, predictions, failed>>

Fail(i) ==
  /\ i \in In("sent") /\ call' = [call EXCEPT ![i] = "over"]
  /\ failed' = failed + 1
  /\ UNCHANGED <<calling, predictions, latencies>>

-----------------------------------------------------------------------------
\* The mean over all samples of the task, those that failed included.
Quality ==
  Cardinality({i \in DOMAIN call : predictions[i][2]}) * (Whole \div Samples[task])

Finished == [n |-> Samples[task], score |-> Quality, predictions |-> predictions,
             latencies |-> latencies, failed |-> failed]

EmptyResult == [n |-> 0, score |-> -1, predictions |-> <<>>, latencies |-> <<>>, failed |-> 0]

\* compute_aggregate: the macro-average of the tasks that had samples
Aggregate(done) ==
  LET scored == {k \in DOMAIN done : done[k].score >= 0}
  IN IF scored = {} THEN 0
     ELSE SumOf([k \in scored |-> done[k].score]) \div Cardinality(scored)

\* gather returns; the next task is started, or the aggregate computed.
Faulty_FinishTask ==            \* a call's exception leaves gather
  /\ Running /\ failed = 0 /\ \A i \in DOMAIN call : call[i] = "over"
  /\ task_results' = Append(task_results, IF Samples[task] = 0 THEN EmptyResult ELSE Finished)
  /\ task' = task + 1 /\ call' = Queued(task')
  /\ predictions' = [i \in DOMAIN call' |-> NoText] /\ latencies' = <<>>
  /\ aggregate' = IF task = Len(Samples) THEN Aggregate(task_results') ELSE aggregate
  /\ UNCHANGED failed
FinishTask ==
  /\ Running /\ \A i \in DOMAIN call : call[i] = "over"
  /\ task_results' = Append(task_results, IF Samples[task] = 0 THEN EmptyResult ELSE Finished)
  /\ task' = task + 1 /\ call' = Queued(task')
  /\ predictions' = [i \in DOMAIN call' |-> NoText] /\ latencies' = <<>> /\ failed' = 0
  /\ aggregate' = IF task = Len(Samples) THEN Aggregate(task_results') ELSE aggregate

BenchNext ==
  \/ \E i \in DOMAIN call : \/ Send(i) \/ AnswerEmpty(i) \/ Fail(i)
                            \/ \E right \in BOOLEAN : Answer(i, right)
  \/ FinishTask

\* Every call ends: the client gives up after 120 seconds.
BenchFairness ==
  /\ WF_benchVars(\E i \in DOMAIN call : Send(i)) /\ WF_benchVars(FinishTask)
  /\ WF_benchVars(\E i \in DOMAIN call :
                    \/ AnswerEmpty(i) \/ Fail(i) \/ \E right \in BOOLEAN : Answer(i, right))

BenchSpec == BenchInit /\ [][BenchNext]_benchVars

-----------------------------------------------------------------------------
\* In every result the text at a position is the answer to the sample at that
\* position, in whatever order the answers came: the references are in the order
\* of the samples.
PredictionsInPlace ==
  \A k \in DOMAIN task_results : \A i \in DOMAIN task_results[k].predictions :
    task_results[k].predictions[i] \in {NoText, <<i, TRUE>>, <<i, FALSE>>}

\* Every sample of a finished task is a latency or a failure and not both, and one
\* with a text is no failure.
EveryCallCounted ==
  \A k \in DOMAIN task_results :
    LET r == task_results[k]
        timed == ToSet(r.latencies)
    IN /\ Len(r.latencies) = Cardinality(timed) /\ Len(r.latencies) + r.failed = Samples[k]
       /\ \A i \in DOMAIN r.predictions : r.predictions[i] # NoText => i \in timed

\* So a result is true of the calls it came from.
ResultsTrue == PredictionsInPlace /\ EveryCallCounted

\* Never more than `concurrency' requests are at the server at a time.
ConcurrencyBound == Cardinality(In("sent")) <= Concurrency

\* Each text is with its sample, each call counted once, and the permits are kept.
BenchmarksTrue == ResultsTrue /\ ConcurrencyBound

\* The aggregate lies between the scores of the worst and the best task that had
\* samples; tasks without samples do not pull it down.
AggregateInRange ==
  LET scores == {task_results[k].score : k \in {k \in DOMAIN task_results : Samples[k] > 0}}
  IN ~Running /\ scores # {} => aggregate \in Min(scores)..Max(scores)

\* However many calls fail, a run comes to its end with a result for each task.
RunEnds == <>(~Running /\ Len(task_results) = Len(Samples))
=============================================================================
