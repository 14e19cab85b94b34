------------------------------- MODULE Serving -------------------------------
(***************************************************************************)
(* Requests on their way through the server: the generate and batch        *)
(* endpoints of src/src/serving/api_server.py, the registry of             *)
(* request_handler.py and the in-flight table of vllm_engine.py.           *)
(*                                                                         *)
(* Everything runs on one event loop and the registry's lock is never held *)
(* across an await, so a request takes two steps: up to the await on the   *)
(* language model, and from its result to the answer.  The model itself    *)
(* (vLLM, or the mock without it) is external: it answers or raises.       *)
(***************************************************************************)
EXTENDS Naturals, Sequences, FiniteSets

CONSTANTS Calls,          \* calls of /v1/generate
          Batch,          \* calls that make up one /v1/batch, in order
          BatchLimit,     \* its max_concurrency
          Ids,            \* request ids
          SharedIds,      \* may two calls name the same request id?
          ErrorTexts,     \* str() of the exceptions the model raises, "" or not
          MaxConcurrent,  \* max_concurrent of the handler
          MaxCompleted,   \* _max_completed
          Nobody

ASSUME ServingAssumption ==
  /\ Batch \in Seq(Calls) /\ BatchLimit \in Nat \ {0} /\ SharedIds \in BOOLEAN
  /\ ErrorTexts # {}
  /\ MaxConcurrent \in Nat /\ MaxCompleted \in Nat \ {0} /\ Nobody \notin Ids

VARIABLES server,     \* the lifespan: "down", "up", "failed" or "stopped"
          call,       \* of every call: "new", "queued", "running" or how it ended
          id,         \* the request id of every call that was submitted
          records,    \* _records: request id -> RequestRecord
          completed,  \* _completed
          in_flight,  \* the engine's _in_flight
          permits,    \* of the batch's semaphore
          active,     \* the gauge kv_active_requests
          depth       \* the gauge kv_queue_depth

vars == <<server, call, id, records, completed, in_flight, permits, active, depth>>

InBatch(c) == \E i \in DOMAIN Batch : Batch[i] = c
Running(c) == call[c] = "running"
Answered(c) == call[c] \in {"ok", "error"}

Init ==
  /\ server = "down" /\ call = [c \in Calls |-> "new"] /\ id = [c \in Calls |-> Nobody]
  /\ records = <<>> /\ completed = <<>> /\ in_flight = {}
  /\ permits = BatchLimit /\ active = 0 /\ depth = 0

\* _records as a function on the ids it holds
Put(i, rec) == [j \in DOMAIN records \union {i} |-> IF j = i THEN rec ELSE records[j]]
Drop(i) == [j \in DOMAIN records \ {i} |-> records[j]]

\* lifespan up to its yield: a configuration that cannot be read is replaced by the
\* defaults, an engine that cannot be built ends the server.
Startup ==
  /\ server = "down" /\ server' \in {"up", "failed"}
  /\ UNCHANGED <<call, id, records, completed, in_flight, permits, active, depth>>

\* _get_engine: 503 without a lifespan
Refuse(c) ==
  /\ server = "down" /\ call[c] = "new" /\ call' = [call EXCEPT ![c] = "refused"]
  /\ UNCHANGED <<server, id, records, completed, in_flight, permits, active, depth>>

\* submit, mark_started, the gauges, and engine.generate up to its await
Begin(c, i) ==
  /\ server = "up" /\ (SharedIds \/ \A d \in Calls : id[d] # i)
  /\ records' = Put(i, [request_id |-> i, of |-> c, status |-> "in_progress"])
  /\ id' = [id EXCEPT ![c] = i]
  /\ in_flight' = in_flight \union {i}
  /\ active' = active + 1 /\ depth' = Cardinality(DOMAIN records')
  /\ call' = [call EXCEPT ![c] = "running"] /\ UNCHANGED <<server, completed>>

Generate(c) ==
  /\ ~InBatch(c) /\ call[c] = "new" /\ \E i \in Ids : Begin(c, i)
  /\ UNCHANGED permits

\* gather schedules every call of the batch at once; the semaphore is fair.
BatchGenerate ==
  /\ server = "up" /\ Batch # <<>> /\ \A i \in DOMAIN Batch : call[Batch[i]] = "new"
  /\ call' = [c \in Calls |-> IF InBatch(c) THEN "queued" ELSE call[c]]
  /\ UNCHANGED <<server, id, records, completed, in_flight, permits, active, depth>>

BatchNext ==
  /\ permits > 0
  /\ \E n \in DOMAIN Batch :
       /\ call[Batch[n]] = "queued" /\ \A m \in 1..n - 1 : call[Batch[m]] # "queued"
       /\ \E i \in Ids : Begin(Batch[n], i)
  /\ permits' = permits - 1

\* mark_completed: "FAILED if error else COMPLETED", and the record of that id,
\* if any, moves to the completed ring.
NoError == ""
StatusOf(error) == IF error = NoError THEN "completed" ELSE "failed"

Faulty_Archived(i, status) ==          \* the failure is not noted
  IF i \notin DOMAIN records THEN completed
  ELSE Append(completed, [records[i] EXCEPT !.status = "completed"])

Archived(i, status) ==
  IF i \notin DOMAIN records THEN completed
  ELSE LET all == Append(completed, [records[i] EXCEPT !.status = status])
       IN  IF Len(all) > MaxCompleted THEN Tail(all) ELSE all

MarkCompleted(c, error) ==
  /\ completed' = Archived(id[c], StatusOf(error)) /\ records' = Drop(id[c])

\* the finally clause, and the end of the batch's "async with"
Faulty_Leave(c) ==                     \* no finally
  /\ active' = IF call'[c] = "ok" THEN active - 1 ELSE active
  /\ permits' = IF InBatch(c) /\ call'[c] = "ok" THEN permits + 1 ELSE permits

Leave(c) ==
  /\ active' = active - 1
  /\ permits' = IF InBatch(c) THEN permits + 1 ELSE permits

ModelAnswers(c) ==
  /\ Running(c)
  /\ in_flight' = in_flight \ {id[c]}
  /\ call' = [call EXCEPT ![c] = "ok"]
  /\ MarkCompleted(c, NoError) /\ Leave(c)
  /\ UNCHANGED <<server, id, depth>>

\* The exception passes engine.generate, which has no handler.
ModelRaises(c) ==
  /\ Running(c)
  /\ call' = [call EXCEPT ![c] = "error"]
  /\ \E error \in ErrorTexts : MarkCompleted(c, error)
  /\ Leave(c)
  /\ UNCHANGED <<server, id, in_flight, depth>>

\* The server cancels what still runs when its grace is over, then lifespan ends.
\* CancelledError passes "except Exception", but not the finally clauses.
Stop ==
  /\ server = "up" /\ server' = "stopped"
  /\ call' = [c \in Calls |-> IF call[c] \in {"queued", "running"} THEN "cancelled" ELSE call[c]]
  /\ active' = active - Cardinality({c \in Calls : Running(c)})
  /\ permits' = permits + Cardinality({c \in Calls : Running(c) /\ InBatch(c)})
  /\ UNCHANGED <<id, records, completed, in_flight, depth>>

Next == \/ \E c \in Calls : \/ Generate(c)
                            \/ ModelAnswers(c)
                            \/ ModelRaises(c)
                            \/ Refuse(c)
        \/ Startup \/ Stop
        \/ BatchGenerate
        \/ BatchNext

Spec == Init /\ [][Next]_vars

\* The model answers or raises, and the event loop runs what it may.
Fairness == /\ \A c \in Calls : WF_vars(ModelAnswers(c) \/ ModelRaises(c))
            /\ WF_vars(BatchNext)

FairSpec == Spec /\ Fairness

-----------------------------------------------------------------------------
\* get_status: the registry first, then the ring from its newest end.
NewestOf(i) ==
  LET at == {n \in DOMAIN completed : completed[n].request_id = i}
  IN  IF at = {} THEN "not_found"
      ELSE completed[CHOOSE n \in at : \A m \in at : m <= n].status

GetStatus(i) == IF i \in DOMAIN records THEN records[i].status ELSE NewestOf(i)

RunningCalls == {c \in Calls : Running(c)}
GetQueueDepth == Cardinality(DOMAIN records)
GetActiveCount == Cardinality({i \in DOMAIN records : records[i].status = "in_progress"})

TypeOK ==
  /\ server \in {"down", "up", "failed", "stopped"}
  /\ call \in [Calls -> {"new", "queued", "running", "ok", "error", "refused", "cancelled"}]
  /\ id \in [Calls -> Ids \union {Nobody}] /\ in_flight \subseteq Ids
  /\ DOMAIN records \subseteq Ids /\ Len(completed) <= MaxCompleted
  /\ permits \in 0..BatchLimit /\ active \in Nat /\ depth \in Nat

\* get_status tells of every call what is true of it: in progress until it is
\* answered, then the answer it got, until newer answers push it off the ring.
StatusTruthful ==
  \A c \in Calls :
    /\ Running(c) => GetStatus(id[c]) = "in_progress"
    /\ call[c] = "ok" => GetStatus(id[c]) \in {"completed", "not_found"}
    /\ call[c] = "error" => GetStatus(id[c]) \in {"failed", "not_found"}

\* request_handler.py: "Mark a request as COMPLETED or FAILED and archive it":
\* no call that ended in an error is told to have completed.
FailuresReported == \A c \in Calls : call[c] = "error" => GetStatus(id[c]) # "completed"

\* The newest answers are all on the ring, each once.
RingComplete ==
  LET answered == {c \in Calls : Answered(c)}
      of == {completed[n].of : n \in DOMAIN completed}
  IN  /\ of \subseteq answered /\ Cardinality(of) = Len(completed)
      /\ Len(completed) = IF Cardinality(answered) < MaxCompleted
                          THEN Cardinality(answered) ELSE MaxCompleted

\* request_handler.py: "Number of requests currently waiting or in progress"; what a
\* stopping server cancels stays behind.
DepthCountsRequests ==
  DOMAIN records = {id[c] : c \in {d \in Calls : call[d] = "cancelled" /\ id[d] # Nobody}}
                   \union {id[c] : c \in RunningCalls}

\* The active gauge counts the running requests, whichever way requests end and
\* whatever ids they carry.
ActiveGaugeTrue == active = Cardinality(RunningCalls)

\* No more than max_concurrency calls of a batch reach the model together.
BatchBounded == Cardinality({c \in RunningCalls : InBatch(c)}) <= BatchLimit

\* The registry knows every request, and what a request takes, the gauge's one and the
\* batch's permit, it gives back, answered, failed or cancelled.
RegistryExact ==
  /\ TypeOK /\ DepthCountsRequests /\ RingComplete
  /\ ActiveGaugeTrue /\ BatchBounded
  /\ permits = BatchLimit - Cardinality({c \in RunningCalls : InBatch(c)})

\* Every call of a batch is answered, however many of the others fail, unless the
\* server stops.
BatchAnswered ==
  \A c \in Calls : call[c] = "queued" ~> Answered(c) \/ call[c] = "cancelled"

\* request_handler.py has a status for requests that were cancelled.
CancelledReported == \A c \in Calls : call[c] = "cancelled" => GetStatus(id[c]) # "in_progress"

\* request_handler.py: "Maximum number of requests that can be ``IN_PROGRESS``
\* simultaneously".
ActiveWithinLimit == GetActiveCount <= MaxConcurrent

\* vllm_engine.py: "Lightweight per-request tracking": the table holds the
\* requests that are in flight.
InFlightTracksRequests == \A i \in in_flight : \E c \in RunningCalls : id[c] = i

\* api_server.py: the metrics endpoint is to "Refresh gauges"; a scrape between
\* two requests shows the serving queue depth.
DepthGaugeCurrent == depth = GetQueueDepth
=============================================================================
