--------------------------- MODULE RequestMetrics ---------------------------
(***************************************************************************)
(* The request side of SystemMetricsCollector (src/src/evaluators/         *)
(* system_metrics.py): record_request, called by any number of threads,    *)
(* and get_summary, called by the dashboard's thread.                      *)
(*                                                                         *)
(* record_request takes four locks one after the other, and get_summary    *)
(* walks the two timestamp deques under none, so the steps below are       *)
(* single: an observation is pushed, a deque is started or finished.  An   *)
(* observation is the request it is of; its value tells nothing apart.     *)
(***************************************************************************)
EXTENDS Integers, Sequences, FiniteSets, Functions

CONSTANTS Requests,    \* what is recorded, each once
          WindowSize   \* maxlen of the deques, 10_000 in the code

ASSUME MetricsAssumption == WindowSize \in Nat \ {0}

VARIABLES pc,                    \* how far the record_request of each request is
          latency, ttft, tpot,   \* the windows of the three LatencyTrackers
          tokens, stamps,        \* _token_timestamps, _request_timestamps
          summary                \* the call of get_summary in progress, or the last one

recorded == <<pc, latency, ttft, tpot, tokens, stamps>>
metricsVars == <<recorded, summary>>

RecordingInit ==
  /\ pc = [r \in Requests |-> "new"]
  /\ latency = <<>> /\ ttft = <<>> /\ tpot = <<>>
  /\ tokens = <<>> /\ stamps = <<>>
  /\ summary = [at |-> "none"]

\* append to a deque(maxlen=WindowSize)
Pushed(deque, r) ==
  LET longer == Append(deque, r)
  IN IF Len(longer) > WindowSize THEN Tail(longer) ELSE longer

\* _lock is held from the token timestamp to the request timestamp.
LockFree == \A r \in Requests : pc[r] # "locked"

At(r, from, to) == pc[r] = from /\ pc' = [pc EXCEPT ![r] = to]

-----------------------------------------------------------------------------
\* record_request, one push at a time.
Faulty_RecordLatency(r) ==      \* the latency is recorded last
  /\ At(r, "new", "latency")
  /\ UNCHANGED <<latency, ttft, tpot, tokens, stamps, summary>>
RecordLatency(r) ==
  /\ At(r, "new", "latency") /\ latency' = Pushed(latency, r)
  /\ UNCHANGED <<ttft, tpot, tokens, stamps, summary>>

RecordTtft(r) ==
  /\ At(r, "latency", "ttft") /\ ttft' = Pushed(ttft, r)
  /\ UNCHANGED <<latency, tpot, tokens, stamps, summary>>

RecordTpot(r) ==
  /\ At(r, "ttft", "tpot") /\ tpot' = Pushed(tpot, r)
  /\ UNCHANGED <<latency, ttft, tokens, stamps, summary>>

StampTokens(r) ==
  /\ At(r, "tpot", "locked") /\ LockFree
  /\ tokens' = Pushed(tokens, r)
  /\ UNCHANGED <<latency, ttft, tpot, stamps, summary>>

Faulty_StampRequest(r) ==       \* with tokens_generated = 0, not stamped
  /\ At(r, "locked", "done")
  /\ stamps' \in {stamps, Pushed(stamps, r)}
  /\ UNCHANGED <<latency, ttft, tpot, tokens, summary>>
StampRequest(r) ==
  /\ At(r, "locked", "done") /\ stamps' = Pushed(stamps, r)
  /\ UNCHANGED <<latency, ttft, tpot, tokens, summary>>

-----------------------------------------------------------------------------
\* get_summary.  CPython's deque iterator raises when the deque changed since
\* iter() was called, and looks at it once more before it stops.
StartSummary ==
  /\ summary.at \in {"none", "returned", "raised"}
  /\ summary' = [at |-> "requests", seen |-> stamps]
  /\ UNCHANGED recorded

WalkRaises ==
  /\ \/ summary.at = "requests" /\ summary.seen # stamps
     \/ summary.at = "tokens" /\ summary.seen # tokens
  /\ summary' = [at |-> "raised"]
  /\ UNCHANGED recorded

\* Any number of the timestamps may be as late as the cutoff.
CountRequests ==
  /\ summary.at = "requests" /\ summary.seen = stamps
  /\ \E recent \in 0..Len(stamps) :
       summary' = [at |-> "tokens", recent |-> recent, seen |-> tokens]
  /\ UNCHANGED recorded

SumTokens ==
  /\ summary.at = "tokens" /\ summary.seen = tokens
  /\ summary' = [at |-> "totals", recent |-> summary.recent]
  /\ UNCHANGED recorded

\* total_requests, the last value read
ReturnSummary ==
  /\ summary.at = "totals"
  /\ summary' = [at |-> "returned", recent |-> summary.recent, total |-> Len(latency)]
  /\ UNCHANGED recorded

-----------------------------------------------------------------------------
Record(r) == \/ RecordLatency(r) \/ RecordTtft(r) \/ RecordTpot(r)
             \/ StampTokens(r) \/ StampRequest(r)

Summarise == StartSummary \/ WalkRaises \/ CountRequests \/ SumTokens \/ ReturnSummary

RecordingNext == (\E r \in Requests : Record(r)) \/ Summarise

RecordingSpec == RecordingInit /\ [][RecordingNext]_metricsVars

-----------------------------------------------------------------------------
\* A summary that is returned never counts more recent requests than requests
\* in all, though the two are read from different deques at different times
\* while requests are being recorded.
SummaryWithinTotal == summary.at = "returned" => summary.recent <= summary.total

\* When no record_request is under way every window holds the same number of
\* observations: all of them, or as many of them as it can hold, none twice.
WindowsComplete ==
  (\A r \in Requests : pc[r] \in {"new", "done"}) =>
    LET done == {r \in Requests : pc[r] = "done"}
        kept == IF Cardinality(done) < WindowSize THEN Cardinality(done) ELSE WindowSize
    IN \A window \in {latency, ttft, tpot, tokens, stamps} :
         /\ Len(window) = kept /\ Cardinality(Range(window)) = kept
         /\ Range(window) \subseteq done

\* The two timestamp deques, pushed one after the other, name the same requests
\* in the same order whenever nobody holds _lock.
StampsPaired == LockFree => tokens = stamps

\* What a summary says is consistent with what was recorded, and what is recorded
\* of a request is recorded in every window.
MetricsConsistent == SummaryWithinTotal /\ WindowsComplete /\ StampsPaired

\* get_summary aggregates what was recorded and returns it: it never fails.
SummaryReturns == summary.at # "raised"
=============================================================================
