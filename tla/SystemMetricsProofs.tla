------------------------- MODULE SystemMetricsProofs -------------------------
(***************************************************************************)
(* Theorems of RequestMetrics, for any number of requests and windows of   *)
(* any length, and of HardwarePoller, for any number of starts.            *)
(***************************************************************************)
EXTENDS RequestMetrics, HardwarePoller, FiniteSetTheorems, TLAPS

-----------------------------------------------------------------------------
\* The stages record_request goes through, and those after each push.
Stages == {"new", "latency", "ttft", "tpot", "locked", "done"}
AfterLatency == Stages \ {"new"}
AfterTtft == {"ttft", "tpot", "locked", "done"}
AfterTpot == {"tpot", "locked", "done"}
AfterTokens == {"locked", "done"}

In(stages) == {r \in Requests : pc[r] \in stages}

\* A window holds as many of the observations pushed to it as it can, none twice.
Fit(n) == IF n < WindowSize THEN n ELSE WindowSize

Keeps(window, pushed) ==
  /\ IsFiniteSet(pushed)
  /\ window \in Seq(Requests) /\ Range(window) \subseteq pushed
  /\ \A i, j \in 1..Len(window) : window[i] = window[j] => i = j
  /\ Len(window) = Fit(Cardinality(pushed))

WindowsInv ==
  /\ Keeps(latency, In(AfterLatency))
  /\ Keeps(ttft, In(AfterTtft))
  /\ Keeps(tpot, In(AfterTpot))
  /\ Keeps(tokens, In(AfterTokens))
  /\ Keeps(stamps, In({"done"}))

\* One thread at a time holds _lock, and only meanwhile the two deques differ.
StampsInv ==
  /\ \A q, r \in Requests : pc[q] = "locked" /\ pc[r] = "locked" => q = r
  /\ StampsPaired
  /\ \A r \in Requests : pc[r] = "locked" => tokens = Pushed(stamps, r)

SummaryInv ==
  /\ summary.at \in {"tokens", "totals"} =>
       summary.recent \in Nat /\ summary.recent <= Len(latency)
  /\ SummaryWithinTotal

MetricsInv == pc \in [Requests -> Stages] /\ WindowsInv /\ StampsInv /\ SummaryInv

-----------------------------------------------------------------------------
\* Pushing an observation that was not pushed before keeps a window as full as it
\* can be, and no shorter than it was.
LEMMA PushKeeps ==
  ASSUME NEW window, NEW pushed, Keeps(window, pushed), NEW r \in Requests, r \notin pushed
  PROVE  /\ Keeps(Pushed(window, r), pushed \union {r})
         /\ Len(window) <= Len(Pushed(window, r))
  <1> USE MetricsAssumption
  <1> DEFINE longer == Append(window, r)
             both == pushed \union {r}
  <1>1. /\ IsFiniteSet(pushed) /\ window \in Seq(Requests) /\ Range(window) \subseteq pushed
        /\ \A i, j \in 1..Len(window) : window[i] = window[j] => i = j
        /\ Len(window) = Fit(Cardinality(pushed)) /\ Len(window) \in Nat
    BY DEF Keeps
  <1>2. /\ IsFiniteSet(both) /\ Cardinality(both) = Cardinality(pushed) + 1
        /\ Cardinality(pushed) \in Nat
    BY <1>1, FS_AddElement, FS_CardinalityType
  <1>3. \A i \in 1..Len(window) : window[i] \in pushed
    BY <1>1 DEF Range
  <1>4. /\ longer \in Seq(Requests) /\ Len(longer) = Len(window) + 1
        /\ \A i \in 1..Len(longer) : longer[i] = IF i <= Len(window) THEN window[i] ELSE r
    BY <1>1
  <1>5. \A i, j \in 1..Len(longer) : longer[i] = longer[j] => i = j
    BY <1>1, <1>3, <1>4
  <1>6. \A i \in 1..Len(longer) : longer[i] \in both
    BY <1>1, <1>3, <1>4
  <1>7. CASE Len(longer) > WindowSize
    <2> DEFINE shorter == Tail(longer)
    <2>1. /\ Pushed(window, r) = shorter /\ shorter \in Seq(Requests)
          /\ Len(shorter) = Len(window)
          /\ \A i \in 1..Len(shorter) : shorter[i] = longer[i + 1]
      BY <1>1, <1>4, <1>7 DEF Pushed
    <2> HIDE DEF longer, shorter
    <2>2. \A i \in 1..Len(shorter) : i + 1 \in 1..Len(longer)
      BY <1>1, <1>4, <2>1
    <2>3. Range(shorter) \subseteq both
      BY <1>6, <2>1, <2>2 DEF Range
    <2>4. \A i, j \in 1..Len(shorter) : shorter[i] = shorter[j] => i = j
      BY <1>1, <1>5, <2>1, <2>2
    <2>5. Len(shorter) = Fit(Cardinality(both))
      BY <1>1, <1>2, <1>4, <1>7, <2>1 DEF Fit
    <2>6. Keeps(shorter, both)
      BY <1>2, <2>1, <2>3, <2>4, <2>5 DEF Keeps
    <2> QED BY <1>1, <2>1, <2>6
  <1>8. CASE ~(Len(longer) > WindowSize)
    <2>1. Pushed(window, r) = longer
      BY <1>8 DEF Pushed
    <2> HIDE DEF longer
    <2>2. Range(longer) \subseteq both
      BY <1>4, <1>6 DEF Range
    <2>3. Len(longer) = Fit(Cardinality(both))
      BY <1>1, <1>2, <1>4, <1>8 DEF Fit
    <2>4. Keeps(longer, both)
      BY <1>2, <1>4, <1>5, <2>2, <2>3 DEF Keeps
    <2> QED BY <1>1, <1>4, <2>1, <2>4
  <1> QED BY <1>7, <1>8

\* A step of one request takes it over one border between stages.
LEMMA StageMoves ==
  ASSUME pc \in [Requests -> Stages], NEW r \in Requests, NEW from \in Stages, NEW to \in Stages,
         At(r, from, to), NEW stages
  PROVE  /\ pc' \in [Requests -> Stages] /\ pc'[r] = to
         /\ \A q \in Requests \ {r} : pc'[q] = pc[q]
         /\ from \notin stages /\ to \in stages =>
              r \notin In(stages) /\ In(stages)' = In(stages) \union {r}
         /\ from \in stages <=> to \in stages => In(stages)' = In(stages)
  <1>1. pc[r] = from /\ pc' = [pc EXCEPT ![r] = to]
    BY DEF At
  <1>2. pc' \in [Requests -> Stages] /\ pc'[r] = to /\ \A q \in Requests \ {r} : pc'[q] = pc[q]
    BY <1>1
  <1>3. In(stages)' = {q \in Requests : pc'[q] \in stages}
    BY DEF In
  <1> QED BY <1>1, <1>2, <1>3 DEF In

\* The more was pushed, the longer the window.
LEMMA LongerWithMore ==
  ASSUME NEW short, NEW fewer, Keeps(short, fewer),
         NEW long, NEW more, Keeps(long, more), fewer \subseteq more
  PROVE  Len(short) <= Len(long) /\ Len(short) \in Nat /\ Len(long) \in Nat
  <1>1. Cardinality(fewer) <= Cardinality(more)
    BY FS_Subset DEF Keeps
  <1>2. Cardinality(fewer) \in Nat /\ Cardinality(more) \in Nat
    BY FS_CardinalityType DEF Keeps
  <1> QED BY <1>1, <1>2, MetricsAssumption DEF Keeps, Fit

LEMMA MetricsInitInv == ASSUME RecordingInit PROVE MetricsInv
  <1> USE MetricsAssumption DEF RecordingInit
  <1>1. \A stages \in SUBSET Stages : "new" \notin stages => In(stages) = {}
    BY DEF In, Stages
  <1>2. In(AfterLatency) = {} /\ In(AfterTtft) = {} /\ In(AfterTpot) = {}
        /\ In(AfterTokens) = {} /\ In({"done"}) = {}
    BY <1>1 DEF In, Stages, AfterLatency, AfterTtft, AfterTpot, AfterTokens
  <1>3. Keeps(<<>>, {})
    BY FS_EmptySet DEF Keeps, Range, Fit
  <1>4. WindowsInv
    BY <1>2, <1>3 DEF WindowsInv
  <1>5. StampsInv
    BY DEF StampsInv, StampsPaired
  <1>6. SummaryInv
    BY DEF SummaryInv, SummaryWithinTotal
  <1> QED BY <1>4, <1>5, <1>6 DEF MetricsInv, Stages

\* What record_request does to a window makes it no shorter, so a count taken
\* earlier stays within it.
LEMMA LatencyGrows ==
  ASSUME SummaryInv, summary' = summary, Len(latency) \in Nat, Len(latency') \in Nat,
         Len(latency) <= Len(latency')
  PROVE  SummaryInv'
  BY DEF SummaryInv, SummaryWithinTotal

\* The pushes before _lock is taken touch one window each.
LEMMA UnlockedPushes ==
  ASSUME MetricsInv, NEW r \in Requests, RecordLatency(r) \/ RecordTtft(r) \/ RecordTpot(r)
  PROVE  MetricsInv'
  <1> USE DEF MetricsInv
  <1>1. PICK from \in {"new", "latency", "ttft"}, to \in {"latency", "ttft", "tpot"} :
          /\ At(r, from, to)
          /\ \/ from = "new" /\ to = "latency" /\ latency' = Pushed(latency, r)
                /\ UNCHANGED <<ttft, tpot>>
             \/ from = "latency" /\ to = "ttft" /\ ttft' = Pushed(ttft, r)
                /\ UNCHANGED <<latency, tpot>>
             \/ from = "ttft" /\ to = "tpot" /\ tpot' = Pushed(tpot, r)
                /\ UNCHANGED <<latency, ttft>>
          /\ UNCHANGED <<tokens, stamps, summary>>
    BY DEF RecordLatency, RecordTtft, RecordTpot
  <1>2. /\ pc' \in [Requests -> Stages] /\ pc'[r] = to /\ pc[r] = from
        /\ \A q \in Requests \ {r} : pc'[q] = pc[q]
    BY <1>1, StageMoves DEF Stages, At
  <1>3. /\ In(AfterTokens)' = In(AfterTokens) /\ In({"done"})' = In({"done"})
        /\ from = "new" => /\ r \notin In(AfterLatency)
                           /\ In(AfterLatency)' = In(AfterLatency) \union {r}
        /\ from # "new" => In(AfterLatency)' = In(AfterLatency)
        /\ from = "latency" => r \notin In(AfterTtft) /\ In(AfterTtft)' = In(AfterTtft) \union {r}
        /\ from # "latency" => In(AfterTtft)' = In(AfterTtft)
        /\ from = "ttft" => r \notin In(AfterTpot) /\ In(AfterTpot)' = In(AfterTpot) \union {r}
        /\ from # "ttft" => In(AfterTpot)' = In(AfterTpot)
    BY <1>1, StageMoves DEF Stages, AfterLatency, AfterTtft, AfterTpot, AfterTokens
  <1>4. /\ Keeps(latency, In(AfterLatency))' /\ Len(latency) <= Len(latency')
        /\ Keeps(ttft, In(AfterTtft))' /\ Keeps(tpot, In(AfterTpot))'
    <2>1. Len(latency) \in Nat
      BY DEF WindowsInv, Keeps
    <2>2. CASE from = "new"
      <3>1. Keeps(Pushed(latency, r), In(AfterLatency)') /\ Len(latency) <= Len(Pushed(latency, r))
        BY <1>3, <2>2, PushKeeps DEF WindowsInv
      <3> QED BY <1>1, <1>3, <2>2, <3>1 DEF WindowsInv, Keeps
    <2>3. CASE from = "latency"
      <3>1. Keeps(Pushed(ttft, r), In(AfterTtft)')
        BY <1>3, <2>3, PushKeeps DEF WindowsInv
      <3> QED BY <1>1, <1>3, <2>1, <2>3, <3>1 DEF WindowsInv, Keeps
    <2>4. CASE from = "ttft"
      <3>1. Keeps(Pushed(tpot, r), In(AfterTpot)')
        BY <1>3, <2>4, PushKeeps DEF WindowsInv
      <3> QED BY <1>1, <1>3, <2>1, <2>4, <3>1 DEF WindowsInv, Keeps
    <2> QED BY <2>2, <2>3, <2>4
  <1>5. WindowsInv'
    BY <1>1, <1>3, <1>4 DEF WindowsInv, Keeps
  <1>6. StampsInv'
    <2>1. \A q \in Requests : pc'[q] = "locked" <=> pc[q] = "locked"
      BY <1>1, <1>2
    <2>2. LockFree' <=> LockFree
      BY <2>1 DEF LockFree
    <2>3. \A q \in Requests : pc'[q] = "locked" => tokens' = Pushed(stamps', q)
      BY <1>1, <2>1 DEF StampsInv
    <2>4. StampsPaired'
      BY <1>1, <2>2 DEF StampsInv, StampsPaired
    <2> QED BY <2>1, <2>3, <2>4 DEF StampsInv
  <1>7. SummaryInv'
    BY <1>1, <1>4, LatencyGrows DEF WindowsInv, Keeps
  <1> QED BY <1>2, <1>5, <1>6, <1>7

\* Taking _lock and the token timestamp: the other deque is one push behind.
LEMMA TokensPushed ==
  ASSUME MetricsInv, NEW r \in Requests, StampTokens(r)
  PROVE  MetricsInv'
  <1> USE DEF MetricsInv
  <1>1. /\ At(r, "tpot", "locked") /\ LockFree /\ tokens' = Pushed(tokens, r)
        /\ UNCHANGED <<latency, ttft, tpot, stamps, summary>>
    BY DEF StampTokens
  <1>2. /\ pc' \in [Requests -> Stages] /\ pc'[r] = "locked"
        /\ \A q \in Requests \ {r} : pc'[q] = pc[q]
    BY <1>1, StageMoves DEF Stages
  <1>3. /\ In(AfterLatency)' = In(AfterLatency) /\ In(AfterTtft)' = In(AfterTtft)
        /\ In(AfterTpot)' = In(AfterTpot) /\ In({"done"})' = In({"done"})
        /\ r \notin In(AfterTokens) /\ In(AfterTokens)' = In(AfterTokens) \union {r}
    BY <1>1, StageMoves DEF Stages, AfterLatency, AfterTtft, AfterTpot, AfterTokens
  <1>4. Keeps(Pushed(tokens, r), In(AfterTokens)')
    BY <1>3, PushKeeps DEF WindowsInv
  <1>5. WindowsInv'
    <2>1. Keeps(tokens, In(AfterTokens))'
      BY <1>1, <1>4 DEF Keeps
    <2>2. /\ Keeps(latency, In(AfterLatency))' /\ Keeps(ttft, In(AfterTtft))'
          /\ Keeps(tpot, In(AfterTpot))' /\ Keeps(stamps, In({"done"}))'
      BY <1>1, <1>3 DEF WindowsInv, Keeps
    <2> QED BY <2>1, <2>2 DEF WindowsInv
  <1>6. StampsInv'
    <2>1. \A q \in Requests : pc'[q] = "locked" => q = r
      BY <1>1, <1>2 DEF LockFree
    <2>2. tokens = stamps
      BY <1>1 DEF StampsInv, StampsPaired
    <2>3. ~LockFree'
      BY <1>2 DEF LockFree
    <2>4. \A q \in Requests : pc'[q] = "locked" => tokens' = Pushed(stamps', q)
      BY <1>1, <2>1, <2>2
    <2> QED BY <2>1, <2>3, <2>4 DEF StampsInv, StampsPaired
  <1>7. SummaryInv'
    BY <1>1, LatencyGrows DEF WindowsInv, Keeps, SummaryInv, SummaryWithinTotal
  <1> QED BY <1>2, <1>5, <1>6, <1>7

\* The request timestamp and the release of _lock: the deques are the same again.
LEMMA RequestPushed ==
  ASSUME MetricsInv, NEW r \in Requests, StampRequest(r)
  PROVE  MetricsInv'
  <1> USE DEF MetricsInv
  <1>1. /\ At(r, "locked", "done") /\ stamps' = Pushed(stamps, r)
        /\ UNCHANGED <<latency, ttft, tpot, tokens, summary>>
    BY DEF StampRequest
  <1>2. /\ pc' \in [Requests -> Stages] /\ pc[r] = "locked" /\ pc'[r] = "done"
        /\ \A q \in Requests \ {r} : pc'[q] = pc[q]
    BY <1>1, StageMoves DEF Stages, At
  <1>3. /\ In(AfterLatency)' = In(AfterLatency) /\ In(AfterTtft)' = In(AfterTtft)
        /\ In(AfterTpot)' = In(AfterTpot) /\ In(AfterTokens)' = In(AfterTokens)
        /\ r \notin In({"done"}) /\ In({"done"})' = In({"done"}) \union {r}
    BY <1>1, StageMoves DEF Stages, AfterLatency, AfterTtft, AfterTpot, AfterTokens
  <1>4. Keeps(Pushed(stamps, r), In({"done"})')
    BY <1>3, PushKeeps DEF WindowsInv
  <1>5. WindowsInv'
    BY <1>1, <1>3, <1>4 DEF WindowsInv, Keeps
  <1>6. StampsInv'
    <2>1. \A q \in Requests : pc'[q] # "locked"
      BY <1>2 DEF StampsInv
    <2>2. tokens' = stamps'
      BY <1>1, <1>2 DEF StampsInv
    <2> QED BY <2>1, <2>2 DEF StampsInv, StampsPaired
  <1>7. SummaryInv'
    BY <1>1 DEF SummaryInv, SummaryWithinTotal
  <1> QED BY <1>2, <1>5, <1>6, <1>7

\* A summary counts timestamps of requests whose latency was pushed long before, and
\* reads the number of latencies last.
LEMMA SummaryPreserves ==
  ASSUME MetricsInv, Summarise
  PROVE  MetricsInv'
  <1> USE DEF MetricsInv
  <1>1. UNCHANGED recorded
    BY DEF Summarise, StartSummary, WalkRaises, CountRequests, SumTokens, ReturnSummary
  <1>2. pc' \in [Requests -> Stages] /\ WindowsInv' /\ StampsInv'
    BY <1>1 DEF recorded, WindowsInv, In, StampsInv, StampsPaired, LockFree
  <1>3. In({"done"}) \subseteq In(AfterLatency)
    BY DEF In, AfterLatency, Stages
  <1>4. Len(stamps) <= Len(latency) /\ Len(stamps) \in Nat /\ Len(latency) \in Nat
    BY <1>3, LongerWithMore DEF WindowsInv
  <1>5. SummaryInv'
    <2>1. CASE StartSummary
      BY <2>1 DEF StartSummary, SummaryInv, SummaryWithinTotal
    <2>2. CASE WalkRaises
      BY <2>2 DEF WalkRaises, SummaryInv, SummaryWithinTotal
    <2>3. CASE CountRequests
      <3>1. PICK recent \in 0..Len(stamps) :
              summary' = [at |-> "tokens", recent |-> recent, seen |-> tokens]
        BY <2>3 DEF CountRequests
      <3>2. summary'.at = "tokens" /\ summary'.recent = recent
        BY <3>1
      <3>3. recent \in Nat /\ recent <= Len(latency)
        BY <1>4
      <3> QED BY <1>1, <3>2, <3>3 DEF recorded, SummaryInv, SummaryWithinTotal
    <2>4. CASE SumTokens
      BY <1>1, <2>4 DEF SumTokens, recorded, SummaryInv, SummaryWithinTotal
    <2>5. CASE ReturnSummary
      BY <2>5 DEF ReturnSummary, SummaryInv, SummaryWithinTotal
    <2> QED BY <2>1, <2>2, <2>3, <2>4, <2>5 DEF Summarise
  <1> QED BY <1>2, <1>5

\* An injective sequence has as many elements as places.
LEMMA PlacesCounted ==
  ASSUME NEW window, NEW pushed, Keeps(window, pushed)
  PROVE  Cardinality(Range(window)) = Len(window)
  <1>1. /\ window \in [1..Len(window) -> Requests] /\ Len(window) \in Nat
        /\ \A i, j \in 1..Len(window) : window[i] = window[j] => i = j
    BY DEF Keeps
  <1>2. window \in Bijection(1..Len(window), Range(window))
    BY <1>1 DEF Bijection, Injection, Surjection, IsInjective, Range
  <1>3. IsFiniteSet(1..Len(window)) /\ Cardinality(1..Len(window)) = Len(window)
    <2>1. PICK n \in Nat : n = Len(window)
      BY <1>1
    <2>2. IsFiniteSet(1..n) /\ Cardinality(1..n) = n
      BY FS_Interval
    <2> QED BY <2>1, <2>2
  <1> QED BY <1>2, <1>3, FS_Bijection DEF ExistsBijection

LEMMA MetricsHold == ASSUME MetricsInv PROVE MetricsConsistent
  <1> USE DEF MetricsInv
  <1>1. ASSUME \A r \in Requests : pc[r] \in {"new", "done"}
        PROVE  \A window \in {latency, ttft, tpot, tokens, stamps} :
                 Keeps(window, {r \in Requests : pc[r] = "done"})
    <2>1. /\ In(AfterLatency) = {r \in Requests : pc[r] = "done"}
          /\ In(AfterTtft) = {r \in Requests : pc[r] = "done"}
          /\ In(AfterTpot) = {r \in Requests : pc[r] = "done"}
          /\ In(AfterTokens) = {r \in Requests : pc[r] = "done"}
          /\ In({"done"}) = {r \in Requests : pc[r] = "done"}
      BY <1>1 DEF In, Stages, AfterLatency, AfterTtft, AfterTpot, AfterTokens
    <2> QED BY <2>1 DEF WindowsInv
  <1>2. WindowsComplete
    BY <1>1, PlacesCounted DEF WindowsComplete, Keeps, Fit
  <1> QED BY <1>2 DEF MetricsConsistent, StampsInv, SummaryInv

\* For any number of requests recorded by any number of threads, and windows of any
\* length: no summary counts more recent requests than requests in all, and between
\* calls of record_request all windows hold the same number of observations, as
\* many as they can.
THEOREM SummariesAreConsistent == RecordingSpec => []MetricsConsistent
  <1>1. RecordingInit => MetricsInv
    BY MetricsInitInv
  <1>2. MetricsInv /\ [RecordingNext]_metricsVars => MetricsInv'
    <2> SUFFICES ASSUME MetricsInv, [RecordingNext]_metricsVars PROVE MetricsInv'
      OBVIOUS
    <2>1. ASSUME NEW r \in Requests, Record(r) PROVE MetricsInv'
      BY <2>1, UnlockedPushes, TokensPushed, RequestPushed DEF Record
    <2>2. CASE UNCHANGED metricsVars
      BY <2>2 DEF metricsVars, recorded, MetricsInv, WindowsInv, In, StampsInv, StampsPaired,
                  LockFree, SummaryInv, SummaryWithinTotal
    <2> QED BY <2>1, <2>2, SummaryPreserves DEF RecordingNext
  <1> QED
    BY <1>1, <1>2, MetricsHold, PTL DEF RecordingSpec

-----------------------------------------------------------------------------
PollerTypeOK ==
  /\ control \in Controls /\ stop \in BOOLEAN /\ last \in 0..MaxStarts
  /\ thread \in [Threads -> ThreadStates]

\* Only the thread _thread names is not over, and it is woken once stop is set.
PollerInv ==
  /\ PollerTypeOK
  /\ \A t \in Threads : t < last => thread[t] = "done"
  /\ \A t \in Threads : t > last => thread[t] = "unborn"
  /\ control = "fresh" => last = 0
  /\ control = "stopped" => last = 0 \/ thread[last] = "done"

AlternatingStep == [(Alternating /\ Start) \/ Stop \/ StopReturns \/ Poller]_vars

\* A poller started anew finds the one before it over: stop joined it.
LEMMA PollerStepPreserves ==
  ASSUME ~MayTimeOut, PollerInv, AlternatingStep PROVE PollerInv'
  <1> USE PollerAssumption DEF PollerInv, PollerTypeOK, Threads, Controls, ThreadStates
  <1>1. CASE Alternating /\ Start
    <2>1. /\ control \in {"fresh", "stopped"} /\ last < MaxStarts
          /\ control' = "started" /\ last' = last + 1
          /\ thread' = [thread EXCEPT ![last + 1] = "waiting"]
      BY <1>1 DEF Alternating, Start
    <2>2. stop' \in BOOLEAN
      BY <1>1, Zenon DEF Start
    <2>3. \A t \in Threads : t < last + 1 => thread[t] = "done"
      BY <2>1
    <2> QED
      BY <2>1, <2>2, <2>3
  <1>2. CASE Stop
    BY <1>2 DEF Stop, Woken
  <1>3. CASE StopReturns
    BY <1>3 DEF StopReturns
  <1>4. ASSUME NEW t \in Threads, Wake(t) PROVE PollerInv'
    BY <1>4 DEF Wake
  <1>5. ASSUME NEW t \in Threads, Publish(t) PROVE PollerInv'
    BY <1>5 DEF Publish, Waits
  <1>6. ASSUME NEW t \in Threads, End(t) PROVE PollerInv'
    BY <1>6 DEF End
  <1>7. CASE UNCHANGED vars
    BY <1>7 DEF vars
  <1> QED
    BY <1>1, <1>2, <1>3, <1>4, <1>5, <1>6, <1>7 DEF AlternatingStep, Poller

\* A collector started only when it is stopped, whose polls end within the join,
\* has at most one poller, however often it is started, and none when stopped.
THEOREM PollersAreJoined ==
  ASSUME ~MayTimeOut PROVE AlternatingSpec => []PollersJoined
  <1>1. Init => PollerInv
    <2>1. Init => stop \in BOOLEAN
      BY Zenon DEF Init
    <2>2. Init => control = "fresh" /\ last = 0 /\ thread = [t \in Threads |-> "unborn"]
      BY Zenon DEF Init
    <2> QED
      BY <2>1, <2>2, PollerAssumption DEF PollerInv, PollerTypeOK, Threads, Controls, ThreadStates
  <1>2. PollerInv /\ AlternatingStep => PollerInv'
    BY PollerStepPreserves
  <1>3. PollerInv => PollersJoined
    BY DEF PollerInv, PollerTypeOK, Threads, PollersJoined, OnePoller, StoppedIsQuiet, Alive
  <1> QED
    BY <1>1, <1>2, <1>3, PTL DEF AlternatingSpec, AlternatingStep
=============================================================================
