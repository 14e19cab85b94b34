----------------------------- MODULE ServingProofs -----------------------------
(***************************************************************************)
(* RegistryExact and StatusTruthful hold of Serving for any number of      *)
(* calls, any batch and any limits, where requests have ids of their own   *)
(* and errors have a text; StreamsTrue and CyclesSpaced of the engine      *)
(* wrapper for any calls, any interval and texts of any length.            *)
(***************************************************************************)
EXTENDS Serving, EngineWrapper, FiniteSetTheorems, SequenceTheorems, TLAPS

Conditions == IsFiniteSet(Calls) /\ ~SharedIds /\ NoError \notin ErrorTexts

AnsweredCalls == {c \in Calls : Answered(c)}
BatchRunning == {c \in RunningCalls : InBatch(c)}
Known(c) == Running(c) \/ (call[c] = "cancelled" /\ id[c] # Nobody)

\* A call has an id from the moment it is submitted, and nobody else has it.
IdsInv ==
  /\ \A c \in Calls : call[c] \in {"running", "ok", "error"} => id[c] # Nobody
  /\ \A c \in Calls : call[c] \in {"new", "queued", "refused"} => id[c] = Nobody
  /\ \A c, d \in Calls : id[c] = id[d] /\ id[c] # Nobody => c = d

\* The registry holds the requests under way, and those that were cancelled.
RecordsInv ==
  /\ IsFiniteSet(DOMAIN records)
  /\ \A i \in Ids : i \in DOMAIN records <=> \E c \in Calls : Known(c) /\ id[c] = i
  /\ DOMAIN records \subseteq Ids
  /\ \A c \in Calls : Running(c) =>
       records[id[c]] = [request_id |-> id[c], of |-> c, status |-> "in_progress"]

\* The ring holds the newest answers as they were given.
Outcome(c) == IF call[c] = "ok" THEN "completed" ELSE "failed"
Entries == [request_id : Ids, of : Calls, status : {"completed", "failed"}]

RingInv ==
  /\ completed \in Seq(Entries)
  /\ \A n \in 1..Len(completed) :
       LET c == completed[n].of
       IN  Answered(c) /\ completed[n].request_id = id[c] /\ completed[n].status = Outcome(c)
  /\ \A m, n \in 1..Len(completed) : completed[m].of = completed[n].of => m = n
  /\ Len(completed) = IF Cardinality(AnsweredCalls) < MaxCompleted
                      THEN Cardinality(AnsweredCalls) ELSE MaxCompleted

CountsInv ==
  /\ active = Cardinality(RunningCalls)
  /\ permits = BatchLimit - Cardinality(BatchRunning) /\ permits \in 0..BatchLimit

IInv == TypeOK /\ IdsInv /\ RecordsInv /\ RingInv /\ CountsInv

-----------------------------------------------------------------------------
LEMMA Finite ==
  ASSUME Conditions
  PROVE  /\ IsFiniteSet(RunningCalls) /\ Cardinality(RunningCalls) \in Nat
         /\ IsFiniteSet(BatchRunning) /\ Cardinality(BatchRunning) \in Nat
         /\ IsFiniteSet(AnsweredCalls) /\ Cardinality(AnsweredCalls) \in Nat
  <1>1. /\ RunningCalls \in SUBSET Calls /\ BatchRunning \in SUBSET Calls
        /\ AnsweredCalls \in SUBSET Calls
    BY DEF RunningCalls, BatchRunning, AnsweredCalls
  <1> QED
    BY <1>1, FS_Subset, FS_CardinalityType DEF Conditions

\* What is promised follows from the invariant.
LEMMA RingHolds == ASSUME Conditions, IInv PROVE RingComplete
  <1> DEFINE of == {completed[n].of : n \in DOMAIN completed}
             f == [n \in 1..Len(completed) |-> completed[n].of]
  <1>1. completed \in Seq(Entries) /\ DOMAIN completed = 1..Len(completed) /\ Len(completed) \in Nat
    BY DEF IInv, RingInv
  <1>2. f \in Bijection(1..Len(completed), of)
    <2>1. f \in [1..Len(completed) -> of]
      BY <1>1
    <2>2. \A m, n \in 1..Len(completed) : f[m] = f[n] => m = n
      BY DEF IInv, RingInv
    <2>3. \A c \in of : \E n \in 1..Len(completed) : f[n] = c
      BY <1>1
    <2> QED
      BY <2>1, <2>2, <2>3 DEF Bijection, Injection, IsInjective, Surjection
  <1>3. Cardinality(of) = Len(completed)
    BY <1>1, <1>2, FS_CountingElements DEF ExistsBijection
  <1>4. of \subseteq AnsweredCalls
    <2> SUFFICES ASSUME NEW n \in 1..Len(completed) PROVE completed[n].of \in AnsweredCalls
      BY <1>1
    <2>1. completed[n] \in Entries
      BY <1>1
    <2>2. completed[n].of \in Calls
      BY <2>1 DEF Entries
    <2> QED
      BY <2>2 DEF IInv, RingInv, AnsweredCalls
  <1> QED
    BY <1>3, <1>4 DEF RingComplete, AnsweredCalls, IInv, RingInv

LEMMA RegistryHolds == ASSUME ServingAssumption, Conditions, IInv PROVE RegistryExact
  <1>1. DepthCountsRequests
    <2> DEFINE left == {id[c] : c \in {d \in Calls : call[d] = "cancelled" /\ id[d] # Nobody}}
               under_way == {id[c] : c \in RunningCalls}
    <2>1. \A i \in DOMAIN records : i \in left \union under_way
      BY DEF IInv, RecordsInv, Known, RunningCalls
    <2>2. \A c \in Calls : Known(c) => id[c] \in Ids
      BY DEF IInv, TypeOK, IdsInv, Known, Running
    <2>3. \A c \in Calls : Known(c) => id[c] \in DOMAIN records
      BY <2>2 DEF IInv, RecordsInv
    <2>4. \A i \in left \union under_way : i \in DOMAIN records
      BY <2>3 DEF Known, RunningCalls
    <2> QED
      BY <2>1, <2>4 DEF DepthCountsRequests
  <1>2. ActiveGaugeTrue
    BY DEF IInv, CountsInv, ActiveGaugeTrue
  <1>3. BatchBounded /\ permits = BatchLimit - Cardinality({c \in RunningCalls : InBatch(c)})
    BY Finite DEF IInv, CountsInv, BatchBounded, BatchRunning, ServingAssumption
  <1> QED
    BY <1>1, <1>2, <1>3, RingHolds DEF RegistryExact, IInv

LEMMA StatusHolds == ASSUME ServingAssumption, Conditions, IInv PROVE StatusTruthful
  <1>1. ASSUME NEW c \in Calls, Running(c) PROVE GetStatus(id[c]) = "in_progress"
    <2>1. id[c] \in Ids
      BY <1>1 DEF IInv, TypeOK, IdsInv, Running
    <2>2. id[c] \in DOMAIN records
      BY <1>1, <2>1 DEF IInv, RecordsInv, Known
    <2>3. records[id[c]] = [request_id |-> id[c], of |-> c, status |-> "in_progress"]
      BY <1>1 DEF IInv, RecordsInv
    <2> QED
      BY <2>2, <2>3 DEF GetStatus
  <1>2. ASSUME NEW c \in Calls, Answered(c) PROVE GetStatus(id[c]) \in {Outcome(c), "not_found"}
    <2>1. id[c] \in Ids /\ id[c] \notin DOMAIN records
      BY <1>2 DEF IInv, TypeOK, IdsInv, RecordsInv, Known, Running, Answered
    <2> DEFINE at == {n \in DOMAIN completed : completed[n].request_id = id[c]}
               newest == CHOOSE n \in at : \A m \in at : m <= n
    <2>2. ASSUME NEW n \in at
          PROVE  completed[n].of = c /\ completed[n].status = Outcome(c) /\ n \in 1..Len(completed)
      <3>1. n \in 1..Len(completed) /\ completed[n] \in Entries
        BY DEF IInv, RingInv
      <3> DEFINE d == completed[n].of
      <3>2. d \in Calls /\ id[d] = id[c] /\ completed[n].status = Outcome(d)
        BY <3>1 DEF IInv, RingInv, Entries
      <3>3. d = c
        BY <2>1, <3>2, ServingAssumption DEF IInv, IdsInv
      <3> QED
        BY <3>1, <3>2, <3>3
    <2>3. \A m, n \in at : m = n
      BY <2>2 DEF IInv, RingInv
    <2>4. at # {} => newest \in at
      BY <2>2, <2>3
    <2> QED
      BY <2>1, <2>2, <2>4 DEF GetStatus, NewestOf
  <1> QED
    BY <1>1, <1>2 DEF StatusTruthful, Answered, Outcome

-----------------------------------------------------------------------------
LEMMA InitHolds == ASSUME ServingAssumption, Conditions, Init PROVE IInv
  <1>1. RunningCalls = {} /\ BatchRunning = {} /\ AnsweredCalls = {} /\ \A c \in Calls : ~Known(c)
    BY DEF Init, RunningCalls, BatchRunning, AnsweredCalls, Running, Answered, Known
  <1>2. Cardinality({}) = 0 /\ IsFiniteSet({})
    BY FS_EmptySet
  <1>3. DOMAIN records = {} /\ completed = <<>> /\ Len(completed) = 0
    BY DEF Init
  <1>4. TypeOK
    BY <1>3 DEF Init, TypeOK, ServingAssumption
  <1>5. IdsInv
    BY DEF Init, IdsInv
  <1>6. RecordsInv
    BY <1>1, <1>2, <1>3 DEF RecordsInv, Known
  <1>7. RingInv
    BY <1>1, <1>2, <1>3 DEF RingInv, ServingAssumption
  <1>8. CountsInv
    BY <1>1, <1>2 DEF Init, CountsInv, ServingAssumption
  <1> QED
    BY <1>4, <1>5, <1>6, <1>7, <1>8 DEF IInv

\* The ring depends on the calls that were answered and on nothing else of the state.
LEMMA RingUntouched ==
  ASSUME IInv, UNCHANGED completed, AnsweredCalls' = AnsweredCalls,
         \A c \in AnsweredCalls : id'[c] = id[c] /\ call'[c] = call[c]
  PROVE  RingInv'
  <1>1. ASSUME NEW n \in 1..Len(completed) PROVE completed[n].of \in AnsweredCalls
    <2>1. completed[n] \in Entries
      BY DEF IInv, RingInv
    <2> QED
      BY <2>1 DEF Entries, IInv, RingInv, AnsweredCalls
  <1> QED
    BY <1>1 DEF IInv, RingInv, Answered, Outcome

\* A request that is taken in joins those under way.
LEMMA RequestBegins ==
  ASSUME ServingAssumption, Conditions, IInv, NEW c \in Calls, NEW i \in Ids,
         call[c] \in {"new", "queued"}, Begin(c, i)
  PROVE  /\ IdsInv' /\ RecordsInv' /\ RingInv'
         /\ call' \in [Calls -> {"new", "queued", "running", "ok", "error", "refused", "cancelled"}]
         /\ id' \in [Calls -> Ids \union {Nobody}] /\ in_flight' \subseteq Ids
         /\ depth' \in Nat /\ active' = active + 1
         /\ RunningCalls' = RunningCalls \union {c} /\ c \notin RunningCalls
  <1>1. /\ call' = [call EXCEPT ![c] = "running"] /\ id' = [id EXCEPT ![c] = i]
        /\ records' = Put(i, [request_id |-> i, of |-> c, status |-> "in_progress"])
        /\ \A d \in Calls : id[d] # i
        /\ UNCHANGED <<server, completed>>
    BY DEF Begin, Conditions
  <1>2. /\ call \in [Calls -> {"new", "queued", "running", "ok", "error", "refused", "cancelled"}]
        /\ id \in [Calls -> Ids \union {Nobody}] /\ id[c] = Nobody /\ i # Nobody
    BY DEF IInv, TypeOK, IdsInv, ServingAssumption
  <1>3. \A d \in Calls : d # c => id'[d] = id[d] /\ call'[d] = call[d]
    BY <1>1, <1>2
  <1>4. id'[c] = i /\ call'[c] = "running"
    BY <1>1, <1>2
  <1>5. IdsInv'
    BY <1>1, <1>2, <1>3, <1>4 DEF IInv, IdsInv
  <1>6. RecordsInv'
    <2>1. DOMAIN records' = DOMAIN records \union {i}
      BY <1>1 DEF Put
    <2>2. IsFiniteSet(DOMAIN records')
      BY <2>1, FS_AddElement DEF IInv, RecordsInv
    <2>3. \A d \in Calls : Known(d)' <=> Known(d) \/ d = c
      BY <1>2, <1>3, <1>4 DEF Known, Running
    <2>4. ~Known(c)
      BY <1>2 DEF Known, Running
    <2>5. \A j \in Ids : j \in DOMAIN records' <=> \E d \in Calls : Known(d)' /\ id'[d] = j
      BY <1>3, <1>4, <2>1, <2>3, <2>4 DEF IInv, RecordsInv
    <2>6. ASSUME NEW d \in Calls, Running(d)'
          PROVE  records'[id'[d]] = [request_id |-> id'[d], of |-> d, status |-> "in_progress"]
      <3>1. CASE d = c
        BY <1>1, <1>4, <3>1 DEF Put
      <3>2. CASE d # c
        <4>1. Running(d) /\ id'[d] = id[d] /\ id[d] # i /\ id[d] \in Ids
          BY <1>1, <1>2, <1>3, <2>6, <3>2 DEF Running, IInv, IdsInv
        <4>2. id[d] \in DOMAIN records
          BY <4>1 DEF IInv, RecordsInv, Known
        <4> QED
          BY <1>1, <4>1, <4>2 DEF Put, IInv, RecordsInv
      <3> QED
        BY <3>1, <3>2
    <2>7. DOMAIN records' \subseteq Ids
      BY <2>1 DEF IInv, RecordsInv
    <2> QED
      BY <2>2, <2>5, <2>6, <2>7 DEF RecordsInv
  <1>7. AnsweredCalls' = AnsweredCalls /\ c \notin AnsweredCalls
    BY <1>2, <1>3, <1>4 DEF AnsweredCalls, Answered
  <1>8. RingInv'
    BY <1>1, <1>3, <1>7, RingUntouched DEF AnsweredCalls
  <1>9. RunningCalls' = RunningCalls \union {c} /\ c \notin RunningCalls
    BY <1>2, <1>3, <1>4 DEF RunningCalls, Running
  <1>10. depth' \in Nat
    BY <1>6, FS_CardinalityType DEF Begin, RecordsInv
  <1> QED
    BY <1>1, <1>2, <1>5, <1>6, <1>8, <1>9, <1>10 DEF Begin, IInv, TypeOK

-----------------------------------------------------------------------------
\* An answer enters the ring last, and the oldest leaves when there is no room.
Told(entry, calls, ids) ==
  /\ calls[entry.of] \in {"ok", "error"} /\ entry.request_id = ids[entry.of]
  /\ entry.status = IF calls[entry.of] = "ok" THEN "completed" ELSE "failed"

LEMMA RingTakesAnswer ==
  ASSUME ServingAssumption, Conditions, IInv, NEW c \in Calls, Running(c),
         NEW s \in {"ok", "error"}, call' = [call EXCEPT ![c] = s], UNCHANGED id,
         completed' = Archived(id[c], IF s = "ok" THEN "completed" ELSE "failed")
  PROVE  RingInv'
  <1> DEFINE status == IF s = "ok" THEN "completed" ELSE "failed"
             new == [request_id |-> id[c], of |-> c, status |-> status]
             all == Append(completed, new)
  <1>1. call \in [Calls -> {"new", "queued", "running", "ok", "error", "refused", "cancelled"}]
        /\ call[c] = "running" /\ id[c] \in Ids
    BY DEF IInv, TypeOK, IdsInv, Running
  <1>2. id[c] \in DOMAIN records
    BY <1>1 DEF IInv, RecordsInv, Known, Running
  <1>3. [records[id[c]] EXCEPT !.status = status] = new
    <2>1. records[id[c]] = [request_id |-> id[c], of |-> c, status |-> "in_progress"]
      BY DEF IInv, RecordsInv
    <2> QED
      BY <2>1
  <1>4. completed' = IF Len(all) > MaxCompleted THEN Tail(all) ELSE all
    BY <1>2, <1>3 DEF Archived
  <1>5. call'[c] = s /\ \A d \in Calls : d # c => call'[d] = call[d]
    BY <1>1
  <1>6. AnsweredCalls' = AnsweredCalls \union {c} /\ c \notin AnsweredCalls
    BY <1>1, <1>5 DEF AnsweredCalls, Answered
  <1>7. Cardinality(AnsweredCalls') = Cardinality(AnsweredCalls) + 1
    BY <1>6, Finite, FS_AddElement
  <1>8. completed \in Seq(Entries) /\ Len(completed) \in Nat
    BY DEF IInv, RingInv
  <1>9. new \in Entries /\ new.of = c /\ Told(new, call', id')
    BY <1>1, <1>5 DEF Entries, Told
  <1>10. /\ all \in Seq(Entries) /\ Len(all) = Len(completed) + 1 /\ all[Len(completed) + 1] = new
         /\ \A n \in 1..Len(completed) : all[n] = completed[n]
    BY <1>8, <1>9
  <1> HIDE DEF all, new
  <1>11. ASSUME NEW n \in 1..Len(completed)
         PROVE  completed[n].of # c /\ Told(completed[n], call', id')
    <2>1. completed[n] \in Entries
      BY <1>8
    <2>2. completed[n].of \in Calls /\ Told(completed[n], call, id)
      BY <2>1 DEF Entries, IInv, RingInv, Told, Answered, Outcome
    <2>3. completed[n].of # c
      BY <1>1, <2>2 DEF Told
    <2> QED
      BY <1>5, <2>2, <2>3 DEF Told
  <1>12. \A n \in 1..Len(all) : n \in 1..Len(completed) \/ n = Len(completed) + 1
    BY <1>8, <1>10
  <1>13. \A n \in 1..Len(all) : Told(all[n], call', id')
    BY <1>9, <1>10, <1>11, <1>12
  <1>14. \A m, n \in 1..Len(all) : all[m].of = all[n].of => m = n
    <2>1. \A m, n \in 1..Len(completed) : completed[m].of = completed[n].of => m = n
      BY DEF IInv, RingInv
    <2> QED
      BY <1>9, <1>10, <1>11, <1>12, <2>1
  <1>15. /\ completed' \in Seq(Entries)
         /\ \A n \in 1..Len(completed') : Told(completed'[n], call', id')
         /\ \A m, n \in 1..Len(completed') : completed'[m].of = completed'[n].of => m = n
         /\ Len(completed') = IF Cardinality(AnsweredCalls') < MaxCompleted
                              THEN Cardinality(AnsweredCalls') ELSE MaxCompleted
    <2>1. Len(completed) = IF Cardinality(AnsweredCalls) < MaxCompleted
                           THEN Cardinality(AnsweredCalls) ELSE MaxCompleted
      BY DEF IInv, RingInv
    <2>2. CASE Len(all) > MaxCompleted
      <3>1. completed' = Tail(all) /\ all # <<>>
        BY <1>4, <1>8, <1>10, <2>2
      <3>2. Tail(all) \in Seq(Entries) /\ Len(Tail(all)) = Len(completed)
        BY <1>8, <1>10, <3>1
      <3>3. \A n \in 1..Len(completed) : Tail(all)[n] = all[n + 1]
        BY <1>8, <1>10, <3>1
      <3>4. \A n \in 1..Len(completed) : n + 1 \in 1..Len(all)
        BY <1>8, <1>10
      <3>5. \A n \in 1..Len(completed) : Told(completed'[n], call', id')
        BY <1>13, <3>1, <3>3, <3>4
      <3>6. ASSUME NEW m \in 1..Len(completed), NEW n \in 1..Len(completed),
                   completed'[m].of = completed'[n].of
            PROVE  m = n
        <4>1. all[m + 1].of = all[n + 1].of /\ m + 1 \in 1..Len(all) /\ n + 1 \in 1..Len(all)
          BY <3>1, <3>3, <3>4, <3>6
        <4>2. m + 1 = n + 1
          BY <1>14, <4>1
        <4> QED
          BY <1>8, <4>2
      <3>7. Len(completed') = IF Cardinality(AnsweredCalls') < MaxCompleted
                              THEN Cardinality(AnsweredCalls') ELSE MaxCompleted
        BY <1>7, <1>10, <2>1, <2>2, <3>1, <3>2, Finite DEF ServingAssumption
      <3> QED
        BY <3>1, <3>2, <3>5, <3>6, <3>7
    <2>3. CASE ~(Len(all) > MaxCompleted)
      <3>1. completed' = all
        BY <1>4, <2>3
      <3>2. Len(all) = IF Cardinality(AnsweredCalls') < MaxCompleted
                       THEN Cardinality(AnsweredCalls') ELSE MaxCompleted
        BY <1>7, <1>10, <2>1, <2>3, Finite DEF ServingAssumption
      <3> QED
        BY <1>10, <1>13, <1>14, <3>1, <3>2
    <2> QED
      BY <2>2, <2>3
  <1>16. Entries' = Entries
    BY DEF Entries
  <1> QED
    BY <1>15, <1>16 DEF RingInv, Told, Answered, Outcome

\* A request that ends gives back what it took, and leaves no other call's record.
LEMMA RequestEnds ==
  ASSUME ServingAssumption, Conditions, IInv, NEW c \in Calls, Running(c),
         NEW s \in {"ok", "error"}, call' = [call EXCEPT ![c] = s], UNCHANGED <<server, id, depth>>,
         completed' = Archived(id[c], IF s = "ok" THEN "completed" ELSE "failed"),
         records' = Drop(id[c]), Leave(c), in_flight' \subseteq in_flight
  PROVE  IInv'
  <1>1. call \in [Calls -> {"new", "queued", "running", "ok", "error", "refused", "cancelled"}]
        /\ call[c] = "running" /\ id[c] \in Ids
    BY DEF IInv, TypeOK, IdsInv, Running
  <1>2. call'[c] = s /\ \A d \in Calls : d # c => call'[d] = call[d]
    BY <1>1
  <1>3. RingInv'
    BY RingTakesAnswer
  <1>4. IdsInv'
    BY <1>1, <1>2 DEF IInv, IdsInv
  <1>5. RecordsInv'
    <2>1. DOMAIN records' = DOMAIN records \ {id[c]} /\ \A i \in DOMAIN records' : records'[i] = records[i]
      BY DEF Drop
    <2>2. IsFiniteSet(DOMAIN records') /\ DOMAIN records' \subseteq Ids
      BY <2>1, FS_RemoveElement DEF IInv, RecordsInv
    <2>3. \A d \in Calls : Known(d)' <=> Known(d) /\ d # c
      BY <1>1, <1>2 DEF Known, Running
    <2>4. \A d \in Calls : Known(d) /\ d # c => id[d] # id[c]
      BY <1>1, ServingAssumption DEF IInv, IdsInv
    <2>5. \A i \in Ids : i \in DOMAIN records' <=> \E d \in Calls : Known(d)' /\ id'[d] = i
      BY <1>1, <2>1, <2>3, <2>4 DEF IInv, RecordsInv
    <2>6. ASSUME NEW d \in Calls, Running(d)'
          PROVE  records'[id'[d]] = [request_id |-> id'[d], of |-> d, status |-> "in_progress"]
      <3>1. d # c /\ Running(d) /\ id[d] \in Ids
        BY <1>2, <2>6 DEF Running, IInv, TypeOK, IdsInv
      <3>2. id[d] \in DOMAIN records'
        BY <2>1, <2>4, <3>1 DEF Known, IInv, RecordsInv
      <3> QED
        BY <2>1, <3>1, <3>2 DEF IInv, RecordsInv
    <2> QED
      BY <2>2, <2>5, <2>6 DEF RecordsInv
  <1>6. CountsInv'
    <2>1. RunningCalls' = RunningCalls \ {c} /\ c \in RunningCalls
      BY <1>1, <1>2 DEF RunningCalls, Running
    <2>2. BatchRunning' = IF InBatch(c) THEN BatchRunning \ {c} ELSE BatchRunning
      BY <2>1 DEF BatchRunning, InBatch
    <2>3. InBatch(c) => c \in BatchRunning
      BY <2>1 DEF BatchRunning
    <2>4. Cardinality(RunningCalls') = Cardinality(RunningCalls) - 1
      BY <2>1, Finite, FS_RemoveElement
    <2>5. Cardinality(BatchRunning') =
            IF InBatch(c) THEN Cardinality(BatchRunning) - 1 ELSE Cardinality(BatchRunning)
      BY <2>2, <2>3, Finite, FS_RemoveElement
    <2>6. Cardinality(BatchRunning') \in Nat
      BY Finite, FS_Subset, FS_CardinalityType, FS_RemoveElement, <2>2
    <2> QED
      BY <2>4, <2>5, <2>6, Finite DEF IInv, CountsInv, Leave, ServingAssumption
  <1>7. TypeOK'
    <2>1. active' \in Nat /\ permits' \in 0..BatchLimit
      BY <1>6, Finite, FS_Subset, FS_CardinalityType DEF CountsInv, RunningCalls, Conditions
    <2>2. Len(completed') <= MaxCompleted
      BY <1>3, Finite DEF RingInv, ServingAssumption
    <2> QED
      BY <1>1, <1>5, <2>1, <2>2 DEF IInv, TypeOK, RecordsInv
  <1> QED
    BY <1>3, <1>4, <1>5, <1>6, <1>7 DEF IInv

-----------------------------------------------------------------------------
LEMMA CallBegins ==
  ASSUME ServingAssumption, Conditions, IInv, NEW c \in Calls, NEW i \in Ids,
         call[c] \in {"new", "queued"}, Begin(c, i),
         \/ ~InBatch(c) /\ UNCHANGED permits
         \/ InBatch(c) /\ permits > 0 /\ permits' = permits - 1
  PROVE  IInv'
  <1>1. /\ IdsInv' /\ RecordsInv' /\ RingInv'
        /\ call' \in [Calls -> {"new", "queued", "running", "ok", "error", "refused", "cancelled"}]
        /\ id' \in [Calls -> Ids \union {Nobody}] /\ in_flight' \subseteq Ids
        /\ depth' \in Nat /\ active' = active + 1
        /\ RunningCalls' = RunningCalls \union {c} /\ c \notin RunningCalls
    BY RequestBegins
  <1>2. BatchRunning' = IF InBatch(c) THEN BatchRunning \union {c} ELSE BatchRunning
    BY <1>1 DEF BatchRunning, InBatch
  <1>3. c \notin BatchRunning
    BY <1>1 DEF BatchRunning
  <1>4. Cardinality(RunningCalls') = Cardinality(RunningCalls) + 1
    BY <1>1, Finite, FS_AddElement
  <1>5. Cardinality(BatchRunning') =
          IF InBatch(c) THEN Cardinality(BatchRunning) + 1 ELSE Cardinality(BatchRunning)
    BY <1>2, <1>3, Finite, FS_AddElement
  <1>6. CountsInv'
    BY <1>1, <1>4, <1>5, Finite DEF IInv, CountsInv, ServingAssumption
  <1>7. UNCHANGED <<server, completed>>
    BY DEF Begin
  <1>8. active' \in Nat /\ permits' \in 0..BatchLimit
    BY <1>1, <1>6 DEF IInv, TypeOK, CountsInv
  <1>9. TypeOK'
    BY <1>1, <1>7, <1>8 DEF IInv, TypeOK, RecordsInv
  <1> QED
    BY <1>1, <1>6, <1>9 DEF IInv

\* A step that moves calls between states nothing of the rest depends on.
LEMMA CallsMove ==
  ASSUME ServingAssumption, Conditions, IInv, NEW S \in SUBSET Calls, NEW new,
         \/ new = "refused" /\ \A c \in S : call[c] = "new"
         \/ new = "queued" /\ \A c \in S : call[c] = "new",
         call' = [c \in Calls |-> IF c \in S THEN new ELSE call[c]],
         UNCHANGED <<server, id, records, completed, in_flight, permits, active, depth>>
  PROVE  IInv'
  <1>1. \A c \in Calls : /\ c \in S => call[c] = "new" /\ call'[c] = new
                         /\ c \notin S => call'[c] = call[c]
    OBVIOUS
  <1>2. \A c \in Calls : Running(c)' <=> Running(c)
    BY <1>1 DEF Running
  <1>3. \A c \in Calls : Answered(c)' <=> Answered(c)
    BY <1>1 DEF Answered
  <1>4. RunningCalls' = RunningCalls /\ AnsweredCalls' = AnsweredCalls
        /\ BatchRunning' = BatchRunning
    BY <1>2, <1>3 DEF RunningCalls, AnsweredCalls, BatchRunning, InBatch
  <1>5. TypeOK'
    BY <1>1 DEF IInv, TypeOK
  <1>6. IdsInv'
    BY <1>1 DEF IInv, IdsInv
  <1>7. \A c \in Calls : Known(c)' <=> Known(c)
    BY <1>1, <1>2 DEF Known
  <1>8. RecordsInv'
    BY <1>2, <1>7 DEF IInv, RecordsInv
  <1>9. RingInv'
    BY <1>1, <1>4, RingUntouched DEF AnsweredCalls, Answered
  <1>10. CountsInv'
    BY <1>4 DEF IInv, CountsInv
  <1> QED
    BY <1>5, <1>6, <1>8, <1>9, <1>10 DEF IInv

\* What a stopping server cancels leaves its record behind, and gives the rest back.
LEMMA StopHolds == ASSUME ServingAssumption, Conditions, IInv, Stop PROVE IInv'
  <1>1. call \in [Calls -> {"new", "queued", "running", "ok", "error", "refused", "cancelled"}]
    BY DEF IInv, TypeOK
  <1>2. \A c \in Calls : call'[c] = IF call[c] \in {"queued", "running"} THEN "cancelled" ELSE call[c]
    BY DEF Stop
  <1>3. UNCHANGED <<id, records, completed, in_flight, depth>>
    BY DEF Stop
  <1>4. RunningCalls' = {} /\ BatchRunning' = {} /\ AnsweredCalls' = AnsweredCalls
    BY <1>2 DEF RunningCalls, BatchRunning, AnsweredCalls, Running, Answered
  <1>5. active' = 0 /\ permits' = BatchLimit
    <2>1. RunningCalls = {c \in Calls : Running(c)}
          /\ BatchRunning = {c \in Calls : Running(c) /\ InBatch(c)}
      BY DEF RunningCalls, BatchRunning
    <2>2. active' = active - Cardinality(RunningCalls)
          /\ permits' = permits + Cardinality(BatchRunning)
      BY <2>1 DEF Stop
    <2> QED
      BY <2>2, Finite DEF IInv, CountsInv, ServingAssumption
  <1>6. IdsInv'
    BY <1>1, <1>2, <1>3 DEF IInv, IdsInv
  <1>7. \A c \in Calls : Known(c)' <=> Known(c)
    BY <1>1, <1>2, <1>3 DEF Known, Running, IInv, IdsInv
  <1>8. RecordsInv'
    BY <1>2, <1>3, <1>7 DEF IInv, RecordsInv, Running
  <1>9. RingInv'
    BY <1>2, <1>3, <1>4, RingUntouched DEF AnsweredCalls, Answered
  <1>10. CountsInv'
    BY <1>4, <1>5, FS_EmptySet DEF CountsInv, ServingAssumption
  <1>11. TypeOK'
    BY <1>1, <1>2, <1>3, <1>5 DEF IInv, TypeOK, Stop, ServingAssumption
  <1> QED
    BY <1>6, <1>8, <1>9, <1>10, <1>11 DEF IInv

-----------------------------------------------------------------------------
LEMMA StepHolds == ASSUME ServingAssumption, Conditions, IInv, [Next]_vars PROVE IInv'
  <1>1. ASSUME NEW c \in Calls, Generate(c) PROVE IInv'
    BY <1>1, CallBegins DEF Generate
  <1>2. ASSUME NEW c \in Calls, ModelAnswers(c) PROVE IInv'
    <2>1. /\ Running(c) /\ call' = [call EXCEPT ![c] = "ok"] /\ UNCHANGED <<server, id, depth>>
          /\ completed' = Archived(id[c], "completed") /\ records' = Drop(id[c])
          /\ Leave(c) /\ in_flight' \subseteq in_flight
      BY <1>2 DEF ModelAnswers, MarkCompleted, StatusOf
    <2> QED
      BY <2>1, RequestEnds
  <1>3. ASSUME NEW c \in Calls, ModelRaises(c) PROVE IInv'
    <2>1. /\ Running(c) /\ call' = [call EXCEPT ![c] = "error"] /\ UNCHANGED <<server, id, depth>>
          /\ completed' = Archived(id[c], "failed") /\ records' = Drop(id[c])
          /\ Leave(c) /\ in_flight' \subseteq in_flight
      BY <1>3 DEF ModelRaises, MarkCompleted, StatusOf, Conditions
    <2> QED
      BY <2>1, RequestEnds
  <1>4. ASSUME NEW c \in Calls, Refuse(c) PROVE IInv'
    <2>1. call' = [d \in Calls |-> IF d \in {c} THEN "refused" ELSE call[d]]
      BY <1>4 DEF Refuse, IInv, TypeOK
    <2>2. /\ {c} \in SUBSET Calls /\ \A d \in {c} : call[d] = "new"
          /\ UNCHANGED <<server, id, records, completed, in_flight, permits, active, depth>>
      BY <1>4 DEF Refuse
    <2> QED
      BY <2>1, <2>2, CallsMove
  <1>5. CASE Startup
    BY <1>5 DEF Startup, IInv, TypeOK, IdsInv, RecordsInv, RingInv, CountsInv, Known, Running,
                Answered, Outcome, RunningCalls, AnsweredCalls, BatchRunning, InBatch, Entries
  <1>6. CASE Stop
    BY <1>6, StopHolds
  <1>7. CASE BatchGenerate
    <2> DEFINE S == {c \in Calls : InBatch(c)}
    <2>1. call' = [c \in Calls |-> IF c \in S THEN "queued" ELSE call[c]]
      BY <1>7 DEF BatchGenerate
    <2>2. \A c \in S : call[c] = "new"
      BY <1>7 DEF BatchGenerate, InBatch
    <2> QED
      BY <1>7, <2>1, <2>2, CallsMove DEF BatchGenerate
  <1>8. CASE BatchNext
    <2>1. PICK n \in DOMAIN Batch : call[Batch[n]] = "queued" /\ \E i \in Ids : Begin(Batch[n], i)
      BY <1>8 DEF BatchNext
    <2>2. Batch[n] \in Calls /\ InBatch(Batch[n])
      BY <2>1 DEF ServingAssumption, InBatch
    <2>3. permits > 0 /\ permits' = permits - 1
      BY <1>8 DEF BatchNext
    <2> QED
      BY <2>1, <2>2, <2>3, CallBegins
  <1>9. CASE UNCHANGED vars
    BY <1>9 DEF vars, IInv, TypeOK, IdsInv, RecordsInv, RingInv, CountsInv, Known, Running,
                Answered, Outcome, RunningCalls, AnsweredCalls, BatchRunning, InBatch, Entries
  <1> QED
    BY <1>1, <1>2, <1>3, <1>4, <1>5, <1>6, <1>7, <1>8, <1>9 DEF Next

\* The invariant: what is registered, archived and counted are the calls there are.
LEMMA ServingInvariant == ASSUME Conditions PROVE Spec => []IInv
  <1>1. Init => IInv
    BY ServingAssumption, InitHolds
  <1>2. IInv /\ [Next]_vars => IInv'
    BY ServingAssumption, StepHolds
  <1> QED
    BY <1>1, <1>2, PTL DEF Spec

\* The registry, the ring, the gauge and the batch's permits account for exactly the
\* requests there are, however many calls, and however they end.
THEOREM RegistryIsExact == ASSUME Conditions PROVE Spec => []RegistryExact
  <1>1. IInv => RegistryExact
    BY ServingAssumption, RegistryHolds
  <1> QED
    BY <1>1, ServingInvariant, PTL

\* get_status tells what became of a request, or no longer knows it.
THEOREM StatusIsTruthful == ASSUME Conditions PROVE Spec => []StatusTruthful
  <1>1. IInv => StatusTruthful
    BY ServingAssumption, StatusHolds
  <1> QED
    BY <1>1, ServingInvariant, PTL

-----------------------------------------------------------------------------
(***************************************************************************)
(* The engine wrapper.                                                     *)
(***************************************************************************)
CallStates == {"new", "open", "yielded", "checking", "done", "failed", "abandoned"}

WrapperTypeOK ==
  /\ vllm \in BOOLEAN /\ built \in Nat
  /\ state \in [WrappedCalls -> CallStates]
  /\ output \in [WrappedCalls -> [text : Nat, finished : BOOLEAN]]
  /\ prev_len \in [WrappedCalls -> Nat] /\ received \in [WrappedCalls -> Seq(Nat)]
  /\ table \subseteq WrappedCalls
  /\ now \in Nat /\ last_check \in Nat /\ cycles \in Seq(Nat)

\* What is known of a call under vLLM: a stream that may go on has its length up to
\* date, a finished answer is whole, and who is past its last output has left the table.
CallInv(c) ==
  /\ c \in Streams => /\ received[c] = Tokens(1, output[c].text)
                      /\ state[c] \in {"new", "open"} => prev_len[c] = output[c].text
  /\ c \in Generates => (output[c].finished => received[c] = Tokens(1, output[c].text))
  /\ state[c] \in {"checking", "done"} => output[c].finished /\ c \notin table

StreamInv == vllm => \A c \in WrappedCalls : CallInv(c)

\* last_check is when the last cycle began, and without one an interval has passed.
CycleInv ==
  /\ last_check <= now /\ Interval <= now
  /\ cycles = <<>> => last_check = 0
  /\ cycles # <<>> => cycles[Len(cycles)] = last_check
  /\ CyclesSpaced

WrapperInv == WrapperTypeOK /\ StreamInv /\ CycleInv

-----------------------------------------------------------------------------
\* The tokens up to one place and those after it are the tokens: what a stream sends
\* is what it had not sent.
LEMMA TokensJoin ==
  ASSUME NEW sent \in Nat, NEW text \in Nat, sent <= text
  PROVE  Tokens(1, sent) \o Delta(text, sent) = Tokens(1, text)
  <1> DEFINE a == Tokens(1, sent)  b == Delta(text, sent)  t == Tokens(1, text)
  <1>1. a \in Seq(Nat) /\ Len(a) = sent /\ \A k \in 1..sent : a[k] = k
    BY DEF Tokens
  <1>2. b \in Seq(Nat) /\ Len(b) = text - sent /\ \A k \in 1..text - sent : b[k] = sent + k
    BY DEF Tokens, Delta
  <1>3. t \in Seq(Nat) /\ Len(t) = text /\ \A k \in 1..text : t[k] = k
    BY DEF Tokens
  <1> HIDE DEF a, b, t
  <1>4. a \o b \in Seq(Nat) /\ Len(a \o b) = text
    BY <1>1, <1>2
  <1>5. \A k \in 1..text : (a \o b)[k] = t[k]
    BY <1>1, <1>2, <1>3
  <1>6. a \o b = t
    BY <1>3, <1>4, <1>5, SeqEqual
  <1> QED
    BY <1>6 DEF a, b, t

LEMMA TokensType == ASSUME NEW m \in Nat, NEW n \in Nat PROVE Tokens(m, n) \in Seq(Nat)
  BY DEF Tokens

LEMMA NoTokens == Tokens(1, 0) = <<>>
  <1>1. Tokens(1, 0) \in Seq(Nat) /\ Len(Tokens(1, 0)) = 0
    BY DEF Tokens
  <1> QED
    BY <1>1, EmptySeq

LEMMA WrapperInitHolds == ASSUME WrapperAssumption, WrapperInit PROVE WrapperInv
  <1> USE DEF WrapperInit
  <1>1. WrapperTypeOK
    BY DEF WrapperTypeOK, WrapperAssumption, CallStates, NoOutput
  <1>2. StreamInv
    BY NoTokens DEF StreamInv, CallInv, NoOutput, WrappedCalls
  <1>3. CycleInv
    BY DEF CycleInv, CyclesSpaced, WrapperAssumption
  <1> QED
    BY <1>1, <1>2, <1>3 DEF WrapperInv

-----------------------------------------------------------------------------
\* One call's steps change what is known of that call alone.
LEMMA CallsApart ==
  ASSUME WrapperInv, vllm, vllm' = vllm, NEW c \in WrappedCalls,
         \A d \in WrappedCalls \ {c} :
           /\ state'[d] = state[d] /\ output'[d] = output[d] /\ prev_len'[d] = prev_len[d]
           /\ received'[d] = received[d] /\ (d \in table' => d \in table),
         CallInv(c)'
  PROVE  StreamInv'
  BY DEF WrapperInv, StreamInv, CallInv

LEMMA CallPreserves ==
  ASSUME WrapperAssumption, WrapperInv, vllm, NEW c \in WrappedCalls,
         \/ Start(c) \/ BuildFails(c) \/ GenerateOutput(c) \/ StreamOutput(c) \/ Resume(c)
         \/ Finish(c) \/ CycleEnds(c) \/ VllmRaises(c) \/ Abandon(c)
  PROVE  StreamInv'
  <1> USE DEF WrapperInv, WrapperTypeOK
  <1>0. CallInv(c)
    BY DEF StreamInv
  <1>1. CASE Start(c)
    <2>1. CallInv(c)'
      BY <1>0, <1>1 DEF Start, CallInv
    <2> QED
      BY <1>1, <2>1, CallsApart DEF Start
  <1>2. CASE BuildFails(c)
    <2>1. CallInv(c)'
      BY <1>0, <1>2 DEF BuildFails, CallInv
    <2> QED
      BY <1>2, <2>1, CallsApart DEF BuildFails
  <1>3. CASE GenerateOutput(c)
    <2>1. PICK o \in Outputs(c) :
            /\ output' = [output EXCEPT ![c] = o]
            /\ received' = [received EXCEPT ![c] = IF o.finished THEN Tokens(1, o.text) ELSE @]
      BY <1>3 DEF GenerateOutput
    <2>2. CallInv(c)'
      BY <1>0, <1>3, <2>1 DEF GenerateOutput, CallInv, WrapperAssumption
    <2> QED
      BY <1>3, <2>1, <2>2, CallsApart DEF GenerateOutput
  <1>4. CASE StreamOutput(c)
    <2> DEFINE delta(o) == Delta(o.text, prev_len[c])
    <2>1. PICK o \in Outputs(c) :
            /\ output' = [output EXCEPT ![c] = o]
            /\ received' = [received EXCEPT ![c] = @ \o delta(o)]
            /\ state' = [state EXCEPT ![c] = IF delta(o) = <<>> THEN "open" ELSE "yielded"]
            /\ prev_len' = [prev_len EXCEPT ![c] = IF delta(o) = <<>> THEN o.text ELSE @]
      BY <1>4 DEF StreamOutput
    <2>2. c \in Streams /\ state[c] = "open" /\ prev_len[c] = output[c].text
          /\ received[c] = Tokens(1, output[c].text)
      BY <1>0, <1>4 DEF StreamOutput, CallInv
    <2>3. o.text \in Nat /\ output[c].text \in Nat /\ output[c].text <= o.text
      BY DEF Outputs, WrapperAssumption
    <2>4. received'[c] = Tokens(1, o.text)
      BY <2>1, <2>2, <2>3, TokensJoin
    <2>5. CallInv(c)'
      BY <2>1, <2>2, <2>4 DEF CallInv, WrapperAssumption
    <2> QED
      BY <1>4, <2>1, <2>5, CallsApart DEF StreamOutput
  <1>5. CASE Resume(c)
    <2>1. CallInv(c)'
      BY <1>0, <1>5 DEF Resume, CallInv
    <2> QED
      BY <1>5, <2>1, CallsApart DEF Resume
  <1>6. CASE Finish(c)
    <2>1. state' \in {[state EXCEPT ![c] = "done"], [state EXCEPT ![c] = "checking"]}
      BY <1>6 DEF Finish, Trigger
    <2>2. CallInv(c)'
      BY <1>0, <1>6, <2>1 DEF Finish, CallInv
    <2> QED
      BY <1>6, <2>1, <2>2, CallsApart DEF Finish
  <1>7. CASE CycleEnds(c)
    <2>1. CallInv(c)'
      BY <1>0, <1>7 DEF CycleEnds, CallInv
    <2> QED
      BY <1>7, <2>1, CallsApart DEF CycleEnds
  <1>8. CASE VllmRaises(c)
    <2>1. CallInv(c)'
      BY <1>0, <1>8 DEF VllmRaises, CallInv
    <2> QED
      BY <1>8, <2>1, CallsApart DEF VllmRaises
  <1>9. CASE Abandon(c)
    <2>1. CallInv(c)'
      BY <1>0, <1>9 DEF Abandon, CallInv
    <2> QED
      BY <1>9, <2>1, CallsApart DEF Abandon
  <1> QED
    BY <1>1, <1>2, <1>3, <1>4, <1>5, <1>6, <1>7, <1>8, <1>9

-----------------------------------------------------------------------------
LEMMA WrapperTypesPreserved ==
  ASSUME WrapperAssumption, WrapperTypeOK, [WrapperNext]_wrapperVars PROVE WrapperTypeOK'
  <1> USE DEF WrapperTypeOK, CallStates
  <1>1. CASE Tick
    BY <1>1 DEF Tick
  <1>2. ASSUME NEW c \in WrappedCalls, Start(c) PROVE WrapperTypeOK'
    BY <1>2 DEF Start, Built
  <1>3. ASSUME NEW c \in WrappedCalls, BuildFails(c) PROVE WrapperTypeOK'
    BY <1>3 DEF BuildFails
  <1>4. ASSUME NEW c \in WrappedCalls, GenerateOutput(c) PROVE WrapperTypeOK'
    <2>1. PICK o \in Outputs(c) :
            /\ output' = [output EXCEPT ![c] = o]
            /\ received' = [received EXCEPT ![c] = IF o.finished THEN Tokens(1, o.text) ELSE @]
      BY <1>4 DEF GenerateOutput
    <2>2. o \in [text : Nat, finished : BOOLEAN]
      BY DEF Outputs, WrapperAssumption
    <2>3. Tokens(1, o.text) \in Seq(Nat)
      BY <2>2, TokensType
    <2> QED
      BY <1>4, <2>1, <2>2, <2>3 DEF GenerateOutput
  <1>5. ASSUME NEW c \in WrappedCalls, StreamOutput(c) PROVE WrapperTypeOK'
    <2> DEFINE delta(o) == Delta(o.text, prev_len[c])
    <2>1. PICK o \in Outputs(c) :
            /\ output' = [output EXCEPT ![c] = o]
            /\ received' = [received EXCEPT ![c] = @ \o delta(o)]
            /\ state' = [state EXCEPT ![c] = IF delta(o) = <<>> THEN "open" ELSE "yielded"]
            /\ prev_len' = [prev_len EXCEPT ![c] = IF delta(o) = <<>> THEN o.text ELSE @]
      BY <1>5 DEF StreamOutput
    <2>2. o \in [text : Nat, finished : BOOLEAN]
      BY DEF Outputs, WrapperAssumption
    <2>3. delta(o) \in Seq(Nat)
      BY <2>2, TokensType DEF Delta
    <2> QED
      BY <1>5, <2>1, <2>2, <2>3 DEF StreamOutput
  <1>6. ASSUME NEW c \in WrappedCalls, Resume(c) PROVE WrapperTypeOK'
    BY <1>6 DEF Resume
  <1>7. ASSUME NEW c \in WrappedCalls, Finish(c) PROVE WrapperTypeOK'
    <2>1. \E s \in {"done", "checking"} : state' = [state EXCEPT ![c] = s]
      BY <1>7 DEF Finish, Trigger
    <2>2. last_check' \in {last_check, now} /\ cycles' \in {cycles, Append(cycles, now)}
      BY <1>7 DEF Finish, Trigger
    <2>3. now \in Nat /\ last_check \in Nat /\ cycles \in Seq(Nat)
      OBVIOUS
    <2>4. UNCHANGED <<vllm, built, output, prev_len, received, now>> /\ table' \subseteq table
      BY <1>7 DEF Finish
    <2>5. Append(cycles, now) \in Seq(Nat)
      BY <2>3
    <2>6. last_check' \in Nat /\ cycles' \in Seq(Nat)
      BY <2>2, <2>3, <2>5
    <2>7. state' \in [WrappedCalls -> CallStates]
      BY <2>1
    <2> QED
      BY <2>4, <2>6, <2>7
  <1>8. ASSUME NEW c \in WrappedCalls, CycleEnds(c) \/ VllmRaises(c) \/ Abandon(c)
        PROVE  WrapperTypeOK'
    <2>1. /\ \E s \in {"done", "failed", "abandoned"} : state' = [state EXCEPT ![c] = s]
          /\ UNCHANGED <<vllm, built, output, prev_len, received, table, now, last_check, cycles>>
      BY <1>8 DEF CycleEnds, VllmRaises, Abandon
    <2> QED
      BY <2>1
  <1>9. ASSUME NEW c \in WrappedCalls, MockGenerate(c) \/ MockStream(c) PROVE WrapperTypeOK'
    <2>1. CASE MockGenerate(c)
      BY <2>1 DEF MockGenerate
    <2>2. CASE MockStream(c)
      <3>1. state' \in {state, [state EXCEPT ![c] = "done"]}
        BY <2>2 DEF MockStream
      <3>2. received' \in {received, [received EXCEPT ![c] = Append(received[c], Len(received[c]) + 1)]}
        BY <2>2 DEF MockStream
      <3>3. Append(received[c], Len(received[c]) + 1) \in Seq(Nat)
        OBVIOUS
      <3> QED
        BY <2>2, <3>1, <3>2, <3>3 DEF MockStream
    <2> QED
      BY <1>9, <2>1, <2>2
  <1>10. CASE UNCHANGED wrapperVars
    BY <1>10 DEF wrapperVars, engineCalls
  <1> QED
    BY <1>1, <1>2, <1>3, <1>4, <1>5, <1>6, <1>7, <1>8, <1>9, <1>10 DEF WrapperNext

LEMMA StreamsPreserved ==
  ASSUME WrapperAssumption, WrapperInv, [WrapperNext]_wrapperVars PROVE StreamInv'
  <1>1. CASE ~vllm'
    BY <1>1 DEF StreamInv
  <1>2. CASE vllm'
    <2>1. vllm
      BY <1>2 DEF WrapperInv, WrapperTypeOK, WrapperNext, wrapperVars, Tick, Start, BuildFails,
                  GenerateOutput, StreamOutput,
                  Resume, Finish, CycleEnds, VllmRaises, Abandon, MockGenerate, MockStream
    <2>2. CASE Tick \/ UNCHANGED wrapperVars
      BY <2>2 DEF WrapperInv, StreamInv, CallInv, Tick, wrapperVars, engineCalls
    <2> QED
      BY <2>1, <2>2, CallPreserves DEF WrapperNext, MockGenerate, MockStream
  <1> QED
    BY <1>1, <1>2

\* Steps that begin no cycle and end no call under vLLM leave the cycles as they are.
LEMMA CyclesUntouched ==
  ASSUME WrapperInv, UNCHANGED <<vllm, now, last_check, cycles>>,
         vllm => \A c \in WrappedCalls :
                   state'[c] \in {"checking", "done"} => state[c] \in {"checking", "done"}
  PROVE  CycleInv'
  BY DEF WrapperInv, WrapperTypeOK, CycleInv, CyclesSpaced

LEMMA TimesAreNumbers ==
  ASSUME WrapperAssumption, WrapperInv PROVE now \in Nat /\ last_check \in Nat /\ Interval \in Nat
  BY DEF WrapperAssumption, WrapperInv, WrapperTypeOK

LEMMA CyclesPreserved ==
  ASSUME WrapperAssumption, WrapperInv, [WrapperNext]_wrapperVars PROVE CycleInv'
  <1> USE DEF WrapperInv, WrapperTypeOK, CycleInv, CyclesSpaced, WrapperAssumption
  <1>1. CASE Tick
    BY <1>1 DEF Tick
  <1>2. ASSUME NEW c \in WrappedCalls, Finish(c) PROVE CycleInv'
    <2>1. CASE now - last_check < Interval
      <3>1. cycles # <<>>
        BY <2>1
      <3> QED
        BY <1>2, <2>1, <3>1 DEF Finish, Trigger
    <2>2. CASE ~(now - last_check < Interval)
      <3>1. cycles' = Append(cycles, now) /\ last_check' = now /\ now' = now
        BY <1>2, <2>2 DEF Finish, Trigger
      <3>2. /\ Len(cycles') = Len(cycles) + 1 /\ cycles'[Len(cycles) + 1] = now
            /\ \A n \in 1..Len(cycles) : cycles'[n] = cycles[n]
        BY <3>1
      <3>3. cycles # <<>> => Len(cycles) \in Nat \ {0} /\ cycles[Len(cycles)] = last_check
        BY EmptySeq
      <3>4. Len(cycles) \in Nat /\ \A n \in 2..Len(cycles) : cycles[n] - cycles[n - 1] >= Interval
        OBVIOUS
      <3>5. ASSUME NEW n \in 2..Len(cycles) + 1 PROVE cycles'[n] - cycles'[n - 1] >= Interval
        <4> HIDE DEF WrapperInv
        <4>1. CASE n <= Len(cycles)
          <5>1. cycles'[n] = cycles[n] /\ cycles'[n - 1] = cycles[n - 1]
            BY <3>2, <3>4, <4>1
          <5> QED
            BY <3>4, <4>1, <5>1
        <4>2. CASE n = Len(cycles) + 1
          <5>1. cycles # <<>> /\ n - 1 = Len(cycles) /\ n - 1 \in 1..Len(cycles)
            BY <3>4, <4>2
          <5>2. cycles'[n] = now /\ cycles'[n - 1] = last_check
            BY <3>2, <3>3, <4>2, <5>1
          <5> QED
            BY <2>2, <5>2, TimesAreNumbers
        <4> QED
          BY <3>4, <4>1, <4>2
      <3>6. cycles' # <<>> /\ cycles'[Len(cycles')] = last_check'
        <4> HIDE DEF WrapperInv
        <4> QED
          BY <3>1, <3>2, <3>4
      <3>7. CyclesSpaced'
        BY <3>2, <3>5, <3>6
      <3>8. now' \in Nat /\ Interval <= now' /\ last_check' <= now'
        BY <3>1
      <3> QED
        BY <3>6, <3>7, <3>8
    <2> QED
      BY <2>1, <2>2
  <1>3. ASSUME NEW c \in WrappedCalls, CycleEnds(c) PROVE CycleInv'
    BY <1>3, CyclesUntouched DEF CycleEnds
  <1>4. ASSUME NEW c \in WrappedCalls, MockGenerate(c) \/ MockStream(c) PROVE CycleInv'
    <2>1. ~vllm /\ UNCHANGED <<vllm, now, last_check, cycles>>
      BY <1>4 DEF MockGenerate, MockStream
    <2> QED
      BY <2>1, CyclesUntouched
  <1>5. ASSUME NEW c \in WrappedCalls,
               Start(c) \/ BuildFails(c) \/ Resume(c) \/ VllmRaises(c) \/ Abandon(c)
        PROVE  CycleInv'
    <2>1. /\ UNCHANGED <<vllm, now, last_check, cycles>>
          /\ \E s \in {"open", "failed", "abandoned"} : state' = [state EXCEPT ![c] = s]
      BY <1>5 DEF Start, BuildFails, Resume, VllmRaises, Abandon
    <2> QED
      BY <2>1, CyclesUntouched
  <1>6. ASSUME NEW c \in WrappedCalls, GenerateOutput(c) PROVE CycleInv'
    BY <1>6, CyclesUntouched DEF GenerateOutput
  <1>7. ASSUME NEW c \in WrappedCalls, StreamOutput(c) PROVE CycleInv'
    <2>1. /\ UNCHANGED <<vllm, now, last_check, cycles>>
          /\ \E s \in {"open", "yielded"} : state' = [state EXCEPT ![c] = s]
      BY <1>7 DEF StreamOutput
    <2> QED
      BY <2>1, CyclesUntouched
  <1>8. CASE UNCHANGED wrapperVars
    BY <1>8 DEF wrapperVars, engineCalls
  <1> QED
    BY <1>1, <1>2, <1>3, <1>4, <1>5, <1>6, <1>7, <1>8 DEF WrapperNext

LEMMA WrapperInvariant == WrapperSpec => []WrapperInv
  <1> USE WrapperAssumption
  <1>1. WrapperInit => WrapperInv
    BY WrapperInitHolds
  <1>2. WrapperInv /\ [WrapperNext]_wrapperVars => WrapperInv'
    BY WrapperTypesPreserved, StreamsPreserved, CyclesPreserved DEF WrapperInv
  <1> QED
    BY <1>1, <1>2, PTL DEF WrapperSpec

-----------------------------------------------------------------------------
\* What the consumer of a stream holds is the text so far, each token once and in its
\* place, for any number of calls and outputs, and what a call that ended well returned
\* is the whole text.
THEOREM StreamsGiveTheText == WrapperSpec => []StreamsTrue
  <1>1. WrapperInv => StreamsTrue
    BY DEF WrapperInv, StreamInv, CallInv, StreamsTrue, WrappedCalls
  <1> QED
    BY <1>1, WrapperInvariant, PTL

\* Cycles begin an interval apart, however many calls end at the same time.
THEOREM CyclesKeepInterval == WrapperSpec => []CyclesSpaced
  <1>1. WrapperInv => CyclesSpaced
    BY DEF WrapperInv, CycleInv
  <1> QED
    BY <1>1, WrapperInvariant, PTL
=============================================================================
