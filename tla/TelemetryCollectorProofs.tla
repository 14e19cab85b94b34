---------------------- MODULE TelemetryCollectorProofs ----------------------
(***************************************************************************)
(* TypeOK and LogOrdered hold of TelemetryCollector for every buffer size, *)
(* every number of days and whatever fails; EveryRecordKept and            *)
(* StopWritesAll hold where no write is cut short.                         *)
(***************************************************************************)
EXTENDS TraceReader, SequenceTheorems, WellFoundedInduction, TLAPS

\* The lock is held exactly by the flush that the three actors agree on, and
\* the buffer stays empty while it is.
LockInv ==
  /\ batch = <<>> <=> write.pc = "none"
  /\ batch # <<>> => buffer = <<>>
  /\ flusher = "writing" <=> write.pc # "none" /\ write.by = "flusher"
  /\ stopping = "flushing" <=> write.pc # "none" /\ write.by = "stopper"

\* No file is written after the day that is being written, or may be next.
LastDay == IF write.pc = "opened" THEN write.day ELSE Today
DayInv ==
  /\ \A e \in Places : LastDay < e => files[e] = <<>>
  /\ write.pc = "opened" =>
       write.day <= today /\ Backend = "parquet" /\ files[write.day] = Torn
  /\ Backend = "memory" => \A d \in Places : files[d] # Torn

AllAdmitted ==
  /\ \A i \in DOMAIN buffer : buffer[i] <= accepted
  /\ \A i \in DOMAIN batch : batch[i] <= accepted
  /\ \A d \in Places : \A i \in DOMAIN Kept(d) : Kept(d)[i] <= accepted

IInv == TypeOK /\ LockInv /\ DayInv /\ AllAdmitted /\ LogOrdered

-----------------------------------------------------------------------------
\* Joining two ordered runs of records, the later one last, keeps the order,
\* and keeps everything on the side where it was.
LEMMA ConcatOrdered ==
  ASSUME NEW s \in Seq(Nat), NEW t \in Seq(Nat), Increasing(s), Increasing(t), Before(s, t)
  PROVE  Increasing(s \o t)
  <1> SUFFICES ASSUME NEW i \in DOMAIN (s \o t), NEW j \in DOMAIN (s \o t), i < j
               PROVE  (s \o t)[i] < (s \o t)[j]
    BY DEF Increasing
  <1>1. /\ s \o t \in Seq(Nat) /\ Len(s \o t) = Len(s) + Len(t)
        /\ \A k \in 1..Len(s) + Len(t) :
             (s \o t)[k] = IF k <= Len(s) THEN s[k] ELSE t[k - Len(s)]
    BY ConcatProperties
  <1>2. i \in 1..Len(s) + Len(t) /\ j \in 1..Len(s) + Len(t)
    BY <1>1, LenProperties
  <1>3. DOMAIN s = 1..Len(s) /\ DOMAIN t = 1..Len(t) /\ Len(s) \in Nat /\ Len(t) \in Nat
    BY LenProperties
  <1>4. CASE j <= Len(s)
    BY <1>1, <1>2, <1>3, <1>4 DEF Increasing
  <1>5. CASE i <= Len(s) /\ ~(j <= Len(s))
    BY <1>1, <1>2, <1>3, <1>5 DEF Before
  <1>6. CASE ~(i <= Len(s))
    <2>1. i - Len(s) \in DOMAIN t /\ j - Len(s) \in DOMAIN t /\ i - Len(s) < j - Len(s)
      BY <1>2, <1>3, <1>6
    <2>2. t[i - Len(s)] < t[j - Len(s)]
      BY <2>1 DEF Increasing
    <2> QED
      BY <1>1, <1>2, <1>3, <1>6, <2>2
  <1> QED
    BY <1>2, <1>3, <1>4, <1>5, <1>6

\* What holds of the records of both halves holds of the records of the whole.
LEMMA ConcatRecords ==
  ASSUME NEW s \in Seq(Nat), NEW t \in Seq(Nat)
  PROVE  /\ s \o t \in Seq(Nat)
         /\ \A i \in DOMAIN (s \o t) : \/ \E k \in DOMAIN s : (s \o t)[i] = s[k]
                                       \/ \E k \in DOMAIN t : (s \o t)[i] = t[k]
         /\ Records(s \o t) = Records(s) \union Records(t)
  <1>1. /\ s \o t \in Seq(Nat) /\ Len(s \o t) = Len(s) + Len(t)
        /\ \A k \in 1..Len(s) + Len(t) :
             (s \o t)[k] = IF k <= Len(s) THEN s[k] ELSE t[k - Len(s)]
    BY ConcatProperties
  <1>3. /\ DOMAIN s = 1..Len(s) /\ DOMAIN t = 1..Len(t) /\ Len(s) \in Nat /\ Len(t) \in Nat
        /\ DOMAIN (s \o t) = 1..Len(s) + Len(t)
    BY <1>1, LenProperties
  <1>4. \A i \in DOMAIN (s \o t) : \/ \E k \in DOMAIN s : (s \o t)[i] = s[k]
                                   \/ \E k \in DOMAIN t : (s \o t)[i] = t[k]
    <2> SUFFICES ASSUME NEW i \in DOMAIN (s \o t)
                 PROVE  \/ \E k \in DOMAIN s : (s \o t)[i] = s[k]
                        \/ \E k \in DOMAIN t : (s \o t)[i] = t[k]
      OBVIOUS
    <2>1. CASE i <= Len(s)
      BY <1>1, <1>3, <2>1
    <2>2. CASE ~(i <= Len(s))
      <3>1. i - Len(s) \in DOMAIN t
        BY <1>3, <2>2
      <3> QED
        BY <1>1, <1>3, <2>2, <3>1
    <2> QED
      BY <2>1, <2>2
  <1>5. \A k \in DOMAIN s : k \in DOMAIN (s \o t) /\ (s \o t)[k] = s[k]
    BY <1>1, <1>3
  <1>6. \A k \in DOMAIN t : /\ k + Len(s) \in DOMAIN (s \o t)
                            /\ (s \o t)[k + Len(s)] = t[k]
    <2> SUFFICES ASSUME NEW k \in DOMAIN t
                 PROVE  k + Len(s) \in DOMAIN (s \o t) /\ (s \o t)[k + Len(s)] = t[k]
      OBVIOUS
    <2>1. k + Len(s) \in 1..Len(s) + Len(t) /\ ~(k + Len(s) <= Len(s))
      BY <1>3
    <2>2. (k + Len(s)) - Len(s) = k
      BY <1>3
    <2> QED
      BY <1>1, <1>3, <2>1, <2>2
  <1>7. Records(s \o t) = Records(s) \union Records(t)
    <2>1. Records(s \o t) \subseteq Records(s) \union Records(t)
      BY <1>4 DEF Records
    <2>2. Records(s) \subseteq Records(s \o t)
      BY <1>5 DEF Records
    <2>3. Records(t) \subseteq Records(s \o t)
      BY <1>6 DEF Records
    <2> QED
      BY <2>1, <2>2, <2>3
  <1> QED
    BY <1>1, <1>4, <1>7

LEMMA BeforeConcat ==
  ASSUME NEW s \in Seq(Nat), NEW t \in Seq(Nat), NEW u \in Seq(Nat)
  PROVE  /\ Before(u, s) /\ Before(u, t) => Before(u, s \o t)
         /\ Before(s, u) /\ Before(t, u) => Before(s \o t, u)
  <1>1. \A i \in DOMAIN (s \o t) : \/ \E k \in DOMAIN s : (s \o t)[i] = s[k]
                                   \/ \E k \in DOMAIN t : (s \o t)[i] = t[k]
    BY ConcatRecords
  <1>2. Before(u, s) /\ Before(u, t) => Before(u, s \o t)
    BY <1>1, Zenon DEF Before
  <1>3. Before(s, u) /\ Before(t, u) => Before(s \o t, u)
    BY <1>1, Zenon DEF Before
  <1> QED
    BY <1>2, <1>3

\* A record numbered after all others may be appended to the last run.
LEMMA AppendNewest ==
  ASSUME NEW s \in Seq(Numbers), NEW n \in Nat, Increasing(s),
         \A i \in DOMAIN s : s[i] <= n
  PROVE  /\ Append(s, n + 1) \in Seq(Numbers) /\ Append(s, n + 1) # <<>>
         /\ Increasing(Append(s, n + 1))
         /\ \A i \in DOMAIN Append(s, n + 1) : Append(s, n + 1)[i] <= n + 1
         /\ Records(Append(s, n + 1)) = Records(s) \union {n + 1}
         /\ \A u \in Seq(Nat) : Before(u, s) /\ (\A i \in DOMAIN u : u[i] <= n)
                                => Before(u, Append(s, n + 1))
  <1> DEFINE a == Append(s, n + 1)
  <1>1. /\ a \in Seq(Numbers) /\ Len(a) = Len(s) + 1 /\ a # <<>>
        /\ \A i \in 1..Len(s) : a[i] = s[i]
        /\ a[Len(s) + 1] = n + 1
    <2>1. n + 1 \in Numbers
      BY DEF Numbers
    <2>2. a \in Seq(Numbers) /\ Len(a) = Len(s) + 1
      BY <2>1, AppendProperties
    <2>3. (\A i \in 1..Len(s) : a[i] = s[i]) /\ a[Len(s) + 1] = n + 1
      BY <2>1, AppendProperties
    <2>4. a # <<>>
      BY <2>1, AppendProperties
    <2> QED
      BY <2>2, <2>3, <2>4
  <1>2. /\ DOMAIN s = 1..Len(s) /\ DOMAIN a = 1..Len(s) + 1 /\ Len(s) \in Nat
        /\ \A i \in DOMAIN s : s[i] \in Nat
    BY <1>1, LenProperties, ElementOfSeq DEF Numbers
  <1>3. \A i \in DOMAIN a :
          (i \in DOMAIN s /\ a[i] = s[i]) \/ (i = Len(s) + 1 /\ a[i] = n + 1)
    BY <1>1, <1>2
  <1>4. Increasing(a)
    BY <1>2, <1>3 DEF Increasing
  <1>5. \A i \in DOMAIN a : a[i] <= n + 1
    BY <1>2, <1>3
  <1>6. Records(a) = Records(s) \union {n + 1}
    BY <1>1, <1>2, <1>3 DEF Records
  <1>7. \A u \in Seq(Nat) : Before(u, s) /\ (\A i \in DOMAIN u : u[i] <= n) => Before(u, a)
    <2> SUFFICES ASSUME NEW u \in Seq(Nat), Before(u, s), \A i \in DOMAIN u : u[i] <= n,
                        NEW i \in DOMAIN u, NEW j \in DOMAIN a
                 PROVE  u[i] < a[j]
      BY DEF Before
    <2>1. u[i] \in Nat
      BY ElementOfSeq, LenProperties
    <2> QED
      BY <1>3, <2>1 DEF Before
  <1> QED
    BY <1>1, <1>4, <1>5, <1>6, <1>7

-----------------------------------------------------------------------------
LEMMA EmptyRun ==
  /\ <<>> \in Seq(Numbers) /\ DOMAIN <<>> = {} /\ Increasing(<<>>) /\ Records(<<>>) = {}
  /\ \A s : Before(<<>>, s) /\ Before(s, <<>>)
  <1>1. <<>> \in Seq(Numbers) /\ Len(<<>>) = 0
    BY EmptySeq
  <1>2. DOMAIN <<>> = {}
    BY <1>1, LenProperties
  <1> QED
    BY <1>1, <1>2, Zenon DEF Increasing, Before, Records

LEMMA NumbersAreNat == \A s \in Seq(Numbers) : s \in Seq(Nat)
  BY SeqMonotonic DEF Numbers

LEMMA KeptType ==
  ASSUME TypeOK
  PROVE  \A d \in Places : Kept(d) \in Seq(Numbers)
  <1> SUFFICES ASSUME NEW d \in Places PROVE Kept(d) \in Seq(Numbers)
    OBVIOUS
  <1>1. files[d] \in Seq(Numbers) \union {Torn}
    BY DEF TypeOK
  <1>2. write.pc = "opened" => write.existing \in Seq(Numbers)
    BY DEF TypeOK
  <1> QED
    BY <1>1, <1>2, EmptyRun DEF Kept

\* A step that leaves at most one of the batch and the buffer with records, no
\* file with new ones, and numbers new records after the old keeps the order.
LEMMA OneRun ==
  ASSUME IInv, NEW q \in Seq(Numbers), Increasing(q),
         \/ batch' = q /\ buffer' = <<>>
         \/ batch' = <<>> /\ buffer' = q,
         accepted' \in Nat, accepted <= accepted',
         \A i \in DOMAIN q : q[i] <= accepted',
         \A d \in Places : Kept(d)' = Kept(d) \/ Kept(d)' = <<>>,
         \A d \in Places : Before(Kept(d), q)
  PROVE  AllAdmitted' /\ LogOrdered'
  <1>1. \A d \in Places : Kept(d) \in Seq(Nat) /\ \A i \in DOMAIN Kept(d) : Kept(d)[i] \in Nat
    BY KeptType, NumbersAreNat, ElementOfSeq, LenProperties DEF IInv
  <1>2. AllAdmitted'
    <2>1. \A d \in Places : \A i \in DOMAIN Kept(d)' : Kept(d)'[i] <= accepted'
      <3> SUFFICES ASSUME NEW d \in Places, NEW i \in DOMAIN Kept(d)'
                   PROVE  Kept(d)'[i] <= accepted'
        OBVIOUS
      <3>1. Kept(d)' = Kept(d)
        BY EmptyRun
      <3>2. Kept(d)[i] <= accepted /\ Kept(d)[i] \in Nat /\ accepted \in Nat
        BY <1>1, <3>1 DEF IInv, AllAdmitted, TypeOK
      <3> QED
        BY <3>1, <3>2
    <2>2. /\ \A i \in DOMAIN buffer' : buffer'[i] <= accepted'
          /\ \A i \in DOMAIN batch' : batch'[i] <= accepted'
      BY EmptyRun
    <2> QED
      BY <2>1, <2>2 DEF AllAdmitted
  <1>3. LogOrdered'
    <2>1. Increasing(buffer') /\ Increasing(batch') /\ Before(batch', buffer')
      BY EmptyRun
    <2>2. ASSUME NEW d \in Places
          PROVE  /\ Increasing(Kept(d)')
                 /\ Before(Kept(d)', batch') /\ Before(Kept(d)', buffer')
      BY EmptyRun DEF IInv, LogOrdered
    <2>3. ASSUME NEW d \in Places, NEW e \in Places, d < e
          PROVE  Before(Kept(d)', Kept(e)')
      <3>1. Before(Kept(d), Kept(e))
        BY <2>3 DEF IInv, LogOrdered
      <3> QED
        BY <3>1, EmptyRun
    <2>4. Increasing(buffer)' /\ Increasing(batch)' /\ Before(batch, buffer)'
      BY <2>1 DEF Increasing, Before
    <2>5. \A d \in Places : /\ Increasing(Kept(d))'
                            /\ Before(Kept(d), batch)' /\ Before(Kept(d), buffer)'
      BY <2>2 DEF Increasing, Before
    <2>6. \A d \in Places : \A e \in Places : d < e => Before(Kept(d), Kept(e))'
      BY <2>3 DEF Before
    <2> QED
      BY <2>4, <2>5, <2>6 DEF LogOrdered
  <1> QED
    BY <1>2, <1>3

-----------------------------------------------------------------------------
\* The records that wait, wherever they are: at most one of the two has any.
Waiting == IF batch = <<>> THEN buffer ELSE batch

LEMMA WaitingOrdered ==
  ASSUME IInv
  PROVE  /\ Waiting \in Seq(Numbers) /\ Increasing(Waiting)
         /\ \A i \in DOMAIN Waiting : Waiting[i] <= accepted
         /\ \A d \in Places : Before(Kept(d), Waiting)
         /\ \/ batch = Waiting /\ buffer = <<>>
            \/ batch = <<>> /\ buffer = Waiting
  BY DEF IInv, TypeOK, LockInv, AllAdmitted, LogOrdered, Waiting

\* Steps that touch neither the waiting records nor what the files hold.
LEMMA LogUntouched ==
  ASSUME IInv, buffer' = buffer, batch' = batch, accepted' = accepted,
         \A d \in Places : Kept(d)' = Kept(d)
  PROVE  AllAdmitted' /\ LogOrdered'
  <1>1. accepted' \in Nat /\ accepted <= accepted'
    BY DEF IInv, TypeOK
  <1> QED
    BY <1>1, WaitingOrdered, OneRun

LEMMA ActorStepPreserves ==
  ASSUME CollectorAssumption, IInv,
         WaitTimesOut \/ FlusherExits \/ Stop \/ Midnight
  PROVE  IInv'
  <1> USE DEF IInv, TypeOK
  <1>1. AllAdmitted' /\ LogOrdered'
    <2>1. \A d \in Places : Kept(d)' = Kept(d)
      BY DEF WaitTimesOut, FlusherExits, Stop, Midnight, Kept
    <2> QED
      BY <2>1, LogUntouched DEF WaitTimesOut, FlusherExits, Stop, Midnight
  <1>2. CASE WaitTimesOut
    BY <1>1, <1>2 DEF WaitTimesOut, LockInv, DayInv, LastDay, Today
  <1>3. CASE FlusherExits
    BY <1>1, <1>3 DEF FlusherExits, LockInv, DayInv, LastDay, Today
  <1>4. CASE Stop
    BY <1>1, <1>4 DEF Stop, LockInv, DayInv, LastDay, Today
  <1>5. CASE Midnight
    <2>1. TypeOK' /\ LockInv'
      BY <1>5, CollectorAssumption DEF Midnight, LockInv, Places
    <2>2. DayInv'
      BY <1>5, CollectorAssumption DEF Midnight, DayInv, LastDay, Today, Places
    <2> QED
      BY <1>1, <2>1, <2>2
  <1> QED
    BY <1>2, <1>3, <1>4, <1>5

\* Taking the lock to flush a run of records that continues the log.
LEMMA FlushLockedLog ==
  ASSUME CollectorAssumption, IInv, LockFree, NEW buf \in Seq(Numbers), NEW who \in Callers,
         FlushLocked(buf, who), files' = files, today' = today,
         accepted' \in Nat, accepted <= accepted', Increasing(buf),
         \A i \in DOMAIN buf : buf[i] <= accepted',
         \A d \in Places : Before(Kept(d), buf)
  PROVE  AllAdmitted' /\ LogOrdered' /\ DayInv'
  <1>1. write.pc = "none" /\ write'.pc # "opened"
    BY DEF IInv, LockInv, LockFree, FlushLocked, NoWrite
  <1>2. \A d \in Places : Kept(d)' = Kept(d)
    BY <1>1 DEF Kept
  <1>3. batch' = buf /\ buffer' = <<>>
    BY DEF FlushLocked
  <1>4. AllAdmitted' /\ LogOrdered'
    BY <1>2, <1>3, OneRun
  <1>5. DayInv'
    BY <1>1 DEF IInv, DayInv, LastDay, Today
  <1> QED
    BY <1>4, <1>5

LEMMA FlushPreserves ==
  ASSUME CollectorAssumption, IInv, Flush \/ FlushTick \/ FinalFlush
  PROVE  IInv'
  <1> USE DEF IInv
  <1>1. buffer \in Seq(Numbers) /\ Increasing(buffer) /\ accepted \in Nat
        /\ (\A i \in DOMAIN buffer : buffer[i] <= accepted)
        /\ \A d \in Places : Before(Kept(d), buffer)
    BY DEF TypeOK, AllAdmitted, LogOrdered
  <1>2. /\ files' = files /\ today' = today /\ accepted' = accepted /\ LockFree
        /\ total_records' = total_records /\ total_flushes' = total_flushes
    BY DEF Flush, FlushTick, FinalFlush
  <1>3. PICK who \in Callers : FlushLocked(buffer, who)
    BY DEF Flush, FlushTick, FinalFlush, Callers
  <1>4. AllAdmitted' /\ LogOrdered' /\ DayInv'
    BY <1>1, <1>2, <1>3, FlushLockedLog
  <1>5. batch = <<>> /\ write.pc = "none"
    BY <1>2 DEF LockFree, LockInv
  <1>6. batch' = buffer /\ buffer' = <<>>
    BY <1>3 DEF FlushLocked
  <1>7. TypeOK'
    <2>1. write' \in [pc : {"none"}] \union [pc : {"begun"}, by : Callers]
      BY <1>3 DEF FlushLocked, NoWrite
    <2>2. flusher' \in {"waiting", "woken", "writing", "gone"}
          /\ stopping' \in {"no", "joining", "flushing", "stopped"}
      BY DEF Flush, FlushTick, FinalFlush, TypeOK
    <2> QED
      BY <1>1, <1>2, <1>6, <2>1, <2>2, EmptyRun DEF TypeOK
  <1>8. LockInv'
    <2>1. CASE Flush
      BY <2>1, <1>5 DEF Flush, FlushLocked, LockInv, NoWrite
    <2>2. CASE FlushTick
      BY <2>2, <1>5 DEF FlushTick, FlushLocked, LockInv, NoWrite
    <2>3. CASE FinalFlush
      BY <2>3, <1>5 DEF FinalFlush, FlushLocked, LockInv, NoWrite
    <2> QED
      BY <2>1, <2>2, <2>3
  <1> QED
    BY <1>4, <1>7, <1>8

LEMMA RecordPreserves ==
  ASSUME CollectorAssumption, IInv, RecordBlockEvent
  PROVE  IInv'
  <1> USE DEF IInv
  <1> DEFINE buf == Append(buffer, accepted + 1)
  <1>1. /\ buffer \in Seq(Numbers) /\ Increasing(buffer) /\ accepted \in Nat
        /\ (\A i \in DOMAIN buffer : buffer[i] <= accepted)
        /\ \A d \in Places : Before(Kept(d), buffer)
    BY DEF TypeOK, AllAdmitted, LogOrdered
  <1>2. /\ files' = files /\ today' = today /\ accepted' = accepted + 1 /\ LockFree
        /\ total_records' = total_records + 1 /\ total_flushes' = total_flushes
        /\ flusher' = flusher /\ stopping' = stopping
    BY DEF RecordBlockEvent
  <1>3. /\ buf \in Seq(Numbers) /\ Increasing(buf) /\ buf # <<>>
        /\ \A i \in DOMAIN buf : buf[i] <= accepted'
    BY <1>1, <1>2, AppendNewest
  <1>4. \A d \in Places : Before(Kept(d), buf)
    <2> SUFFICES ASSUME NEW d \in Places PROVE Before(Kept(d), buf)
      OBVIOUS
    <2>1. Kept(d) \in Seq(Nat) /\ \A i \in DOMAIN Kept(d) : Kept(d)[i] <= accepted
      BY KeptType, NumbersAreNat DEF AllAdmitted
    <2> QED
      BY <1>1, <2>1, AppendNewest
  <1>5. batch = <<>> /\ write.pc = "none"
    BY <1>2 DEF LockFree, LockInv
  <1>6. accepted' \in Nat /\ accepted <= accepted'
    BY <1>1, <1>2
  <1>7. CASE FlushLocked(buf, "caller")
    <2>1. AllAdmitted' /\ LogOrdered' /\ DayInv'
      BY <1>2, <1>3, <1>4, <1>6, <1>7, FlushLockedLog DEF Callers
    <2>2. batch' = buf /\ buffer' = <<>> /\ write' = [pc |-> "begun", by |-> "caller"]
      BY <1>3, <1>7 DEF FlushLocked
    <2>3. TypeOK'
      BY <1>2, <1>3, <1>6, <2>2, EmptyRun DEF TypeOK, Callers
    <2>4. LockInv'
      BY <1>2, <1>3, <1>5, <2>2 DEF LockInv
    <2> QED
      BY <2>1, <2>3, <2>4
  <1>8. CASE buffer' = buf /\ UNCHANGED <<batch, write>>
    <2>1. \A d \in Places : Kept(d)' = Kept(d)
      BY <1>2, <1>8 DEF Kept
    <2>2. AllAdmitted' /\ LogOrdered'
      BY <1>3, <1>4, <1>5, <1>6, <1>8, <2>1, OneRun
    <2>3. TypeOK'
      BY <1>2, <1>3, <1>6, <1>8 DEF TypeOK
    <2>4. LockInv' /\ DayInv'
      BY <1>2, <1>5, <1>8 DEF LockInv, DayInv, LastDay, Today
    <2> QED
      BY <2>2, <2>3, <2>4
  <1> QED
    BY <1>7, <1>8 DEF RecordBlockEvent

LEMMA BeginPreserves ==
  ASSUME CollectorAssumption, IInv, BeginParquet
  PROVE  IInv'
  <1> USE DEF IInv
  <1>1. /\ write.pc = "begun" /\ write.by \in Callers /\ Backend # "memory" /\ Today = today
        /\ today \in Places
    BY DEF BeginParquet, TypeOK, Today
  <1>2. files[today] \in Seq(Numbers) /\ files[today] # Torn
    BY <1>1 DEF BeginParquet, TypeOK
  <1>3. /\ write' = [pc |-> "opened", by |-> write.by, day |-> today, existing |-> files[today]]
        /\ files' = [files EXCEPT ![today] = Torn]
        /\ UNCHANGED <<buffer, batch, today, accepted, total_records, total_flushes,
                       flusher, stopping>>
    BY <1>1 DEF BeginParquet
  <1>4. \A d \in Places : Kept(d)' = Kept(d)
    BY <1>1, <1>2, <1>3 DEF Kept, TypeOK
  <1>5. AllAdmitted' /\ LogOrdered'
    BY <1>3, <1>4, LogUntouched
  <1>6. TypeOK'
    BY <1>1, <1>2, <1>3 DEF TypeOK
  <1>7. LockInv'
    BY <1>1, <1>3 DEF LockInv
  <1>8. DayInv'
    <2>1. \A e \in Places : today < e => files[e] = <<>>
      BY <1>1 DEF DayInv, LastDay
    <2>2. \A e \in Places : today < e => files'[e] = <<>>
      BY <2>1, <1>1, <1>3 DEF Places, TypeOK
    <2>3. files'[today] = Torn /\ today <= today /\ Backend = "parquet"
      BY <1>1, <1>3 DEF TypeOK, Places, BeginParquet
    <2> QED
      BY <1>1, <1>3, <2>2, <2>3 DEF DayInv, LastDay
  <1> QED
    BY <1>5, <1>6, <1>7, <1>8

\* The lock is free again, and the actor that held it goes on.
LEMMA ReleasedLock ==
  ASSUME IInv, write.pc # "none", Released, buffer' \in Seq(Numbers)
  PROVE  LockInv' /\ flusher' \in {"waiting", "woken", "writing", "gone"}
         /\ stopping' \in {"no", "joining", "flushing", "stopped"}
         /\ batch' \in Seq(Numbers) /\ write' \in [pc : {"none"}]
  BY EmptyRun DEF IInv, TypeOK, LockInv, Released, NoWrite

LEMMA RebufferPreserves ==
  ASSUME CollectorAssumption, IInv, write.pc # "none", Rebuffer,
         files' \in [Places -> Seq(Numbers) \union {Torn}],
         \A d \in Places : Kept(d)' = Kept(d) \/ Kept(d)' = <<>>, DayInv'
  PROVE  IInv' /\ buffer' = batch
  <1> USE DEF IInv
  <1>1. buffer = <<>> /\ batch \in Seq(Numbers)
    BY DEF LockInv, TypeOK
  <1>2. buffer' = batch /\ batch' = <<>>
    BY <1>1, ConcatEmptySeq DEF Rebuffer, Released
  <1>3. /\ Increasing(batch) /\ accepted' \in Nat /\ accepted <= accepted'
        /\ (\A i \in DOMAIN batch : batch[i] <= accepted')
        /\ \A d \in Places : Before(Kept(d), batch)
    BY DEF LogOrdered, AllAdmitted, TypeOK, Rebuffer
  <1>4. AllAdmitted' /\ LogOrdered'
    BY <1>1, <1>2, <1>3, OneRun
  <1>5. LockInv' /\ TypeOK'
    BY <1>1, <1>2, <1>3, ReleasedLock DEF TypeOK, Rebuffer
  <1> QED
    BY <1>2, <1>4, <1>5

LEMMA RefusedPreserves ==
  ASSUME CollectorAssumption, IInv, WriteRefused
  PROVE  IInv'
  <1> USE DEF IInv
  <1>1. write.pc = "begun" /\ write'.pc = "none" /\ files' = files /\ today' = today
    BY DEF WriteRefused, Rebuffer, Released, NoWrite
  <1>2. \A d \in Places : Kept(d)' = Kept(d)
    BY <1>1 DEF Kept
  <1>3. DayInv'
    BY <1>1 DEF DayInv, LastDay, Today
  <1>4. files' \in [Places -> Seq(Numbers) \union {Torn}]
    BY <1>1 DEF TypeOK
  <1> QED
    BY <1>1, <1>2, <1>3, <1>4, RebufferPreserves DEF WriteRefused

LEMMA TornPreserves ==
  ASSUME CollectorAssumption, IInv, WriteTorn
  PROVE  IInv'
  <1> USE DEF IInv
  <1>1. PICK left \in {<<>>, Torn} : files' = [files EXCEPT ![write.day] = left]
    BY DEF WriteTorn
  <1>2. /\ write.pc = "opened" /\ write.day \in Places /\ write.day <= today
        /\ today' = today /\ write'.pc = "none" /\ Backend = "parquet"
        /\ write.existing \in Seq(Numbers) /\ today \in Nat
    BY DEF WriteTorn, Rebuffer, Released, NoWrite, DayInv, TypeOK, Places
  <1>3. \A d \in Places : Kept(d)' = Kept(d) \/ Kept(d)' = <<>>
    BY <1>1, <1>2 DEF Kept, TypeOK
  <1>4. files' \in [Places -> Seq(Numbers) \union {Torn}]
    BY <1>1, EmptyRun DEF TypeOK
  <1>5. DayInv'
    <2>1. \A e \in Places : write.day < e => files[e] = <<>>
      BY <1>2 DEF DayInv, LastDay
    <2>2. \A e \in Places : today < e => files'[e] = <<>>
      BY <1>1, <1>2, <2>1 DEF TypeOK, Places
    <2> QED
      BY <1>2, <2>2 DEF DayInv, LastDay, Today
  <1> QED
    BY <1>2, <1>3, <1>4, <1>5, RebufferPreserves DEF WriteTorn

LEMMA TornIsNoLog == Torn \notin Seq(Numbers) /\ Torn # <<>>
  <1>1. Torn \notin Seq(Numbers)
    <2> SUFFICES ASSUME Torn \in Seq(Numbers) PROVE FALSE
      OBVIOUS
    <2>1. Torn[1] \in Numbers
      BY ElementOfSeq, Len(Torn) = 1 DEF Torn
    <2> QED
      BY <2>1 DEF Torn, Numbers
  <1>2. Torn # <<>>
    BY <1>1, EmptyRun
  <1> QED
    BY <1>1, <1>2

\* A batch is written behind the last day's records, after which no file holds
\* any.
LEMMA SucceedsPreserves ==
  ASSUME CollectorAssumption, IInv, WriteSucceeds
  PROVE  /\ IInv'
         /\ \E day \in Places :
              /\ day = LastDay
              /\ \A d \in Places : Kept(d)' = IF d = day THEN Kept(d) \o batch ELSE Kept(d)
  <1> USE DEF IInv
  <1>1. PICK day \in Places :
          /\ Written(day, Kept(day)) /\ day = LastDay /\ write.pc # "none"
          /\ Backend = "memory" => day = 1
          /\ write.pc = "opened" => write.day = day
    <2>1. CASE write.pc = "opened" /\ Written(write.day, write.existing)
      BY <2>1 DEF Kept, LastDay, TypeOK, DayInv
    <2>2. CASE write.pc = "begun" /\ Backend = "memory" /\ Written(1, files[1])
      <3>1. 1 \in Places /\ files[1] # Torn
        BY <2>2, CollectorAssumption DEF Places, DayInv
      <3> QED
        BY <2>2, <3>1 DEF Kept, LastDay, Today
    <2> QED
      BY <2>1, <2>2 DEF WriteSucceeds
  <1> DEFINE table == Kept(day) \o batch
  <1>2. /\ files' = [files EXCEPT ![day] = table] /\ buffer' = buffer /\ Released
        /\ batch' = <<>> /\ write' = NoWrite
        /\ today' = today /\ accepted' = accepted /\ total_records' = total_records
        /\ total_flushes' = total_flushes + 1
    BY <1>1 DEF Written, Released
  <1>3. /\ buffer = <<>> /\ batch \in Seq(Numbers) /\ accepted \in Nat
        /\ Kept(day) \in Seq(Numbers)
    BY <1>1, KeptType DEF LockInv, TypeOK
  <1>4. table \in Seq(Numbers) /\ table # Torn
    BY <1>3, TornIsNoLog, ConcatProperties
  <1>5. \A d \in Places : Kept(d)' = IF d = day THEN table ELSE Kept(d)
    BY <1>1, <1>2, <1>4 DEF Kept, TypeOK, NoWrite
  <1>6. \A e \in Places : day < e => Kept(e) = <<>>
    BY <1>1 DEF DayInv, Kept, Places
  <1>7. TypeOK' /\ LockInv'
    <2>1. buffer' \in Seq(Numbers)
      BY <1>2, <1>3, EmptyRun
    <2> QED
      BY <1>1, <1>2, <1>3, <1>4, <2>1, ReleasedLock DEF TypeOK
  <1>8. DayInv'
    <2>1. /\ \A e \in Places : day < e => files[e] = <<>>
          /\ day \in Nat /\ today \in Nat
          /\ Backend = "memory" => day = 1
          /\ Backend = "parquet" => day <= today
      BY <1>1 DEF DayInv, LastDay, Today, Places, TypeOK
    <2>2. \A e \in Places : LastDay' < e => files'[e] = <<>>
      BY <1>2, <2>1, CollectorAssumption DEF LastDay, Today, NoWrite, Places, TypeOK
    <2>3. Backend = "memory" => \A e \in Places : files'[e] # Torn
      BY <1>2, <1>4 DEF DayInv, TypeOK
    <2> QED
      BY <1>2, <2>2, <2>3 DEF DayInv, NoWrite
  <1>9. /\ Increasing(Kept(day)) /\ Increasing(batch) /\ Before(Kept(day), batch)
        /\ \A i \in DOMAIN batch : batch[i] <= accepted
        /\ \A d \in Places : /\ \A i \in DOMAIN Kept(d) : Kept(d)[i] <= accepted
                             /\ Increasing(Kept(d)) /\ Before(Kept(d), batch)
                             /\ \A e \in Places : d < e => Before(Kept(d), Kept(e))
    BY DEF LogOrdered, AllAdmitted
  <1>10. \A d \in Places : Kept(d) \in Seq(Nat)
    BY KeptType, NumbersAreNat
  <1>11. batch \in Seq(Nat) /\ table \in Seq(Nat)
    BY <1>3, <1>4, NumbersAreNat
  <1>12. Increasing(table)
    BY <1>9, <1>10, <1>11, ConcatOrdered
  <1>13. AllAdmitted'
    <2>1. \A i \in DOMAIN table : table[i] <= accepted
      BY <1>9, <1>10, <1>11, ConcatRecords
    <2>2. \A d \in Places : \A i \in DOMAIN Kept(d)' : Kept(d)'[i] <= accepted
      BY <1>5, <1>9, <2>1
    <2> QED
      BY <1>2, <1>3, <2>2, EmptyRun DEF AllAdmitted
  <1>14. LogOrdered'
    <2>1. \A d \in Places : Increasing(Kept(d)') /\ Increasing(Kept(d))'
      BY <1>5, <1>9, <1>12 DEF Increasing
    <2>2. ASSUME NEW d \in Places, NEW e \in Places, d < e
          PROVE  Before(Kept(d), Kept(e))'
      <3>1. CASE d = day
        <4>1. Kept(e)' = <<>>
          BY <1>5, <1>6, <2>2, <3>1 DEF Places
        <4> QED
          BY <4>1, EmptyRun DEF Before
      <3>2. CASE d # day /\ e = day
        <4>1. Before(Kept(d), Kept(day)) /\ Before(Kept(d), batch)
          BY <1>9, <2>2, <3>2
        <4>2. Before(Kept(d), table)
          BY <4>1, <1>10, <1>11, BeforeConcat
        <4> QED
          BY <1>5, <3>2, <4>2 DEF Before
      <3>3. CASE d # day /\ e # day
        BY <1>5, <1>9, <2>2, <3>3 DEF Before
      <3> QED
        BY <3>1, <3>2, <3>3
    <2>3. Increasing(buffer)' /\ Increasing(batch)' /\ Before(batch, buffer)'
      BY <1>2, <1>3, EmptyRun DEF Increasing, Before
    <2>4. \A d \in Places : Before(Kept(d), batch)' /\ Before(Kept(d), buffer)'
      BY <1>2, <1>3, EmptyRun DEF Before
    <2> QED
      BY <2>1, <2>2, <2>3, <2>4 DEF LogOrdered
  <1> QED
    BY <1>1, <1>5, <1>7, <1>8, <1>13, <1>14

LEMMA CrashPreserves ==
  ASSUME CollectorAssumption, IInv, Crash
  PROVE  IInv'
  <1> USE DEF IInv
  <1>1. /\ batch' = <<>> /\ buffer' = <<>> /\ write' = NoWrite /\ accepted' = accepted
        /\ today' = today /\ flusher' = "waiting" /\ stopping' = "no"
        /\ total_records' = 0 /\ total_flushes' = 0
        /\ files' = IF Backend = "memory" THEN [d \in Places |-> <<>>] ELSE files
    BY DEF Crash
  <1>2. TypeOK' /\ LockInv'
    BY <1>1, EmptyRun DEF TypeOK, LockInv, NoWrite
  <1>3. \A d \in Places : Kept(d)' = Kept(d) \/ Kept(d)' = <<>>
    <2> SUFFICES ASSUME NEW d \in Places PROVE Kept(d)' = Kept(d) \/ Kept(d)' = <<>>
      OBVIOUS
    <2>1. CASE Backend = "memory"
      BY <1>1, <2>1 DEF Kept, NoWrite
    <2>2. CASE Backend # "memory" /\ ~(write.pc = "opened" /\ write.day = d)
      BY <1>1, <2>2 DEF Kept, NoWrite
    <2>3. CASE Backend # "memory" /\ write.pc = "opened" /\ write.day = d
      <3>1. files[d] = Torn
        BY <2>3 DEF DayInv
      <3> QED
        BY <1>1, <2>3, <3>1 DEF Kept, NoWrite
    <2> QED
      BY <2>1, <2>2, <2>3
  <1>4. accepted' \in Nat /\ accepted <= accepted'
    BY <1>1 DEF TypeOK
  <1>5. AllAdmitted' /\ LogOrdered'
    BY <1>1, <1>3, <1>4, EmptyRun, OneRun
  <1>6. DayInv'
    <2>1. \A e \in Places : Today < e => files[e] = <<>>
      BY DEF DayInv, LastDay, Today, TypeOK, Places
    <2> QED
      BY <1>1, <2>1, CollectorAssumption, TornIsNoLog DEF DayInv, LastDay, Today, NoWrite
  <1> QED
    BY <1>2, <1>5, <1>6

LEMMA InitInv == ASSUME CollectorAssumption, Init PROVE IInv
  <1>1. /\ buffer = <<>> /\ batch = <<>> /\ write = NoWrite /\ today = 1 /\ 1 \in Places
        /\ files = [d \in Places |-> <<>>] /\ accepted = 0
        /\ flusher = "waiting" /\ stopping = "no" /\ total_records = 0 /\ total_flushes = 0
    BY CollectorAssumption DEF Init, Places
  <1>2. TypeOK
    BY <1>1, EmptyRun DEF TypeOK, NoWrite
  <1>3. LockInv /\ DayInv
    BY <1>1, TornIsNoLog DEF LockInv, DayInv, NoWrite
  <1>4. \A d \in Places : Kept(d) = <<>>
    BY <1>1 DEF Kept, NoWrite
  <1>5. AllAdmitted /\ LogOrdered
    BY <1>1, <1>4, EmptyRun DEF AllAdmitted, LogOrdered
  <1> QED
    BY <1>2, <1>3, <1>5 DEF IInv

LEMMA StutterPreserves == ASSUME IInv, UNCHANGED vars PROVE IInv'
  <1>1. \A d \in Places : Kept(d)' = Kept(d)
    BY DEF vars, Kept
  <1>2. AllAdmitted' /\ LogOrdered'
    BY <1>1, LogUntouched DEF vars
  <1> QED
    BY <1>2 DEF IInv, vars, TypeOK, LockInv, DayInv, LastDay, Today

LEMMA StepPreserves == ASSUME CollectorAssumption, IInv, [Next]_vars PROVE IInv'
  <1>1. CASE RecordBlockEvent
    BY <1>1, CollectorAssumption, RecordPreserves
  <1>2. CASE Flush \/ FlushTick \/ FinalFlush
    BY <1>2, CollectorAssumption, FlushPreserves
  <1>3. CASE WaitTimesOut \/ FlusherExits \/ Stop \/ Midnight
    BY <1>3, CollectorAssumption, ActorStepPreserves
  <1>4. CASE BeginParquet
    BY <1>4, CollectorAssumption, BeginPreserves
  <1>5. CASE WriteSucceeds
    BY <1>5, CollectorAssumption, SucceedsPreserves
  <1>6. CASE WriteRefused
    BY <1>6, CollectorAssumption, RefusedPreserves
  <1>7. CASE WriteTorn
    BY <1>7, CollectorAssumption, TornPreserves
  <1>8. CASE Crash
    BY <1>8, CollectorAssumption, CrashPreserves
  <1>9. CASE UNCHANGED vars
    BY <1>9, StutterPreserves
  <1> QED
    BY <1>1, <1>2, <1>3, <1>4, <1>5, <1>6, <1>7, <1>8, <1>9 DEF Next

-----------------------------------------------------------------------------
\* The inductive invariant holds in every reachable state.
THEOREM Invariance == Spec => []IInv
  <1>1. Init => IInv
    BY InitInv, CollectorAssumption
  <1>2. IInv /\ [Next]_vars => IInv'
    BY StepPreserves, CollectorAssumption
  <1> QED
    BY <1>1, <1>2, PTL DEF Spec

\* The buffer, the batch and the daily files always have the shape the
\* collector and the storage expect.
THEOREM TypeCorrect == Spec => []TypeOK
  <1>1. IInv => TypeOK
    BY DEF IInv
  <1> QED
    BY <1>1, Invariance, PTL

\* However writes fail, are cut short or the process dies, no record is stored
\* twice or behind a later one.
THEOREM OrderedAndOnce == Spec => []LogOrdered
  <1>1. IInv => LogOrdered
    BY DEF IInv
  <1> QED
    BY <1>1, Invariance, PTL

-----------------------------------------------------------------------------
\* Where no write is cut short, a file is damaged only while it is rewritten.
WritesWhole == Faults \cap {"torn", "crash"} = {}
NoDamage ==
  \A d \in Places : files[d] = Torn => write.pc = "opened" /\ write.day = d

LossInv == IInv /\ NoDamage /\ EveryRecordKept

\* A step that leaves the files as they are, and keeps the records that wait
\* waiting, loses none.
LEMMA NothingDropped ==
  ASSUME EveryRecordKept, accepted' = accepted,
         \A d \in Places : Kept(d)' = Kept(d),
         Records(buffer) \union Records(batch) \subseteq Records(buffer') \union Records(batch')
  PROVE  EveryRecordKept'
  <1>1. \A r \in 1..accepted' : \/ r \in Records(buffer') \/ r \in Records(batch')
                                \/ \E d \in Places : r \in Records(Kept(d)')
    BY DEF EveryRecordKept, Stored
  <1> QED
    BY <1>1 DEF EveryRecordKept, Stored, Records

LEMMA LossStep ==
  ASSUME CollectorAssumption, WritesWhole, LossInv, [Next]_vars
  PROVE  LossInv'
  <1> USE DEF LossInv
  <1>1. IInv' /\ accepted \in Nat
    BY StepPreserves DEF IInv, TypeOK
  <1>2. CASE RecordBlockEvent
    <2>1. write.pc = "none" /\ batch = <<>> /\ files' = files /\ accepted' = accepted + 1
      BY <1>2 DEF RecordBlockEvent, LockFree, IInv, LockInv
    <2>2. write'.pc # "opened"
      BY <1>2, <2>1 DEF RecordBlockEvent, FlushLocked, NoWrite
    <2>3. \A d \in Places : Kept(d)' = Kept(d)
      BY <2>1, <2>2 DEF Kept
    <2>4. /\ Records(Append(buffer, accepted + 1)) = Records(buffer) \union {accepted + 1}
      BY <1>1, AppendNewest DEF IInv, TypeOK, LogOrdered, AllAdmitted
    <2>5. \/ buffer' = Append(buffer, accepted + 1)
          \/ batch' = Append(buffer, accepted + 1)
      BY <1>2 DEF RecordBlockEvent, FlushLocked
    <2>6. EveryRecordKept'
      <3> SUFFICES ASSUME NEW r \in 1..accepted'
                   PROVE  \/ r \in Records(buffer') \/ r \in Records(batch')
                          \/ \E d \in Places : r \in Records(Kept(d)')
        BY DEF EveryRecordKept, Stored, Records
      <3>1. r \in 1..accepted \/ r = accepted + 1
        BY <1>1, <2>1
      <3> QED
        BY <2>1, <2>3, <2>4, <2>5, <3>1, EmptyRun DEF EveryRecordKept, Stored
    <2>7. NoDamage'
      BY <2>1, <2>2 DEF NoDamage
    <2> QED
      BY <1>1, <2>6, <2>7
  <1>3. CASE Flush \/ FlushTick \/ FinalFlush
    <2>1. /\ write.pc = "none" /\ batch = <<>> /\ files' = files /\ accepted' = accepted
          /\ batch' = buffer /\ write'.pc # "opened"
      BY <1>3 DEF Flush, FlushTick, FinalFlush, FlushLocked, LockFree, IInv, LockInv, NoWrite
    <2>2. \A d \in Places : Kept(d)' = Kept(d)
      BY <2>1 DEF Kept
    <2>3. EveryRecordKept'
      <3>1. Records(buffer) \union Records(batch) \subseteq Records(buffer') \union Records(batch')
        BY <2>1, EmptyRun
      <3> QED
        BY <2>1, <2>2, <3>1, NothingDropped
    <2>4. NoDamage'
      BY <2>1 DEF NoDamage
    <2> QED
      BY <1>1, <2>3, <2>4
  <1>4. CASE WaitTimesOut \/ FlusherExits \/ Stop \/ Midnight \/ UNCHANGED vars
    <2>1. UNCHANGED <<buffer, batch, write, files, accepted>>
      BY <1>4 DEF WaitTimesOut, FlusherExits, Stop, Midnight, vars
    <2>2. \A d \in Places : Kept(d)' = Kept(d)
      BY <2>1 DEF Kept
    <2>3. EveryRecordKept'
      <3>1. Records(buffer) \union Records(batch) \subseteq Records(buffer') \union Records(batch')
        BY <2>1
      <3> QED
        BY <2>1, <2>2, <3>1, NothingDropped
    <2> QED
      BY <1>1, <2>1, <2>3 DEF NoDamage
  <1>5. CASE BeginParquet
    <2>1. /\ UNCHANGED <<buffer, batch, accepted>> /\ files[Today] # Torn
          /\ write' = [pc |-> "opened", by |-> write.by, day |-> Today, existing |-> files[Today]]
          /\ files' = [files EXCEPT ![Today] = Torn] /\ write.pc = "begun"
      BY <1>5 DEF BeginParquet
    <2>2. \A d \in Places : Kept(d)' = Kept(d)
      BY <2>1 DEF Kept, IInv, TypeOK
    <2>3. EveryRecordKept'
      <3>1. Records(buffer) \union Records(batch) \subseteq Records(buffer') \union Records(batch')
        BY <2>1
      <3> QED
        BY <2>1, <2>2, <3>1, NothingDropped
    <2>4. NoDamage'
      BY <2>1 DEF NoDamage, IInv, TypeOK
    <2> QED
      BY <1>1, <2>3, <2>4
  <1>6. CASE WriteSucceeds
    <2>1. PICK day \in Places :
            \A d \in Places : Kept(d)' = IF d = day THEN Kept(d) \o batch ELSE Kept(d)
      BY <1>6, SucceedsPreserves
    <2>2. Records(Kept(day) \o batch) = Records(Kept(day)) \union Records(batch)
      BY KeptType, NumbersAreNat, ConcatRecords DEF IInv, TypeOK
    <2>3. accepted' = accepted /\ buffer' = buffer /\ write'.pc = "none"
      BY <1>6 DEF WriteSucceeds, Written, Released, NoWrite
    <2>4. EveryRecordKept'
      <3> SUFFICES ASSUME NEW r \in 1..accepted
                   PROVE  \/ r \in Records(buffer') \/ r \in Records(batch')
                          \/ \E d \in Places : r \in Records(Kept(d)')
        BY <2>3 DEF EveryRecordKept, Stored, Records
      <3>1. CASE r \in Records(buffer)
        BY <2>3, <3>1
      <3>2. CASE r \in Records(batch)
        BY <2>1, <2>2, <3>2
      <3>3. CASE Stored(r)
        <4>1. PICK d \in Places : r \in Records(Kept(d))
          BY <3>3 DEF Stored
        <4>2. r \in Records(Kept(d)')
          BY <2>1, <2>2, <4>1
        <4> QED
          BY <4>2
      <3> QED
        BY <3>1, <3>2, <3>3 DEF EveryRecordKept
    <2>5. NoDamage'
      <3>1. CASE write.pc = "opened" /\ Written(write.day, write.existing)
        <4>1. files' = [files EXCEPT ![write.day] = write.existing \o batch]
          BY <3>1 DEF Written
        <4>2. write.existing \o batch \in Seq(Numbers)
          BY <3>1, ConcatProperties DEF IInv, TypeOK
        <4> QED
          BY <3>1, <4>1, <4>2, TornIsNoLog DEF NoDamage, IInv, TypeOK
      <3>2. CASE write.pc = "begun" /\ Backend = "memory"
        <4>1. \A d \in Places : files'[d] # Torn
          BY <1>1, <3>2, <1>6 DEF IInv, DayInv
        <4> QED
          BY <4>1 DEF NoDamage
      <3> QED
        BY <1>6, <3>1, <3>2 DEF WriteSucceeds
    <2> QED
      BY <1>1, <2>4, <2>5
  <1>7. CASE WriteRefused
    <2>1. /\ write.pc = "begun" /\ write'.pc = "none" /\ files' = files /\ accepted' = accepted
          /\ buffer' = buffer \o batch
      BY <1>7 DEF WriteRefused, Rebuffer, Released, NoWrite
    <2>2. buffer = <<>> /\ batch \in Seq(Numbers)
      BY <2>1 DEF IInv, LockInv, TypeOK
    <2>3. buffer' = batch
      BY <2>1, <2>2, ConcatEmptySeq
    <2>4. \A d \in Places : Kept(d)' = Kept(d)
      BY <2>1 DEF Kept
    <2>5. EveryRecordKept'
      <3>1. Records(buffer) \union Records(batch) \subseteq Records(buffer') \union Records(batch')
        BY <2>2, <2>3, EmptyRun
      <3> QED
        BY <2>1, <2>4, <3>1, NothingDropped
    <2>6. NoDamage'
      BY <2>1 DEF NoDamage
    <2> QED
      BY <1>1, <2>5, <2>6
  <1>8. ~WriteTorn /\ ~Crash
    BY DEF WriteTorn, Crash, WritesWhole
  <1> QED
    BY <1>2, <1>3, <1>4, <1>5, <1>6, <1>7, <1>8 DEF Next

\* Where no write is cut short, every record ever admitted is in a daily file,
\* in the batch being written or in the buffer, however often the storage
\* refuses.
THEOREM NothingLost == ASSUME WritesWhole PROVE Spec => []EveryRecordKept
  <1>1. Init => LossInv
    <2> SUFFICES ASSUME Init PROVE LossInv
      OBVIOUS
    <2>1. accepted = 0 /\ files = [d \in Places |-> <<>>]
      BY DEF Init
    <2>2. NoDamage /\ EveryRecordKept
      BY <2>1, TornIsNoLog DEF NoDamage, EveryRecordKept
    <2> QED
      BY <2>2, InitInv, CollectorAssumption DEF LossInv
  <1>2. LossInv /\ [Next]_vars => LossInv'
    BY LossStep, WritesWhole, CollectorAssumption
  <1>3. LossInv => EveryRecordKept
    BY DEF LossInv
  <1> QED
    BY <1>1, <1>2, <1>3, PTL DEF Spec

\* Where no write is cut short, stop returns with every admitted record stored,
\* or with the last write refused, whether or not its join gave up on the flush
\* thread.
THEOREM StopFlushesAll == ASSUME WritesWhole PROVE Spec => StopWritesAll
  <1> USE CollectorAssumption
  <1>1. Init => LossInv
    <2> SUFFICES ASSUME Init PROVE LossInv
      OBVIOUS
    <2>1. accepted = 0 /\ files = [d \in Places |-> <<>>]
      BY DEF Init
    <2>2. NoDamage /\ EveryRecordKept
      BY <2>1, TornIsNoLog DEF NoDamage, EveryRecordKept
    <2> QED
      BY <2>2, InitInv DEF LossInv
  <1>2. LossInv /\ [Next]_vars => LossInv'
    BY LossStep
  <1> DEFINE Returned == stopping' = "stopped" /\ stopping # "stopped" /\ ~WriteRefused =>
                           \A r \in 1..accepted' : Stored(r)'
  <1>3. LossInv /\ [Next]_vars => Returned
    <2> SUFFICES ASSUME LossInv, [Next]_vars, stopping' = "stopped", stopping # "stopped",
                        ~WriteRefused
                 PROVE  \A r \in 1..accepted' : Stored(r)'
      OBVIOUS
    <2>1. LossInv'
      BY <1>2
    <2>2. buffer' = <<>> /\ batch' = <<>>
      <3>1. CASE FinalFlush
        BY <3>1 DEF FinalFlush, FlushLocked
      <3>2. CASE WriteSucceeds
        <4>1. buffer' = buffer /\ batch' = <<>> /\ write.pc # "none"
          BY <3>2 DEF WriteSucceeds, Written, Released
        <4> QED
          BY <4>1 DEF LossInv, IInv, LockInv
      <3>3. ~WriteTorn /\ ~Crash
        BY DEF WriteTorn, Crash, WritesWhole
      <3> QED
        BY <3>1, <3>2, <3>3 DEF Next, vars, RecordBlockEvent, Flush, WaitTimesOut, FlushTick,
             FlusherExits, BeginParquet, Stop, Midnight
    <2> QED
      BY <2>1, <2>2, EmptyRun DEF LossInv, EveryRecordKept
  <1> QED
    BY <1>1, <1>2, <1>3, PTL DEF Spec, StopWritesAll

-----------------------------------------------------------------------------
\* Some file of those still to be read is the first.
LEMMA FirstIsLeast ==
  ASSUME NEW S \in SUBSET Nat, S # {}
  PROVE  \E d \in S : \A e \in S : d <= e
  <1>1. PICK d \in S : \A e \in S : ~(<<e, d>> \in OpToRel(<, Nat))
    BY NatLessThanWellFounded, WFMin
  <1>2. \A e \in S : ~(e < d)
    BY <1>1 DEF OpToRel
  <1> QED
    BY <1>2

\* Where no write is cut short the files only grow: the last of them, by the batch
\* that is being written; and no day before it becomes the last again.
LEMMA FilesGrow ==
  ASSUME CollectorAssumption, WritesWhole, IInv, [Next]_vars
  PROVE  /\ LastDay \in Int /\ LastDay' \in Int /\ LastDay <= LastDay'
         /\ \A d \in Places :
              /\ Records(Kept(d)) \subseteq Records(Kept(d)')
              /\ \A r \in Records(Kept(d)') :
                   r \in Records(Kept(d)) \/ (d = LastDay /\ r \in Records(batch))
  <1> USE DEF IInv
  <1> DEFINE Same == \A d \in Places : Kept(d)' = Kept(d)
             Later == LastDay' \in Int /\ LastDay <= LastDay'
  <1>1. LastDay \in Int /\ today \in Places
    BY CollectorAssumption DEF LastDay, Today, TypeOK, Places
  <1>2. CASE RecordBlockEvent \/ Flush \/ FlushTick \/ FinalFlush
    <2>1. write.pc = "none" /\ files' = files /\ today' = today /\ write'.pc # "opened"
      BY <1>2 DEF RecordBlockEvent, Flush, FlushTick, FinalFlush, FlushLocked, LockFree, LockInv,
                  NoWrite
    <2>2. Same /\ Later
      BY <1>1, <2>1 DEF Kept, LastDay, Today
    <2> QED
      BY <1>1, <2>2
  <1>3. CASE WaitTimesOut \/ FlusherExits \/ Stop \/ Midnight \/ UNCHANGED vars
    <2>1. /\ UNCHANGED <<write, files>> /\ today' \in Int /\ today <= today'
          /\ today \in Int
      BY <1>1, <1>3 DEF WaitTimesOut, FlusherExits, Stop, Midnight, vars, Places
    <2>2. Same
      BY <2>1 DEF Kept
    <2>3. Later
      BY <1>1, <2>1 DEF LastDay, Today
    <2> QED
      BY <1>1, <2>2, <2>3
  <1>4. CASE BeginParquet
    <2>1. /\ files[Today] # Torn /\ write.pc = "begun" /\ today' = today
          /\ write' = [pc |-> "opened", by |-> write.by, day |-> Today, existing |-> files[Today]]
          /\ files' = [files EXCEPT ![Today] = Torn]
      BY <1>4 DEF BeginParquet
    <2>2. Same
      BY <2>1 DEF Kept, TypeOK
    <2>3. Later
      BY <1>1, <2>1 DEF LastDay
    <2> QED
      BY <1>1, <2>2, <2>3
  <1>5. CASE WriteSucceeds
    <2>1. PICK day \in Places :
            /\ \A d \in Places : Kept(d)' = IF d = day THEN Kept(d) \o batch ELSE Kept(d)
            /\ day = LastDay
      BY <1>5, SucceedsPreserves
    <2>2. Records(Kept(day) \o batch) = Records(Kept(day)) \union Records(batch)
      BY KeptType, NumbersAreNat, ConcatRecords DEF TypeOK
    <2>3. Later
      BY <1>1, <1>5, CollectorAssumption
      DEF WriteSucceeds, Written, Released, NoWrite, LastDay, Today, DayInv, Places
    <2> QED
      BY <1>1, <2>1, <2>2, <2>3
  <1>6. CASE WriteRefused
    <2>1. write.pc = "begun" /\ write'.pc = "none" /\ files' = files /\ today' = today
      BY <1>6 DEF WriteRefused, Rebuffer, Released, NoWrite
    <2>2. Same /\ Later
      BY <1>1, <2>1 DEF Kept, LastDay, Today
    <2> QED
      BY <1>1, <2>2
  <1>7. ~WriteTorn /\ ~Crash
    BY DEF WriteTorn, Crash, WritesWhole
  <1> QED
    BY <1>2, <1>3, <1>4, <1>5, <1>6, <1>7 DEF Next

\* What a read has got so far is in order, comes from days before those still to be
\* read, and lacks nothing that is stored before its last record; the days that
\* were passed get no records any more; and what was promised is got or to come.
GotBelow ==
  \A r \in Records(got) :
    \E e \in Places : r \in Records(Kept(e)) /\ \A d \in listed : e < d
GotClosed == \A r \in Records(got) : \A q \in 1..r : Stored(q) => q \in Records(got)
DaysPassed ==
  \A d \in listed :
    /\ d <= LastDay
    /\ \A e \in Places \ listed : e < d => Records(Kept(e)) \subseteq Records(got)
PromiseKept == \A r \in promised : r \in Records(got) \/ \E d \in listed : r \in Records(Kept(d))

ReadInv ==
  /\ listed \subseteq Places /\ got \in Seq(Nat)
  /\ reader = "done" => listed = {}
  /\ reader = "reading" => listed # {}
  /\ reader \in {"reading", "done"} =>
       Increasing(got) /\ GotBelow /\ GotClosed /\ DaysPassed /\ PromiseKept

ReadingInv == LossInv /\ ReadInv

\* A record of an earlier day is an earlier record, and so is any stored one against
\* the batch.
LEMMA StoredOrder ==
  ASSUME IInv
  PROVE  /\ \A d \in Places : Records(Kept(d)) \subseteq Nat
         /\ \A d, e \in Places : \A r \in Records(Kept(d)), q \in Records(Kept(e)) :
              d < e => r < q
         /\ \A d \in Places : \A r \in Records(Kept(d)), q \in Records(batch) : r < q
  <1>1. \A d \in Places : Kept(d) \in Seq(Nat)
    BY KeptType, NumbersAreNat DEF IInv
  <1>2. ASSUME NEW d \in Places PROVE Records(Kept(d)) \subseteq Nat
    BY <1>1, ElementOfSeq, LenProperties DEF Records
  <1>3. ASSUME NEW d \in Places, NEW e \in Places, d < e,
               NEW r \in Records(Kept(d)), NEW q \in Records(Kept(e))
        PROVE  r < q
    BY <1>3 DEF IInv, LogOrdered, Before, Records
  <1>4. ASSUME NEW d \in Places, NEW r \in Records(Kept(d)), NEW q \in Records(batch)
        PROVE  r < q
    BY DEF IInv, LogOrdered, Before, Records
  <1> QED
    BY <1>2, <1>3, <1>4

\* What the writer does beside a read leaves it sound.
LEMMA WriterKeepsRead ==
  ASSUME CollectorAssumption, WritesWhole, ReadingInv, [Next]_vars, UNCHANGED readerVars
  PROVE  ReadInv'
  <1> USE DEF ReadingInv, LossInv
  <1>1. /\ LastDay \in Int /\ LastDay' \in Int /\ LastDay <= LastDay'
        /\ \A d \in Places :
             /\ Records(Kept(d)) \subseteq Records(Kept(d)')
             /\ \A r \in Records(Kept(d)') :
                  r \in Records(Kept(d)) \/ (d = LastDay /\ r \in Records(batch))
    BY FilesGrow
  <1>2. UNCHANGED <<reader, listed, got, promised>>
    BY DEF readerVars
  <1>3. CASE reader \notin {"reading", "done"}
    BY <1>2, <1>3 DEF ReadInv
  <1>4. CASE reader \in {"reading", "done"}
    <2> DEFINE kept(d) == Records(Kept(d))
    <2>1. \A r \in Records(got) : \E e \in Places : r \in kept(e)' /\ \A d \in listed : e < d
      BY <1>1, <1>4 DEF ReadInv, GotBelow
    <2>2. ASSUME NEW r \in Records(got), NEW q \in 1..r, NEW d \in Places, q \in kept(d)'
          PROVE  q \in Records(got)
      <3>1. PICK e \in Places : r \in kept(e)
        BY <1>4 DEF ReadInv, GotBelow
      <3>2. CASE q \in kept(d)
        BY <1>4, <3>2 DEF ReadInv, GotClosed, Stored
      <3>3. CASE q \in Records(batch)
        <4>1. r < q /\ r \in Nat
          BY <3>1, <3>3, StoredOrder
        <4> QED
          BY <4>1
      <3> QED
        BY <1>1, <2>2, <3>2, <3>3
    <2>3. ASSUME NEW d \in listed
          PROVE  /\ d <= LastDay'
                 /\ \A e \in Places \ listed : e < d => kept(e)' \subseteq Records(got)
      <3>1. d <= LastDay /\ d \in Int
        BY <1>4 DEF ReadInv, DaysPassed, Places
      <3>2. ASSUME NEW e \in Places \ listed, e < d
            PROVE  kept(e)' \subseteq Records(got)
        <4>1. e # LastDay
          BY <1>1, <3>1, <3>2 DEF Places
        <4> QED
          BY <1>1, <1>4, <3>2, <4>1 DEF ReadInv, DaysPassed
      <3> QED
        BY <1>1, <3>1, <3>2
    <2>4. \A r \in promised : r \in Records(got) \/ \E d \in listed : r \in kept(d)'
      BY <1>1, <1>4 DEF ReadInv, PromiseKept
    <2>5. Records(got)' = Records(got) /\ (Increasing(got) => Increasing(got)')
      BY <1>2 DEF Records, Increasing
    <2>6. GotBelow'
      BY <1>2, <2>1, <2>5 DEF GotBelow
    <2>7. GotClosed'
      BY <1>2, <2>2, <2>5 DEF GotClosed, Stored
    <2>8. DaysPassed'
      BY <1>2, <2>3, <2>5 DEF DaysPassed
    <2>9. PromiseKept'
      BY <1>2, <2>4, <2>5 DEF PromiseKept
    <2> QED
      BY <1>2, <1>4, <2>5, <2>6, <2>7, <2>8, <2>9 DEF ReadInv
  <1> QED
    BY <1>3, <1>4

\* A read begins with the files that have records, which are the last ones written.
LEMMA ListPreserves ==
  ASSUME CollectorAssumption, ReadingInv, ListFiles, UNCHANGED vars
  PROVE  ReadInv'
  <1> USE DEF ReadingInv, LossInv
  <1>1. /\ promised' = UNION {Records(Kept(d)) : d \in Places}
        /\ listed' = {d \in Places : files[d] # <<>>} /\ got' = <<>>
        /\ reader' = IF listed' = {} THEN "done" ELSE "reading"
    BY DEF ListFiles
  <1>2. /\ LastDay' = LastDay /\ \A d \in Places : Kept(d)' = Kept(d)
        /\ UNCHANGED <<files, write, today>>
    BY DEF vars, LastDay, Today, Kept
  <1>3. ASSUME NEW d \in Places, files[d] = <<>> PROVE Records(Kept(d)) = {}
    BY <1>3, EmptyRun, TornIsNoLog DEF IInv, DayInv, Kept
  <1>4. ASSUME NEW d \in Places, files[d] # <<>> PROVE d <= LastDay
    <2>1. ~(LastDay < d)
      BY <1>4 DEF IInv, DayInv
    <2>2. LastDay \in Int
      BY CollectorAssumption DEF LastDay, Today, IInv, TypeOK, Places
    <2> QED
      BY <2>1, <2>2 DEF Places
  <1>5. /\ got' \in Seq(Nat) /\ Increasing(got') /\ Records(got') = {}
    BY <1>1, EmptyRun, NumbersAreNat
  <1>6. \A r \in promised' : \E d \in listed' : r \in Records(Kept(d)')
    BY <1>1, <1>2, <1>3
  <1>7. \A d \in listed' :
          d <= LastDay' /\ \A e \in Places \ listed' : Records(Kept(e)') = {}
    BY <1>1, <1>2, <1>3, <1>4
  <1> QED
    <2>1. Records(got)' = {} /\ Increasing(got)'
      BY <1>5 DEF Records, Increasing
    <2>2. GotBelow' /\ GotClosed'
      BY <2>1 DEF GotBelow, GotClosed
    <2>3. DaysPassed'
      BY <1>7 DEF DaysPassed
    <2>4. PromiseKept'
      BY <1>6 DEF PromiseKept
    <2> QED
      BY <1>1, <1>5, <2>1, <2>2, <2>3, <2>4 DEF ReadInv

\* The next file continues what was got.
LEMMA ReadPreserves ==
  ASSUME CollectorAssumption, ReadingInv, ReadFile, UNCHANGED vars
  PROVE  ReadInv'
  <1> USE DEF ReadingInv, LossInv
  <1> DEFINE f == First
  <1>1. /\ reader = "reading" /\ listed' = listed \ {f} /\ promised' = promised
        /\ IF files[f] \in {Torn, <<>>} THEN reader' = "failed" /\ got' = got
           ELSE /\ got' = got \o files[f]
                /\ reader' = IF listed' = {} THEN "done" ELSE "reading"
    BY DEF ReadFile
  <1>2. listed # {} /\ listed \subseteq Places /\ listed \in SUBSET Nat
    BY <1>1 DEF ReadInv, Places
  <1>3. f \in listed /\ \A e \in listed : f <= e
    BY <1>2, FirstIsLeast DEF First
  <1> HIDE DEF f
  <1>4. /\ LastDay' = LastDay /\ \A d \in Places : Kept(d)' = Kept(d)
    BY DEF vars, LastDay, Today, Kept
  <1>5. CASE files[f] \in {Torn, <<>>}
    BY <1>1, <1>2, <1>5 DEF ReadInv
  <1>6. CASE files[f] \notin {Torn, <<>>}
    <2> DEFINE s == Kept(f)
    <2>1. files[f] = s /\ f \in Places /\ files[f] # Torn
      BY <1>2, <1>3, <1>6 DEF IInv, DayInv, Kept
    <2>2. s \in Seq(Nat) /\ Increasing(s) /\ got \in Seq(Nat) /\ Increasing(got)
      BY <1>1, <2>1, KeptType, NumbersAreNat DEF IInv, LogOrdered, ReadInv
    <2>3. ASSUME NEW r \in Records(got), NEW q \in Records(s) PROVE r < q
      <3>1. PICK e \in Places : r \in Records(Kept(e)) /\ e < f
        BY <1>1, <1>3 DEF ReadInv, GotBelow
      <3> QED
        BY <2>1, <3>1, StoredOrder
    <2>4. Before(got, s)
      BY <2>3 DEF Before, Records
    <2>5. /\ got' = got \o s /\ got' \in Seq(Nat) /\ Increasing(got')
          /\ Records(got') = Records(got) \union Records(s)
      <3>1. got' = got \o s
        BY <1>1, <1>6, <2>1
      <3> HIDE DEF s
      <3>2. Increasing(got \o s) /\ got \o s \in Seq(Nat)
            /\ Records(got \o s) = Records(got) \union Records(s)
        BY <2>2, <2>4, ConcatOrdered, ConcatRecords
      <3> QED
        BY <3>1, <3>2
    <2> HIDE DEF s
    <2>6. ASSUME NEW d \in listed' PROVE f < d /\ d \in Places
      <3>1. d \in listed /\ d # f /\ f <= d
        BY <1>1, <1>3
      <3>2. d \in Places /\ d \in Int /\ f \in Int
        BY <1>2, <1>3, <3>1 DEF Places
      <3> QED
        BY <3>1, <3>2
    <2>7. ASSUME NEW r \in Records(got')
          PROVE  \E e \in Places : r \in Records(Kept(e)) /\ \A d \in listed' : e < d
      BY <1>1, <2>1, <2>5, <2>6 DEF ReadInv, GotBelow, s
    <2>8. ASSUME NEW r \in Records(got'), NEW q \in 1..r, NEW d \in Places, q \in Records(Kept(d))
          PROVE  q \in Records(got')
      <3>1. CASE r \in Records(got)
        BY <1>1, <2>5, <2>8, <3>1 DEF ReadInv, GotClosed, Stored
      <3>2. CASE r \in Records(s) /\ d < f
        <4>1. d \notin listed
          BY <1>2, <1>3, <3>2 DEF Places
        <4> QED
          BY <1>1, <1>3, <2>5, <2>8, <3>2, <4>1 DEF ReadInv, DaysPassed
      <3>3. CASE d = f
        BY <2>5, <2>8, <3>3 DEF s
      <3>4. CASE r \in Records(s) /\ f < d
        <4>1. r < q /\ r \in Nat
          BY <2>1, <2>8, <3>4, StoredOrder DEF s
        <4> QED
          BY <4>1
      <3>5. d < f \/ d = f \/ f < d
        BY <2>1 DEF Places
      <3> QED
        BY <2>5, <3>1, <3>2, <3>3, <3>4, <3>5
    <2>9. ASSUME NEW d \in listed'
          PROVE  /\ d <= LastDay
                 /\ \A e \in Places \ listed' : e < d => Records(Kept(e)) \subseteq Records(got')
      <3>1. d \in listed
        BY <1>1
      <3>2. ASSUME NEW e \in Places \ listed', e < d
            PROVE  Records(Kept(e)) \subseteq Records(got')
        <4>1. CASE e = f
          BY <2>5, <4>1 DEF s
        <4>2. CASE e # f
          BY <1>1, <2>5, <3>1, <3>2, <4>2 DEF ReadInv, DaysPassed
        <4> QED
          BY <4>1, <4>2
      <3> QED
        BY <1>1, <3>1, <3>2 DEF ReadInv, DaysPassed
    <2>10. \A r \in promised : r \in Records(got') \/ \E d \in listed' : r \in Records(Kept(d))
      BY <1>1, <2>5 DEF ReadInv, PromiseKept, s
    <2>11. /\ listed' \subseteq Places
           /\ reader' = "done" => listed' = {}
           /\ reader' = "reading" => listed' # {}
      BY <1>1, <1>2, <1>6
    <2> QED
      <3>1. Records(got)' = Records(got') /\ Increasing(got)'
        BY <2>5 DEF Records, Increasing
      <3>2. GotBelow'
        BY <1>4, <2>7, <3>1 DEF GotBelow
      <3>3. GotClosed'
        BY <1>4, <2>8, <3>1 DEF GotClosed, Stored
      <3>4. DaysPassed'
        BY <1>4, <2>9, <3>1 DEF DaysPassed
      <3>5. PromiseKept'
        BY <1>1, <1>4, <2>10, <2>11, <3>1 DEF PromiseKept
      <3> QED
        BY <2>5, <2>11, <3>1, <3>2, <3>3, <3>4, <3>5 DEF ReadInv
  <1> QED
    BY <1>5, <1>6

\* A read of the directory beside the collector either fails, or returns every record
\* that was stored when it began, each once and in order, and of what was stored since
\* nothing without what was stored before it; where no write is cut short.
THEOREM ReadersMissNothing == ASSUME WritesWhole PROVE ReadingSpec => []ReadsComplete
  <1> USE CollectorAssumption
  <1>1. ReadingInit => ReadingInv
    <2> SUFFICES ASSUME ReadingInit PROVE ReadingInv
      OBVIOUS
    <2>1. accepted = 0 /\ files = [d \in Places |-> <<>>] /\ Init
      BY DEF ReadingInit, Init
    <2>2. LossInv
      BY <2>1, TornIsNoLog, InitInv DEF NoDamage, EveryRecordKept, LossInv
    <2>3. ReadInv
      BY EmptyRun, NumbersAreNat DEF ReadingInit, ReaderInit, ReadInv
    <2> QED
      BY <2>2, <2>3 DEF ReadingInv
  <1>2. ReadingInv /\ [ReadingNext]_<<vars, readerVars>> => ReadingInv'
    <2> SUFFICES ASSUME ReadingInv, [ReadingNext]_<<vars, readerVars>>
                 PROVE  ReadingInv'
      OBVIOUS
    <2>1. [Next]_vars
      BY DEF ReadingNext
    <2>2. LossInv'
      BY <2>1, LossStep DEF ReadingInv
    <2>3. CASE UNCHANGED readerVars
      BY <2>1, <2>2, <2>3, WriterKeepsRead DEF ReadingInv
    <2>4. CASE ReaderNext /\ UNCHANGED vars
      <3>1. CASE ListFiles \/ ReadFile
        BY <2>2, <2>4, <3>1, ListPreserves, ReadPreserves DEF ReadingInv
      <3>2. CASE ReadAgain
        BY <2>2, <3>2, EmptyRun, NumbersAreNat DEF ReadAgain, ReadingInv, ReadInv
      <3> QED
        BY <2>4, <3>1, <3>2 DEF ReaderNext
    <2> QED
      BY <2>3, <2>4 DEF ReadingNext
  <1>3. ReadingInv => ReadsComplete
    BY DEF ReadingInv, ReadInv, GotClosed, PromiseKept, ReadsComplete
  <1> QED
    BY <1>1, <1>2, <1>3, PTL DEF ReadingSpec
=============================================================================
