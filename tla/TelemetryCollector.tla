------------------------- MODULE TelemetryCollector -------------------------
(***************************************************************************)
(* The telemetry collector and the storage under it:                       *)
(* src/src/telemetry/collector.py and src/src/telemetry/storage.py.        *)
(*                                                                         *)
(* Records are numbered in the order the collector's lock admits them.     *)
(* One lock guards the buffer, and a flush holds it for as long as the     *)
(* storage takes to write: batch is the list a flush is writing, and is    *)
(* empty exactly when the lock is free.  The storage has no lock, and the  *)
(* process may die at any point of a write.                                *)
(***************************************************************************)
EXTENDS Integers, Sequences

CONSTANTS Backend,        \* "parquet" or "memory"
          MaxBufferSize,  \* max_buffer_size
          Days,           \* bound: the UTC dates the process sees
          Faults,         \* what may go wrong: see the four kinds below
          MaxRecords      \* bound: records per behaviour

\* "refuse": read_table or the conversion raises, the file is not touched;
\* "torn": write_table raises half-way; "crash": the process dies;
\* "timeout": stop's join gives up on the flush thread.
ASSUME CollectorAssumption ==
  /\ Backend \in {"parquet", "memory"}
  /\ MaxBufferSize \in Int /\ Days \in Nat \ {0} /\ MaxRecords \in Nat
  /\ Faults \subseteq {"refuse", "torn", "crash", "timeout"}

VARIABLES buffer, batch,
          write,      \* the write_batch in progress
          files,      \* the contents of each daily file (memory: files[1])
          today,
          accepted,   \* records admitted so far, by this process or an earlier one
          total_records, total_flushes,
          flusher,    \* the flush thread: "waiting", "woken" or "gone"
          stopping    \* the call of stop: "no", "joining", "flushing" or "stopped"

vars == <<buffer, batch, write, files, today, accepted, total_records,
          total_flushes, flusher, stopping>>

Torn == <<0>>     \* a file that does not parse; 0 is no record's number
NoWrite == [pc |-> "none"]
Places == 1..Days

Init ==
  /\ buffer = <<>> /\ batch = <<>> /\ write = NoWrite
  /\ files = [d \in Places |-> <<>>] /\ today = 1
  /\ accepted = 0 /\ total_records = 0 /\ total_flushes = 0
  /\ flusher = "waiting" /\ stopping = "no"

LockFree == batch = <<>>

-----------------------------------------------------------------------------
Faulty_FlushLocked(buf, who) ==     \* the buffer is not cleared
  /\ batch' = buf /\ buffer' = buf
  /\ write' = IF buf = <<>> THEN NoWrite ELSE [pc |-> "begun", by |-> who]

\* _flush_locked up to the storage call, by the named caller.
FlushLocked(buf, who) ==
  /\ batch' = buf /\ buffer' = <<>>
  /\ write' = IF buf = <<>> THEN NoWrite ELSE [pc |-> "begun", by |-> who]

RecordBlockEvent ==
  /\ LockFree /\ accepted < MaxRecords
  /\ accepted' = accepted + 1 /\ total_records' = total_records + 1
  /\ LET buf == Append(buffer, accepted + 1)
     IN  IF Len(buf) >= MaxBufferSize THEN FlushLocked(buf, "caller")
         ELSE buffer' = buf /\ UNCHANGED <<batch, write>>
  /\ UNCHANGED <<files, today, total_flushes, flusher, stopping>>

\* flush(), by any thread
Flush ==
  /\ LockFree /\ FlushLocked(buffer, "caller")
  /\ UNCHANGED <<files, today, accepted, total_records, total_flushes, flusher,
                 stopping>>

\* _flush_loop: the wait times out; later the thread gets the lock.
WaitTimesOut ==
  /\ flusher = "waiting" /\ stopping = "no" /\ flusher' = "woken"
  /\ UNCHANGED <<buffer, batch, write, files, today, accepted, total_records,
                 total_flushes, stopping>>

Faulty_FlushTick ==                 \* flushes full buffers only
  /\ flusher = "woken" /\ LockFree
  /\ IF Len(buffer) < MaxBufferSize THEN UNCHANGED <<buffer, batch, write>> ELSE FlushLocked(buffer, "flusher")
  /\ flusher' = IF Len(buffer) < MaxBufferSize THEN "waiting" ELSE "writing"
  /\ UNCHANGED <<files, today, accepted, total_records, total_flushes, stopping>>

FlushTick ==
  /\ flusher = "woken" /\ LockFree /\ FlushLocked(buffer, "flusher")
  /\ flusher' = IF buffer = <<>> THEN "waiting" ELSE "writing"
  /\ UNCHANGED <<files, today, accepted, total_records, total_flushes, stopping>>

FlusherExits ==
  /\ flusher = "waiting" /\ stopping # "no" /\ flusher' = "gone"
  /\ UNCHANGED <<buffer, batch, write, files, today, accepted, total_records,
                 total_flushes, stopping>>

-----------------------------------------------------------------------------
\* write_batch.  memory: one extend.  parquet: the day's file is read, then
\* opened for writing, which empties it, then written.
Today == IF Backend = "memory" THEN 1 ELSE today

BeginParquet ==
  /\ write.pc = "begun" /\ Backend = "parquet" /\ files[Today] # Torn
  /\ write' = [pc |-> "opened", by |-> write.by, day |-> Today, existing |-> files[Today]]
  /\ files' = [files EXCEPT ![Today] = Torn]
  /\ UNCHANGED <<buffer, batch, today, accepted, total_records, total_flushes,
                 flusher, stopping>>

\* the rest of _flush_locked, and of the call it was part of
Released ==
  /\ write' = NoWrite /\ batch' = <<>>
  /\ flusher' = IF write.by = "flusher" THEN "waiting" ELSE flusher
  /\ stopping' = IF write.by = "stopper" THEN "stopped" ELSE stopping

Written(d, existing) ==
  /\ files' = [files EXCEPT ![d] = existing \o batch]
  /\ total_flushes' = total_flushes + 1
  /\ buffer' = buffer /\ Released
  /\ UNCHANGED <<today, accepted, total_records>>

WriteSucceeds ==
  \/ write.pc = "opened" /\ Written(write.day, write.existing)
  \/ write.pc = "begun" /\ Backend = "memory" /\ Written(1, files[1])

Faulty_Rebuffer ==                  \* the failed batch is dropped
  /\ buffer' = buffer /\ Released
  /\ UNCHANGED <<today, accepted, total_records, total_flushes>>

\* "Re-buffer on failure"
Rebuffer ==
  /\ buffer' = buffer \o batch /\ Released
  /\ UNCHANGED <<today, accepted, total_records, total_flushes>>

Faulty_WriteRefused ==              \* the lock is not released
  /\ write.pc = "begun" /\ Backend = "parquet"
  /\ "refuse" \in Faults \/ files[Today] = Torn
  /\ write' = NoWrite
  /\ UNCHANGED <<buffer, batch, files, today, accepted, total_records, total_flushes,
                 flusher, stopping>>

WriteRefused ==
  /\ write.pc = "begun" /\ Backend = "parquet"
  /\ "refuse" \in Faults \/ files[Today] = Torn
  /\ Rebuffer /\ files' = files

\* pyarrow removes the file it failed to write, or fails at that too.
WriteTorn ==
  /\ write.pc = "opened" /\ "torn" \in Faults
  /\ \E left \in {<<>>, Torn} : files' = [files EXCEPT ![write.day] = left]
  /\ Rebuffer

WriteEnds == WriteSucceeds \/ WriteRefused \/ WriteTorn

-----------------------------------------------------------------------------
Stop ==
  /\ stopping = "no" /\ stopping' = "joining"
  /\ UNCHANGED <<buffer, batch, write, files, today, accepted, total_records,
                 total_flushes, flusher>>

Faulty_FinalFlush ==        \* does not wait for a flush in progress
  /\ stopping = "joining" /\ (flusher = "gone" \/ "timeout" \in Faults)
  /\ IF LockFree THEN FlushLocked(buffer, "stopper") ELSE UNCHANGED <<buffer, batch, write>>
  /\ stopping' = IF buffer = <<>> THEN "stopped" ELSE "flushing"
  /\ UNCHANGED <<files, today, accepted, total_records, total_flushes, flusher>>

\* the join returned: the final flush
FinalFlush ==
  /\ stopping = "joining" /\ (flusher = "gone" \/ "timeout" \in Faults)
  /\ LockFree /\ FlushLocked(buffer, "stopper")
  /\ stopping' = IF buffer = <<>> THEN "stopped" ELSE "flushing"
  /\ UNCHANGED <<files, today, accepted, total_records, total_flushes, flusher>>

-----------------------------------------------------------------------------
Midnight ==
  /\ today < Days /\ today' = today + 1
  /\ UNCHANGED <<buffer, batch, write, files, accepted, total_records,
                 total_flushes, flusher, stopping>>

\* The process dies and a new one starts on what the disk holds.
Crash ==
  /\ "crash" \in Faults
  /\ buffer' = <<>> /\ batch' = <<>> /\ write' = NoWrite
  /\ files' = IF Backend = "memory" THEN [d \in Places |-> <<>>] ELSE files
  /\ total_records' = 0 /\ total_flushes' = 0
  /\ flusher' = "waiting" /\ stopping' = "no"
  /\ UNCHANGED <<today, accepted>>

Next == \/ RecordBlockEvent
        \/ Flush
        \/ WaitTimesOut
        \/ FlushTick
        \/ FlusherExits
        \/ BeginParquet
        \/ WriteSucceeds
        \/ WriteRefused
        \/ WriteTorn
        \/ Stop
        \/ FinalFlush
        \/ Midnight
        \/ Crash

Spec == Init /\ [][Next]_vars

\* The thread's waits and lock acquisitions end, each storage call ends, a
\* started stop goes on, and the storage does not refuse for ever.
Fairness ==
  /\ WF_vars(WaitTimesOut) /\ WF_vars(FlushTick) /\ WF_vars(FlusherExits)
  /\ WF_vars(BeginParquet \/ WriteEnds) /\ SF_vars(WriteSucceeds)
  /\ SF_vars(BeginParquet) /\ WF_vars(FinalFlush)

FairSpec == Spec /\ Fairness

\* get_recent_records(n): _buffer[-n:]
RecentRecords(n) ==
  CASE n > 0 -> IF n >= Len(buffer) THEN buffer
                ELSE SubSeq(buffer, Len(buffer) - n + 1, Len(buffer))
    [] n = 0 -> buffer
    [] n < 0 -> SubSeq(buffer, 1 - n, Len(buffer))

-----------------------------------------------------------------------------
Records(s) == {s[i] : i \in DOMAIN s}
\* What can be read from the day's file or, while it is being rewritten, could.
Kept(d) == IF write.pc = "opened" /\ write.day = d THEN write.existing
           ELSE IF files[d] = Torn THEN <<>> ELSE files[d]

Stored(r) == \E d \in Places : r \in Records(Kept(d))

Numbers == Nat \ {0}
Callers == {"caller", "flusher", "stopper"}

TypeOK ==
  /\ buffer \in Seq(Numbers) /\ batch \in Seq(Numbers) /\ accepted \in Nat
  /\ files \in [Places -> Seq(Numbers) \union {Torn}] /\ today \in Places
  /\ write \in [pc : {"none"}] \union [pc : {"begun"}, by : Callers]
       \union [pc : {"opened"}, by : Callers, day : Places, existing : Seq(Numbers)]
  /\ flusher \in {"waiting", "woken", "writing", "gone"}
  /\ stopping \in {"no", "joining", "flushing", "stopped"}
  /\ total_records \in Nat /\ total_flushes \in Nat

\* collector.py: "Re-buffer on failure to avoid data loss".  A record that was
\* admitted is in a daily file, in the batch being written or in the buffer,
\* however often the storage refuses.
EveryRecordKept ==
  \A r \in 1..accepted : r \in Records(buffer) \/ r \in Records(batch) \/ Stored(r)

\* Whatever fails, no record is there twice: read from the first day to the
\* last, then the batch, then the buffer, they come in the order of admission.
Increasing(s) == \A i, j \in DOMAIN s : i < j => s[i] < s[j]
Before(s, t) == \A i \in DOMAIN s, j \in DOMAIN t : s[i] < t[j]

LogOrdered ==
  /\ Increasing(buffer) /\ Increasing(batch) /\ Before(batch, buffer)
  /\ \A d \in Places : /\ Increasing(Kept(d))
                        /\ Before(Kept(d), batch) /\ Before(Kept(d), buffer)
                        /\ \A e \in Places : d < e => Before(Kept(d), Kept(e))

\* When stop returns, every record admitted by then is in the storage, unless the
\* storage refused this last write, even if its join gave up on a flush thread that
\* was still writing.
StopWritesAll ==
  [][stopping' = "stopped" /\ stopping # "stopped" /\ ~WriteRefused =>
       \A r \in 1..accepted' : Stored(r)']_vars

\* Every record is stored within some flush interval, unless the collector is
\* being stopped; a storage that refuses now and then only delays it.
RecordsReachStorage ==
  \A r \in 1..MaxRecords : accepted >= r ~> Stored(r) \/ stopping # "no"

\* stop returns, whoever holds the lock when it is called.
StopReturns == stopping = "joining" ~> stopping = "stopped"

\* storage.py: "records are appended to a file": the records of earlier
\* batches survive the death of the process.
CrashKeepsWritten ==
  [][Crash /\ Backend = "parquet" =>
       \A d \in Places : Records(Kept(d)) \subseteq Records(files'[d])]_vars

\* collector.py: "Return up to *n* most-recently-buffered records".
RecentAtMostN == \A n \in 0..MaxRecords : Len(RecentRecords(n)) <= n
=============================================================================
