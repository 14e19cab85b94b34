----------------------------- MODULE TraceReader -----------------------------
(***************************************************************************)
(* TelemetryStorage.read_all (src/src/telemetry/storage.py) beside the     *)
(* collector: scripts/train_policy.py reads, in a process of its own, the  *)
(* directory a server is writing to.  It lists the files, reads them one   *)
(* by one in the order of their dates, and takes no lock: a file that is   *)
(* being rewritten or is gone raises, and the whole read with it.          *)
(***************************************************************************)
EXTENDS TelemetryCollector

VARIABLES reader,     \* "idle", "reading", "done" or "failed"
          listed,     \* the files still to be read
          got,        \* the records of those that were
          promised    \* the records stored when it began

readerVars == <<reader, listed, got, promised>>

ReaderInit == reader = "idle" /\ listed = {} /\ got = <<>> /\ promised = {}

\* os.listdir, sorted, and only files that exist
ListFiles ==
  /\ reader = "idle"
  /\ promised' = UNION {Records(Kept(d)) : d \in Places}
  /\ listed' = {d \in Places : files[d] # <<>>} /\ got' = <<>>
  /\ reader' = IF listed' = {} THEN "done" ELSE "reading"

First == CHOOSE d \in listed : \A e \in listed : d <= e

Faulty_ReadFile ==                     \* a file that cannot be read is passed over
  /\ reader = "reading" /\ listed' = listed \ {First}
  /\ got' = IF files[First] = Torn THEN got ELSE got \o files[First]
  /\ reader' = IF listed' = {} THEN "done" ELSE "reading"
  /\ UNCHANGED promised

ReadFile ==
  /\ reader = "reading" /\ listed' = listed \ {First}
  /\ IF files[First] \in {Torn, <<>>} THEN reader' = "failed" /\ UNCHANGED got
     ELSE /\ got' = got \o files[First]
          /\ reader' = IF listed' = {} THEN "done" ELSE "reading"
  /\ UNCHANGED promised

\* The frame is dropped, and the directory read again some time.
ReadAgain ==
  /\ reader \in {"done", "failed"} /\ reader' = "idle"
  /\ listed' = {} /\ got' = <<>> /\ promised' = {}

ReaderNext == ListFiles \/ ReadFile \/ ReadAgain

ReadingInit == Init /\ ReaderInit
ReadingNext == \/ Next /\ UNCHANGED readerVars
               \/ ReaderNext /\ UNCHANGED vars

ReadingSpec == ReadingInit /\ [][ReadingNext]_<<vars, readerVars>>

-----------------------------------------------------------------------------
\* A read that returns has every record that was stored when it began, each once and in
\* the order of admission, and of what was stored while it went on no later record
\* without the earlier ones, though files are rewritten and days end beside it.
ReadsComplete ==
  reader = "done" =>
    /\ promised \subseteq Records(got) /\ Increasing(got)
    /\ \A r \in Records(got) : \A q \in 1..r : Stored(q) => q \in Records(got)
=============================================================================
