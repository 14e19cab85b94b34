----------------------------- MODULE MCCollector -----------------------------
(***************************************************************************)
(* Three kinds of behaviour: the back end of the cfg, with its faults; the *)
(* back end in memory; and a trace reader beside a collector whose writes  *)
(* may be refused but neither torn nor cut off.  Liveness is asked of the  *)
(* first.                                                                  *)
(***************************************************************************)
EXTENDS TraceReader

VARIABLE scenario

Memory == INSTANCE TelemetryCollector WITH Backend <- "memory", MaxBufferSize <- 3

Refused == INSTANCE TelemetryCollector WITH Faults <- {"refuse"}, MaxRecords <- 4

MCInit == ReadingInit /\ scenario \in {"files", "memory", "reading"}

MCNext ==
  \/ scenario = "files" /\ Next /\ UNCHANGED <<scenario, readerVars>>
  \/ scenario = "memory" /\ Memory!Next /\ UNCHANGED <<scenario, readerVars>>
  \/ scenario = "reading" /\ Refused!Next /\ UNCHANGED <<scenario, readerVars>>
  \/ scenario = "reading" /\ ReaderNext /\ UNCHANGED <<scenario, vars>>

MCSpec == MCInit /\ [][MCNext]_<<vars, scenario, readerVars>>

FilesInit == MCInit /\ scenario = "files"
FairFiles == FilesInit /\ [][MCNext]_<<vars, scenario, readerVars>> /\ Fairness
=============================================================================
