--------------------------- MODULE MCPolicyCases ----------------------------
(***************************************************************************)
(* Three kinds of lists, one per behaviour: long ones for the bulk          *)
(* policies, small ones whose blocks differ in everything the heuristics   *)
(* look at, with and without a workload type, and ones with a model's      *)
(* predictions, negative and far apart.                                    *)
(***************************************************************************)
EXTENDS PolicyCases

VARIABLE scenario

\* On both sides of the two thresholds of default.yaml.
LowMediumHigh == {[used |-> 1, free |-> 1], [used |-> 3, free |-> 1], [used |-> 9, free |-> 1]}

InFp16 == {"GPU_FP16"}
Varied == INSTANCE PolicyCases
            WITH Ids <- 1..3, Averages <- {100, 1000}, Steps <- {0, 2}, Flags <- BOOLEAN,
                 PlacedTiers <- InFp16, RawScores <- {0}, MaxBlocks <- 3
Modelled == INSTANCE PolicyCases
              WITH Ids <- 1..3, Averages <- {0, 1000}, Steps <- {0}, Flags <- {FALSE},
                   PlacedTiers <- InFp16, RawScores <- {-3, 0, 1, 7},
                   MaxBlocks <- 3

MCInit ==
  \/ Init /\ workload = "unknown" /\ scenario \in {"long", "modelled"}
  \/ Init /\ scenario = "varied"

MCNext ==
  \/ scenario = "long" /\ Next /\ UNCHANGED scenario
  \/ scenario = "varied" /\ Varied!Next /\ UNCHANGED scenario
  \/ scenario = "modelled" /\ Modelled!Next /\ UNCHANGED scenario

MCSpec == MCInit /\ [][MCNext]_<<vars, scenario>>
=============================================================================
