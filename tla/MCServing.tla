------------------------------ MODULE MCServing ------------------------------
(***************************************************************************)
(* The calls of the batch, in the order of the request body, and, as a     *)
(* program of its own, the engine wrapper that Serving takes for its       *)
(* model.  A behaviour runs one of the two, with the other at rest.        *)
(***************************************************************************)
EXTENDS Serving, EngineWrapper, TLC

CONSTANTS b1, b2, b3
ThreeCalls == <<b1, b2, b3>>
NoBatch == <<>>

VARIABLE program

allVars == <<vars, wrapperVars, program>>

MCInit ==
  /\ Init /\ WrapperInit
  /\ program \in {"serving", "wrapper"} /\ (program = "serving" => vllm)

RunServing == program = "serving" /\ Next /\ UNCHANGED <<program, wrapperVars>>
RunWrapper == program = "wrapper" /\ WrapperNext /\ UNCHANGED <<program, vars>>

MCNext == RunServing \/ RunWrapper

MCSpec == MCInit /\ [][MCNext]_allVars

\* Serving's fairness: the wrapper has no liveness of its own.
MCFairSpec == MCSpec /\ Fairness
==============================================================================
