---------------------------- MODULE MCEvaluation -----------------------------
(***************************************************************************)
(* The programs of the evaluation and training side: the benchmark         *)
(* runners, the sweep and the ablations of the harness, the analyzer, the  *)
(* trainer and its model file, and the functions over texts, prompts,      *)
(* traces and features.  They share no state, so a behaviour runs one of   *)
(* them, with the others at rest.  The properties are those of the         *)
(* modules.                                                                *)
(***************************************************************************)
EXTENDS ModelFiles, Harness, TextMetrics, TrainingData

VARIABLES program

texts == <<textVars, answer>>
rows == <<trace, scored, batch, prompt>>
harness == <<benchVars, stressVars, sweepVars, ablationVars, results>>
vars == <<program, harness, modelVars, texts, rows>>

-----------------------------------------------------------------------------
\* Three tasks, the second without samples.
SampleCounts == <<3, 0, 2>>

\* Two experiments that share a policy, over budgets and over levels.
TwoExperiments ==
  << [policies |-> <<"full_cache", "hybrid">>, budgets |-> <<90, 75>>, levels |-> <<1, 4>>],
     [policies |-> <<"hybrid", "learned">>, budgets |-> <<75>>, levels |-> <<1>>] >>

ThreeTasks == <<"hotpotqa", "qmsum", "lcc">>
\* The base policy is named among its ablations too.
BaseAgain == <<"h2o", "hybrid">>

\* Blocks that differ in attention alone, and blocks that differ in everything the two
\* computations of a feature share.
Ranked == [age : {0}, last : {0}, count : {0}, avg : {0, 1, 2, 4}, max : {4}, prefix : {FALSE},
           layer : {0}, head : {0}, tier : {"GPU_FP16"}]
Various == [age : {0, 2}, last : {0, 1, 2}, count : {0, 1}, avg : {1}, max : {1}, prefix : {FALSE},
            layer : {0}, head : {0}, tier : DOMAIN Tier]
TwoKinds == {[ids |-> 0..4, blocks |-> Ranked, most |-> 5],
             [ids |-> {0, 3, 4}, blocks |-> Various, most |-> 2]}

-----------------------------------------------------------------------------
Programs == {"longbench", "stress", "sweep", "ablation", "models", "analyzer", "texts",
             "answers", "prompts", "trace", "labels", "features"}

Init == /\ program \in Programs
        /\ BenchInit /\ StressInit /\ SweepInit /\ AblationInit /\ AnalyzerInit
        /\ ModelInit /\ TextInit /\ AnswerInit /\ PromptInit /\ TraceInit /\ LabelsInit /\ FeaturesInit
        /\ program # "stress" => test = "memory_spike"
        /\ program # "models" => file = Absent

Run(name) == program = name /\ UNCHANGED program

RunLongBench == Run("longbench") /\ BenchNext
                /\ UNCHANGED <<stressVars, sweepVars, ablationVars, results, modelVars, texts, rows>>
RunStress == Run("stress") /\ StressNext
             /\ UNCHANGED <<benchVars, sweepVars, ablationVars, results, modelVars, texts, rows>>
RunSweep == Run("sweep") /\ SweepNext
            /\ UNCHANGED <<benchVars, stressVars, ablationVars, results, modelVars, texts, rows>>
RunAblation == Run("ablation") /\ AblationNext
               /\ UNCHANGED <<benchVars, stressVars, sweepVars, results, modelVars, texts, rows>>
Analyze == Run("analyzer") /\ AnalyzerNext
           /\ UNCHANGED <<benchVars, stressVars, sweepVars, ablationVars, modelVars, texts, rows>>
TrainAndServe == Run("models") /\ ModelNext /\ UNCHANGED <<harness, texts, rows>>

Programless == UNCHANGED <<harness, modelVars>>
GrowTexts == Run("texts") /\ TextNext /\ Programless /\ UNCHANGED <<answer, rows>>
GrowAnswer == Run("answers") /\ AnswerNext /\ Programless /\ UNCHANGED <<textVars, rows>>
GrowPrompt == Run("prompts") /\ PromptNext /\ Programless /\ UNCHANGED <<texts, trace, scored, batch>>
GrowTrace == Run("trace") /\ TraceNext /\ Programless /\ UNCHANGED <<texts, scored, batch, prompt>>
GrowLabels == Run("labels") /\ LabelsNext /\ Programless /\ UNCHANGED <<texts, trace, batch, prompt>>
GrowBatch == Run("features") /\ FeaturesNext /\ Programless /\ UNCHANGED <<texts, trace, scored, prompt>>

Next == \/ RunLongBench \/ RunStress \/ RunSweep \/ RunAblation \/ TrainAndServe \/ Analyze
        \/ GrowTexts \/ GrowAnswer \/ GrowPrompt
        \/ GrowTrace \/ GrowLabels \/ GrowBatch

Spec == Init /\ [][Next]_vars

\* The two runners go on as LongBench and StressTests say: calls end, time passes.
FairSpec == /\ Spec
            /\ program = "longbench" => BenchFairness
            /\ program = "stress" => StressFairness

-----------------------------------------------------------------------------
\* LongBench, StressTests: however many calls fail, every run comes to its end.
RunsEnd == /\ program = "longbench" => RunEnds
           /\ program = "stress" => WorkloadEnds
=============================================================================
