----------------------------- MODULE ModelFiles -----------------------------
(***************************************************************************)
(* The importance model from training to serving: scripts/train_policy.py, *)
(* ImportanceModelTrainer (src/src/trainers/importance_model.py), and the  *)
(* model a LearnedPolicy serves (src/src/cache_policies/learned.py).       *)
(*                                                                         *)
(* A trainer lives in a process of its own, the script's or one that calls *)
(* train, load and save as it likes; the policy loads the file beside it,  *)
(* while a save empties and fills it too.                                  *)
(* A model is its number and the columns it was fitted on; a file is       *)
(* absent, a bare model, or a payload of which the disk has some parts:    *)
(* the model, then the names.                                              *)
(***************************************************************************)
EXTENDS Naturals

CONSTANTS NameLists,      \* feature_names a caller may give
          ScriptNames,    \* those of LabelGenerator
          MaxModels,      \* bound: models fitted
          TraceSizes,     \* records a trace may have
          TestShare       \* percent of the rows that are the test set

ASSUME ModelAssumption ==
  /\ ScriptNames \in NameLists /\ TraceSizes \subseteq Nat
  /\ {MaxModels, TestShare} \subseteq Nat
  /\ TestShare < 100

VARIABLES job,       \* of the training process: "none", or where it is
          records,   \* the records its script has read
          trainer,   \* its ImportanceModelTrainer: [model, names]
          fitted,    \* models fitted so far
          file,      \* the file both agree on
          policy,    \* the LearnedPolicy: [model, names]
          loading,   \* its load in progress: what it has read of the file
          saved,     \* history: the payloads saved to the end that are in the file or
                     \* the policy
          blame      \* history: what may have parted names and model, of each holder

modelVars == <<job, records, trainer, fitted, file, policy, loading, saved, blame>>

NoModel == [number |-> 0, columns |-> {}]
NoNames == {}
Empty == [model |-> NoModel, names |-> NoNames]

Absent == [kind |-> "absent", model |-> NoModel, names |-> NoNames, parts |-> 0]
BareModel == [kind |-> "bare", model |-> [number |-> MaxModels + 1, columns |-> ScriptNames],
              names |-> NoNames, parts |-> 1]
Emptied == [Absent EXCEPT !.kind = "dict"]
Idle == [on |-> FALSE, model |-> NoModel, reopened |-> FALSE]

ModelInit ==
  /\ job = "none" /\ records = 0 /\ trainer = Empty /\ fitted = 0
  /\ file \in {Absent, BareModel} /\ policy = Empty /\ loading = Idle
  /\ saved = {} /\ blame = [trainer |-> {}, file |-> {}, policy |-> {}]

-----------------------------------------------------------------------------
\* A process starts: the script's, which reads the traces first and exits when there
\* are none, or another. With its process the trainer goes.
StartScript ==
  /\ job = "none"
  /\ \E n \in TraceSizes : records' = n /\ job' = (IF n = 0 THEN "none" ELSE "loaded")
  /\ UNCHANGED <<trainer, fitted, file, policy, loading, saved, blame>>

StartOther ==
  /\ job = "none" /\ job' = "interactive"
  /\ UNCHANGED <<records, trainer, fitted, file, policy, loading, saved, blame>>

ProcessEnds ==
  /\ job' = "none" /\ records' = 0
  /\ trainer' = Empty /\ blame' = [blame EXCEPT !.trainer = {}]

\* train: the names first, then the search for parameters and the fit, which raise or
\* give a model.
Fit(names) ==
  /\ fitted < MaxModels /\ fitted' = fitted + 1
  /\ trainer' = [model |-> [number |-> fitted + 1, columns |-> names], names |-> names]
  /\ blame' = [blame EXCEPT !.trainer = {}]

FitRaises(names) ==
  /\ trainer' = [trainer EXCEPT !.names = names] /\ UNCHANGED fitted
  /\ blame' = [blame EXCEPT !.trainer = @ \union {"raised"}]

Train ==
  /\ job = "interactive" /\ \E names \in NameLists : Fit(names) \/ FitRaises(names)
  /\ UNCHANGED <<job, records, file, policy, loading, saved>>

ScriptTrains ==
  /\ job = "loaded"
  /\ \/ Fit(ScriptNames) /\ job' = "trained" /\ UNCHANGED records
     \/ ProcessEnds /\ UNCHANGED fitted          \* the fit raises
  /\ UNCHANGED <<file, policy, loading, saved>>

\* The test set is evaluated before the model is saved: predict takes the minimum of
\* the scores, pearsonr wants two of them, and both raise.
TestSize(n) == (n * TestShare) \div 100
TestRaises == TestSize(records) < 2

ScriptTests ==
  /\ job = "trained"
  /\ \/ TestRaises /\ ProcessEnds
     \/ ~TestRaises /\ job' = "tested" /\ UNCHANGED <<records, trainer, blame>>
  /\ UNCHANGED <<fitted, file, policy, loading, saved>>

\* save: open(path, "wb") empties the file, also under a policy that is reading it;
\* pickle.dump writes the model and then the names, or raises on the way; what would
\* lie behind the model in the file stays.
Faulty_OpenFile ==                     \* the new payload is written over the old one
  /\ job \in {"tested", "interactive"} /\ trainer.model # NoModel
  /\ job' = (IF job = "tested" THEN "script opened" ELSE "opened")
  /\ file' = [file EXCEPT !.kind = "dict"]
  /\ loading' = [loading EXCEPT !.reopened = loading.on]
  /\ UNCHANGED <<records, trainer, fitted, policy, saved, blame>>
OpenFile ==
  /\ job \in {"tested", "interactive"} /\ trainer.model # NoModel
  /\ job' = (IF job = "tested" THEN "script opened" ELSE "opened")
  /\ file' = Emptied /\ saved' = saved \cap {policy} /\ blame' = [blame EXCEPT !.file = {}]
  /\ loading' = [loading EXCEPT !.reopened = loading.on]
  /\ UNCHANGED <<records, trainer, fitted, policy>>

DumpModel ==
  /\ job \in {"script opened", "opened"}
  /\ job' = (IF job = "opened" THEN "dumped" ELSE "script dumped")
  /\ file' = [file EXCEPT !.model = trainer.model, !.parts = IF @ = 0 THEN 1 ELSE @]
  /\ UNCHANGED <<records, trainer, fitted, policy, loading, saved, blame>>

DumpNames ==
  /\ job \in {"script dumped", "dumped"}
  /\ job' = (IF job = "dumped" THEN "interactive" ELSE "done")
  /\ file' = [file EXCEPT !.names = trainer.names, !.parts = 2]
  /\ saved' = saved \union {trainer} /\ blame' = [blame EXCEPT !.file = blame.trainer]
  /\ UNCHANGED <<records, trainer, fitted, policy, loading>>

DumpRaises ==
  /\ job \in {"opened", "dumped"} /\ job' = "interactive"
  /\ UNCHANGED <<records, trainer, fitted, file, policy, loading, saved, blame>>

\* The process ends, wherever it is.
Crash == job # "none" /\ ProcessEnds /\ UNCHANGED <<fitted, file, policy, loading, saved>>

-----------------------------------------------------------------------------
\* What unpickling makes of an object that held `before': of a bare model there are
\* no names, and those it had stay.
IsBare == file.kind = "bare"
IsWhole == file.kind = "dict" /\ file.parts = 2
LoadedBare(before) == [model |-> file.model, names |-> before.names]

\* ImportanceModelTrainer.load, in the process that saves; it raises what a file cut
\* short gives and changes nothing then.
LoadTrainer ==
  /\ job = "interactive"
  /\ \/ /\ IsBare /\ trainer' = LoadedBare(trainer)
        /\ blame' = [blame EXCEPT !.trainer = {"bare"}]
     \/ /\ IsWhole /\ trainer' = [model |-> file.model, names |-> file.names]
        /\ blame' = [blame EXCEPT !.trainer = blame.file]
  /\ UNCHANGED <<job, records, fitted, file, policy, loading, saved>>

\* LearnedPolicy.load_model: a file that is longer than one read may be saved again
\* before the rest of it is read.
ReadBare ==
  /\ ~loading.on /\ IsBare
  /\ policy' = LoadedBare(policy) /\ blame' = [blame EXCEPT !.policy = {"bare"}]
  /\ UNCHANGED loading

ReadModel ==
  /\ ~loading.on /\ file.kind = "dict" /\ file.parts > 0
  /\ loading' = [on |-> TRUE, model |-> file.model, reopened |-> FALSE]
  /\ UNCHANGED <<policy, blame>>

ReadNames ==
  /\ loading.on /\ file.parts = 2
  /\ policy' = [model |-> loading.model, names |-> file.names]
  /\ loading' = Idle
  /\ blame' = [blame EXCEPT !.policy =
                 blame.file \union IF loading.reopened THEN {"reopened"} ELSE {}]

\* There is no file, or it ends too early, or its end does not go with its beginning:
\* the policy logs it and goes on without a model.
ReadRaises ==
  /\ \/ ~loading.on /\ (file.kind = "absent" \/ file.parts = 0)
     \/ loading.on /\ (file.parts < 2 \/ loading.reopened)
  /\ policy' = [policy EXCEPT !.model = NoModel] /\ loading' = Idle
  /\ blame' = [blame EXCEPT !.policy = {}]

LoadPolicy ==
  /\ ReadBare \/ ReadModel \/ ReadNames \/ ReadRaises
  /\ UNCHANGED <<job, records, trainer, fitted, file, saved>>

ModelNext ==
  \/ StartScript \/ StartOther \/ Train \/ ScriptTrains \/ ScriptTests
  \/ OpenFile \/ DumpModel \/ DumpNames \/ DumpRaises \/ Crash \/ LoadTrainer \/ LoadPolicy

ModelSpec == ModelInit /\ [][ModelNext]_modelVars

-----------------------------------------------------------------------------
Matches(t) == t.model = NoModel \/ t.names = t.model.columns

\* Wherever saves crash or raise, the policy serves no model, or one that was saved to
\* the end and with the names it was saved with; the exceptions are a bare model, which
\* has none, and a file that was saved again while the policy read it.
ServesWhatWasSaved ==
  \/ policy.model \in {NoModel, BareModel.model}
  \/ "reopened" \in blame.policy
  \/ policy \in saved

\* The names that go with a model, in the trainer, on disk and in the policy, are the
\* columns it was fitted on, unless on their way there a fit raised, a bare model was
\* loaded or a file was saved again under its reader.
NamesGoWithModel ==
  /\ blame.trainer = {} => Matches(trainer)
  /\ IsWhole /\ blame.file = {} => Matches(file)
  /\ blame.policy = {} => Matches(policy)

\* What ServesWhatWasSaved and NamesGoWithModel say: training, saving and loading keep
\* a model and its names together but for the three faults they name.
ModelsTrue == ServesWhatWasSaved /\ NamesGoWithModel

\* "Save model + feature names": the names in a file are those of its model.
FileMatches == IsWhole => file.names = file.model.columns

\* The names get_feature_importance pairs with the importances are the model's.
PolicyMatches == Matches(policy)

\* "train importance model, save": a script that fitted a model saves it.
ScriptSaves == job = "trained" => ~TestRaises
=============================================================================
