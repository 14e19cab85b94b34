--------------------------- MODULE EvaluationProofs ---------------------------
(***************************************************************************)
(* Theorems of the evaluation and training side, for all values of their   *)
(* constants: of ModelFiles, of TextMetrics, and of what Harness and       *)
(* TrainingData are made of, which share no state.                         *)
(***************************************************************************)
EXTENDS ModelFiles, Harness, TextMetrics, TrainingData,
        FiniteSetTheorems, SequenceTheorems, WellFoundedInduction, TLAPS

-----------------------------------------------------------------------------
Jobs == {"none", "loaded", "trained", "tested", "interactive", "opened", "script opened",
         "dumped", "script dumped", "done"}
Saving == {"opened", "script opened", "dumped", "script dumped"}
Names == NameLists \union {NoNames}
Models == [number : Nat, columns : Names]
Holders == [model : Models, names : Names]
Files == [kind : {"absent", "bare", "dict"}, model : Models, names : Names, parts : {0, 1, 2}]
Causes == SUBSET {"raised", "bare", "reopened"}

ModelTypeOK ==
  /\ job \in Jobs /\ fitted \in Nat
  /\ trainer \in Holders /\ policy \in Holders /\ file \in Files
  /\ loading \in [on : BOOLEAN, model : Models, reopened : BOOLEAN]
  /\ blame \in [trainer : Causes, file : Causes, policy : Causes]

\* What a save has written so far is its trainer's, behind which nothing of an older
\* file is left.
SavingInv ==
  /\ job \in Saving => file.kind = "dict"
  /\ job \in {"opened", "script opened"} => file.parts = 0
  /\ job \in {"dumped", "script dumped"} => file.parts = 1 /\ file.model = trainer.model

\* A file that is whole was saved to the end; a bare one is the one that was there.
FileInv ==
  /\ IsBare => file = BareModel
  /\ IsWhole => [model |-> file.model, names |-> file.names] \in saved

\* What the policy has read is the head of the file it reads, if that was not reopened.
LoadingInv ==
  loading.on => /\ file.kind = "dict"
                /\ ~loading.reopened => file.parts \in {1, 2} /\ loading.model = file.model

ModelInv == /\ ModelTypeOK /\ SavingInv /\ FileInv /\ LoadingInv
            /\ ServesWhatWasSaved /\ NamesGoWithModel

-----------------------------------------------------------------------------
\* The values the variables start from, and what a trainer may hold.
LEMMA FirstValues ==
  ASSUME ModelAssumption
  PROVE  /\ NoModel \in Models /\ Empty \in Holders /\ Empty.model = NoModel
         /\ {Absent, BareModel, Emptied} \subseteq Files
         /\ Absent.kind = "absent" /\ BareModel.kind = "bare" /\ Emptied.kind = "dict"
         /\ Emptied.parts = 0
         /\ Idle \in [on : BOOLEAN, model : Models, reopened : BOOLEAN] /\ ~Idle.on
         /\ ScriptNames \in Names /\ NameLists \subseteq Names
  <1>1. NoModel \in Models /\ Empty \in Holders /\ Empty.model = NoModel
    BY DEF NoModel, Empty, NoNames, Models, Holders, Names
  <1>2. ScriptNames \in Names /\ NameLists \subseteq Names /\ NoNames \in Names
    BY DEF ModelAssumption, Names
  <1>3. Absent \in Files /\ Absent.kind = "absent"
    BY <1>1, <1>2 DEF Absent, Files
  <1>4. Emptied \in Files /\ Emptied.kind = "dict" /\ Emptied.parts = 0
    BY <1>1, <1>2 DEF Emptied, Absent, Files
  <1>5. BareModel \in Files /\ BareModel.kind = "bare"
    <2>1. [number |-> MaxModels + 1, columns |-> ScriptNames] \in Models
      BY <1>2 DEF Models, ModelAssumption
    <2> QED BY <1>2, <2>1 DEF BareModel, Files
  <1>6. Idle \in [on : BOOLEAN, model : Models, reopened : BOOLEAN] /\ ~Idle.on
    BY <1>1 DEF Idle
  <1> QED BY <1>1, <1>2, <1>3, <1>4, <1>5, <1>6

\* Nothing is fitted yet, and the file is absent or a bare model.
LEMMA ModelInitInv == ASSUME ModelAssumption, ModelInit PROVE ModelInv
  <1>1. /\ job = "none" /\ trainer = Empty /\ fitted = 0
        /\ file \in {Absent, BareModel} /\ policy = Empty /\ loading = Idle
        /\ saved = {} /\ blame = [trainer |-> {}, file |-> {}, policy |-> {}]
    BY DEF ModelInit
  <1>2. ModelTypeOK
    BY <1>1, FirstValues DEF ModelTypeOK, Jobs, Causes
  <1>3. SavingInv
    BY <1>1 DEF SavingInv, Saving
  <1>4. FileInv /\ LoadingInv
    BY <1>1, FirstValues DEF FileInv, LoadingInv, IsBare, IsWhole
  <1>5. ServesWhatWasSaved
    BY <1>1, FirstValues DEF ServesWhatWasSaved
  <1>6. NamesGoWithModel
    BY <1>1, FirstValues DEF NamesGoWithModel, Matches, IsWhole
  <1> QED BY <1>2, <1>3, <1>4, <1>5, <1>6 DEF ModelInv

\* What touches the training process alone leaves the file, the load in progress and
\* the policy as they are.
LEMMA TrainerAlone ==
  ASSUME ModelInv, UNCHANGED <<file, policy, loading, saved>>,
         job' \in Jobs \ Saving, fitted' \in Nat, trainer' \in Holders,
         NEW C \in Causes, blame' = [blame EXCEPT !.trainer = C],
         C = {} => Matches(trainer)'
  PROVE  ModelInv'
  <1> USE DEF ModelInv
  <1>1. blame' \in [trainer : Causes, file : Causes, policy : Causes]
        /\ blame'.trainer = C /\ blame'.file = blame.file /\ blame'.policy = blame.policy
    BY DEF ModelTypeOK
  <1>2. ModelTypeOK'
    BY <1>1 DEF ModelTypeOK
  <1>3. SavingInv'
    BY DEF SavingInv, Saving
  <1>4. FileInv' /\ LoadingInv'
    BY DEF FileInv, LoadingInv, IsBare, IsWhole
  <1>5. ServesWhatWasSaved'
    BY <1>1 DEF ServesWhatWasSaved
  <1>6. NamesGoWithModel'
    BY <1>1 DEF NamesGoWithModel, Matches, IsWhole
  <1> QED BY <1>2, <1>3, <1>4, <1>5, <1>6

\* With the process the trainer goes.
LEMMA TrainerGoes ==
  ASSUME ModelAssumption, ModelInv, ProcessEnds,
         UNCHANGED <<fitted, file, policy, loading, saved>>
  PROVE  ModelInv'
  <1>1. job' = "none" /\ trainer' = Empty /\ blame' = [blame EXCEPT !.trainer = {}]
    BY DEF ProcessEnds
  <1>2. job' \in Jobs \ Saving /\ fitted' \in Nat /\ {} \in Causes
    BY <1>1 DEF Jobs, Saving, ModelInv, ModelTypeOK, Causes
  <1>3. trainer' \in Holders /\ Matches(trainer)'
    BY <1>1, FirstValues DEF Matches
  <1> QED BY <1>1, <1>2, <1>3, TrainerAlone

\* A fit gives a model with the trainer's names, or leaves the old one beside new names.
LEMMA TrainPreserves ==
  ASSUME ModelAssumption, ModelInv, NEW names \in NameLists,
         Fit(names) \/ FitRaises(names),
         job' \in Jobs \ Saving, UNCHANGED <<file, policy, loading, saved>>
  PROVE  ModelInv'
  <1>1. ModelTypeOK /\ names \in Names
    BY FirstValues DEF ModelInv
  <1>2. CASE Fit(names)
    <2>1. /\ fitted' = fitted + 1 /\ blame' = [blame EXCEPT !.trainer = {}]
          /\ trainer' = [model |-> [number |-> fitted + 1, columns |-> names], names |-> names]
      BY <1>2 DEF Fit
    <2>2. fitted' \in Nat /\ {} \in Causes
      BY <2>1, <1>1 DEF ModelTypeOK, Causes
    <2>3. trainer' \in Holders /\ Matches(trainer)'
      BY <2>1, <2>2, <1>1 DEF Holders, Models, Matches
    <2> QED BY <2>1, <2>2, <2>3, TrainerAlone
  <1>3. CASE FitRaises(names)
    <2> DEFINE C == blame.trainer \union {"raised"}
    <2>1. /\ trainer' = [trainer EXCEPT !.names = names] /\ fitted' = fitted
          /\ blame' = [blame EXCEPT !.trainer = C]
      BY <1>1, <1>3 DEF FitRaises, ModelTypeOK
    <2>2. C \in Causes /\ C # {} /\ fitted' \in Nat
      BY <2>1, <1>1 DEF ModelTypeOK, Causes
    <2>3. trainer' \in Holders
      BY <2>1, <1>1 DEF ModelTypeOK, Holders
    <2> HIDE DEF C
    <2> QED BY <2>1, <2>2, <2>3, TrainerAlone
  <1> QED BY <1>2, <1>3

\* The steps of the training process that write nothing.
LEMMA ProcessPreserves ==
  ASSUME ModelAssumption, ModelInv,
         StartScript \/ StartOther \/ Train \/ ScriptTrains \/ ScriptTests \/ DumpRaises
           \/ Crash
  PROVE  ModelInv'
  <1>1. {"none", "loaded", "trained", "tested", "interactive"} \subseteq Jobs \ Saving
    BY DEF Jobs, Saving
  <1>2. CASE StartScript \/ StartOther \/ DumpRaises \/ (ScriptTests /\ ~ProcessEnds)
    <2>1. /\ UNCHANGED <<trainer, fitted, file, policy, loading, saved, blame>>
          /\ job' \in {"none", "loaded", "tested", "interactive"}
      BY <1>2 DEF StartScript, StartOther, DumpRaises, ScriptTests
    <2>2. job' \in Jobs /\ job' \notin Saving
      BY <1>1, <2>1
    <2>3. ModelTypeOK' /\ SavingInv' /\ FileInv' /\ LoadingInv'
      BY <2>1, <2>2 DEF ModelInv, ModelTypeOK, SavingInv, Saving, FileInv, LoadingInv, IsBare,
         IsWhole
    <2>4. ServesWhatWasSaved' /\ NamesGoWithModel'
      BY <2>1 DEF ModelInv, ServesWhatWasSaved, NamesGoWithModel, Matches, IsWhole
    <2> QED BY <2>3, <2>4 DEF ModelInv
  <1>3. CASE Train
    <2>1. job' \in Jobs \ Saving /\ UNCHANGED <<file, policy, loading, saved>>
      BY <1>1, <1>3 DEF Train
    <2> QED BY <1>3, <2>1, TrainPreserves DEF Train
  <1>4. CASE ScriptTrains
    <2>1. UNCHANGED <<file, policy, loading, saved>> /\ ScriptNames \in NameLists
      BY <1>4 DEF ScriptTrains, ModelAssumption
    <2>2. CASE Fit(ScriptNames) /\ job' = "trained"
      BY <1>1, <2>1, <2>2, TrainPreserves
    <2>3. CASE ProcessEnds /\ UNCHANGED fitted
      BY <2>1, <2>3, TrainerGoes
    <2> QED BY <1>4, <2>2, <2>3 DEF ScriptTrains
  <1>5. CASE Crash \/ (ScriptTests /\ ProcessEnds)
    <2>1. ProcessEnds /\ UNCHANGED <<fitted, file, policy, loading, saved>>
      BY <1>5 DEF Crash, ScriptTests
    <2> QED BY <2>1, TrainerGoes
  <1> QED BY <1>2, <1>3, <1>4, <1>5

\* To open the file empties it, and parts a policy that is reading it from its rest.
LEMMA OpenPreserves == ASSUME ModelAssumption, ModelInv, OpenFile PROVE ModelInv'
  <1> USE DEF ModelInv
  <1>1. /\ job' \in {"opened", "script opened"} /\ file' = Emptied
        /\ UNCHANGED <<trainer, fitted, policy>> /\ saved' = saved \cap {policy}
        /\ loading' = [loading EXCEPT !.reopened = loading.on]
        /\ blame' = [blame EXCEPT !.file = {}]
    BY DEF OpenFile
  <1>2. /\ blame' \in [trainer : Causes, file : Causes, policy : Causes]
        /\ blame'.trainer = blame.trainer /\ blame'.policy = blame.policy
    BY <1>1 DEF ModelTypeOK, Causes
  <1>3. /\ loading' \in [on : BOOLEAN, model : Models, reopened : BOOLEAN]
        /\ loading'.on = loading.on /\ loading'.reopened = loading.on
    BY <1>1 DEF ModelTypeOK
  <1>4. ModelTypeOK'
    <2>1. job' \in Jobs /\ file' \in Files
      BY <1>1, FirstValues DEF Jobs
    <2> QED BY <1>1, <1>2, <1>3, <2>1 DEF ModelTypeOK
  <1>5. SavingInv' /\ FileInv' /\ LoadingInv'
    <2>1. file'.kind = "dict" /\ file'.parts = 0
      BY <1>1, FirstValues
    <2>2. SavingInv'
      BY <1>1, <2>1 DEF SavingInv, Saving
    <2>3. FileInv'
      BY <2>1 DEF FileInv, IsBare, IsWhole
    <2>4. LoadingInv'
      BY <1>3, <2>1 DEF LoadingInv
    <2> QED BY <2>2, <2>3, <2>4
  <1>6. ServesWhatWasSaved'
    BY <1>1, <1>2 DEF ServesWhatWasSaved
  <1>7. NamesGoWithModel'
    <2>1. file'.parts = 0
      BY <1>1, FirstValues
    <2>2. ~IsWhole'
      BY <2>1 DEF IsWhole
    <2> QED BY <1>1, <1>2, <2>2 DEF NamesGoWithModel, Matches
  <1> QED BY <1>4, <1>5, <1>6, <1>7

\* The model comes first: the file is not whole with it, and nobody had read its head.
LEMMA DumpModelPreserves == ASSUME ModelAssumption, ModelInv, DumpModel PROVE ModelInv'
  <1> USE DEF ModelInv
  <1>1. /\ job \in {"opened", "script opened"} /\ job' \in {"dumped", "script dumped"}
        /\ file' = [file EXCEPT !.model = trainer.model, !.parts = IF @ = 0 THEN 1 ELSE @]
        /\ UNCHANGED <<trainer, fitted, policy, loading, saved, blame>>
    BY DEF DumpModel
  <1>2. file.kind = "dict" /\ file.parts = 0 /\ file \in Files
        /\ trainer.model \in Models
    BY <1>1 DEF SavingInv, Saving, ModelTypeOK, Holders
  <1>3. file' \in Files /\ file'.kind = "dict" /\ file'.parts = 1 /\ file'.model = trainer.model
    <2>1. file' = [file EXCEPT !.model = trainer.model, !.parts = 1]
      BY <1>1, <1>2 DEF Files
    <2> QED BY <1>2, <2>1 DEF Files
  <1>4. ModelTypeOK'
    BY <1>1, <1>3 DEF ModelTypeOK, Jobs
  <1>5. SavingInv'
    BY <1>1, <1>2, <1>3 DEF SavingInv, Saving
  <1>6. FileInv'
    BY <1>3 DEF FileInv, IsBare, IsWhole
  <1>7. LoadingInv'
    <2>1. loading' = loading /\ ~(loading.on /\ ~loading.reopened)
      <3>1. file.parts \notin {1, 2}
        BY <1>2
      <3> QED BY <1>1, <3>1 DEF LoadingInv
    <2> QED BY <1>3, <2>1 DEF LoadingInv
  <1>8. ServesWhatWasSaved'
    BY <1>1 DEF ServesWhatWasSaved
  <1>9. NamesGoWithModel'
    <2>1. ~IsWhole'
      BY <1>3 DEF IsWhole
    <2> QED BY <1>1, <2>1 DEF NamesGoWithModel, Matches
  <1> QED BY <1>4, <1>5, <1>6, <1>7, <1>8, <1>9

\* With the names the file is whole and holds what the trainer does.
LEMMA DumpNamesPreserves == ASSUME ModelAssumption, ModelInv, DumpNames PROVE ModelInv'
  <1> USE DEF ModelInv
  <1>1. /\ job \in {"dumped", "script dumped"} /\ job' \in {"interactive", "done"}
        /\ file' = [file EXCEPT !.names = trainer.names, !.parts = 2]
        /\ saved' = saved \union {trainer} /\ blame' = [blame EXCEPT !.file = blame.trainer]
        /\ UNCHANGED <<trainer, fitted, policy, loading>>
    BY DEF DumpNames
  <1>2. /\ file.kind = "dict" /\ file \in Files
        /\ file.parts = 1 /\ file.model = trainer.model
        /\ trainer \in Holders /\ trainer.names \in Names
    BY <1>1 DEF SavingInv, Saving, ModelTypeOK, Holders
  <1>3. /\ file' \in Files /\ file'.kind = "dict" /\ file'.parts = 2
        /\ file'.model = trainer.model /\ file'.names = trainer.names
    <2>1. file' = [file EXCEPT !.names = trainer.names, !.parts = 2]
      BY <1>1
    <2>2. file' \in Files
      BY <1>2, <2>1 DEF Files
    <2>3. file'.parts = 2 /\ file'.names = trainer.names
      BY <1>2, <2>1 DEF Files
    <2>4. file'.kind = file.kind /\ file'.model = file.model
      BY <1>2, <2>1 DEF Files
    <2> QED BY <1>2, <2>2, <2>3, <2>4
  <1>4. /\ blame' \in [trainer : Causes, file : Causes, policy : Causes]
        /\ blame'.trainer = blame.trainer /\ blame'.file = blame.trainer
        /\ blame'.policy = blame.policy
    BY <1>1 DEF ModelTypeOK
  <1>10. ModelTypeOK'
    BY <1>1, <1>3, <1>4 DEF ModelTypeOK, Jobs
  <1>5. SavingInv'
    BY <1>1 DEF SavingInv, Saving
  <1>6. FileInv'
    <2>1. [model |-> trainer.model, names |-> trainer.names] = trainer
      BY <1>2 DEF Holders
    <2>2. [model |-> file'.model, names |-> file'.names] = trainer
      BY <1>3, <2>1
    <2>3. trainer \in saved' /\ ~IsBare'
      BY <1>1, <1>3 DEF IsBare
    <2> QED BY <2>2, <2>3 DEF FileInv
  <1>7. LoadingInv'
    BY <1>1, <1>2, <1>3 DEF LoadingInv
  <1>8. ServesWhatWasSaved'
    BY <1>1, <1>4 DEF ServesWhatWasSaved
  <1>9. NamesGoWithModel'
    BY <1>1, <1>3, <1>4 DEF NamesGoWithModel, Matches
  <1> QED BY <1>5, <1>6, <1>7, <1>8, <1>9, <1>10

\* A trainer takes over what may be wrong with the file it loads.
LEMMA LoadTrainerPreserves == ASSUME ModelInv, LoadTrainer PROVE ModelInv'
  <1>1. /\ job = "interactive" /\ UNCHANGED <<job, fitted, file, policy, loading, saved>>
        /\ ModelTypeOK /\ NamesGoWithModel
    BY DEF LoadTrainer, ModelInv
  <1>2. job' \in Jobs \ Saving /\ fitted' \in Nat
    BY <1>1 DEF Jobs, Saving, ModelTypeOK
  <1>3. file.model \in Models /\ file.names \in Names /\ trainer.names \in Names
    BY <1>1 DEF ModelTypeOK, Files, Holders
  <1>4. CASE trainer' = LoadedBare(trainer) /\ blame' = [blame EXCEPT !.trainer = {"bare"}]
    <2>1. trainer' \in Holders
      BY <1>3, <1>4 DEF LoadedBare, Holders
    <2>2. {"bare"} \in Causes /\ {"bare"} # {}
      BY DEF Causes
    <2> QED BY <1>1, <1>2, <1>4, <2>1, <2>2, TrainerAlone
  <1>5. CASE /\ IsWhole /\ trainer' = [model |-> file.model, names |-> file.names]
             /\ blame' = [blame EXCEPT !.trainer = blame.file]
    <2>1. trainer' \in Holders
      BY <1>3, <1>5 DEF Holders
    <2>2. blame.file \in Causes /\ (blame.file = {} => Matches(trainer)')
      BY <1>1, <1>5 DEF ModelTypeOK, NamesGoWithModel, Matches
    <2> QED BY <1>1, <1>2, <1>5, <2>1, <2>2, TrainerAlone
  <1> QED BY <1>4, <1>5 DEF LoadTrainer

\* The steps of a load that change the policy: what it gets was saved to the end, is
\* bare, was reopened under it, or is no model.
LEMMA PolicyAlone ==
  ASSUME ModelInv, UNCHANGED <<job, trainer, fitted, file, saved>>,
         loading' = Idle, policy' \in Holders,
         NEW C \in Causes, blame' = [blame EXCEPT !.policy = C],
         ServesWhatWasSaved', C = {} => Matches(policy)', ModelAssumption
  PROVE  ModelInv'
  <1> USE DEF ModelInv
  <1>1. blame' \in [trainer : Causes, file : Causes, policy : Causes]
        /\ blame'.trainer = blame.trainer /\ blame'.file = blame.file /\ blame'.policy = C
    BY DEF ModelTypeOK
  <1>2. ModelTypeOK'
    BY <1>1, FirstValues DEF ModelTypeOK
  <1>3. SavingInv'
    BY <1>1 DEF SavingInv
  <1>4. FileInv' /\ LoadingInv'
    BY FirstValues DEF FileInv, LoadingInv, IsBare, IsWhole
  <1>5. NamesGoWithModel'
    BY <1>1 DEF NamesGoWithModel, Matches, IsWhole
  <1> QED BY <1>2, <1>3, <1>4, <1>5

\* A load that reads the file from its head to its end.
LEMMA LoadPolicyPreserves == ASSUME ModelAssumption, ModelInv, LoadPolicy PROVE ModelInv'
  <1>1. /\ UNCHANGED <<job, trainer, fitted, file, saved>> /\ ModelTypeOK
        /\ FileInv /\ LoadingInv /\ NamesGoWithModel
    BY DEF LoadPolicy, ModelInv
  <1>2. /\ file.model \in Models /\ file.names \in Names /\ policy.names \in Names
        /\ loading.model \in Models /\ blame.file \in Causes
    BY <1>1 DEF ModelTypeOK, Files, Holders
  <1>3. CASE ReadBare
    <2>1. /\ policy' = [model |-> file.model, names |-> policy.names] /\ file = BareModel
          /\ blame' = [blame EXCEPT !.policy = {"bare"}] /\ loading' = loading /\ ~loading.on
      BY <1>1, <1>3 DEF ReadBare, LoadedBare, FileInv
    <2>2. blame' \in [trainer : Causes, file : Causes, policy : Causes]
          /\ blame'.trainer = blame.trainer /\ blame'.file = blame.file
          /\ blame'.policy = {"bare"}
      BY <1>1, <2>1 DEF ModelTypeOK, Causes
    <2>3. ModelTypeOK'
      BY <1>1, <1>2, <2>1, <2>2 DEF ModelTypeOK, Holders
    <2>4. SavingInv' /\ FileInv' /\ LoadingInv'
      BY <1>1, <2>1, <2>2 DEF ModelInv, SavingInv, FileInv, LoadingInv, IsBare, IsWhole
    <2>5. ServesWhatWasSaved' /\ NamesGoWithModel'
      BY <1>1, <2>1, <2>2 DEF ServesWhatWasSaved, NamesGoWithModel, Matches, IsWhole
    <2> QED BY <2>3, <2>4, <2>5 DEF ModelInv
  <1>4. CASE ReadModel
    <2>1. /\ file.kind = "dict" /\ file.parts \in {1, 2} /\ UNCHANGED <<policy, blame>>
          /\ loading' = [on |-> TRUE, model |-> file.model, reopened |-> FALSE]
      BY <1>1, <1>4 DEF ReadModel, ModelTypeOK, Files
    <2>2. ModelTypeOK' /\ LoadingInv'
      BY <1>1, <1>2, <2>1 DEF ModelTypeOK, LoadingInv
    <2>3. SavingInv' /\ FileInv' /\ ServesWhatWasSaved' /\ NamesGoWithModel'
      BY <1>1, <2>1 DEF ModelInv, SavingInv, FileInv, IsBare, IsWhole, ServesWhatWasSaved,
         NamesGoWithModel, Matches
    <2> QED BY <2>2, <2>3 DEF ModelInv
  <1>5. CASE ReadNames
    <2> DEFINE C == blame.file \union IF loading.reopened THEN {"reopened"} ELSE {}
    <2>1. /\ loading.on /\ file.parts = 2 /\ file.kind = "dict" /\ loading' = Idle
          /\ policy' = [model |-> loading.model, names |-> file.names]
          /\ blame' = [blame EXCEPT !.policy = C]
      BY <1>1, <1>5 DEF ReadNames, LoadingInv
    <2>2. policy' \in Holders /\ C \in Causes /\ blame'.policy = C
      BY <1>1, <1>2, <2>1 DEF Holders, Causes, ModelTypeOK
    <2>3. CASE loading.reopened
      <3>1. "reopened" \in C
        BY <2>3
      <3>2. ServesWhatWasSaved' /\ C # {}
        BY <2>2, <3>1 DEF ServesWhatWasSaved
      <3> HIDE DEF C
      <3> QED BY <1>1, <2>1, <2>2, <3>2, PolicyAlone
    <2>4. CASE ~loading.reopened
      <3>1. C = blame.file /\ loading.model = file.model /\ IsWhole
        BY <1>1, <2>1, <2>4 DEF LoadingInv, IsWhole
      <3>2. ServesWhatWasSaved'
        BY <1>1, <2>1, <3>1 DEF FileInv, ServesWhatWasSaved
      <3>3. C = {} => Matches(policy)'
        BY <1>1, <2>1, <3>1 DEF NamesGoWithModel, Matches
      <3> HIDE DEF C
      <3> QED BY <1>1, <2>1, <2>2, <3>2, <3>3, PolicyAlone
    <2> QED BY <2>3, <2>4
  <1>6. CASE ReadRaises
    <2>1. /\ policy' = [policy EXCEPT !.model = NoModel] /\ loading' = Idle
          /\ blame' = [blame EXCEPT !.policy = {}]
      BY <1>6 DEF ReadRaises
    <2>2. policy' \in Holders /\ policy'.model = NoModel /\ {} \in Causes
      BY <1>1, <2>1, FirstValues DEF ModelTypeOK, Holders, Causes
    <2>3. ServesWhatWasSaved' /\ Matches(policy)'
      BY <2>2 DEF ServesWhatWasSaved, Matches
    <2> QED BY <1>1, <2>1, <2>2, <2>3, PolicyAlone
  <1> QED BY <1>3, <1>4, <1>5, <1>6 DEF LoadPolicy

\* The policy serves what a save wrote to its end, with the names it was saved with,
\* and names go with their model unless a fit raised, a bare model was loaded or a file
\* was reopened under its reader: for any lists of columns and any number of models,
\* wherever saves raise or their process ends, whenever the policy reads.
THEOREM ModelsAreTrue == ModelSpec => []ModelsTrue
  <1> USE ModelAssumption
  <1>1. ModelInit => ModelInv
    BY ModelInitInv
  <1>2. ModelInv /\ [ModelNext]_modelVars => ModelInv'
    <2> SUFFICES ASSUME ModelInv, [ModelNext]_modelVars PROVE ModelInv'
      OBVIOUS
    <2>1. CASE UNCHANGED modelVars
      <3>1. UNCHANGED <<job, trainer, fitted, file, policy, loading, saved, blame>>
        BY <2>1 DEF modelVars
      <3>2. ModelTypeOK' /\ SavingInv' /\ FileInv' /\ LoadingInv'
        BY <3>1 DEF ModelInv, ModelTypeOK, SavingInv, FileInv, LoadingInv, IsBare, IsWhole
      <3>3. ServesWhatWasSaved' /\ NamesGoWithModel'
        BY <3>1 DEF ModelInv, ServesWhatWasSaved, NamesGoWithModel, Matches, IsWhole
      <3> QED BY <3>2, <3>3 DEF ModelInv
    <2> QED
      BY <2>1, ProcessPreserves, OpenPreserves, DumpModelPreserves, DumpNamesPreserves,
         LoadTrainerPreserves, LoadPolicyPreserves DEF ModelNext
  <1>3. ModelInv => ModelsTrue
    BY DEF ModelInv, ModelsTrue
  <1> QED
    BY <1>1, <1>2, <1>3, PTL DEF ModelSpec

-----------------------------------------------------------------------------
\* A set of numbers has a least one.
LEMMA LeastNumber ==
  ASSUME NEW S \in SUBSET Nat, S # {}
  PROVE  \E first \in S : \A other \in S : first <= other
  <1>1. PICK first \in S : \A other \in S : ~(<<other, first>> \in OpToRel(<, Nat))
    BY NatLessThanWellFounded, WFMin
  <1>2. \A other \in S : first <= other
    <2> TAKE other \in S
    <2>1. ~(other < first)
      BY <1>1 DEF OpToRel
    <2> QED BY <2>1
  <1> QED BY <1>2

\* Where neighbours are in order all are: else there would be a first place that has
\* less than one before it.
LEMMA SortedIsSorted ==
  ASSUME NEW n \in Nat, NEW xs \in [1..n -> Nat], \A k \in 1..n - 1 : xs[k] <= xs[k + 1],
         NEW j \in 1..n, NEW k \in 1..n, j < k
  PROVE  xs[j] <= xs[k]
  <1> DEFINE Less == {i \in 1..n : j < i /\ ~(xs[j] <= xs[i])}
  <1> SUFFICES ASSUME Less # {} PROVE FALSE
    OBVIOUS
  <1>1. PICK first \in Less : \A other \in Less : first <= other
    <2>1. Less \in SUBSET Nat
      OBVIOUS
    <2> QED BY <2>1, LeastNumber
  <1>2. first - 1 \in 1..n - 1 /\ first \in 1..n /\ first - 1 \notin Less /\ j <= first - 1
    BY <1>1
  <1>3. xs[j] <= xs[first - 1]
    BY <1>2
  <1>4. xs[first - 1] <= xs[first]
    <2>1. (first - 1) + 1 = first
      BY <1>2
    <2> QED BY <1>2, <2>1
  <1>5. xs[j] <= xs[first]
    BY <1>2, <1>3, <1>4
  <1> QED BY <1>1, <1>5

-----------------------------------------------------------------------------
\* LongBench: what its calls left behind, before they are gathered.
Count(k) == IF k \in DOMAIN Samples THEN Samples[k] ELSE 0

InPlace(texts) == \A i \in DOMAIN texts : texts[i] \in {NoText, <<i, TRUE>>, <<i, FALSE>>}

\* No latency twice, and a sample with a text has one.
TimedOnce(texts, times) ==
  /\ Len(times) = Cardinality(ToSet(times))
  /\ \A i \in DOMAIN texts : texts[i] # NoText => i \in ToSet(times)

CallsInv ==
  /\ task \in Nat \ {0} /\ task <= Len(Samples) + 1
  /\ call \in [1..Count(task) -> {"queued", "sent", "over"}]
  /\ DOMAIN predictions = DOMAIN call
  /\ latencies \in Seq(Nat) /\ failed \in Nat
  /\ ConcurrencyBound

\* A call that is over is a latency or a failure.
CountedInv ==
  /\ InPlace(predictions) /\ TimedOnce(predictions, latencies)
  /\ ToSet(latencies) \subseteq In("over")
  /\ Cardinality(In("over")) = Len(latencies) + failed

ResultOf(r, k) ==
  /\ InPlace(r.predictions) /\ TimedOnce(r.predictions, r.latencies)
  /\ Len(r.latencies) + r.failed = Samples[k]

ResultsInv ==
  /\ \E Results : task_results \in Seq(Results)
  /\ Len(task_results) + 1 = task
  /\ \A k \in DOMAIN task_results : ResultOf(task_results[k], k)

BenchInv == CallsInv /\ CountedInv /\ ResultsInv

-----------------------------------------------------------------------------
\* How many samples a task has, and where their calls start.
LEMMA CountsAreNat ==
  ASSUME BenchAssumption
  PROVE  /\ \A k : Count(k) \in Nat /\ DOMAIN Queued(k) = 1..Count(k)
         /\ \A k : \A i \in 1..Count(k) : Queued(k)[i] = "queued"
  BY DEF BenchAssumption, Count, Queued

\* Nothing was left behind, and that is consistent.
LEMMA NothingCounts ==
  /\ Cardinality({}) = 0 /\ IsFiniteSet({}) /\ ToSet(<<>>) = {} /\ Len(<<>>) = 0
  /\ InPlace(<<>>) /\ TimedOnce(<<>>, <<>>)
  <1>1. Cardinality({}) = 0 /\ IsFiniteSet({})
    BY FS_EmptySet
  <1>2. ToSet(<<>>) = {} /\ Len(<<>>) = 0
    BY DEF ToSet
  <1>3. InPlace(<<>>) /\ TimedOnce(<<>>, <<>>)
    <2>1. \A i \in DOMAIN <<>> : FALSE
      OBVIOUS
    <2> QED BY <1>1, <1>2, <2>1 DEF InPlace, TimedOnce
  <1> QED BY <1>1, <1>2, <1>3

\* The samples of a task are a finite set, and so are those whose calls are at one
\* place.
LEMMA CallsAreFinite ==
  ASSUME BenchAssumption, CallsInv
  PROVE  /\ DOMAIN call = 1..Count(task) /\ Count(task) \in Nat
         /\ IsFiniteSet(DOMAIN call) /\ Cardinality(DOMAIN call) = Count(task)
         /\ \A where : /\ IsFiniteSet(In(where)) /\ In(where) \subseteq DOMAIN call
                       /\ Cardinality(In(where)) \in Nat
  <1>1. DOMAIN call = 1..Count(task) /\ Count(task) \in Nat
    BY CountsAreNat DEF CallsInv
  <1>2. IsFiniteSet(DOMAIN call) /\ Cardinality(DOMAIN call) = Count(task)
    BY <1>1, FS_Interval
  <1>3. ASSUME NEW where
        PROVE  IsFiniteSet(In(where)) /\ In(where) \subseteq DOMAIN call /\ Cardinality(In(where)) \in Nat
    <2>1. In(where) \subseteq DOMAIN call
      BY DEF In
    <2> QED BY <1>2, <2>1, FS_Subset, FS_CardinalityType
  <1> QED BY <1>1, <1>2, <1>3

\* A call that moves leaves one place for another.
LEMMA CallMoves ==
  ASSUME BenchAssumption, CallsInv, NEW i \in DOMAIN call,
         NEW to \in {"sent", "over"}, call[i] # to,
         call' = [call EXCEPT ![i] = to]
  PROVE  /\ call' \in [DOMAIN call -> {"queued", "sent", "over"}] /\ DOMAIN call' = DOMAIN call
         /\ In(to)' = In(to) \union {i}
         /\ Cardinality(In(to)') = Cardinality(In(to)) + 1
         /\ \A where : where # to => In(where)' \subseteq In(where)
  <1>1. /\ call' \in [DOMAIN call -> {"queued", "sent", "over"}] /\ DOMAIN call' = DOMAIN call
        /\ \A j \in DOMAIN call : call'[j] = IF j = i THEN to ELSE call[j]
    BY DEF CallsInv
  <1>2. In(to)' = In(to) \union {i} /\ i \notin In(to)
    BY <1>1 DEF In
  <1>3. \A where : where # to => In(where)' \subseteq In(where)
    BY <1>1 DEF In
  <1>4. Cardinality(In(to)') = Cardinality(In(to)) + 1
    BY <1>2, CallsAreFinite, FS_AddElement
  <1> QED BY <1>1, <1>2, <1>3, <1>4

\* A latency that is added is added to their set.
LEMMA OneMoreLatency ==
  ASSUME NEW times \in Seq(Nat), NEW i \in Nat,
         Len(times) = Cardinality(ToSet(times)), IsFiniteSet(ToSet(times)), i \notin ToSet(times)
  PROVE  /\ Append(times, i) \in Seq(Nat) /\ Len(Append(times, i)) = Len(times) + 1
         /\ ToSet(Append(times, i)) = ToSet(times) \union {i}
         /\ Len(Append(times, i)) = Cardinality(ToSet(Append(times, i)))
  <1> DEFINE more == Append(times, i)
  <1>1. /\ more \in Seq(Nat) /\ Len(more) = Len(times) + 1 /\ Len(times) \in Nat
        /\ DOMAIN more = 1..(Len(times) + 1) /\ DOMAIN times = 1..Len(times)
        /\ \A j \in 1..Len(times) : more[j] = times[j]
        /\ more[Len(times) + 1] = i
    OBVIOUS
  <1> HIDE DEF more
  <1>2. ToSet(more) = ToSet(times) \union {i}
    <2>1. \A j \in DOMAIN more : more[j] \in ToSet(times) \union {i}
      <3> TAKE j \in DOMAIN more
      <3>1. CASE j = Len(times) + 1
        BY <1>1, <3>1
      <3>2. CASE j # Len(times) + 1
        <4>1. j \in 1..Len(times)
          BY <1>1, <3>2
        <4> QED BY <1>1, <4>1 DEF ToSet
      <3> QED BY <3>1, <3>2
    <2>2. \A j \in DOMAIN times : j \in DOMAIN more /\ more[j] = times[j]
      BY <1>1
    <2>3. Len(times) + 1 \in DOMAIN more
      BY <1>1
    <2> QED BY <1>1, <2>1, <2>2, <2>3 DEF ToSet
  <1>3. Cardinality(ToSet(more)) = Cardinality(ToSet(times)) + 1
    BY <1>2, FS_AddElement
  <1> QED BY <1>1, <1>2, <1>3 DEF more

-----------------------------------------------------------------------------
\* The first task starts with all its calls queued.
LEMMA BenchInitInv == ASSUME BenchAssumption, BenchInit PROVE BenchInv
  <1>1. /\ task = 1 /\ call = Queued(1) /\ predictions = [i \in DOMAIN call |-> NoText]
        /\ latencies = <<>> /\ failed = 0 /\ task_results = <<>>
    BY DEF BenchInit
  <1>2. In("sent") = {} /\ In("over") = {}
    BY <1>1, CountsAreNat DEF In
  <1>3. CallsInv
    <2>1. Cardinality(In("sent")) <= Concurrency
      <3>1. Cardinality(In("sent")) = 0
        BY <1>2, NothingCounts
      <3>2. 0 <= Concurrency
        BY DEF BenchAssumption
      <3> QED BY <3>1, <3>2
    <2>2. call \in [1..Count(task) -> {"queued", "sent", "over"}]
      BY <1>1, CountsAreNat DEF Queued, Count
    <2>3. task \in Nat \ {0} /\ task <= Len(Samples) + 1
      BY <1>1 DEF BenchAssumption
    <2> QED BY <1>1, <2>1, <2>2, <2>3 DEF CallsInv, ConcurrencyBound
  <1>4. CountedInv
    <2>1. ToSet(latencies) = {} /\ Len(latencies) = 0 /\ Cardinality(In("over")) = 0
      BY <1>1, <1>2, NothingCounts
    <2>2. \A i \in DOMAIN predictions : predictions[i] = NoText
      BY <1>1
    <2>3. InPlace(predictions)
      BY <2>2 DEF InPlace
    <2>4. TimedOnce(predictions, latencies)
      BY <2>1, <2>2, NothingCounts DEF TimedOnce
    <2> QED BY <1>1, <2>1, <2>3, <2>4 DEF CountedInv
  <1>5. ResultsInv
    BY <1>1 DEF ResultsInv
  <1> QED BY <1>3, <1>4, <1>5 DEF BenchInv

\* The first of some samples is one of them.
LEMMA FirstOfSamples == ASSUME NEW S \in SUBSET Nat, S # {} PROVE Min(S) \in S
  BY LeastNumber DEF Min

\* A call is let in, when there is room for it.
LEMMA SendPreserves ==
  ASSUME BenchAssumption, BenchInv, NEW i \in DOMAIN call, Send(i)
  PROVE  BenchInv'
  <1> USE DEF BenchInv
  <1>1. /\ call' = [call EXCEPT ![i] = "sent"]
        /\ UNCHANGED <<task, task_results, predictions, latencies, failed>>
        /\ Cardinality(In("sent")) < Concurrency
        /\ i = Min(In("queued")) /\ In("queued") # {}
    BY DEF Send, calling, Permit
  <1>2. call[i] = "queued"
    <2>1. In("queued") \in SUBSET Nat
      BY CallsAreFinite
    <2> QED BY <1>1, <2>1, FirstOfSamples DEF In
  <1>3. /\ call' \in [DOMAIN call -> {"queued", "sent", "over"}] /\ DOMAIN call' = DOMAIN call
        /\ Cardinality(In("sent")') = Cardinality(In("sent")) + 1
    BY <1>1, <1>2, CallMoves
  <1>4. In("over")' = In("over")
    BY <1>1, <1>2 DEF In, CallsInv
  <1>5. CallsInv'
    <2>1. Cardinality(In("sent")') <= Concurrency
      BY <1>1, <1>3, CallsAreFinite DEF BenchAssumption
    <2>2. Count(task)' = Count(task)
      BY <1>1 DEF Count
    <2> QED BY <1>1, <1>3, <2>1, <2>2, CallsAreFinite DEF CallsInv, ConcurrencyBound
  <1>6. CountedInv'
    BY <1>1, <1>4 DEF CountedInv, InPlace, TimedOnce
  <1>7. ResultsInv'
    BY <1>1 DEF ResultsInv, ResultOf, InPlace, TimedOnce
  <1> QED BY <1>5, <1>6, <1>7

\* A call ends, in an answer or a failure, and makes room.
LEMMA EndPreserves ==
  ASSUME BenchAssumption, BenchInv, NEW i \in DOMAIN call,
         AnswerEmpty(i) \/ Fail(i) \/ \E right \in BOOLEAN : Answer(i, right)
  PROVE  BenchInv'
  <1> USE DEF BenchInv
  <1>1. /\ call' = [call EXCEPT ![i] = "over"] /\ call[i] = "sent"
        /\ UNCHANGED <<task, task_results>>
    BY DEF AnswerEmpty, Fail, Answer, calling, In
  <1>2. /\ call' \in [DOMAIN call -> {"queued", "sent", "over"}] /\ DOMAIN call' = DOMAIN call
        /\ In("over")' = In("over") \union {i}
        /\ Cardinality(In("over")') = Cardinality(In("over")) + 1
        /\ In("sent")' \subseteq In("sent")
    BY <1>1, CallMoves
  <1>3. /\ i \notin In("over") /\ i \notin ToSet(latencies) /\ i \in Nat
        /\ IsFiniteSet(ToSet(latencies))
    BY <1>1, CallsAreFinite, FS_Subset DEF CountedInv, In
  <1> DEFINE Moved == /\ CountedInv' /\ latencies' \in Seq(Nat) /\ failed' \in Nat
                      /\ DOMAIN predictions' = DOMAIN predictions
  <1>4. ASSUME Fail(i) PROVE Moved
    <2>1. UNCHANGED <<predictions, latencies>> /\ failed' = failed + 1
      BY <1>4 DEF Fail
    <2>2. CountedInv'
      <3>1. InPlace(predictions)' /\ TimedOnce(predictions, latencies)'
        BY <2>1 DEF CountedInv, InPlace, TimedOnce
      <3>2. ToSet(latencies)' \subseteq In("over")'
        BY <1>2, <2>1 DEF CountedInv
      <3>3. Cardinality(In("over")') = Len(latencies') + failed'
        BY <1>2, <2>1 DEF CountedInv, CallsInv
      <3> QED BY <3>1, <3>2, <3>3 DEF CountedInv
    <2>3. latencies' \in Seq(Nat) /\ failed' \in Nat /\ DOMAIN predictions' = DOMAIN predictions
      BY <2>1 DEF CallsInv
    <2> QED BY <2>2, <2>3
  <1>5. ASSUME AnswerEmpty(i) \/ \E right \in BOOLEAN : Answer(i, right) PROVE Moved
    <2>1. /\ latencies' = Append(latencies, i) /\ failed' = failed
          /\ \/ predictions' = predictions
             \/ \E right \in BOOLEAN : predictions' = [predictions EXCEPT ![i] = <<i, right>>]
      BY <1>5 DEF AnswerEmpty, Answer
    <2>2. /\ latencies' \in Seq(Nat) /\ Len(latencies') = Len(latencies) + 1
          /\ ToSet(latencies') = ToSet(latencies) \union {i}
          /\ Len(latencies') = Cardinality(ToSet(latencies'))
      BY <1>3, <2>1, OneMoreLatency DEF CallsInv, CountedInv, TimedOnce
    <2>3. /\ DOMAIN predictions' = DOMAIN predictions
          /\ \A j \in DOMAIN predictions : j # i => predictions'[j] = predictions[j]
          /\ predictions'[i] \in {predictions[i], <<i, TRUE>>, <<i, FALSE>>}
      BY <2>1 DEF CallsInv
    <2>4. InPlace(predictions')
      BY <2>3 DEF CountedInv, InPlace, CallsInv
    <2>5. \A j \in DOMAIN predictions' : predictions'[j] # NoText => j \in ToSet(latencies')
      BY <2>2, <2>3 DEF CountedInv, TimedOnce
    <2>6. CountedInv'
      <3>1. ToSet(latencies') \subseteq In("over")'
        BY <1>2, <2>2 DEF CountedInv
      <3>2. Cardinality(In("over")') = Len(latencies') + failed'
        BY <1>2, <2>1, <2>2 DEF CountedInv, CallsInv
      <3>3. InPlace(predictions)' /\ TimedOnce(predictions, latencies)'
        BY <2>2, <2>4, <2>5 DEF InPlace, TimedOnce, NoText
      <3> QED BY <3>1, <3>2, <3>3 DEF CountedInv
    <2> QED BY <2>1, <2>2, <2>3, <2>6 DEF CallsInv
  <1>6. Moved
    BY <1>4, <1>5
  <1>7. CallsInv'
    <2>1. Cardinality(In("sent")') <= Cardinality(In("sent")) /\ Cardinality(In("sent")') \in Nat
      BY <1>2, CallsAreFinite, FS_Subset, FS_CardinalityType
    <2>2. Count(task)' = Count(task)
      BY <1>1 DEF Count
    <2>3. ConcurrencyBound'
      BY <2>1, CallsAreFinite DEF CallsInv, ConcurrencyBound, BenchAssumption
    <2> QED BY <1>1, <1>2, <1>6, <2>2, <2>3, CallsAreFinite DEF CallsInv
  <1>8. ResultsInv'
    BY <1>1 DEF ResultsInv, ResultOf, InPlace, TimedOnce
  <1> QED BY <1>6, <1>7, <1>8

\* With every call over, what they left behind makes the result of the task.
LEMMA FinishPreserves ==
  ASSUME BenchAssumption, BenchInv, FinishTask
  PROVE  BenchInv'
  <1> USE DEF BenchInv
  <1> DEFINE result == IF Samples[task] = 0 THEN EmptyResult ELSE Finished
  <1>1. /\ task \in DOMAIN Samples /\ \A i \in DOMAIN call : call[i] = "over"
        /\ task_results' = Append(task_results, result)
        /\ task' = task + 1 /\ call' = Queued(task')
        /\ predictions' = [i \in DOMAIN call' |-> NoText] /\ latencies' = <<>> /\ failed' = 0
    BY DEF FinishTask, Running
  <1>2. Count(task) = Samples[task] /\ Samples[task] \in Nat /\ task \in 1..Len(Samples)
    BY <1>1 DEF Count, BenchAssumption
  <1>3. ResultOf(result, task)
    <2>1. CASE Samples[task] = 0
      <3>1. result.predictions = <<>> /\ result.latencies = <<>> /\ result.failed = 0
        BY <2>1 DEF EmptyResult
      <3> QED BY <2>1, <3>1, NothingCounts DEF ResultOf
    <2>2. CASE Samples[task] # 0
      <3>1. /\ result.predictions = predictions /\ result.latencies = latencies
            /\ result.failed = failed
        BY <2>2 DEF Finished
      <3>2. In("over") = DOMAIN call
        BY <1>1 DEF In
      <3>3. Len(latencies) + failed = Samples[task]
        BY <1>2, <3>2, CallsAreFinite DEF CountedInv
      <3> QED BY <3>1, <3>3 DEF ResultOf, CountedInv
    <2> QED BY <2>1, <2>2
  <1> HIDE DEF result
  <1>4. ResultsInv'
    <2>1. PICK Results : task_results \in Seq(Results)
      BY DEF ResultsInv
    <2> DEFINE More == Results \union {result}
    <2>2. task_results \in Seq(More) /\ result \in More
      BY <2>1
    <2> HIDE DEF More
    <2>3. /\ task_results' \in Seq(More) /\ Len(task_results') = Len(task_results) + 1
          /\ DOMAIN task_results = 1..Len(task_results) /\ Len(task_results) \in Nat
          /\ DOMAIN task_results' = 1..(Len(task_results) + 1)
          /\ \A k \in 1..Len(task_results) : task_results'[k] = task_results[k]
          /\ task_results'[Len(task_results) + 1] = result
      BY <1>1, <2>2
    <2>4. \A k \in DOMAIN task_results' : ResultOf(task_results'[k], k)
      BY <1>3, <2>3 DEF ResultsInv
    <2>5. Len(task_results') + 1 = task'
      BY <1>1, <2>3 DEF ResultsInv
    <2> QED BY <2>3, <2>4, <2>5 DEF ResultsInv, ResultOf, InPlace, TimedOnce, NoText
  <1>5. /\ DOMAIN call' = 1..Count(task)' /\ call' \in [1..Count(task)' -> {"queued", "sent", "over"}]
        /\ \A i \in DOMAIN call' : call'[i] = "queued"
    <2>1. Count(task)' = Count(task')
      BY DEF Count
    <2> QED BY <1>1, <2>1, CountsAreNat DEF Queued, Count
  <1>6. In("sent")' = {} /\ In("over")' = {}
    BY <1>5 DEF In
  <1>7. CallsInv'
    <2>1. task' \in Nat \ {0} /\ task' <= Len(Samples) + 1
      BY <1>1, <1>2 DEF BenchAssumption
    <2>2. ConcurrencyBound'
      <3>1. Cardinality(In("sent")') = 0
        BY <1>6, NothingCounts
      <3>2. 0 <= Concurrency
        BY DEF BenchAssumption
      <3> QED BY <3>1, <3>2 DEF ConcurrencyBound
    <2> QED BY <1>1, <1>5, <2>1, <2>2 DEF CallsInv
  <1>8. CountedInv'
    <2>1. ToSet(latencies)' = {} /\ Len(latencies)' = 0 /\ Cardinality(In("over")') = 0
      BY <1>1, <1>6, NothingCounts DEF ToSet
    <2>2. \A i \in DOMAIN predictions' : predictions'[i] = NoText
      BY <1>1 DEF NoText
    <2>3. InPlace(predictions)'
      BY <2>2 DEF InPlace, NoText
    <2>4. TimedOnce(predictions, latencies)'
      BY <2>1, <2>2, NothingCounts DEF TimedOnce, NoText
    <2> QED BY <1>1, <2>1, <2>3, <2>4 DEF CountedInv
  <1> QED BY <1>4, <1>7, <1>8

\* Every step of the runner keeps what its calls left behind.
LEMMA BenchStep ==
  ASSUME BenchAssumption, BenchInv, [BenchNext]_benchVars
  PROVE  BenchInv'
  <1>1. CASE UNCHANGED benchVars
    BY <1>1 DEF benchVars, BenchInv, CallsInv, ConcurrencyBound, CountedInv, ResultsInv, ResultOf,
                InPlace, TimedOnce, In, Count
  <1> QED
    BY <1>1, SendPreserves, EndPreserves, FinishPreserves DEF BenchNext

\* In every result the texts are in the places of their samples and each call is
\* counted once, as a latency or as a failure, in whatever order they end; and no more
\* than `concurrency' of them are at the server: for any tasks, samples and permits.
THEOREM BenchmarksAreTrue == BenchSpec => []BenchmarksTrue
  <1> USE BenchAssumption
  <1>1. BenchInit => BenchInv
    BY BenchInitInv
  <1>2. BenchInv /\ [BenchNext]_benchVars => BenchInv'
    BY BenchStep
  <1>3. BenchInv => BenchmarksTrue
    BY DEF BenchInv, CallsInv, ResultsInv, ResultOf, InPlace, TimedOnce, BenchmarksTrue, ResultsTrue,
           PredictionsInPlace, EveryCallCounted
  <1> QED
    BY <1>1, <1>2, <1>3, PTL DEF BenchSpec

-----------------------------------------------------------------------------
\* ParetoAnalyzer: the results are a list of points, of which those that are kept
\* have numbers.
PointsInv == results \in Seq(Points)

Above(axes, k) == {j \in Kept(results) : Dominates(axes, results[j], results[k])}

\* The results that are kept are finitely many, and their metrics are numbers.
LEMMA KeptAreNumbers ==
  ASSUME AnalyzerAssumption, PointsInv
  PROVE  /\ IsFiniteSet(Kept(results)) /\ Kept(results) \subseteq DOMAIN results
         /\ \A k \in Kept(results) : results[k].x \in Nat /\ results[k].y \in Nat
  <1>1. DOMAIN results = 1..Len(results) /\ Len(results) \in Nat
        /\ \A k \in DOMAIN results : results[k] \in Points
    BY DEF PointsInv
  <1>2. Kept(results) \subseteq DOMAIN results
    BY DEF Kept
  <1>3. IsFiniteSet(Kept(results))
    <2>1. IsFiniteSet(DOMAIN results)
      BY <1>1, FS_Interval
    <2> QED BY <1>2, <2>1, FS_Subset
  <1>4. \A k \in Kept(results) : results[k].x \in Nat /\ results[k].y \in Nat
    BY <1>1 DEF Kept, Points, AnalyzerAssumption
  <1> QED BY <1>2, <1>3, <1>4

\* Dominance is a strict order.
LEMMA DominanceIsOrder ==
  ASSUME AnalyzerAssumption, PointsInv, NEW axes \in Axes
  PROVE  /\ \A k \in Kept(results) : ~Dominates(axes, results[k], results[k])
         /\ \A i, j, k \in Kept(results) :
              Dominates(axes, results[i], results[j]) /\ Dominates(axes, results[j], results[k])
              => Dominates(axes, results[i], results[k])
  <1>1. axes.x \in BOOLEAN /\ axes.y \in BOOLEAN
    BY DEF Axes
  <1>2. \A k \in Kept(results) : ~Dominates(axes, results[k], results[k])
    BY KeptAreNumbers DEF Dominates, AtLeast
  <1>3. ASSUME NEW i \in Kept(results), NEW j \in Kept(results), NEW k \in Kept(results),
               Dominates(axes, results[i], results[j]), Dominates(axes, results[j], results[k])
        PROVE  Dominates(axes, results[i], results[k])
    BY <1>3, KeptAreNumbers DEF Dominates, AtLeast
  <1> QED BY <1>2, <1>3

\* What is above a result that dominates another is above that other, and fewer.
LEMMA FewerAbove ==
  ASSUME AnalyzerAssumption, PointsInv, NEW axes \in Axes,
         NEW k \in Kept(results), NEW j \in Above(axes, k)
  PROVE  /\ Above(axes, j) \subseteq Above(axes, k)
         /\ Cardinality(Above(axes, j)) \in Nat /\ Cardinality(Above(axes, k)) \in Nat
         /\ Cardinality(Above(axes, j)) < Cardinality(Above(axes, k))
  <1>1. j \in Kept(results) /\ Dominates(axes, results[j], results[k])
    BY DEF Above
  <1>2. Above(axes, j) \subseteq Above(axes, k)
    BY <1>1, DominanceIsOrder DEF Above
  <1>3. j \notin Above(axes, j)
    BY <1>1, DominanceIsOrder DEF Above
  <1>4. IsFiniteSet(Above(axes, k)) /\ IsFiniteSet(Above(axes, j))
    BY KeptAreNumbers, FS_Subset DEF Above
  <1>5. Above(axes, j) # Above(axes, k)
    BY <1>3
  <1>6. Cardinality(Above(axes, j)) \in Nat /\ Cardinality(Above(axes, k)) \in Nat
    BY <1>4, FS_CardinalityType
  <1>7. Cardinality(Above(axes, j)) < Cardinality(Above(axes, k))
    <2>1. Cardinality(Above(axes, j)) <= Cardinality(Above(axes, k))
      BY <1>2, <1>4, FS_Subset
    <2>2. Cardinality(Above(axes, j)) # Cardinality(Above(axes, k))
      BY <1>2, <1>4, <1>5, FS_Subset
    <2> QED BY <1>6, <2>1, <2>2
  <1> QED BY <1>2, <1>6, <1>7

\* A result that is dominated is dominated from the frontier: by one of those above
\* it with the fewest above themselves.
LEMMA FrontierDominates ==
  ASSUME AnalyzerAssumption, PointsInv, NEW axes \in Axes, NEW k \in Kept(results)
  PROVE  \/ k \in Frontier(axes, results)
         \/ \E j \in Frontier(axes, results) : j \in Above(axes, k)
  <1> SUFFICES ASSUME k \notin Frontier(axes, results)
               PROVE  \E j \in Frontier(axes, results) : j \in Above(axes, k)
    OBVIOUS
  <1> DEFINE Numbers == {Cardinality(Above(axes, j)) : j \in Above(axes, k)}
  <1>1. Above(axes, k) # {} /\ Above(axes, k) \subseteq Kept(results)
    BY DEF Frontier, Above
  <1>2. Numbers \in SUBSET Nat /\ Numbers # {}
    BY <1>1, FewerAbove
  <1>3. PICK least \in Numbers : \A other \in Numbers : least <= other
    BY <1>2, LeastNumber
  <1>4. PICK j \in Above(axes, k) : least = Cardinality(Above(axes, j))
    OBVIOUS
  <1>5. \A i \in Above(axes, k) :
          Cardinality(Above(axes, j)) <= Cardinality(Above(axes, i))
    BY <1>3, <1>4
  <1>6. ASSUME NEW i \in Above(axes, j) PROVE FALSE
    <2>1. i \in Above(axes, k) /\ j \in Kept(results)
      BY <1>1, FewerAbove
    <2>2. /\ Cardinality(Above(axes, i)) < Cardinality(Above(axes, j))
          /\ Cardinality(Above(axes, i)) \in Nat /\ Cardinality(Above(axes, j)) \in Nat
      BY <2>1, FewerAbove
    <2> QED BY <1>5, <2>1, <2>2
  <1>7. j \in Frontier(axes, results)
    BY <1>1, <1>6 DEF Frontier, Above
  <1> QED BY <1>7

\* A result on the frontier has none above it.
LEMMA NoneAboveFrontier ==
  ASSUME AnalyzerAssumption, PointsInv, NEW axes \in Axes, NEW k \in Frontier(axes, results)
  PROVE  k \in Kept(results) /\ \A j \in Kept(results) : ~Dominates(axes, results[j], results[k])
  BY DominanceIsOrder DEF Frontier

\* So frontiers are exact, and there is one whenever a result has both metrics.
LEMMA FrontierIsExact ==
  ASSUME AnalyzerAssumption, PointsInv PROVE FrontierDecides /\ FrontierExists
  <1>1. ASSUME NEW axes \in Axes, NEW k \in Kept(results)
        PROVE  k \notin Frontier(axes, results) <=> IsDominated(axes, results[k], FrontPoints(axes))
    <2>1. ASSUME k \notin Frontier(axes, results)
          PROVE  IsDominated(axes, results[k], FrontPoints(axes))
      BY <2>1, FrontierDominates DEF IsDominated, FrontPoints, Above
    <2>2. ASSUME IsDominated(axes, results[k], FrontPoints(axes)), k \in Frontier(axes, results)
          PROVE  FALSE
      <3>1. PICK j \in Frontier(axes, results) : Dominates(axes, results[j], results[k])
        BY <2>2 DEF IsDominated, FrontPoints
      <3> QED BY <2>2, <3>1, NoneAboveFrontier
    <2> QED BY <2>1, <2>2
  <1>2. ASSUME Kept(results) # {}, NEW axes \in Axes PROVE Frontier(axes, results) # {}
    BY <1>2, FrontierDominates
  <1> QED BY <1>1, <1>2 DEF FrontierDecides, FrontierExists

\* Of two points on the frontier the one with more memory has no less quality.
LEMMA FrontierTrades == ASSUME AnalyzerAssumption, PointsInv PROVE FrontierTradesOff
  <1> DEFINE front == Frontier(QualityVsMemory, results)
  <1> SUFFICES ASSUME NEW order \in SortedByX(results, front), NEW j \in DOMAIN order,
                      NEW k \in DOMAIN order, j < k
               PROVE  /\ results[order[j]].y <= results[order[k]].y
                      /\ results[order[j]].x = results[order[k]].x
                         => results[order[j]].y = results[order[k]].y
    BY DEF FrontierTradesOff
  <1>1. QualityVsMemory \in Axes /\ QualityVsMemory.x = FALSE /\ QualityVsMemory.y = TRUE
    BY DEF QualityVsMemory, Axes
  <1>2. front \subseteq Kept(results)
    BY DEF Frontier
  <1>3. Cardinality(front) \in Nat
    BY <1>2, KeptAreNumbers, FS_Subset, FS_CardinalityType
  <1> DEFINE n == Cardinality(front)
  <1>4. /\ order \in [1..n -> front] /\ DOMAIN order = 1..n
        /\ \A i \in 1..n - 1 : results[order[i]].x <= results[order[i + 1]].x
    BY DEF SortedByX
  <1>5. results[order[j]].x <= results[order[k]].x
    <2> DEFINE xs == [i \in 1..n |-> results[order[i]].x]
    <2>1. xs \in [1..n -> Nat]
      BY <1>2, <1>4, KeptAreNumbers
    <2>2. \A i \in 1..n - 1 : xs[i] <= xs[i + 1]
      BY <1>3, <1>4
    <2>3. j \in 1..n /\ k \in 1..n /\ j < k /\ n \in Nat
      BY <1>3, <1>4
    <2>4. xs[j] <= xs[k]
      <3> HIDE DEF n, xs
      <3> QED BY <2>1, <2>2, <2>3, SortedIsSorted
    <2> QED BY <2>3, <2>4
  <1>6. order[j] \in front /\ order[k] \in front
    BY <1>4
  <1>7. /\ ~Dominates(QualityVsMemory, results[order[j]], results[order[k]])
        /\ ~Dominates(QualityVsMemory, results[order[k]], results[order[j]])
    BY <1>1, <1>2, <1>6, NoneAboveFrontier
  <1>8. /\ results[order[j]].x \in Nat /\ results[order[k]].x \in Nat
        /\ results[order[j]].y \in Nat /\ results[order[k]].y \in Nat
    BY <1>2, <1>6, KeptAreNumbers
  <1> QED BY <1>1, <1>5, <1>7, <1>8 DEF Dominates, AtLeast

\* A result is off the frontier exactly when a point on it dominates it, there is a
\* frontier when a result has both metrics, and sorted by memory it never loses
\* quality: for any results, however many.
THEOREM FrontiersAreTrue == AnalyzerSpec => []FrontierTrue
  <1> USE AnalyzerAssumption
  <1>1. AnalyzerInit => PointsInv
    BY DEF AnalyzerInit, PointsInv
  <1>2. PointsInv /\ [AnalyzerNext]_results => PointsInv'
    BY DEF PointsInv, AnalyzerNext, AddResult
  <1>3. PointsInv => FrontierTrue
    BY FrontierIsExact, FrontierTrades DEF FrontierTrue
  <1> QED
    BY <1>1, <1>2, <1>3, PTL DEF AnalyzerSpec

-----------------------------------------------------------------------------
\* TraceLabels: a trace is a list of records.
TraceInv == trace \in Seq([block : BlockIds, step : Steps])

\* The steps of its records are numbers.
LEMMA TraceIsList ==
  ASSUME LabelAssumption, TraceInv
  PROVE  /\ DOMAIN trace = 1..Len(trace) /\ Len(trace) \in Nat
         /\ \A j \in DOMAIN trace : trace[j].step \in Nat
  <1>1. /\ DOMAIN trace = 1..Len(trace) /\ Len(trace) \in Nat
        /\ \A j \in DOMAIN trace : trace[j] \in [block : BlockIds, step : Steps]
    <2> DEFINE Records == [block : BlockIds, step : Steps]
    <2>1. trace \in Seq(Records)
      BY DEF TraceInv
    <2> HIDE DEF Records
    <2> QED BY <2>1, LenProperties, ElementOfSeq DEF Records
  <1>2. \A j \in DOMAIN trace : trace[j].step \in Steps
    BY <1>1
  <1> QED BY <1>1, <1>2 DEF LabelAssumption

\* The least and the largest of two numbers.
LEMMA OfTwo ==
  ASSUME NEW a \in Nat, NEW b \in Nat
  PROVE  /\ Max({a, b}) = IF a >= b THEN a ELSE b
         /\ Min({a, b}) = IF a <= b THEN a ELSE b
  <1>1. Max({a, b}) = IF a >= b THEN a ELSE b
    <2>1. \E x \in {a, b} : \A y \in {a, b} : x >= y
      OBVIOUS
    <2>2. Max({a, b}) \in {a, b} /\ Max({a, b}) >= a /\ Max({a, b}) >= b
      BY <2>1 DEF Max
    <2> QED BY <2>2
  <1>2. Min({a, b}) = IF a <= b THEN a ELSE b
    <2>1. \E x \in {a, b} : \A y \in {a, b} : x <= y
      OBVIOUS
    <2>2. Min({a, b}) \in {a, b} /\ Min({a, b}) <= a /\ Min({a, b}) <= b
      BY <2>1 DEF Min
    <2> QED BY <2>2
  <1> QED BY <1>1, <1>2

\* A label is above 0 when its block is accessed again within the window.
LEMMA LabelledWhenAccessed ==
  ASSUME LabelAssumption, TraceInv, NEW place \in DOMAIN trace
  PROVE  Label(trace[place])[1] > 0 <=>
           \E j \in DOMAIN trace : /\ trace[j].block = trace[place].block
                                   /\ trace[j].step - trace[place].step \in 1..Window
  <1> DEFINE r == trace[place]
             again == {j \in DOMAIN trace :
                         trace[j].block = r.block /\ InWindow(r.step, trace[j].step, Window)}
             n == Cardinality(again)
             whole == Max({Window, 10})
  <1>1. IsFiniteSet(again) /\ n \in Nat /\ (n > 0 <=> again # {})
    <2>1. IsFiniteSet(DOMAIN trace)
      <3>1. IsFiniteSet(1..Len(trace))
        BY TraceIsList, FS_Interval
      <3> QED BY <3>1, TraceIsList
    <2>2. IsFiniteSet(again)
      BY <2>1, FS_Subset
    <2>3. n \in Nat /\ (n = 0 <=> again = {})
      <3> HIDE DEF again
      <3> QED BY <2>2, FS_CardinalityType, FS_EmptySet
    <2> QED BY <2>2, <2>3
  <1>2. whole \in Nat /\ whole >= 10
    BY OfTwo DEF LabelAssumption
  <1>3. Label(r)[1] = Min({10 * n, whole})
    BY DEF Label, LabelWithin, LaterAccesses
  <1>4. Label(r)[1] > 0 <=> n > 0
    <2> HIDE DEF n, whole, r
    <2>1. 10 * n \in Nat /\ (10 * n > 0 <=> n > 0)
      BY <1>1
    <2>2. Min({10 * n, whole}) = IF 10 * n <= whole THEN 10 * n ELSE whole
      BY <1>2, <2>1, OfTwo
    <2> QED BY <1>1, <1>2, <1>3, <2>1, <2>2
  <1>5. \A j \in DOMAIN trace : InWindow(r.step, trace[j].step, Window)
                                <=> trace[j].step - r.step \in 1..Window
    BY TraceIsList DEF InWindow, LabelAssumption
  <1> QED BY <1>1, <1>4, <1>5

\* The order of the rows puts each of them at one place, later ones behind.
LEMMA RowsAreSorted ==
  ASSUME LabelAssumption, TraceInv, NEW rows \in SortedRows
  PROVE  /\ DOMAIN rows = DOMAIN trace /\ Len(rows) = Len(trace)
         /\ \A k \in DOMAIN rows : rows[k] \in DOMAIN trace
         /\ \A j \in DOMAIN trace : \E k \in DOMAIN rows : rows[k] = j
         /\ \A j, k \in DOMAIN rows : trace[rows[j]].step < trace[rows[k]].step => j < k
  <1> DEFINE n == Len(trace)
  <1>1. DOMAIN trace = 1..n /\ n \in Nat
    BY TraceIsList
  <1>2. /\ rows \in [1..n -> 1..n] /\ IsInjective(rows)
        /\ \A k \in 1..n - 1 : trace[rows[k]].step <= trace[rows[k + 1]].step
    BY <1>1 DEF SortedRows
  <1> HIDE DEF n
  <1>3. rows \in Seq(1..n) /\ Len(rows) = n /\ DOMAIN rows = 1..n
    BY <1>1, <1>2
  <1>4. rows \in Surjection(1..n, 1..n)
    <2>1. rows \in Injection(1..n, 1..n)
      BY <1>2 DEF Injection
    <2>2. IsFiniteSet(1..n)
      BY <1>1, FS_Interval
    <2> QED BY <2>1, <2>2, FS_Injection
  <1>5. \A j \in 1..n : \E k \in 1..n : rows[k] = j
    BY <1>4 DEF Surjection
  <1>6. ASSUME NEW j \in 1..n, NEW k \in 1..n, k < j
        PROVE  trace[rows[k]].step <= trace[rows[j]].step
    <2> DEFINE steps == [i \in 1..n |-> trace[rows[i]].step]
    <2>1. steps \in [1..n -> Nat]
      BY <1>1, <1>2, TraceIsList
    <2>2. \A i \in 1..n - 1 : steps[i] <= steps[i + 1]
      <3> TAKE i \in 1..n - 1
      <3>1. i \in 1..n /\ i + 1 \in 1..n
        BY <1>1
      <3> QED BY <1>2, <3>1
    <2>3. steps[k] <= steps[j]
      <3> HIDE DEF steps
      <3> QED BY <1>1, <1>6, <2>1, <2>2, SortedIsSorted
    <2> QED BY <2>3
  <1>7. ASSUME NEW j \in 1..n, NEW k \in 1..n, trace[rows[j]].step < trace[rows[k]].step
        PROVE  j < k
    <2>1. trace[rows[j]].step \in Nat /\ trace[rows[k]].step \in Nat
      BY <1>1, <1>2, TraceIsList
    <2>2. j # k /\ ~(k < j)
      BY <1>6, <1>7, <2>1
    <2> QED BY <1>1, <2>2
  <1>8. Len(rows) = Len(trace)
    BY <1>3 DEF n
  <1> QED BY <1>1, <1>2, <1>3, <1>5, <1>7, <1>8

\* So what is labelled above 0 is accessed again further down the sorted rows.
LEMMA LabelsAhead == ASSUME LabelAssumption, TraceInv PROVE LabelsLookAhead
  <1> SUFFICES ASSUME NEW rows \in SortedRows, NEW k \in DOMAIN rows
               PROVE  Label(trace[rows[k]])[1] > 0 <=>
                        \E j \in k + 1..Len(rows) :
                          /\ trace[rows[j]].block = trace[rows[k]].block
                          /\ trace[rows[j]].step - trace[rows[k]].step \in 1..Window
    BY DEF LabelsLookAhead, Labelled
  <1>1. /\ rows[k] \in DOMAIN trace /\ DOMAIN rows = 1..Len(rows) /\ Len(rows) \in Nat
        /\ DOMAIN rows = DOMAIN trace
    BY RowsAreSorted, TraceIsList
  <1>2. ASSUME NEW place \in DOMAIN trace, trace[place].step - trace[rows[k]].step \in 1..Window
        PROVE  \E j \in k + 1..Len(rows) : rows[j] = place
    <2>1. PICK j \in DOMAIN rows : rows[j] = place
      BY RowsAreSorted
    <2>2. trace[rows[k]].step < trace[rows[j]].step
      BY <1>1, <1>2, <2>1, TraceIsList DEF LabelAssumption
    <2>3. k < j
      BY <2>2, RowsAreSorted
    <2> QED BY <1>1, <2>1, <2>3
  <1>3. \A j \in k + 1..Len(rows) : rows[j] \in DOMAIN trace
    BY <1>1, RowsAreSorted
  <1> DEFINE r == trace[rows[k]]
             Again(j) == trace[j].block = r.block /\ trace[j].step - r.step \in 1..Window
  <1>4. Label(r)[1] > 0 <=> \E place \in DOMAIN trace : Again(place)
    BY <1>1, LabelledWhenAccessed
  <1>5. (\E place \in DOMAIN trace : Again(place)) <=> \E j \in k + 1..Len(rows) : Again(rows[j])
    BY <1>2, <1>3
  <1> QED BY <1>4, <1>5

\* Two shares that leave something leave a row of any number of rows.
LEMMA SharesLeaveOne ==
  ASSUME LabelAssumption, NEW n \in Nat
  PROVE  LET testSize == (n * TestPercent) \div 100
             val == (n * ValPercent) \div 100
         IN /\ testSize \in Nat /\ val \in Nat /\ testSize + val <= n
            /\ n # 0 => testSize + val < n
  <1> DEFINE a == n * TestPercent
             b == n * ValPercent
  <1>1. TestPercent \in Nat /\ ValPercent \in Nat /\ TestPercent + ValPercent <= 99
    BY DEF LabelAssumption
  <1>2. a \in Nat /\ b \in Nat /\ a + b = n * (TestPercent + ValPercent)
    BY <1>1
  <1>3. n * (TestPercent + ValPercent) <= n * 99
    BY <1>1
  <1> HIDE DEF a, b
  <1>4. a + b <= n * 99
    BY <1>2, <1>3
  <1>5. /\ a \div 100 \in Nat /\ b \div 100 \in Nat
        /\ 100 * (a \div 100) <= a /\ 100 * (b \div 100) <= b
    BY <1>2
  <1>6. 100 * (a \div 100 + b \div 100) <= n * 99
    BY <1>2, <1>4, <1>5
  <1>7. a \div 100 + b \div 100 <= n /\ (n # 0 => a \div 100 + b \div 100 < n)
    BY <1>5, <1>6
  <1> QED BY <1>5, <1>7 DEF a, b

\* Three parts of a list, one behind the other, are the list.
LEMMA PartsJoin ==
  ASSUME NEW S, NEW idx \in Seq(S), NEW a \in Nat, NEW b \in Nat, a + b <= Len(idx)
  PROVE  Part(idx, 1, a) \o Part(idx, a + 1, b) \o Part(idx, a + b + 1, Len(idx) - a - b) = idx
  <1> DEFINE n == Len(idx)
  <1>1. n \in Nat
    OBVIOUS
  <1>2. /\ Part(idx, 1, a) = SubSeq(idx, 1, a)
        /\ Part(idx, a + 1, b) = SubSeq(idx, a + 1, a + b)
        /\ Part(idx, a + b + 1, n - a - b) = SubSeq(idx, a + b + 1, n)
    <2>1. 1 + a - 1 = a /\ a + 1 + b - 1 = a + b /\ a + b + 1 + (n - a - b) - 1 = n
      BY <1>1
    <2> QED BY <2>1 DEF Part
  <1>3. SubSeq(idx, 1, a) \o SubSeq(idx, a + 1, a + b) = SubSeq(idx, 1, a + b)
    BY <1>1, ConcatAdjacentSubSeq
  <1>4. SubSeq(idx, 1, a + b) \o SubSeq(idx, a + b + 1, n) = SubSeq(idx, 1, n)
    <2>1. 1 \in 1..n + 1 /\ a + b \in 1 - 1..n /\ n \in a + b..n
      BY <1>1
    <2> HIDE DEF n
    <2> QED BY <2>1, ConcatAdjacentSubSeq DEF n
  <1>5. SubSeq(idx, 1, n) = idx
    BY SubSeqFull
  <1> QED BY <1>2, <1>3, <1>4, <1>5

\* So the split shares no row and loses none.
LEMMA SplitHolds == ASSUME LabelAssumption, TraceInv PROVE SplitIsPartition
  <1> DEFINE n == Len(trace)
             idx == [k \in DOMAIN trace |-> n + 1 - k]
             testSize == (n * TestPercent) \div 100
             val == (n * ValPercent) \div 100
             split == Split(idx)
             all == split.test \o split.val \o split.train
  <1>1. DOMAIN trace = 1..n /\ n \in Nat
    BY TraceIsList
  <1>2. idx \in Seq(1..n) /\ Len(idx) = n /\ DOMAIN idx = 1..n
    BY <1>1
  <1>3. testSize \in Nat /\ val \in Nat /\ testSize + val <= n /\ (n # 0 => testSize + val < n)
    BY <1>1, SharesLeaveOne
  <1>4. /\ split.test = Part(idx, 1, testSize) /\ split.val = Part(idx, testSize + 1, val)
        /\ split.train = Part(idx, testSize + val + 1, n - testSize - val)
    BY <1>2 DEF Split
  <1> HIDE DEF testSize, val, split, n
  <1>5. all = idx
    <2>1. /\ split.test = Part(idx, 1, testSize) /\ split.val = Part(idx, testSize + 1, val)
          /\ split.train = Part(idx, testSize + val + 1, Len(idx) - testSize - val)
          /\ testSize + val <= Len(idx) /\ idx \in Seq(1..n)
      BY <1>2, <1>3, <1>4
    <2> HIDE DEF idx
    <2> QED BY <1>3, <2>1, PartsJoin
  <1>6. ToSet(idx) = DOMAIN trace
    <2>1. \A j \in 1..n : n + 1 - j \in 1..n /\ idx[n + 1 - j] = j
      BY <1>1
    <2>2. \A j \in 1..n : idx[j] \in 1..n
      BY <1>1
    <2> QED BY <1>1, <1>2, <2>1, <2>2 DEF ToSet
  <1>7. ASSUME n # 0 PROVE split.train # <<>>
    <2>1. testSize + val + 1 \in 1..n
      BY <1>1, <1>3, <1>7
    <2>2. split.train = SubSeq(idx, testSize + val + 1, n)
      <3>1. testSize + val + 1 + (n - testSize - val) - 1 = n
        BY <1>1, <1>3
      <3> QED BY <1>4, <3>1 DEF Part
    <2>3. Len(split.train) = n - (testSize + val + 1) + 1
      BY <1>1, <1>2, <2>1, <2>2
    <2>4. Len(split.train) # 0
      BY <1>1, <1>3, <1>7, <2>3
    <2> QED BY <2>4
  <1>8. trace # <<>> => n # 0
    BY DEF n, TraceInv
  <1> QED BY <1>2, <1>5, <1>6, <1>7, <1>8 DEF SplitIsPartition, split, n

\* A record is labelled above 0 exactly when its block is accessed again within the
\* window, in whatever order the trace was written, and the split is a partition with
\* rows to train on: for any trace, window and shares below the whole.
THEOREM TrainingSetIsTrue == TraceSpec => []TrainingSetTrue
  <1> USE LabelAssumption
  <1>1. TraceInit => TraceInv
    BY DEF TraceInit, TraceInv
  <1>2. TraceInv /\ [TraceNext]_trace => TraceInv'
    <2> SUFFICES ASSUME TraceInv, [TraceNext]_trace PROVE TraceInv'
      OBVIOUS
    <2>1. CASE UNCHANGED trace
      BY <2>1 DEF TraceInv
    <2>2. ASSUME NEW b \in BlockIds, NEW step \in Steps, AddRecord(b, step)
          PROVE  TraceInv'
      <3>1. [block |-> b, step |-> step] \in [block : BlockIds, step : Steps]
        OBVIOUS
      <3> QED BY <2>2, <3>1 DEF TraceInv, AddRecord
    <2> QED BY <2>1, <2>2 DEF TraceNext
  <1>3. TraceInv => TrainingSetTrue
    BY LabelsAhead, SplitHolds DEF TrainingSetTrue
  <1> QED
    BY <1>1, <1>2, <1>3, PTL DEF TraceSpec
-----------------------------------------------------------------------------
\* Sums and places.

\* A sum is at least the number of its terms times the least, and at most times the
\* greatest.
LEMMA SumIsBetween ==
  ASSUME NEW D, IsFiniteSet(D), NEW f \in [D -> Nat], NEW lo \in Nat, NEW hi \in Nat,
         \A x \in D : lo <= f[x] /\ f[x] <= hi
  PROVE  /\ SumOf(f) \in Nat /\ Cardinality(D) \in Nat
         /\ Cardinality(D) * lo <= SumOf(f) /\ SumOf(f) <= Cardinality(D) * hi
  <1> DEFINE Terms == UNION {{x} \X (1..f[x]) : x \in D}
  <1>1. SumOf(f) = Cardinality(Terms)
    BY DEF SumOf
  <1>2. D \X (1..lo) \subseteq Terms /\ Terms \subseteq D \X (1..hi)
    OBVIOUS
  <1>3. IsFiniteSet(D \X (1..lo)) /\ Cardinality(D \X (1..lo)) = Cardinality(D) * lo
    <2>1. IsFiniteSet(1..lo) /\ Cardinality(1..lo) = lo
      BY FS_Interval
    <2> QED BY <2>1, FS_Product
  <1>4. IsFiniteSet(D \X (1..hi)) /\ Cardinality(D \X (1..hi)) = Cardinality(D) * hi
    <2>1. IsFiniteSet(1..hi) /\ Cardinality(1..hi) = hi
      BY FS_Interval
    <2> QED BY <2>1, FS_Product
  <1> HIDE DEF Terms
  <1>5. IsFiniteSet(Terms) /\ Cardinality(Terms) <= Cardinality(D \X (1..hi))
    BY <1>2, <1>4, FS_Subset
  <1>6. Cardinality(D \X (1..lo)) <= Cardinality(Terms)
    BY <1>2, <1>5, FS_Subset
  <1>7. Cardinality(Terms) \in Nat /\ Cardinality(D) \in Nat
    BY <1>5, FS_CardinalityType
  <1> QED BY <1>1, <1>3, <1>4, <1>5, <1>6, <1>7

\* The numbers of S before n are finitely many.
LEMMA PlaceIsNat ==
  ASSUME NEW S \in SUBSET Nat, NEW n \in Nat
  PROVE  /\ IsFiniteSet({m \in S : m < n}) /\ Place(n, S) \in Nat
         /\ Place(n, S) = Cardinality({m \in S : m < n})
  <1> DEFINE before == {m \in S : m < n}
  <1>1. before \in SUBSET Nat
    OBVIOUS
  <1>2. \A m \in before : m <= n
    <2>1. \A m \in S : m \in Nat
      OBVIOUS
    <2> QED BY <2>1
  <1> HIDE DEF before
  <1>3. IsFiniteSet(before)
    BY <1>1, <1>2, FS_BoundedSetOfNaturals
  <1> QED BY <1>3, FS_CardinalityType DEF before, Place

\* Of two numbers of S the smaller has the lower place.
LEMMA PlacesGrow ==
  ASSUME NEW S \in SUBSET Nat, NEW m \in S, NEW n \in S, m < n
  PROVE  Place(m, S) < Place(n, S)
  <1> DEFINE Before(k) == {j \in S : j < k}
  <1>1. /\ IsFiniteSet(Before(m)) /\ Place(m, S) = Cardinality(Before(m)) /\ Place(m, S) \in Nat
        /\ IsFiniteSet(Before(n)) /\ Place(n, S) = Cardinality(Before(n)) /\ Place(n, S) \in Nat
    BY PlaceIsNat
  <1>2. Before(m) \subseteq Before(n) /\ m \in Before(n) /\ m \notin Before(m)
    <2>1. m \in Nat /\ n \in Nat /\ \A j \in S : j \in Nat
      OBVIOUS
    <2>2. ~(m < m) /\ \A j \in S : j < m => j < n
      BY <2>1
    <2> QED BY <2>2
  <1> HIDE DEF Before
  <1>3. Cardinality(Before(m)) <= Cardinality(Before(n)) /\ Cardinality(Before(m)) # Cardinality(Before(n))
    <2>1. /\ Cardinality(Before(m)) <= Cardinality(Before(n))
          /\ Cardinality(Before(n)) = Cardinality(Before(m)) => Before(n) = Before(m)
      BY <1>1, <1>2, FS_Subset
    <2> QED BY <1>2, <2>1
  <1> QED BY <1>1, <1>3

\* A place belongs to one number of S.
LEMMA PlaceTells ==
  ASSUME NEW S \in SUBSET Nat, NEW m \in S, NEW n \in S, Place(m, S) = Place(n, S)
  PROVE  m = n
  <1>1. Place(m, S) \in Nat /\ Place(n, S) \in Nat
    BY PlaceIsNat
  <1> QED BY <1>1, PlacesGrow

\* Of some places of a list of numbers one has the greatest number.
LEMMA GreatestNumber ==
  ASSUME NEW n \in Nat, NEW xs \in [1..n -> Nat], NEW D \in SUBSET (1..n), D # {}
  PROVE  \E top \in D : \A k \in D : xs[k] <= xs[top]
  <1> DEFINE UpTo(m) == {k \in D : k <= m}
             TopOf(m) == \E top \in UpTo(m) : \A k \in UpTo(m) : xs[k] <= xs[top]
             Without == {m \in Nat : UpTo(m) # {} /\ ~TopOf(m)}
  <1>1. \A k \in D : k \in 1..n /\ k \in Nat /\ xs[k] \in Nat
    OBVIOUS
  <1>2. D = UpTo(n)
    <2>1. \A k \in D : k <= n
      BY <1>1
    <2> QED BY <2>1
  <1>3. SUFFICES ASSUME Without # {} PROVE FALSE
    <2>1. UpTo(n) # {}
      BY <1>2
    <2>2. TopOf(n)
      BY <1>3, <2>1
    <2> HIDE DEF UpTo
    <2> QED BY <1>2, <2>2
  <1>4. PICK m \in Without : \A other \in Without : m <= other
    <2>1. Without \in SUBSET Nat
      OBVIOUS
    <2> HIDE DEF Without
    <2> QED BY <1>3, <2>1, LeastNumber
  <1>5. m \in Nat /\ UpTo(m) # {} /\ ~TopOf(m)
    OBVIOUS
  <1>6. ASSUME NEW k \in UpTo(m - 1) PROVE TopOf(m - 1)
    <2>1. m - 1 \in Nat
      BY <1>1, <1>5
    <2>2. m - 1 \notin Without
      <3> HIDE DEF Without
      <3> QED BY <1>4, <1>5, <2>1
    <2>3. UpTo(m - 1) # {}
      BY <1>6
    <2> HIDE DEF UpTo, TopOf
    <2> QED BY <2>1, <2>2, <2>3
  <1>7. UpTo(m) = UpTo(m - 1) \union (IF m \in D THEN {m} ELSE {})
    <2>1. m <= m /\ \A k \in D : k <= m <=> k <= m - 1 \/ k = m
      BY <1>1, <1>5
    <2> QED BY <2>1
  <1> HIDE DEF Without
  <1>8. CASE UpTo(m - 1) = {}
    <2>1. m \in D /\ UpTo(m) = {m}
      <3> HIDE DEF UpTo
      <3> QED BY <1>5, <1>7, <1>8
    <2>2. xs[m] <= xs[m]
      BY <1>1, <2>1
    <2> HIDE DEF UpTo
    <2> QED BY <1>5, <2>1, <2>2
  <1>9. CASE UpTo(m - 1) # {}
    <2>1. TopOf(m - 1)
      <3> HIDE DEF UpTo, TopOf
      <3> QED BY <1>6, <1>9
    <2>2. PICK top \in UpTo(m - 1) : \A k \in UpTo(m - 1) : xs[k] <= xs[top]
      <3> HIDE DEF UpTo
      <3> QED BY <2>1
    <2>3. top \in D /\ UpTo(m - 1) \subseteq D
      OBVIOUS
    <2> HIDE DEF UpTo
    <2>4. CASE m \notin D \/ xs[m] <= xs[top]
      BY <1>5, <1>7, <2>2, <2>4
    <2>5. CASE m \in D /\ xs[top] <= xs[m]
      <3>1. \A k \in UpTo(m - 1) : xs[k] <= xs[m]
        BY <1>1, <2>2, <2>3, <2>5
      <3>2. xs[m] <= xs[m]
        BY <1>1, <2>5
      <3> QED BY <1>5, <1>7, <2>5, <3>1, <3>2
    <2>6. m \in D => xs[m] <= xs[top] \/ xs[top] <= xs[m]
      BY <1>1, <2>3
    <2> QED BY <2>4, <2>5, <2>6
  <1> QED BY <1>8, <1>9

-----------------------------------------------------------------------------
\* LongBench: the aggregate.

\* A quotient of a number between two multiples of the divisor.
LEMMA QuotientIsBetween ==
  ASSUME NEW a \in Nat, NEW b \in Nat \ {0}, NEW lo \in Nat, NEW hi \in Nat,
         b * lo <= a, a <= b * hi
  PROVE  a \div b \in lo..hi
  <1> DEFINE q == a \div b
  <1>1. q \in Int /\ b * q <= a /\ a < b * q + b
    OBVIOUS
  <1> HIDE DEF q
  <1>2. b * lo < b * (q + 1) /\ b * q < b * (hi + 1)
    BY <1>1
  <1>3. lo < q + 1 /\ q < hi + 1
    BY <1>1, <1>2
  <1> QED BY <1>1, <1>3 DEF q

\* A task without samples has no score, the others have one that is a number.
ScoresInv ==
  /\ \A k \in DOMAIN task_results : task_results[k].score \in IF Samples[k] = 0 THEN {-1} ELSE Nat
  /\ ~Running /\ task_results # <<>> => aggregate = Aggregate(task_results)

\* A finished task is given its score, and with the last the aggregate is computed.
LEMMA FinishScores ==
  ASSUME BenchAssumption, BenchInv, ScoresInv, FinishTask
  PROVE  ScoresInv'
  <1> DEFINE result == IF Samples[task] = 0 THEN EmptyResult ELSE Finished
  <1>1. /\ task \in DOMAIN Samples /\ task_results' = Append(task_results, result)
        /\ task' = task + 1
        /\ aggregate' = IF task = Len(Samples) THEN Aggregate(task_results') ELSE aggregate
    BY DEF FinishTask, Running
  <1>2. DOMAIN Samples = 1..Len(Samples) /\ Len(Samples) \in Nat /\ Samples[task] \in Nat
        /\ Whole \in Nat /\ task \in Nat
    BY <1>1 DEF BenchAssumption
  <1>3. result.score \in IF Samples[task] = 0 THEN {-1} ELSE Nat
    <2>1. CASE Samples[task] = 0
      BY <2>1 DEF EmptyResult
    <2>2. CASE Samples[task] # 0
      <3>1. Whole \div Samples[task] \in 0..Whole
        BY <1>2, <2>2, QuotientIsBetween
      <3> DEFINE right == {i \in DOMAIN call : predictions[i][2]}
      <3>2. right \subseteq DOMAIN call
        OBVIOUS
      <3>3. Cardinality(right) \in Nat
        BY <3>2, CallsAreFinite, FS_Subset, FS_CardinalityType DEF BenchInv
      <3> HIDE DEF right
      <3>4. Cardinality(right) * (Whole \div Samples[task]) \in Nat
        BY <1>2, <3>1, <3>3
      <3>5. result.score = Cardinality(right) * (Whole \div Samples[task])
        BY <2>2 DEF Finished, Quality, right
      <3> QED BY <2>2, <3>4, <3>5
    <2> QED BY <2>1, <2>2
  <1> HIDE DEF result
  <1>4. /\ DOMAIN task_results' = 1..task /\ DOMAIN task_results = 1..(task - 1)
        /\ \A k \in 1..(task - 1) : task_results'[k] = task_results[k]
        /\ task_results'[task] = result
    BY <1>1, <1>2 DEF BenchInv, ResultsInv
  <1>5. \A k \in DOMAIN task_results' :
          task_results'[k].score \in IF Samples[k] = 0 THEN {-1} ELSE Nat
    <2> TAKE k \in DOMAIN task_results'
    <2>1. k = task \/ k \in 1..(task - 1)
      BY <1>2, <1>4
    <2> QED BY <1>3, <1>4, <2>1 DEF ScoresInv
  <1>6. ~Running' => task = Len(Samples)
    BY <1>1, <1>2 DEF Running
  <1>7. ~Running' => aggregate' = Aggregate(task_results)'
    BY <1>1, <1>6 DEF Aggregate
  <1> QED BY <1>5, <1>7 DEF ScoresInv

\* The aggregate is the mean of the scores of the tasks that had samples.
LEMMA AggregateIsMean ==
  ASSUME BenchAssumption, BenchInv, ScoresInv
  PROVE  AggregateInRange
  <1> DEFINE n == Len(task_results)
             D == {k \in DOMAIN task_results : Samples[k] > 0}
             f == [k \in D |-> task_results[k].score]
             scores == {task_results[k].score : k \in D}
  <1> SUFFICES ASSUME ~Running, scores # {} PROVE aggregate \in Min(scores)..Max(scores)
    BY DEF AggregateInRange
  <1>1. /\ n \in Nat /\ DOMAIN task_results = 1..n /\ n + 1 = task /\ task <= Len(Samples) + 1
        /\ DOMAIN Samples = 1..Len(Samples) /\ Len(Samples) \in Nat
        /\ \A k \in 1..Len(Samples) : Samples[k] \in Nat
    BY DEF BenchAssumption, BenchInv, CallsInv, ResultsInv
  <1>2. \A k \in DOMAIN task_results : task_results[k].score >= 0 <=> Samples[k] > 0
    <2> TAKE k \in DOMAIN task_results
    <2>1. Samples[k] \in Nat /\ task_results[k].score \in IF Samples[k] = 0 THEN {-1} ELSE Nat
      BY <1>1 DEF ScoresInv
    <2>2. CASE Samples[k] = 0
      BY <2>1, <2>2
    <2>3. CASE Samples[k] # 0
      BY <2>1, <2>3
    <2> QED BY <2>2, <2>3
  <1>3. D = {k \in DOMAIN task_results : task_results[k].score >= 0}
    BY <1>2
  <1>4. D # {} /\ task_results # <<>> /\ D \in SUBSET (1..n) /\ f \in [D -> Nat]
    BY <1>1 DEF ScoresInv
  <1>5. aggregate = SumOf(f) \div Cardinality(D)
    <2>1. aggregate = Aggregate(task_results)
      BY <1>4 DEF ScoresInv
    <2> HIDE DEF D
    <2> QED BY <1>3, <1>4, <2>1 DEF Aggregate
  <1>6. scores = {f[k] : k \in D} /\ scores \in SUBSET Nat
    BY <1>4
  <1>7. PICK low \in scores : \A other \in scores : low <= other
    <2> HIDE DEF scores
    <2> QED BY <1>6, LeastNumber
  <1>8. PICK high \in scores : \A other \in scores : other <= high
    <2> DEFINE xs == [k \in 1..n |-> IF k \in D THEN f[k] ELSE 0]
    <2>1. xs \in [1..n -> Nat] /\ \A k \in D : xs[k] = f[k]
      BY <1>4
    <2> HIDE DEF xs, D, f, n
    <2>2. PICK top \in D : \A k \in D : xs[k] <= xs[top]
      BY <1>1, <1>4, <2>1, GreatestNumber
    <2> HIDE DEF scores
    <2>3. f[top] \in scores /\ \A other \in scores : other <= f[top]
      BY <1>6, <2>1, <2>2
    <2> QED BY <2>3
  <1> HIDE DEF scores
  <1>9. /\ Min(scores) \in scores /\ \A other \in scores : Min(scores) <= other
        /\ Max(scores) \in scores /\ \A other \in scores : Max(scores) >= other
    <2>1. \A other \in scores : high >= other
      BY <1>6, <1>8
    <2> QED BY <1>7, <2>1 DEF Min, Max
  <1> HIDE DEF D, f, n
  <1>10. IsFiniteSet(D) /\ Cardinality(D) \in Nat \ {0}
    <2>1. IsFiniteSet(1..n)
      BY <1>1, FS_Interval
    <2>2. IsFiniteSet(D)
      BY <1>4, <2>1, FS_Subset
    <2> QED BY <1>4, <2>2, FS_CardinalityType, FS_EmptySet
  <1>11. Min(scores) \in Nat /\ Max(scores) \in Nat
         /\ \A k \in D : Min(scores) <= f[k] /\ f[k] <= Max(scores)
    BY <1>4, <1>6, <1>9
  <1>12. /\ SumOf(f) \in Nat /\ Cardinality(D) * Min(scores) <= SumOf(f)
         /\ SumOf(f) <= Cardinality(D) * Max(scores)
    BY <1>4, <1>10, <1>11, SumIsBetween
  <1> QED BY <1>5, <1>10, <1>11, <1>12, QuotientIsBetween

\* The aggregate of a run lies between the scores of the worst and the best of its
\* tasks that had samples, whatever tasks it has: those without samples do not enter it.
THEOREM AggregatesAreInRange == BenchSpec => []AggregateInRange
  <1> USE BenchAssumption
  <1>1. BenchInit => BenchInv /\ ScoresInv
    <2> SUFFICES ASSUME BenchInit PROVE ScoresInv
      BY BenchInitInv
    <2>1. task_results = <<>> /\ DOMAIN <<>> = {}
      BY DEF BenchInit
    <2> QED BY <2>1 DEF ScoresInv
  <1>2. BenchInv /\ ScoresInv /\ [BenchNext]_benchVars => BenchInv' /\ ScoresInv'
    <2> SUFFICES ASSUME BenchInv, ScoresInv, [BenchNext]_benchVars PROVE BenchInv' /\ ScoresInv'
      OBVIOUS
    <2>1. BenchInv'
      BY BenchStep
    <2>2. CASE FinishTask
      BY <2>1, <2>2, FinishScores
    <2>3. CASE UNCHANGED calling
      BY <2>1, <2>3 DEF calling, ScoresInv, Running, Aggregate
    <2>4. FinishTask \/ UNCHANGED calling
      BY DEF BenchNext, Send, Answer, AnswerEmpty, Fail, calling, benchVars
    <2> QED BY <2>2, <2>3, <2>4
  <1>3. BenchInv /\ ScoresInv => AggregateInRange
    BY AggregateIsMean
  <1> QED
    BY <1>1, <1>2, <1>3, PTL DEF BenchSpec

-----------------------------------------------------------------------------
\* ParetoAnalyzer: what its report counts.

\* A result that is added counts for its own policy.
LEMMA OneMoreCounted ==
  ASSUME NEW T, NEW s \in Seq(T), NEW r \in T, NEW p
  PROVE  /\ Counted(s, p) \in Nat
         /\ r.policy = p => Counted(Append(s, r), p) = Counted(s, p) + 1
         /\ r.policy # p => Counted(Append(s, r), p) = Counted(s, p)
  <1> DEFINE more == Append(s, r)
             n == Len(s)
             Of(list) == {k \in DOMAIN list : list[k].policy = p}
  <1>1. /\ n \in Nat /\ DOMAIN s = 1..n /\ DOMAIN more = 1..(n + 1) /\ n + 1 \notin 1..n
        /\ 1..(n + 1) = 1..n \union {n + 1}
        /\ \A k \in 1..n : more[k] = s[k]
        /\ more[n + 1] = r
    OBVIOUS
  <1> HIDE DEF more, n
  <1>2. IsFiniteSet(Of(s)) /\ Cardinality(Of(s)) \in Nat /\ n + 1 \notin Of(s)
    <2>1. IsFiniteSet(1..n) /\ Of(s) \in SUBSET (1..n)
      BY <1>1, FS_Interval
    <2>2. IsFiniteSet(Of(s))
      BY <2>1, FS_Subset
    <2> QED BY <1>1, <2>2, FS_CardinalityType
  <1>3. /\ r.policy = p => Of(more) = Of(s) \union {n + 1}
        /\ r.policy # p => Of(more) = Of(s)
    BY <1>1
  <1> HIDE DEF Of
  <1>4. Cardinality(Of(s) \union {n + 1}) = Cardinality(Of(s)) + 1
    BY <1>2, FS_AddElement
  <1>5. Counted(s, p) = Cardinality(Of(s)) /\ Counted(more, p) = Cardinality(Of(more))
    BY DEF Counted, Of
  <1>6. Cardinality(Of(s)) \in Nat
    BY <1>2
  <1> QED BY <1>3, <1>4, <1>5, <1>6 DEF more

\* The counts of the policies add up to the results.
SumsInv == IsFiniteSet(UNION {{p} \X (1..Counted(results, p)) : p \in Report(results).policies})
           /\ SumOf(Report(results).counts) = Len(results)

\* A result more is one more in the sum.
LEMMA AddResultSums ==
  ASSUME PointsInv, SumsInv, NEW r \in Points, AddResult(r)
  PROVE  SumsInv'
  <1> DEFINE more == Append(results, r)
             Policies(list) == {list[k].policy : k \in DOMAIN list}
             Terms(list) == UNION {{p} \X (1..Counted(list, p)) : p \in Policies(list)}
             q == r.policy
             n == Len(results)
             new == <<q, Counted(results, q) + 1>>
  <1>1. results' = more /\ results \in Seq(Points)
    BY DEF AddResult, PointsInv
  <1>2. \A list : /\ Report(list).policies = Policies(list)
                  /\ Report(list).counts = [p \in Policies(list) |-> Counted(list, p)]
    BY DEF Report
  <1>3. \A list : SumOf(Report(list).counts) = Cardinality(Terms(list))
    <2> TAKE list
    <2> HIDE DEF Policies
    <2> DEFINE counts == Report(list).counts
    <2>1. DOMAIN counts = Policies(list) /\ \A p \in Policies(list) : counts[p] = Counted(list, p)
      BY <1>2
    <2> HIDE DEF counts
    <2>2. \A t : (\E p \in DOMAIN counts : t \in {p} \X (1..counts[p]))
               <=> (\E p \in Policies(list) : t \in {p} \X (1..Counted(list, p)))
      BY <2>1
    <2>3. UNION {{p} \X (1..counts[p]) : p \in DOMAIN counts} = Terms(list)
      BY <2>2
    <2> HIDE DEF Terms
    <2> QED BY <2>3 DEF SumOf, counts
  <1>4. /\ n \in Nat /\ Len(more) = n + 1 /\ DOMAIN results = 1..n /\ DOMAIN more = 1..(n + 1)
        /\ \A k \in 1..n : more[k] = results[k]
        /\ more[n + 1] = r
    BY <1>1
  <1>5. Policies(more) = Policies(results) \union {q}
    <2>1. 1..(n + 1) = 1..n \union {n + 1}
      BY <1>4
    <2> HIDE DEF more, n
    <2> QED BY <1>4, <2>1
  <1>6. \A p : /\ Counted(results, p) \in Nat
               /\ p = q => Counted(more, p) = Counted(results, p) + 1
               /\ p # q => Counted(more, p) = Counted(results, p)
    BY <1>1, OneMoreCounted
  <1>7. q \notin Policies(results) => Counted(results, q) = 0
    <2> SUFFICES ASSUME q \notin Policies(results) PROVE Counted(results, q) = 0
      OBVIOUS
    <2>1. {k \in DOMAIN results : results[k].policy = q} = {}
      OBVIOUS
    <2> QED BY <2>1, FS_EmptySet DEF Counted
  <1> HIDE DEF more, Policies, q, n
  <1>8. new \notin Terms(results)
    BY <1>6
  <1>9. Terms(more) = Terms(results) \union {new}
    <2> DEFINE c == Counted(results, q)
    <2>1. \A p : 1..Counted(more, p) = IF p = q THEN 1..c \union {c + 1} ELSE 1..Counted(results, p)
      <3>1. c \in Nat /\ Counted(more, q) = c + 1
        BY <1>6
      <3> HIDE DEF c
      <3>2. 1..(c + 1) = 1..c \union {c + 1}
        BY <3>1
      <3> QED BY <1>6, <3>1, <3>2
    <2>2. q \notin Policies(results) => 1..c = {}
      BY <1>7
    <2>3. ASSUME NEW t PROVE t \in Terms(more) <=> t \in Terms(results) \/ t = new
      <3>1. t \in Terms(more) <=> \E p \in Policies(results) \union {q} : t \in {p} \X (1..Counted(more, p))
        BY <1>5
      <3>2. t \in Terms(results) <=> \E p \in Policies(results) : t \in {p} \X (1..Counted(results, p))
        OBVIOUS
      <3>3. \A p : p # q => {p} \X (1..Counted(more, p)) = {p} \X (1..Counted(results, p))
        BY <2>1
      <3>4. t \in {q} \X (1..Counted(more, q)) <=> t \in {q} \X (1..c) \/ t = new
        <4>1. 1..Counted(more, q) = 1..c \union {c + 1}
          BY <2>1
        <4>2. \A S, e : t \in {q} \X (S \union {e}) <=> t \in {q} \X S \/ t = <<q, e>>
          OBVIOUS
        <4> HIDE DEF c
        <4> QED BY <4>1, <4>2 DEF c
      <3>5. q \notin Policies(results) => t \notin {q} \X (1..c)
        BY <2>2
      <3> HIDE DEF new, Terms
      <3> QED BY <3>1, <3>2, <3>3, <3>4, <3>5
    <2> HIDE DEF Terms, new
    <2> QED BY <2>3
  <1> HIDE DEF new
  <1>10. IsFiniteSet(Terms(results)) /\ Cardinality(Terms(results)) = n
    BY <1>2, <1>3 DEF SumsInv, n
  <1> HIDE DEF Terms
  <1>11. IsFiniteSet(Terms(more)) /\ Cardinality(Terms(more)) = n + 1
    BY <1>8, <1>9, <1>10, FS_AddElement
  <1>12. IsFiniteSet(Terms(results')) /\ SumOf(Report(results').counts) = Len(results')
    BY <1>1, <1>3, <1>4, <1>11
  <1> QED BY <1>2, <1>12 DEF SumsInv, Terms, Policies

\* The counts of a report add up to the number of results, and no result is on the
\* frontier that is not among them: for any results, added in any order.
THEOREM ReportsAddUp == AnalyzerSpec => []ReportAddsUp
  <1>1. AnalyzerInit => PointsInv /\ SumsInv
    <2> SUFFICES ASSUME AnalyzerInit PROVE PointsInv /\ SumsInv
      OBVIOUS
    <2>1. results = <<>> /\ DOMAIN results = {} /\ Len(results) = 0
      BY DEF AnalyzerInit
    <2>2. Report(results).policies = {} /\ DOMAIN Report(results).counts = {}
      BY <2>1 DEF Report
    <2>3. UNION {{p} \X (1..Counted(results, p)) : p \in Report(results).policies} = {}
      BY <2>2
    <2>4. UNION {{p} \X (1..Report(results).counts[p]) : p \in DOMAIN Report(results).counts} = {}
      BY <2>2
    <2>5. SumOf(Report(results).counts) = Cardinality({})
      BY <2>4 DEF SumOf
    <2>6. PointsInv
      BY <2>1 DEF PointsInv
    <2>7. SumsInv
      BY <2>1, <2>3, <2>5, FS_EmptySet DEF SumsInv
    <2> QED BY <2>6, <2>7
  <1>2. PointsInv /\ SumsInv /\ [AnalyzerNext]_results => PointsInv' /\ SumsInv'
    <2> SUFFICES ASSUME PointsInv, SumsInv, [AnalyzerNext]_results PROVE PointsInv' /\ SumsInv'
      OBVIOUS
    <2>1. CASE UNCHANGED results
      BY <2>1 DEF PointsInv, SumsInv, Report, Counted
    <2>2. CASE \E p \in Points : AddResult(p)
      <3>1. PICK p \in Points : AddResult(p)
        BY <2>2
      <3>2. PointsInv'
        BY <3>1 DEF PointsInv, AddResult
      <3> QED BY <3>1, <3>2, AddResultSums
    <2> QED BY <2>1, <2>2 DEF AnalyzerNext
  <1>3. PointsInv /\ SumsInv => ReportAddsUp
    <2> SUFFICES ASSUME PointsInv, SumsInv PROVE ReportAddsUp
      OBVIOUS
    <2> DEFINE front == Frontier(QualityVsMemory, results)
    <2>1. front \subseteq DOMAIN results /\ DOMAIN results = 1..Len(results) /\ Len(results) \in Nat
      BY DEF Frontier, Kept, PointsInv
    <2>2. /\ Report(results).best = {results[k].policy : k \in front}
          /\ Report(results).policies = {results[k].policy : k \in DOMAIN results}
          /\ Report(results).size = Cardinality(front) /\ Report(results).total = Len(results)
      BY DEF Report
    <2> HIDE DEF front
    <2>3. Report(results).best \subseteq Report(results).policies
      BY <2>1, <2>2
    <2>4. Cardinality(front) <= Len(results)
      <3>1. IsFiniteSet(1..Len(results)) /\ Cardinality(1..Len(results)) = Len(results)
        BY <2>1, FS_Interval
      <3> QED BY <2>1, <3>1, FS_Subset
    <2> QED BY <2>2, <2>3, <2>4 DEF ReportAddsUp, SumsInv
  <1> QED
    BY <1>1, <1>2, <1>3, PTL DEF AnalyzerSpec

-----------------------------------------------------------------------------
\* StressTests: what its coroutines left behind.

Coroutines == [answered : Nat, at : {"queued", "sent", "returned", "raised"}]

\* A coroutine has returned when it has had all its answers, and a result is what was
\* counted when all were over, which they stay.
StressInv ==
  /\ test \in Workloads /\ wave \in Nat /\ launching \in BOOLEAN
  /\ coroutines \in Seq(Coroutines)
  /\ \A i \in DOMAIN coroutines :
       /\ coroutines[i].answered <= CallsOf
       /\ coroutines[i].at = "returned" <=> coroutines[i].answered = CallsOf
  /\ GuardHolds
  /\ outcome # None => ~launching /\ AllOver /\ outcome = Tally

\* The sizes of waves and sessions are numbers.
LEMMA SizesAreNat ==
  ASSUME StressInv
  PROVE  CallsOf \in Nat \ {0} /\ WaveSize \in Nat
  <1> USE StressAssumption DEF StressInv
  <1>1. CallsOf \in Nat \ {0}
    BY DEF CallsOf
  <1>2. RampSteps \in Nat \ {0}
    BY DEF RampSteps, Larger
  <1>3. test \in Guarded \union {"bursty_arrivals", "long_chat_session", "memory_spike"}
    BY DEF Guarded
  <1>4. test = "memory_spike" => WaveSize \in Nat
    <2>1. Peak * wave \in Nat
      OBVIOUS
    <2>2. (Peak * wave) \div RampSteps \in Int
      BY <1>2, <2>1
    <2>3. Larger(1, (Peak * wave) \div RampSteps) \in Nat
      BY <2>2 DEF Larger
    <2>4. Peak \in Nat
      OBVIOUS
    <2>5. test = "memory_spike" => WaveSize \in {Larger(1, (Peak * wave) \div RampSteps), Peak}
      BY DEF WaveSize, Guarded
    <2> QED BY <2>3, <2>4, <2>5
  <1>5. test # "memory_spike" => WaveSize \in {BurstSize, Requests, Sessions}
    BY <1>3 DEF WaveSize, Guarded
  <1> QED BY <1>1, <1>4, <1>5

\* The coroutines are a finite set, and so are those at one place.
LEMMA CoroutinesAreFinite ==
  ASSUME StressInv
  PROVE  /\ DOMAIN coroutines = 1..Len(coroutines) /\ Len(coroutines) \in Nat
         /\ IsFiniteSet(DOMAIN coroutines) /\ Cardinality(DOMAIN coroutines) = Len(coroutines)
         /\ \A where : IsFiniteSet(At(where)) /\ Cardinality(At(where)) \in Nat
  <1>1. DOMAIN coroutines = 1..Len(coroutines) /\ Len(coroutines) \in Nat
    BY DEF StressInv
  <1>2. IsFiniteSet(DOMAIN coroutines) /\ Cardinality(DOMAIN coroutines) = Len(coroutines)
    <2> DEFINE n == Len(coroutines)
    <2>1. n \in Nat
      BY <1>1
    <2> HIDE DEF n
    <2>2. IsFiniteSet(1..n) /\ Cardinality(1..n) = n
      BY <2>1, FS_Interval
    <2> QED BY <1>1, <2>2 DEF n
  <1>3. ASSUME NEW where PROVE IsFiniteSet(At(where)) /\ Cardinality(At(where)) \in Nat
    <2>1. At(where) \subseteq DOMAIN coroutines
      BY DEF At
    <2> QED BY <1>2, <2>1, FS_Subset, FS_CardinalityType
  <1> QED BY <1>1, <1>2, <1>3

\* A wave more has its calls queued: none of them is at the server.
LEMMA LaunchPreserves == ASSUME StressInv, Launch PROVE StressInv'
  <1> DEFINE fresh == [i \in 1..WaveSize |-> [answered |-> 0, at |-> "queued"]]
             n == Len(coroutines)
  <1>1. /\ launching /\ coroutines' = coroutines \o fresh /\ wave' = wave + 1
        /\ UNCHANGED <<test, launching, outcome>>
    BY DEF Launch
  <1>2. fresh \in Seq(Coroutines) /\ Len(fresh) = WaveSize /\ WaveSize \in Nat
    <2>1. [answered |-> 0, at |-> "queued"] \in Coroutines /\ WaveSize \in Nat
      BY SizesAreNat DEF Coroutines
    <2> QED BY <2>1
  <1>3. CallsOf' = CallsOf /\ CallsOf \in Nat \ {0}
    BY <1>1, SizesAreNat DEF CallsOf
  <1>4. /\ n \in Nat /\ DOMAIN coroutines = 1..n
        /\ coroutines' \in Seq(Coroutines) /\ DOMAIN coroutines' = 1..(n + WaveSize)
        /\ \A i \in 1..n : coroutines'[i] = coroutines[i]
        /\ \A i \in 1..(n + WaveSize) : i \notin 1..n =>
             coroutines'[i] = [answered |-> 0, at |-> "queued"]
    <2>1. coroutines \in Seq(Coroutines)
      BY DEF StressInv
    <2>2. \A i \in 1..(n + WaveSize) : i \notin 1..n => i - n \in 1..WaveSize
      BY <1>2, <2>1
    <2>3. \A j \in 1..WaveSize : fresh[j] = [answered |-> 0, at |-> "queued"]
      OBVIOUS
    <2> HIDE DEF fresh
    <2>4. /\ coroutines \o fresh \in Seq(Coroutines)
          /\ Len(coroutines \o fresh) = n + WaveSize
          /\ \A i \in 1..(n + WaveSize) :
               (coroutines \o fresh)[i] = IF i <= n THEN coroutines[i] ELSE fresh[i - n]
      BY <1>2, <2>1
    <2> QED BY <1>1, <1>2, <2>1, <2>2, <2>3, <2>4
  <1> HIDE DEF fresh, n
  <1>5. \A i \in DOMAIN coroutines' :
          /\ coroutines'[i].answered <= CallsOf
          /\ coroutines'[i].at = "returned" <=> coroutines'[i].answered = CallsOf
    <2> TAKE i \in DOMAIN coroutines'
    <2>1. CASE i \in 1..n
      BY <1>4, <2>1 DEF StressInv
    <2>2. CASE i \notin 1..n
      BY <1>3, <1>4, <2>2
    <2> QED BY <2>1, <2>2
  <1>6. At("sent")' = At("sent")
    <2>1. 1..n \subseteq 1..(n + WaveSize)
      BY <1>2, <1>4
    <2> QED BY <1>4, <2>1 DEF At
  <1>7. GuardHolds'
    BY <1>1, <1>6 DEF GuardHolds, StressInv
  <1>8. test' \in Workloads /\ wave' \in Nat /\ launching' \in BOOLEAN /\ outcome' = None
    BY <1>1 DEF StressInv
  <1>9. None' = None
    BY DEF None
  <1> QED BY <1>3, <1>4, <1>5, <1>7, <1>8, <1>9 DEF StressInv

\* A coroutine goes on alone.
LEMMA CoroutineMoves ==
  ASSUME StressInv, NEW i \in DOMAIN coroutines, NEW c \in Coroutines,
         coroutines[i].at \in {"queued", "sent"},
         coroutines' = [coroutines EXCEPT ![i] = c],
         c.answered <= CallsOf, c.at = "returned" <=> c.answered = CallsOf,
         (c.at = "sent" /\ test \in Guarded) => Cardinality(At("sent")) < GuardConcurrency,
         UNCHANGED <<test, wave, launching, outcome>>
  PROVE  StressInv'
  <1>1. /\ coroutines' \in Seq(Coroutines) /\ DOMAIN coroutines' = DOMAIN coroutines
        /\ \A j \in DOMAIN coroutines : coroutines'[j] = IF j = i THEN c ELSE coroutines[j]
    BY DEF StressInv
  <1>2. CallsOf' = CallsOf /\ None' = None
    BY DEF CallsOf, None
  <1>3. outcome' = None
    BY DEF StressInv, AllOver
  <1>4. GuardHolds'
    <2> SUFFICES ASSUME test \in Guarded PROVE Cardinality(At("sent")') <= GuardConcurrency
      BY DEF GuardHolds
    <2>1. /\ IsFiniteSet(At("sent")) /\ Cardinality(At("sent")) \in Nat
          /\ Cardinality(At("sent")) <= GuardConcurrency /\ GuardConcurrency \in Nat
      BY CoroutinesAreFinite, StressAssumption DEF StressInv, GuardHolds
    <2>2. CASE c.at = "sent"
      <3>1. At("sent")' = At("sent") \union {i}
        BY <1>1, <2>2 DEF At
      <3>2. /\ i \in At("sent") => Cardinality(At("sent") \union {i}) = Cardinality(At("sent"))
            /\ i \notin At("sent") => Cardinality(At("sent") \union {i}) = Cardinality(At("sent")) + 1
        BY <2>1, FS_AddElement
      <3> QED BY <2>1, <2>2, <3>1, <3>2
    <2>3. CASE c.at # "sent"
      <3>1. At("sent")' \in SUBSET At("sent")
        BY <1>1, <2>3 DEF At
      <3>2. Cardinality(At("sent")') <= Cardinality(At("sent")) /\ IsFiniteSet(At("sent")')
        BY <2>1, <3>1, FS_Subset
      <3>3. Cardinality(At("sent")') \in Nat
        BY <3>2, FS_CardinalityType
      <3> QED BY <2>1, <3>2, <3>3
    <2> QED BY <2>2, <2>3
  <1> QED BY <1>1, <1>2, <1>3, <1>4 DEF StressInv

\* Every step of a workload keeps the invariant.
LEMMA StressStep == ASSUME StressInv, [StressNext]_stressVars PROVE StressInv'
  <1>1. CASE UNCHANGED stressVars
    BY <1>1 DEF stressVars, StressInv, CallsOf, GuardHolds, At, AllOver, None, Tally, Latencies, Measured
  <1>2. CASE Launch
    BY <1>2, LaunchPreserves
  <1>3. CASE Gather
    BY <1>3 DEF Gather, StressInv, CallsOf, GuardHolds, At, AllOver, None
  <1>4. CASE Finish
    BY <1>4 DEF Finish, StressInv, CallsOf, GuardHolds, At, AllOver, None, Tally, Latencies, Measured
  <1>5. ASSUME NEW i \in DOMAIN coroutines, SendCall(i) \/ Answered(i) \/ Raised(i) PROVE StressInv'
    <2> DEFINE old == coroutines[i]
    <2>1. /\ old \in Coroutines /\ old.answered \in Nat /\ CallsOf \in Nat \ {0}
          /\ old.answered <= CallsOf /\ (old.at = "returned" <=> old.answered = CallsOf)
      <3>1. CallsOf \in Nat \ {0}
        BY SizesAreNat
      <3>2. /\ old \in Coroutines
            /\ old.answered <= CallsOf /\ (old.at = "returned" <=> old.answered = CallsOf)
        BY DEF StressInv
      <3> QED BY <3>1, <3>2 DEF Coroutines
    <2>2. UNCHANGED <<test, wave, launching, outcome>>
      BY <1>5 DEF SendCall, Answered, Raised
    <2>3. CASE SendCall(i)
      <3> DEFINE c == [answered |-> old.answered, at |-> "sent"]
      <3>1. old.at = "queued" /\ coroutines' = [coroutines EXCEPT ![i].at = "sent"] /\ MaySend(i)
        BY <2>3 DEF SendCall, At
      <3>2. coroutines' = [coroutines EXCEPT ![i] = c]
        <4>1. [old EXCEPT !.at = c.at] = c
          BY <2>1 DEF Coroutines
        <4> QED BY <3>1, <4>1
      <3>3. c \in Coroutines /\ c.answered = old.answered /\ c.at = "sent"
        BY <2>1 DEF Coroutines
      <3> HIDE DEF c
      <3>4. test \in Guarded => Cardinality(At("sent")) < GuardConcurrency
        BY <3>1 DEF MaySend
      <3> QED BY <2>1, <2>2, <3>1, <3>2, <3>3, <3>4, CoroutineMoves
    <2>4. CASE Answered(i)
      <3> DEFINE c == [answered |-> old.answered + 1,
                       at |-> IF old.answered + 1 = CallsOf THEN "returned" ELSE "queued"]
      <3>1. old.at = "sent" /\ coroutines' = [coroutines EXCEPT ![i] = c]
        BY <2>4 DEF Answered, At
      <3>2. /\ c \in Coroutines /\ c.answered <= CallsOf /\ c.at # "sent"
            /\ c.at = "returned" <=> c.answered = CallsOf
        BY <2>1, <3>1 DEF Coroutines
      <3> HIDE DEF c
      <3> QED BY <2>2, <3>1, <3>2, CoroutineMoves
    <2>5. CASE Raised(i)
      <3> DEFINE c == [answered |-> old.answered, at |-> "raised"]
      <3>1. old.at = "sent" /\ coroutines' = [coroutines EXCEPT ![i].at = "raised"]
        BY <2>5 DEF Raised, At
      <3>2. coroutines' = [coroutines EXCEPT ![i] = c]
        <4>1. [old EXCEPT !.at = c.at] = c
          BY <2>1 DEF Coroutines
        <4> QED BY <3>1, <4>1
      <3>3. c \in Coroutines /\ c.answered = old.answered /\ c.at = "raised"
        BY <2>1 DEF Coroutines
      <3> HIDE DEF c
      <3> QED BY <2>1, <2>2, <3>1, <3>2, <3>3, CoroutineMoves
    <2> QED BY <1>5, <2>3, <2>4, <2>5
  <1> QED BY <1>1, <1>2, <1>3, <1>4, <1>5 DEF StressNext

\* When all are over the latencies are those of the coroutines that returned.
LEMMA LatenciesAreOfReturned ==
  ASSUME StressInv, outcome # None
  PROVE  /\ outcome.latencies = At("returned") \X (1..CallsOf)
         /\ outcome.successful = Cardinality(At("returned")) * CallsOf
         /\ outcome.failed = Cardinality(At("raised"))
         /\ outcome.total = Len(coroutines) * CallsOf
         /\ outcome.errors = Rate(outcome.failed, outcome.total)
  <1>1. /\ outcome.latencies = Latencies /\ outcome.successful = Cardinality(Latencies)
        /\ outcome.failed = Cardinality(At("raised")) /\ outcome.total = Len(coroutines) * CallsOf
        /\ outcome.errors = Rate(outcome.failed, outcome.total)
    BY DEF StressInv, Tally
  <1>2. CallsOf \in Nat
    BY SizesAreNat
  <1>3. Latencies = At("returned") \X (1..CallsOf)
    <2>1. \A i \in DOMAIN coroutines : /\ coroutines[i].at \in {"returned", "raised"}
                                       /\ coroutines[i].at = "returned" => coroutines[i].answered = CallsOf
      BY DEF StressInv, AllOver
    <2>2. \A i \in DOMAIN coroutines, k \in 1..CallsOf :
            coroutines[i].at # "raised" => coroutines[i].at = "returned" /\ k <= coroutines[i].answered
      BY <1>2, <2>1
    <2>3. \A i \in At("returned") : i \in DOMAIN coroutines /\ coroutines[i].at # "raised"
      BY DEF At
    <2> QED BY <2>2, <2>3 DEF Latencies, Measured, At
  <1>4. Cardinality(At("returned") \X (1..CallsOf)) = Cardinality(At("returned")) * CallsOf
    <2>1. IsFiniteSet(1..CallsOf) /\ Cardinality(1..CallsOf) = CallsOf
      BY <1>2, FS_Interval
    <2> QED BY <2>1, CoroutinesAreFinite, FS_Product
  <1> QED BY <1>1, <1>3, <1>4

\* Where a coroutine makes one call, what was successful and what failed are all.
LEMMA SuccessOrFailure ==
  ASSUME StressInv, outcome # None, test # "long_chat_session"
  PROVE  /\ outcome.successful + outcome.failed = outcome.total
         /\ outcome.total - outcome.successful = outcome.failed
  <1>1. CallsOf = 1
    BY DEF CallsOf
  <1>2. /\ At("returned") \union At("raised") = DOMAIN coroutines
        /\ At("returned") \cap At("raised") = {}
    BY DEF StressInv, AllOver, At
  <1>3. Cardinality(At("returned")) + Cardinality(At("raised")) = Len(coroutines)
    <2>1. Cardinality(DOMAIN coroutines)
            = Cardinality(At("returned")) + Cardinality(At("raised")) - Cardinality({})
      BY <1>2, CoroutinesAreFinite, FS_Union
    <2>2. Cardinality({}) = 0
      BY FS_EmptySet
    <2> QED BY <2>1, <2>2, CoroutinesAreFinite
  <1> QED BY <1>1, <1>3, CoroutinesAreFinite, LatenciesAreOfReturned

\* A result is true of the requests it came from: its latencies are of the coroutines
\* that returned and of all their calls, and are what counts as successful; with one
\* call to a coroutine the error rate is the share of what was not; and the semaphore
\* holds while others fail: for any workloads, sizes and permits.
StressTrue == LatenciesTrue /\ GuardHolds /\ (test # "long_chat_session" => ErrorRateTrue)
THEOREM WorkloadsAreTrue == StressSpec => []StressTrue
  <1>1. StressInit => StressInv
    <2> SUFFICES ASSUME StressInit PROVE StressInv
      OBVIOUS
    <2>1. test \in Workloads /\ wave = 0 /\ launching = TRUE /\ coroutines = <<>> /\ outcome = None
      BY DEF StressInit
    <2>2. At("sent") = {}
      BY <2>1 DEF At
    <2>3. GuardHolds
      <3>1. GuardConcurrency \in Nat /\ Cardinality({}) = 0
        BY StressAssumption, FS_EmptySet
      <3> QED BY <2>2, <3>1 DEF GuardHolds
    <2> QED BY <2>1, <2>3 DEF StressInv
  <1>2. StressInv /\ [StressNext]_stressVars => StressInv'
    BY StressStep
  <1>3. StressInv => StressTrue
    <2> SUFFICES ASSUME StressInv PROVE StressTrue
      OBVIOUS
    <2>1. LatenciesTrue
      BY LatenciesAreOfReturned DEF LatenciesTrue
    <2>2. test # "long_chat_session" => ErrorRateTrue
      BY LatenciesAreOfReturned, SuccessOrFailure DEF ErrorRateTrue
    <2> QED BY <2>1, <2>2 DEF StressInv, StressTrue
  <1> QED
    BY <1>1, <1>2, <1>3, PTL DEF StressSpec

-----------------------------------------------------------------------------
\* Ablation: the table of comparisons.

\* Two sets of places, paired by their order.
PairedUp(S, T) == {pair \in S \X T : Place(pair[1], S) = Place(pair[2], T)}

\* No number of either is in two pairs, so there are no more pairs than numbers; a set
\* is paired with itself number by number.
LEMMA PairsAreFew ==
  ASSUME NEW S \in SUBSET Nat, IsFiniteSet(S), NEW T \in SUBSET Nat, IsFiniteSet(T)
  PROVE  /\ IsFiniteSet(PairedUp(S, T)) /\ Cardinality(PairedUp(S, T)) \in Nat
         /\ Cardinality(PairedUp(S, T)) <= Cardinality(S) /\ Cardinality(PairedUp(S, T)) <= Cardinality(T)
         /\ S = T => /\ Cardinality(PairedUp(S, T)) = Cardinality(S)
                     /\ \A pair \in PairedUp(S, T) : pair[1] = pair[2]
  <1> DEFINE P == PairedUp(S, T)
             f == [pair \in P |-> pair[1]]
             g == [pair \in P |-> pair[2]]
  <1>1. \A pair \in P : /\ pair[1] \in S /\ pair[2] \in T /\ pair = <<pair[1], pair[2]>>
                        /\ Place(pair[1], S) = Place(pair[2], T)
    BY DEF PairedUp
  <1>2. \A a, b \in P : (a[1] = b[1] \/ a[2] = b[2]) => a = b
    <2> SUFFICES ASSUME NEW a \in P, NEW b \in P, a[1] = b[1] \/ a[2] = b[2] PROVE a = b
      OBVIOUS
    <2> HIDE DEF P
    <2>1. Place(a[1], S) = Place(b[1], S) /\ Place(a[2], T) = Place(b[2], T)
      BY <1>1
    <2>2. a[1] = b[1] /\ a[2] = b[2]
      BY <1>1, <2>1, PlaceTells
    <2> QED BY <1>1, <2>2
  <1> HIDE DEF P
  <1>3. f \in Injection(P, S) /\ g \in Injection(P, T)
    BY <1>1, <1>2 DEF Injection, IsInjective
  <1>4. /\ IsFiniteSet(P) /\ Cardinality(P) <= Cardinality(S)
        /\ Cardinality(P) = Cardinality(S) <=> f \in Surjection(P, S)
    BY <1>3, FS_Injection
  <1>5. Cardinality(P) <= Cardinality(T)
    BY <1>3, FS_Injection
  <1>6. ASSUME S = T
        PROVE  Cardinality(P) = Cardinality(S) /\ \A pair \in P : pair[1] = pair[2]
    <2>1. \A pair \in P : pair[1] = pair[2]
      BY <1>1, <1>6, PlaceTells
    <2>2. \A m \in S : <<m, m>> \in P
      BY <1>6 DEF P, PairedUp
    <2>3. \A m \in S : \E pair \in P : f[pair] = m
      <3> TAKE m \in S
      <3>1. <<m, m>> \in P
        BY <2>2
      <3>2. f[<<m, m>>] = m
        BY <3>1
      <3> QED BY <3>1, <3>2
    <2>4. f \in Surjection(P, S)
      BY <1>3, <2>3 DEF Injection, Surjection
    <2> QED BY <1>4, <2>1, <2>4
  <1> QED BY <1>4, <1>5, <1>6, FS_CardinalityType DEF P

\* What the runs have left, and the table made of it when there are no more.
RowOf(p) ==
  /\ table[p].n = Cardinality(Scored(p))
  /\ table[p].pairs = IF Compared(p) THEN Pairs(p) ELSE {}
  /\ table[p].significant \in IF Compared(p) THEN Significances(p) ELSE {FALSE}

AblationInv ==
  /\ to_run \in Seq(STRING)
  /\ DOMAIN quality \union ToSet(to_run) = {Base} \union ToSet(Ablations)
  /\ \A p \in DOMAIN quality : quality[p] \in TaskScores
  /\ Tabled => /\ to_run = <<>> /\ DOMAIN table = DOMAIN quality
               /\ \A p \in DOMAIN table : RowOf(p)

\* A run leaves its scores under the name of its policy, which is run no more.
LEMMA RunPreserves == ASSUME AblationInv, RunPolicy PROVE AblationInv'
  <1>1. /\ to_run # <<>> /\ to_run' = Tail(to_run) /\ table' = table
        /\ \E scores \in TaskScores :
             quality' = [p \in DOMAIN quality \union {Head(to_run)} |->
                           IF p = Head(to_run) THEN scores ELSE quality[p]]
    BY DEF RunPolicy
  <1>2. to_run \in Seq(STRING) /\ ~Tabled
    BY <1>1 DEF AblationInv
  <1>3. to_run' \in Seq(STRING) /\ ToSet(to_run) = ToSet(to_run') \union {Head(to_run)}
    <2> DEFINE n == Len(to_run)
    <2>1. /\ n \in Nat \ {0} /\ DOMAIN to_run = 1..n /\ Head(to_run) = to_run[1]
          /\ to_run' \in Seq(STRING) /\ DOMAIN to_run' = 1..(n - 1)
          /\ \A k \in 1..(n - 1) : to_run'[k] = to_run[k + 1]
      BY <1>1, <1>2
    <2> HIDE DEF n
    <2>2. /\ 1 \in 1..n
          /\ \A k \in 1..n : k = 1 \/ (k - 1 \in 1..(n - 1) /\ (k - 1) + 1 = k)
          /\ \A k \in 1..(n - 1) : k + 1 \in 1..n
      BY <2>1
    <2>3. \A x : x \in ToSet(to_run) <=> x \in ToSet(to_run') \/ x = Head(to_run)
      <3> TAKE x
      <3>1. ASSUME x \in ToSet(to_run) PROVE x \in ToSet(to_run') \/ x = Head(to_run)
        <4>1. PICK k \in 1..n : x = to_run[k]
          BY <2>1, <3>1 DEF ToSet
        <4>2. CASE k = 1
          BY <2>1, <4>1, <4>2
        <4>3. CASE k - 1 \in 1..(n - 1) /\ (k - 1) + 1 = k
          BY <2>1, <4>1, <4>3 DEF ToSet
        <4> QED BY <2>2, <4>2, <4>3
      <3>2. ASSUME x \in ToSet(to_run') \/ x = Head(to_run) PROVE x \in ToSet(to_run)
        <4>1. CASE x = Head(to_run)
          BY <2>1, <2>2, <4>1 DEF ToSet
        <4>2. CASE x \in ToSet(to_run')
          <5>1. PICK k \in 1..(n - 1) : x = to_run'[k]
            BY <2>1, <4>2 DEF ToSet
          <5> QED BY <2>1, <2>2, <5>1 DEF ToSet
        <4> QED BY <3>2, <4>1, <4>2
      <3> QED BY <3>1, <3>2
    <2> QED BY <2>1, <2>3
  <1>4. /\ DOMAIN quality' = DOMAIN quality \union {Head(to_run)}
        /\ \A p \in DOMAIN quality' : quality'[p] \in TaskScores
    BY <1>1 DEF AblationInv
  <1>5. ~Tabled'
    BY <1>1, <1>2 DEF Tabled
  <1>6. DOMAIN quality' \union ToSet(to_run') = {Base} \union ToSet(Ablations)
    BY <1>3, <1>4 DEF AblationInv
  <1>7. ToSet(to_run)' = ToSet(to_run') /\ TaskScores' = TaskScores
    BY DEF ToSet, TaskScores
  <1>8. \A p \in DOMAIN quality' : quality'[p] \in TaskScores'
    BY <1>4, <1>7
  <1> QED BY <1>3, <1>5, <1>6, <1>8 DEF AblationInv

\* The table is made of all runs.
LEMMA FormatPreserves == ASSUME AblationInv, FormatTable PROVE AblationInv'
  <1>1. /\ to_run = <<>> /\ UNCHANGED <<to_run, quality>>
        /\ DOMAIN table' = DOMAIN quality
        /\ \A p \in DOMAIN quality :
             /\ table'[p].n = Cardinality(Scored(p))
             /\ table'[p].pairs = IF Compared(p) THEN Pairs(p) ELSE {}
             /\ table'[p].significant \in IF Compared(p) THEN Significances(p) ELSE {FALSE}
    <2>1. PICK significant \in [DOMAIN quality -> BOOLEAN] :
            /\ \A p \in DOMAIN quality :
                 significant[p] \in IF Compared(p) THEN Significances(p) ELSE {FALSE}
            /\ table' = [p \in DOMAIN quality |->
                           [n |-> Cardinality(Scored(p)), pairs |-> IF Compared(p) THEN Pairs(p) ELSE {},
                            significant |-> significant[p]]]
      BY DEF FormatTable
    <2> QED BY <2>1 DEF FormatTable
  <1>2. \A p : /\ Scored(p)' = Scored(p) /\ Pairs(p)' = Pairs(p) /\ Compared(p)' = Compared(p)
               /\ Significances(p)' = Significances(p)
    BY <1>1 DEF Scored, Pairs, Compared, Significances, Differences
  <1>3. \A p \in DOMAIN table' : RowOf(p)'
    <2> TAKE p \in DOMAIN table'
    <2> QED BY <1>1, <1>2 DEF RowOf
  <1> QED BY <1>1, <1>3 DEF AblationInv, Tabled

\* Scores are numbers, and the scored tasks places in the list of tasks.
LEMMA ScoredPlaces ==
  ASSUME AblationInv, NEW p \in DOMAIN quality
  PROVE  /\ Scored(p) \in SUBSET Nat /\ IsFiniteSet(Scored(p)) /\ Cardinality(Scored(p)) \in Nat
         /\ \A n \in Scored(p) : quality[p][n] \in Nat
  <1>1. DOMAIN Tasks = 1..Len(Tasks) /\ Len(Tasks) \in Nat /\ TaskQualities \subseteq Nat
    BY AblationAssumption
  <1>2. Scored(p) \subseteq 1..Len(Tasks)
    BY <1>1 DEF Scored
  <1>3. IsFiniteSet(1..Len(Tasks))
    BY <1>1, FS_Interval
  <1>4. IsFiniteSet(Scored(p))
    BY <1>2, <1>3, FS_Subset
  <1>5. quality[p] \in [DOMAIN Tasks -> TaskQualities \union {NoScore}]
    BY DEF AblationInv, TaskScores
  <1>6. \A n \in Scored(p) : quality[p][n] \in Nat
    BY <1>1, <1>5 DEF Scored
  <1> QED BY <1>2, <1>4, <1>6, FS_CardinalityType

\* The table compares what can be compared.
LEMMA TableCompares == ASSUME AblationInv PROVE ComparisonTrue
  <1> SUFFICES ASSUME Tabled PROVE ComparisonTrue
    BY DEF ComparisonTrue
  <1>1. DOMAIN table = {Base} \union ToSet(Ablations) /\ DOMAIN table = DOMAIN quality
    <2>1. ToSet(<<>>) = {}
      BY DEF ToSet
    <2> QED BY <2>1 DEF AblationInv
  <1>2. ASSUME NEW p \in DOMAIN table \ {Base}
        PROVE  /\ Scored(p) = Scored(Base) => /\ Cardinality(table[p].pairs) = table[p].n
                                              /\ PairsOneTask(p)
               /\ table[p].significant => quality[p] # quality[Base]
               /\ table[p].n < 2 \/ table[Base].n < 2 => ~table[p].significant
    <2> DEFINE S == Scored(p)
               T == Scored(Base)
    <2>1. /\ Base \in DOMAIN quality /\ p \in DOMAIN quality /\ p # Base
          /\ RowOf(p) /\ RowOf(Base)
      BY <1>1 DEF AblationInv
    <2>2. /\ S \in SUBSET Nat /\ IsFiniteSet(S) /\ Cardinality(S) \in Nat
          /\ T \in SUBSET Nat /\ IsFiniteSet(T) /\ Cardinality(T) \in Nat
          /\ \A n \in S : quality[p][n] \in Nat
      BY <2>1, ScoredPlaces
    <2>3. Pairs(p) = PairedUp(S, T)
      BY DEF Pairs, PairedUp
    <2>4. /\ Cardinality(Pairs(p)) \in Nat /\ IsFiniteSet(Pairs(p))
          /\ Cardinality(Pairs(p)) <= Cardinality(S) /\ Cardinality(Pairs(p)) <= Cardinality(T)
          /\ S = T => /\ Cardinality(Pairs(p)) = Cardinality(S)
                      /\ \A pair \in Pairs(p) : pair[1] = pair[2]
      BY <2>2, <2>3, PairsAreFew
    <2>5. \A pair \in Pairs(p) : pair[1] \in S
      BY DEF Pairs
    <2>6. Compared(p) <=> T # {}
      BY <2>1 DEF Compared
    <2> DEFINE pairs == table[p].pairs
    <2>7. /\ table[p].n = Cardinality(S) /\ table[Base].n = Cardinality(T)
          /\ T # {} => pairs = Pairs(p) /\ table[p].significant \in Significances(p)
          /\ T = {} => pairs = {} /\ ~table[p].significant
      BY <2>1, <2>6 DEF RowOf
    <2>8. (S = T => \A n \in S : quality[p][n] = quality[Base][n])
            => ~(S = T /\ table[p].significant)
      <3> SUFFICES ASSUME S = T, \A n \in S : quality[p][n] = quality[Base][n]
                   PROVE  ~table[p].significant
        OBVIOUS
      <3>1. CASE Pairs(p) = {}
        <4>1. Cardinality(Pairs(p)) = 0
          BY <3>1, FS_EmptySet
        <4>2. Significances(p) = {FALSE}
          BY <4>1 DEF Significances
        <4> QED BY <2>7, <4>2
      <3>2. CASE Pairs(p) # {}
        <4> HIDE DEF S, T
        <4>1. \A pair \in Pairs(p) : quality[p][pair[1]] - quality[Base][pair[2]] = 0
          <5> TAKE pair \in Pairs(p)
          <5>1. pair[1] \in S /\ pair[1] = pair[2]
            BY <2>4, <2>5
          <5>2. quality[p][pair[1]] = quality[Base][pair[1]] /\ quality[p][pair[1]] \in Nat
            BY <2>2, <5>1
          <5>3. quality[Base][pair[2]] = quality[Base][pair[1]]
            BY <5>1
          <5> QED BY <5>2, <5>3
        <4>2. Differences(p) = {0}
          BY <3>2, <4>1 DEF Differences
        <4>3. Significances(p) = {FALSE}
          BY <4>2 DEF Significances
        <4> QED BY <2>7, <4>3
      <3> QED BY <3>1, <3>2
    <2>9. quality[p] = quality[Base] => S = T /\ \A n \in S : quality[p][n] = quality[Base][n]
      BY DEF Scored
    <2>10. table[p].n < 2 \/ table[Base].n < 2 => ~table[p].significant
      <3> HIDE DEF S, T
      <3> SUFFICES ASSUME table[p].n < 2 \/ table[Base].n < 2 PROVE ~table[p].significant
        OBVIOUS
      <3>1. Cardinality(Pairs(p)) < 2
        BY <2>2, <2>4, <2>7
      <3>2. Significances(p) = {FALSE}
        BY <3>1 DEF Significances
      <3> QED BY <2>7, <3>2
    <2>11. S = T => Cardinality(pairs) = table[p].n /\ \A pair \in pairs : pair[1] = pair[2]
      <3> HIDE DEF S, T, pairs
      <3>1. CASE T = {}
        <4>1. Cardinality({}) = 0
          BY FS_EmptySet
        <4> QED BY <2>7, <3>1, <4>1
      <3>2. CASE T # {}
        BY <2>4, <2>7, <3>2
      <3> QED BY <3>1, <3>2
    <2> HIDE DEF pairs
    <2> QED BY <2>8, <2>9, <2>10, <2>11 DEF PairsOneTask, pairs
  <1> QED BY <1>1, <1>2 DEF ComparisonTrue

\* A list with one element put before it.
LEMMA OneBefore ==
  ASSUME NEW T, NEW b \in T, NEW s \in Seq(T), NEW more, more = <<b>> \o s
  PROVE  /\ more \in Seq(T) /\ Len(s) \in Nat /\ DOMAIN s = 1..Len(s)
         /\ DOMAIN more = 1..(Len(s) + 1) /\ more[1] = b
         /\ \A k \in 1..Len(s) : more[k + 1] = s[k]
  <1> DEFINE first == <<b>>
             n == Len(s)
  <1>1. first \in Seq(T) /\ Len(first) = 1 /\ first[1] = b
    OBVIOUS
  <1>2. more = first \o s
    OBVIOUS
  <1> HIDE DEF first
  <1>3. /\ first \o s \in Seq(T) /\ Len(first \o s) = Len(first) + Len(s)
        /\ \A k \in 1..(Len(first) + Len(s)) :
             (first \o s)[k] = IF k <= Len(first) THEN first[k] ELSE s[k - Len(first)]
    BY <1>1, ConcatProperties
  <1>4. n \in Nat /\ DOMAIN s = 1..n
    OBVIOUS
  <1>5. /\ more \in Seq(T) /\ Len(more) = 1 + n
        /\ \A k \in 1..(1 + n) : more[k] = IF k <= 1 THEN first[k] ELSE s[k - 1]
    BY <1>1, <1>2, <1>3
  <1>6. DOMAIN more = 1..(1 + n)
    BY <1>5
  <1> HIDE DEF n
  <1>7. /\ 1 \in 1..(1 + n) /\ 1 + n = n + 1
        /\ \A k \in 1..n : k + 1 \in 1..(1 + n) /\ ~(k + 1 <= 1) /\ (k + 1) - 1 = k
    BY <1>4
  <1>8. more[1] = b /\ \A k \in 1..n : more[k + 1] = s[k]
    BY <1>1, <1>5, <1>7
  <1> QED BY <1>4, <1>5, <1>6, <1>7, <1>8 DEF n

\* Every policy has its row; policies scored on the same tasks are compared task by
\* task; and nothing is significant that scored as the base did, or on fewer than two
\* tasks of both: for any tasks, ablations and scores.
THEOREM ComparisonsAreTrue == AblationSpec => []ComparisonTrue
  <1>1. AblationInit => AblationInv
    <2> SUFFICES ASSUME AblationInit PROVE AblationInv
      OBVIOUS
    <2>1. to_run = <<Base>> \o Ablations /\ quality = <<>> /\ table = <<>>
      BY DEF AblationInit
    <2>2. Ablations \in Seq(STRING) /\ Base \in STRING
      BY AblationAssumption
    <2> DEFINE n == Len(Ablations)
    <2>3. /\ n \in Nat /\ DOMAIN Ablations = 1..n /\ DOMAIN to_run = 1..(n + 1)
          /\ to_run \in Seq(STRING) /\ to_run[1] = Base
          /\ \A k \in 1..n : to_run[k + 1] = Ablations[k]
      <3>1. /\ to_run \in Seq(STRING) /\ Len(Ablations) \in Nat
            /\ DOMAIN Ablations = 1..Len(Ablations)
            /\ DOMAIN to_run = 1..(Len(Ablations) + 1) /\ to_run[1] = Base
            /\ \A k \in 1..Len(Ablations) : to_run[k + 1] = Ablations[k]
        <4> DEFINE Strings == STRING
        <4>1. to_run = <<Base>> \o Ablations
          BY <2>1
        <4>2. Base \in Strings /\ Ablations \in Seq(Strings)
          BY <2>2
        <4>3. Strings = STRING
          OBVIOUS
        <4> HIDE DEF Strings
        <4>4. /\ to_run \in Seq(Strings) /\ Len(Ablations) \in Nat
              /\ DOMAIN Ablations = 1..Len(Ablations)
              /\ DOMAIN to_run = 1..(Len(Ablations) + 1) /\ to_run[1] = Base
              /\ \A k \in 1..Len(Ablations) : to_run[k + 1] = Ablations[k]
          BY <4>1, <4>2, OneBefore
        <4> QED BY <4>3, <4>4
      <3> QED BY <3>1
    <2> HIDE DEF n
    <2>4. /\ 1 \in 1..(n + 1)
          /\ \A k \in 1..(n + 1) : k = 1 \/ (k - 1 \in 1..n /\ (k - 1) + 1 = k)
          /\ \A k \in 1..n : k + 1 \in 1..(n + 1)
      BY <2>3
    <2>5. ToSet(to_run) = {Base} \union ToSet(Ablations)
      <3>1. \A k \in 1..(n + 1) : to_run[k] \in {Base} \union ToSet(Ablations)
        <4> TAKE k \in 1..(n + 1)
        <4>1. CASE k = 1
          BY <2>3, <4>1
        <4>2. CASE k - 1 \in 1..n /\ (k - 1) + 1 = k
          BY <2>3, <4>2 DEF ToSet
        <4> QED BY <2>4, <4>1, <4>2
      <3>2. \A k \in 1..n : Ablations[k] \in ToSet(to_run)
        BY <2>3, <2>4 DEF ToSet
      <3>3. Base \in ToSet(to_run)
        BY <2>3, <2>4 DEF ToSet
      <3> QED BY <2>3, <3>1, <3>2, <3>3 DEF ToSet
    <2>6. DOMAIN quality = {} /\ ~Tabled
      BY <2>1 DEF Tabled
    <2> QED BY <2>3, <2>5, <2>6 DEF AblationInv
  <1>2. AblationInv /\ [AblationNext]_ablationVars => AblationInv'
    <2> SUFFICES ASSUME AblationInv, [AblationNext]_ablationVars PROVE AblationInv'
      OBVIOUS
    <2>1. CASE UNCHANGED ablationVars
      <3>1. to_run' = to_run /\ quality' = quality /\ table' = table
        BY <2>1 DEF ablationVars
      <3>2. Tabled' = Tabled /\ TaskScores' = TaskScores
        BY <3>1 DEF Tabled, TaskScores
      <3>3. \A p : RowOf(p)' <=> RowOf(p)
        <4> TAKE p
        <4>1. Scored(p)' = Scored(p) /\ Compared(p)' = Compared(p) /\ Pairs(p)' = Pairs(p)
          BY <3>1 DEF Scored, Compared, Pairs
        <4>2. Significances(p)' = Significances(p)
          BY <3>1, <4>1 DEF Significances, Differences
        <4> QED BY <3>1, <4>1, <4>2 DEF RowOf
      <3>4. \A p \in DOMAIN quality' : quality'[p] \in TaskScores'
        BY <3>1, <3>2 DEF AblationInv
      <3> QED BY <3>1, <3>2, <3>3, <3>4 DEF AblationInv
    <2> QED BY <2>1, RunPreserves, FormatPreserves DEF AblationNext
  <1>3. AblationInv => ComparisonTrue
    BY TableCompares
  <1> QED
    BY <1>1, <1>2, <1>3, PTL DEF AblationSpec

-----------------------------------------------------------------------------
\* Experiment: the sweep and the reports.

\* In a list of rows of L each, a later row begins where an earlier one has ended.
LEMMA RowsApart ==
  ASSUME NEW L \in Nat, NEW u \in Nat, NEW v \in Nat
  PROVE  /\ u * L \in Nat /\ v * L \in Nat
         /\ u < v => u * L + L <= v * L
  <1>1. u * L \in Nat /\ v * L \in Nat
    OBVIOUS
  <1>2. ASSUME u < v PROVE u * L + L <= v * L
    <2> DEFINE w == v - u - 1
    <2>1. w \in Nat /\ v = u + 1 + w
      BY <1>2
    <2> HIDE DEF w
    <2>2. v * L = u * L + L + w * L /\ w * L \in Nat
      BY <2>1
    <2> QED BY <1>1, <2>2
  <1> QED BY <1>1, <1>2

\* A number tells its row and its place there; of the numbers before one, those of its
\* row are behind the beginning of the row.
LEMMA RowAndPlace ==
  ASSUME NEW L \in Nat, NEW x \in Nat, NEW y \in Nat, NEW c \in 1..L, NEW d \in 1..L
  PROVE  /\ x * L + c = y * L + d => x = y /\ c = d
         /\ y * L + d < x * L + c => (x = y <=> x * L < y * L + d)
  <1>1. /\ x * L \in Nat /\ y * L \in Nat
        /\ x < y => x * L + L <= y * L
        /\ y < x => y * L + L <= x * L
    BY RowsApart
  <1>2. c \in Nat /\ d \in Nat /\ 0 < c /\ 0 < d /\ c <= L /\ d <= L
    OBVIOUS
  <1>3. x < y \/ x = y \/ y < x
    OBVIOUS
  <1> DEFINE xl == x * L
             yl == y * L
  <1> HIDE DEF xl, yl
  <1>4. xl + c = yl + d => ~(x < y) /\ ~(y < x)
    BY <1>1, <1>2 DEF xl, yl
  <1>5. xl + c = yl + d => x = y
    BY <1>3, <1>4
  <1>6. x = y => xl = yl
    BY DEF xl, yl
  <1>7. xl + c = yl + d => c = d
    BY <1>1, <1>2, <1>5, <1>6 DEF xl, yl
  <1>8. yl + d < xl + c => (x = y <=> xl < yl + d)
    <2>1. x = y => xl < yl + d
      BY <1>1, <1>2, <1>6 DEF xl, yl
    <2>2. x < y => ~(yl + d < xl + c)
      BY <1>1, <1>2 DEF xl, yl
    <2>3. y < x => ~(xl < yl + d)
      BY <1>1, <1>2 DEF xl, yl
    <2> QED BY <1>3, <2>1, <2>2, <2>3
  <1> QED BY <1>5, <1>7, <1>8 DEF xl, yl

PolicyCount(k) == Len(Suite[k].policies)
BudgetCount(k) == Len(Suite[k].budgets)
LevelCount(k) == Len(Suite[k].levels)
PerPolicy(k) == BudgetCount(k) * LevelCount(k)
SuitePolicies == UNION {Range(Suite[k].policies) : k \in DOMAIN Suite}

\* Every policy is run PerPolicy times, and there is a level to run at.
LEMMA PlanCounts ==
  ASSUME NEW k \in DOMAIN Suite
  PROVE  /\ PolicyCount(k) \in Nat /\ BudgetCount(k) \in Nat /\ LevelCount(k) \in Nat \ {0}
         /\ PerPolicy(k) \in Nat /\ (Suite[k].budgets = <<>> <=> BudgetCount(k) = 0)
         /\ DOMAIN Suite[k].policies = 1..PolicyCount(k)
         /\ DOMAIN Suite[k].budgets = 1..BudgetCount(k)
         /\ DOMAIN Suite[k].levels = 1..LevelCount(k)
         /\ \A a \in 1..PolicyCount(k) : Suite[k].policies[a] \in SuitePolicies
         /\ \A b \in 1..BudgetCount(k) : Suite[k].budgets[b] \in Nat
         /\ \A c \in 1..LevelCount(k) : Suite[k].levels[c] \in Nat
  <1>1. Suite[k] \in [policies : Seq(STRING), budgets : Seq(Nat), levels : Seq(Nat) \ {<<>>}]
    <2> DEFINE Plans == [policies : Seq(STRING), budgets : Seq(Nat), levels : Seq(Nat) \ {<<>>}]
    <2>1. Suite \in Seq(Plans)
      BY SuiteAssumption
    <2> HIDE DEF Plans
    <2>2. Suite[k] \in Plans
      BY <2>1
    <2> QED BY <2>2 DEF Plans
  <1>2. /\ Suite[k].policies \in Seq(STRING) /\ Suite[k].budgets \in Seq(Nat)
        /\ Suite[k].levels \in Seq(Nat) /\ Suite[k].levels # <<>>
    BY <1>1
  <1>3. /\ PolicyCount(k) \in Nat /\ BudgetCount(k) \in Nat /\ LevelCount(k) \in Nat \ {0}
        /\ (Suite[k].budgets = <<>> <=> BudgetCount(k) = 0)
    BY <1>2, EmptySeq DEF PolicyCount, BudgetCount, LevelCount
  <1>4. /\ DOMAIN Suite[k].policies = 1..PolicyCount(k)
        /\ DOMAIN Suite[k].budgets = 1..BudgetCount(k)
        /\ DOMAIN Suite[k].levels = 1..LevelCount(k)
    BY <1>2 DEF PolicyCount, BudgetCount, LevelCount
  <1>5. \A a \in 1..PolicyCount(k) : Suite[k].policies[a] \in SuitePolicies
    <2> TAKE a \in 1..PolicyCount(k)
    <2>1. Suite[k].policies[a] \in Range(Suite[k].policies)
      BY <1>4 DEF Range
    <2> QED BY <2>1 DEF SuitePolicies
  <1>6. \A b \in 1..BudgetCount(k) : Suite[k].budgets[b] \in Nat
    <2> DEFINE budgets == Suite[k].budgets
    <2>1. budgets \in Seq(Nat) /\ DOMAIN budgets = 1..BudgetCount(k)
      BY <1>2, <1>4
    <2> HIDE DEF budgets
    <2>2. DOMAIN budgets = 1..Len(budgets)
      BY <2>1
    <2>3. \A b \in 1..Len(budgets) : budgets[b] \in Nat
      BY <2>1, ElementOfSeq
    <2>4. \A b \in 1..BudgetCount(k) : budgets[b] \in Nat
      BY <2>1, <2>2, <2>3
    <2> QED BY <2>4 DEF budgets
  <1>7. \A c \in 1..LevelCount(k) : Suite[k].levels[c] \in Nat
    <2> DEFINE levels == Suite[k].levels
    <2>1. levels \in Seq(Nat) /\ DOMAIN levels = 1..LevelCount(k)
      BY <1>2, <1>4
    <2> HIDE DEF levels
    <2>2. DOMAIN levels = 1..Len(levels)
      BY <2>1
    <2>3. \A c \in 1..Len(levels) : levels[c] \in Nat
      BY <2>1, ElementOfSeq
    <2>4. \A c \in 1..LevelCount(k) : levels[c] \in Nat
      BY <2>1, <2>2, <2>3
    <2> QED BY <2>4 DEF levels
  <1>8. PerPolicy(k) \in Nat
    BY <1>3 DEF PerPolicy
  <1> QED BY <1>3, <1>4, <1>5, <1>6, <1>7, <1>8

RunRecords == [policy : SuitePolicies, budget : Nat, level : Nat, quality : Qualities,
               under : {Launched}, peak : Peaks]

\* The number a combination has in the sweep of experiment k.
Number(k, a, b, c) == (a - 1) * PerPolicy(k) + ((b - 1) * LevelCount(k) + c)

HasNumber(k, n, a, b, c) ==
  /\ a \in 1..PolicyCount(k) /\ b \in 1..BudgetCount(k) /\ c \in 1..LevelCount(k)
  /\ n = Number(k, a, b, c)
  /\ benchmarks[k][n].policy = Suite[k].policies[a]
  /\ benchmarks[k][n].budget = Suite[k].budgets[b]
  /\ benchmarks[k][n].level = Suite[k].levels[c]

\* Where the loops are: in range, or past the last policy.
AtInv ==
  /\ at \in Nat \X Nat \X Nat
  /\ Sweeping =>
       IF Plan.budgets = <<>> THEN at = <<1, 1, 1>>
       ELSE /\ at[1] \in 1..(PolicyCount(experiment) + 1) /\ at[2] \in 1..BudgetCount(experiment)
            /\ at[3] \in 1..LevelCount(experiment)
            /\ at[1] = PolicyCount(experiment) + 1 => at[2] = 1 /\ at[3] = 1

\* Run n of an experiment is the combination with number n; the experiments before have
\* run all of theirs, the one being run those before `at', and the others none.
SweepInv ==
  /\ experiment \in 1..(Len(Suite) + 1) /\ active = Launched /\ AtInv
  /\ benchmarks \in [DOMAIN Suite -> Seq(RunRecords)]
  /\ \A k \in DOMAIN Suite :
       /\ k < experiment => Len(benchmarks[k]) = PolicyCount(k) * PerPolicy(k)
       /\ k = experiment => Len(benchmarks[k]) + 1 = Number(k, at[1], at[2], at[3])
       /\ k > experiment => benchmarks[k] = <<>>
       /\ \A n \in DOMAIN benchmarks[k] : \E a, b, c \in Nat : HasNumber(k, n, a, b, c)

\* A number is that of one combination, and none is beyond the last.
LEMMA NumberTells ==
  ASSUME NEW k \in DOMAIN Suite,
         NEW a \in 1..PolicyCount(k), NEW b \in 1..BudgetCount(k), NEW c \in 1..LevelCount(k)
  PROVE  /\ (b - 1) * LevelCount(k) + c \in 1..PerPolicy(k)
         /\ Number(k, a, b, c) \in 1..(PolicyCount(k) * PerPolicy(k))
         /\ \A e \in 1..PolicyCount(k), f \in 1..BudgetCount(k), g \in 1..LevelCount(k) :
              /\ (b - 1) * LevelCount(k) + c = (f - 1) * LevelCount(k) + g => b = f /\ c = g
              /\ Number(k, a, b, c) = Number(k, e, f, g) => a = e /\ b = f /\ c = g
  <1> DEFINE P == PolicyCount(k)
             B == BudgetCount(k)
             L == LevelCount(k)
             M == PerPolicy(k)
  <1>1. P \in Nat /\ B \in Nat /\ L \in Nat \ {0} /\ M \in Nat /\ M = B * L
    BY PlanCounts DEF PerPolicy
  <1>2. /\ \A n \in 1..P : n - 1 \in Nat /\ n \in Nat /\ n <= P
        /\ \A n \in 1..B : n - 1 \in Nat /\ n \in Nat /\ n <= B
        /\ \A n \in 1..L : n \in Nat /\ 1 <= n /\ n <= L
    BY <1>1
  <1>3. a \in 1..P /\ b \in 1..B /\ c \in 1..L
    OBVIOUS
  <1> HIDE DEF P, B, L, M
  <1>4. \A f \in 1..B, g \in 1..L : (f - 1) * L + g \in 1..M
    <2> SUFFICES ASSUME NEW f \in 1..B, NEW g \in 1..L PROVE (f - 1) * L + g \in 1..M
      OBVIOUS
    <2> DEFINE rest == B - f
    <2>1. rest \in Nat /\ B = f + rest /\ f - 1 \in Nat /\ f \in Nat /\ g \in Nat /\ 1 <= g /\ g <= L
      BY <1>1, <1>2
    <2> HIDE DEF rest
    <2>2. M = (f - 1) * L + L + rest * L /\ rest * L \in Nat /\ (f - 1) * L \in Nat
      BY <1>1, <2>1
    <2> QED BY <1>1, <2>1, <2>2
  <1>5. \A e \in 1..P, r \in 1..M : (e - 1) * M + r \in 1..(P * M)
    <2> SUFFICES ASSUME NEW e \in 1..P, NEW r \in 1..M PROVE (e - 1) * M + r \in 1..(P * M)
      OBVIOUS
    <2> DEFINE rest == P - e
    <2>1. rest \in Nat /\ P = e + rest /\ e - 1 \in Nat /\ e \in Nat /\ r \in Nat /\ 1 <= r /\ r <= M
      BY <1>1, <1>2
    <2> HIDE DEF rest
    <2>2. P * M = (e - 1) * M + M + rest * M /\ rest * M \in Nat /\ (e - 1) * M \in Nat
      BY <1>1, <2>1
    <2> QED BY <1>1, <2>1, <2>2
  <1>6. ASSUME NEW e \in 1..P, NEW f \in 1..B, NEW g \in 1..L
        PROVE  /\ (b - 1) * L + c = (f - 1) * L + g => b = f /\ c = g
               /\ (a - 1) * M + ((b - 1) * L + c) = (e - 1) * M + ((f - 1) * L + g)
                    => a = e /\ b = f /\ c = g
    <2>1. /\ a - 1 \in Nat /\ e - 1 \in Nat /\ b - 1 \in Nat /\ f - 1 \in Nat
          /\ a \in Nat /\ e \in Nat /\ b \in Nat /\ f \in Nat
      BY <1>2, <1>3
    <2>2. (b - 1) * L + c = (f - 1) * L + g => b - 1 = f - 1 /\ c = g
      BY <1>1, <1>3, <2>1, RowAndPlace
    <2> DEFINE r == (b - 1) * L + c
               s == (f - 1) * L + g
    <2>3. r \in 1..M /\ s \in 1..M
      BY <1>3, <1>4
    <2> HIDE DEF r, s
    <2>4. (a - 1) * M + r = (e - 1) * M + s => a - 1 = e - 1 /\ r = s
      BY <1>1, <2>1, <2>3, RowAndPlace
    <2>5. (a - 1 = e - 1 => a = e) /\ (b - 1 = f - 1 => b = f)
      BY <2>1
    <2> QED BY <2>2, <2>4, <2>5 DEF r, s
  <1> QED BY <1>3, <1>4, <1>5, <1>6 DEF Number, P, B, L, M

-----------------------------------------------------------------------------
\* The first combination, where every list restarts.
LEMMA FirstNumber ==
  ASSUME NEW k \in DOMAIN Suite
  PROVE  /\ Number(k, 1, 1, 1) = 1
         /\ Suite[k].budgets # <<>> => /\ 1 \in 1..(PolicyCount(k) + 1)
                                       /\ 1 \in 1..BudgetCount(k) /\ 1 \in 1..LevelCount(k)
  <1>1. /\ PolicyCount(k) \in Nat /\ BudgetCount(k) \in Nat /\ LevelCount(k) \in Nat \ {0}
        /\ PerPolicy(k) \in Nat /\ (Suite[k].budgets = <<>> <=> BudgetCount(k) = 0)
    BY PlanCounts
  <1>2. (1 - 1) * PerPolicy(k) = 0 /\ (1 - 1) * LevelCount(k) = 0
    BY <1>1
  <1> QED BY <1>1, <1>2 DEF Number

\* Before the first run there is none.
LEMMA SweepInitInv == ASSUME SweepInit PROVE SweepInv
  <1>1. /\ experiment = 1 /\ at = <<1, 1, 1>> /\ active = Launched
        /\ benchmarks = [k \in DOMAIN Suite |-> <<>>]
    BY DEF SweepInit
  <1>2. Len(Suite) \in Nat /\ DOMAIN Suite = 1..Len(Suite)
    BY SuiteAssumption
  <1>3. experiment \in 1..(Len(Suite) + 1)
    BY <1>1, <1>2
  <1>4. AtInv /\ \A k \in DOMAIN Suite : Number(k, at[1], at[2], at[3]) = 1
    <2>1. at \in Nat \X Nat \X Nat /\ at[1] = 1 /\ at[2] = 1 /\ at[3] = 1
      BY <1>1
    <2>2. Sweeping => experiment \in DOMAIN Suite /\ Plan = Suite[experiment]
      BY DEF Sweeping, Plan
    <2> QED BY <1>1, <2>1, <2>2, FirstNumber DEF AtInv
  <1>5. benchmarks \in [DOMAIN Suite -> Seq(RunRecords)]
    BY <1>1
  <1>6. \A k \in DOMAIN Suite : /\ benchmarks[k] = <<>> /\ DOMAIN benchmarks[k] = {}
                                /\ Len(benchmarks[k]) = 0 /\ ~(k < experiment)
    BY <1>1, <1>2
  <1> QED BY <1>1, <1>3, <1>4, <1>5, <1>6 DEF SweepInv

\* The loops advance by one number.
LEMMA NextNumber ==
  ASSUME SweepInv, InSweep, at' = NextAt, UNCHANGED experiment
  PROVE  /\ AtInv'
         /\ at[1] \in 1..PolicyCount(experiment) /\ at[2] \in 1..BudgetCount(experiment)
         /\ at[3] \in 1..LevelCount(experiment)
         /\ Number(experiment, at[1], at[2], at[3]) \in Nat
         /\ Number(experiment, at[1], at[2], at[3])' = Number(experiment, at[1], at[2], at[3]) + 1
  <1> DEFINE k == experiment
             P == PolicyCount(k)
             B == BudgetCount(k)
             L == LevelCount(k)
             M == PerPolicy(k)
             Num(a, b, c) == (a - 1) * M + ((b - 1) * L + c)
  <1>1. /\ k \in DOMAIN Suite /\ Plan = Suite[k] /\ Plan.budgets # <<>> /\ at[1] \in DOMAIN Plan.policies
    BY DEF InSweep, Sweeping, Plan
  <1>2. /\ P \in Nat /\ B \in Nat /\ L \in Nat \ {0} /\ M \in Nat /\ M = B * L
        /\ DOMAIN Plan.policies = 1..P /\ Len(Plan.budgets) = B /\ Len(Plan.levels) = L
    BY <1>1, PlanCounts DEF PerPolicy, BudgetCount, LevelCount
  <1>3. at \in Nat \X Nat \X Nat /\ at[1] \in 1..P /\ at[2] \in 1..B /\ at[3] \in 1..L
    BY <1>1, <1>2 DEF SweepInv, AtInv, Sweeping
  <1>4. at' = IF at[3] < L THEN <<at[1], at[2], at[3] + 1>>
              ELSE IF at[2] < B THEN <<at[1], at[2] + 1, 1>>
              ELSE <<at[1] + 1, 1, 1>>
    BY <1>2 DEF NextAt
  <1> HIDE DEF P, B, L, M
  <1>5. /\ at'[1] \in 1..(P + 1) /\ at'[2] \in 1..B /\ at'[3] \in 1..L
        /\ at'[1] = P + 1 => at'[2] = 1 /\ at'[3] = 1
        /\ at' \in Nat \X Nat \X Nat
    <2>1. CASE at[3] < L
      BY <1>2, <1>3, <1>4, <2>1
    <2>2. CASE ~(at[3] < L) /\ at[2] < B
      BY <1>2, <1>3, <1>4, <2>2
    <2>3. CASE ~(at[3] < L) /\ ~(at[2] < B)
      BY <1>2, <1>3, <1>4, <2>3
    <2> QED BY <2>1, <2>2, <2>3
  <1>6. Num(at[1], at[2], at[3]) \in Nat /\ Num(at'[1], at'[2], at'[3]) = Num(at[1], at[2], at[3]) + 1
    <2>1. /\ at[1] \in Nat /\ at[1] - 1 \in Nat /\ at[2] \in Nat /\ at[2] - 1 \in Nat /\ at[3] \in Nat
          /\ at[2] <= B /\ at[3] <= L
      BY <1>2, <1>3
    <2>2. (at[1] - 1) * M \in Nat /\ (at[2] - 1) * L \in Nat
      <3>1. \A x, y \in Nat : x * y \in Nat
        OBVIOUS
      <3>2. at[1] - 1 \in Nat /\ at[2] - 1 \in Nat /\ M \in Nat /\ L \in Nat
        BY <1>2, <2>1
      <3> QED BY <3>1, <3>2, Zenon
    <2>3. CASE at[3] < L
      <3>1. at'[1] = at[1] /\ at'[2] = at[2] /\ at'[3] = at[3] + 1
        BY <1>4, <2>3
      <3> QED BY <2>1, <2>2, <3>1
    <2>4. CASE ~(at[3] < L) /\ at[2] < B
      <3>1. at'[1] = at[1] /\ at'[2] = at[2] + 1 /\ at'[3] = 1
        BY <1>4, <2>4
      <3>2. at[3] = L
        BY <1>2, <2>1, <2>4
      <3>3. (at'[2] - 1) * L = (at[2] - 1) * L + L
        BY <1>2, <2>1, <3>1
      <3> QED BY <2>1, <2>2, <3>1, <3>2, <3>3
    <2>5. CASE ~(at[3] < L) /\ ~(at[2] < B)
      <3>1. at'[1] = at[1] + 1 /\ at'[2] = 1 /\ at'[3] = 1
        BY <1>4, <2>5
      <3>2. at[3] = L /\ at[2] = B
        BY <1>2, <2>1, <2>5
      <3>3. (at'[1] - 1) * M = (at[1] - 1) * M + M /\ (at'[2] - 1) * L = 0
        BY <1>2, <2>1, <3>1
      <3>4. M = (at[2] - 1) * L + L
        BY <1>2, <2>1, <3>2
      <3> QED BY <1>2, <2>1, <2>2, <3>1, <3>2, <3>3, <3>4
    <2> QED BY <2>3, <2>4, <2>5
  <1>7. AtInv'
    <2>1. Plan' = Plan /\ Sweeping' = Sweeping
      BY DEF Plan, Sweeping
    <2> QED BY <1>1, <1>5, <2>1 DEF AtInv, P, B, L
  <1>8. /\ Number(k, at[1], at[2], at[3]) = Num(at[1], at[2], at[3])
        /\ Number(k, at[1], at[2], at[3])' = Num(at'[1], at'[2], at'[3])
    BY DEF Number, M, L
  <1> HIDE DEF Num
  <1> QED BY <1>3, <1>6, <1>7, <1>8 DEF P, B, L

\* A call to switch changes no run, answered or lost.
LEMMA SetPolicyPreserves == ASSUME SweepInv, SetPolicy PROVE SweepInv'
  <1>1. UNCHANGED <<experiment, at, active, benchmarks>>
    BY DEF SetPolicy, OverrideAnswered, OverrideLost
  <1>2. AtInv' = AtInv
    BY <1>1 DEF AtInv, Sweeping, Plan
  <1>3. \A k, n, a, b, c : HasNumber(k, n, a, b, c)' = HasNumber(k, n, a, b, c)
    BY <1>1 DEF HasNumber, Number
  <1>4. \A k : Number(k, at[1], at[2], at[3])' = Number(k, at[1], at[2], at[3])
    BY <1>1 DEF Number
  <1> QED BY <1>1, <1>2, <1>3, <1>4 DEF SweepInv

\* A run is appended to those of its experiment.
LEMMA RunAppends ==
  ASSUME SweepInv, RunBenchmark
  PROVE  /\ experiment \in DOMAIN Suite
         /\ \E b \in RunRecords :
              /\ b.policy = Plan.policies[at[1]] /\ b.budget = Plan.budgets[at[2]]
              /\ b.level = Plan.levels[at[3]]
              /\ benchmarks' = [benchmarks EXCEPT ![experiment] = Append(@, b)]
              /\ points' = Append(points, Point(b))
         /\ at' = NextAt /\ UNCHANGED <<experiment, active, reports>> /\ InSweep
  <1>1. PICK score \in Qualities, peak \in Peaks :
          /\ benchmarks' = [benchmarks EXCEPT ![experiment] = Append(@, Benchmark(score, peak))]
          /\ points' = Append(points, Point(Benchmark(score, peak)))
    BY DEF RunBenchmark
  <1> DEFINE b == Benchmark(score, peak)
  <1>2. InSweep /\ experiment \in DOMAIN Suite /\ at' = NextAt /\ UNCHANGED <<experiment, active, reports>>
    BY DEF RunBenchmark, InSweep, Sweeping
  <1>3. /\ at[1] \in 1..PolicyCount(experiment) /\ at[2] \in 1..BudgetCount(experiment)
        /\ at[3] \in 1..LevelCount(experiment)
    BY <1>2, NextNumber
  <1>4. /\ Plan.policies[at[1]] \in SuitePolicies /\ Plan.budgets[at[2]] \in Nat
        /\ Plan.levels[at[3]] \in Nat
    BY <1>2, <1>3, PlanCounts DEF Plan
  <1>5. active \in {Launched}
    BY DEF SweepInv
  <1>6. b \in RunRecords /\ b.policy = Plan.policies[at[1]] /\ b.budget = Plan.budgets[at[2]]
        /\ b.level = Plan.levels[at[3]]
    BY <1>4, <1>5 DEF Benchmark, RunRecords
  <1> QED BY <1>1, <1>2, <1>6

\* A list with a run more.
LEMMA RunMore ==
  ASSUME SweepInv, experiment \in DOMAIN Suite, NEW b \in RunRecords,
         benchmarks' = [benchmarks EXCEPT ![experiment] = Append(@, b)]
  PROVE  LET n == Len(benchmarks[experiment])
         IN /\ n \in Nat /\ DOMAIN benchmarks[experiment] = 1..n /\ n + 1 \notin 1..n
            /\ benchmarks' \in [DOMAIN Suite -> Seq(RunRecords)]
            /\ \A k \in DOMAIN Suite : k # experiment => benchmarks'[k] = benchmarks[k]
            /\ Len(benchmarks'[experiment]) = n + 1
            /\ DOMAIN benchmarks'[experiment] = 1..n \union {n + 1}
            /\ \A i \in 1..n : benchmarks'[experiment][i] = benchmarks[experiment][i]
            /\ benchmarks'[experiment][n + 1] = b
  <1> DEFINE list == benchmarks[experiment]
             n == Len(list)
             more == Append(list, b)
  <1>1. benchmarks \in [DOMAIN Suite -> Seq(RunRecords)] /\ list \in Seq(RunRecords)
    BY DEF SweepInv
  <1>2. benchmarks'[experiment] = more /\ \A k \in DOMAIN Suite : k # experiment => benchmarks'[k] = benchmarks[k]
    BY <1>1
  <1> HIDE DEF list
  <1>3. /\ n \in Nat /\ DOMAIN list = 1..n /\ n + 1 \notin 1..n /\ more \in Seq(RunRecords)
        /\ Len(more) = n + 1 /\ DOMAIN more = 1..(n + 1)
        /\ \A i \in 1..n : more[i] = list[i]
        /\ more[n + 1] = b
    BY <1>1
  <1> HIDE DEF more, n
  <1>4. 1..(n + 1) = 1..n \union {n + 1}
    BY <1>3
  <1>5. benchmarks' \in [DOMAIN Suite -> Seq(RunRecords)]
    BY <1>1, <1>2, <1>3
  <1> QED BY <1>2, <1>3, <1>4, <1>5 DEF list, n

\* A run has the number that was to come.
LEMMA RunPreservesSweep == ASSUME SweepInv, RunBenchmark PROVE SweepInv'
  <1> DEFINE e == experiment
             n == Len(benchmarks[e])
  <1>1. PICK r \in RunRecords :
          /\ r.policy = Plan.policies[at[1]] /\ r.budget = Plan.budgets[at[2]]
          /\ r.level = Plan.levels[at[3]]
          /\ benchmarks' = [benchmarks EXCEPT ![experiment] = Append(@, r)]
    BY RunAppends
  <1>2. e \in DOMAIN Suite /\ at' = NextAt /\ e' = e /\ active' = active /\ InSweep
    BY RunAppends
  <1>3. /\ AtInv' /\ at[1] \in 1..PolicyCount(e) /\ at[2] \in 1..BudgetCount(e)
        /\ at[3] \in 1..LevelCount(e) /\ Number(e, at[1], at[2], at[3]) \in Nat
        /\ Number(e, at'[1], at'[2], at'[3]) = Number(e, at[1], at[2], at[3]) + 1
    BY <1>2, NextNumber DEF Number
  <1>4. /\ n \in Nat /\ DOMAIN benchmarks[e] = 1..n
        /\ benchmarks' \in [DOMAIN Suite -> Seq(RunRecords)]
        /\ \A k \in DOMAIN Suite : k # e => benchmarks'[k] = benchmarks[k]
        /\ Len(benchmarks'[e]) = n + 1
        /\ DOMAIN benchmarks'[e] = 1..n \union {n + 1}
        /\ \A i \in 1..n : benchmarks'[e][i] = benchmarks[e][i]
        /\ benchmarks'[e][n + 1] = r
    BY <1>1, <1>2, RunMore
  <1>5. n + 1 = Number(e, at[1], at[2], at[3])
    BY <1>2 DEF SweepInv
  <1> HIDE DEF n, e
  <1>6. \A k \in DOMAIN Suite : \A i \in DOMAIN benchmarks'[k] :
          \E a, b, c \in Nat : HasNumber(k, i, a, b, c)'
    <2> TAKE k \in DOMAIN Suite
    <2> TAKE i \in DOMAIN benchmarks'[k]
    <2>1. CASE k = e /\ i = n + 1
      <3>1. PICK a \in 1..PolicyCount(e), b \in 1..BudgetCount(e), c \in 1..LevelCount(e) :
              a = at[1] /\ b = at[2] /\ c = at[3]
        BY <1>3
      <3>2. a \in Nat /\ b \in Nat /\ c \in Nat
        <4>1. PolicyCount(e) \in Nat /\ BudgetCount(e) \in Nat /\ LevelCount(e) \in Nat
          BY <1>2, PlanCounts
        <4> QED BY <3>1, <4>1
      <3>3. benchmarks'[e][n + 1] = r /\ Plan = Suite[e] /\ n + 1 = Number(e, a, b, c)
        BY <1>4, <1>5, <3>1 DEF Plan, e
      <3>4. HasNumber(k, i, a, b, c)'
        BY <1>1, <2>1, <3>1, <3>3 DEF HasNumber, Number
      <3> QED BY <3>2, <3>4
    <2>2. CASE ~(k = e /\ i = n + 1)
      <3>1. i \in DOMAIN benchmarks[k] /\ benchmarks'[k][i] = benchmarks[k][i]
        BY <1>4, <2>2
      <3>2. PICK a, b, c \in Nat : HasNumber(k, i, a, b, c)
        BY <3>1 DEF SweepInv
      <3>3. HasNumber(k, i, a, b, c)'
        BY <3>1, <3>2 DEF HasNumber, Number
      <3> QED BY <3>3
    <2> QED BY <2>1, <2>2
  <1>7. experiment' = e /\ experiment = e /\ active' = Launched
    BY <1>2 DEF SweepInv, e
  <1>8. e \in Int /\ e \in 1..(Len(Suite) + 1)
    BY <1>7 DEF SweepInv
  <1>9. ASSUME NEW k \in DOMAIN Suite
        PROVE  /\ k < e => Len(benchmarks'[k]) = PolicyCount(k) * PerPolicy(k)
               /\ k = e => Len(benchmarks'[k]) + 1 = Number(k, at'[1], at'[2], at'[3])
               /\ k > e => benchmarks'[k] = <<>>
    <2>1. CASE k = e
      <3>1. ~(k < e) /\ ~(k > e)
        BY <1>8, <2>1
      <3> QED BY <1>3, <1>4, <1>5, <2>1, <3>1
    <2>2. CASE k # e
      BY <1>4, <1>7, <2>2 DEF SweepInv
    <2> QED BY <2>1, <2>2
  <1>10. \A k : Number(k, at[1], at[2], at[3])' = Number(k, at'[1], at'[2], at'[3])
    BY DEF Number
  <1> QED BY <1>3, <1>4, <1>6, <1>7, <1>8, <1>9, <1>10 DEF SweepInv

\* An experiment ends when its loops do.
LEMMA FinishPreservesSweep == ASSUME SweepInv, FinishExperiment PROVE SweepInv'
  <1> DEFINE e == experiment
  <1>1. /\ e \in DOMAIN Suite /\ ~InSweep /\ experiment' = e + 1 /\ at' = <<1, 1, 1>>
        /\ active' = active /\ benchmarks' = benchmarks
    BY DEF FinishExperiment, Sweeping
  <1>2. Len(Suite) \in Nat /\ DOMAIN Suite = 1..Len(Suite)
    BY SuiteAssumption
  <1>3. experiment' \in 1..(Len(Suite) + 1) /\ e \in Nat
    BY <1>1, <1>2
  <1>4. AtInv' /\ \A k \in DOMAIN Suite : Number(k, at[1], at[2], at[3])' = 1
    <2>1. at' \in Nat \X Nat \X Nat /\ at'[1] = 1 /\ at'[2] = 1 /\ at'[3] = 1
      BY <1>1
    <2>2. Sweeping' => experiment' \in DOMAIN Suite /\ Plan' = Suite[experiment']
      BY DEF Sweeping, Plan
    <2>3. \A k \in DOMAIN Suite : Number(k, at[1], at[2], at[3])' = Number(k, 1, 1, 1)
      BY <2>1 DEF Number
    <2>4. AtInv'
      BY <1>1, <2>1, <2>2, FirstNumber DEF AtInv
    <2> QED BY <2>3, <2>4, FirstNumber
  <1>5. Len(benchmarks[e]) = PolicyCount(e) * PerPolicy(e)
    <2> DEFINE P == PolicyCount(e)
               M == PerPolicy(e)
    <2>1. /\ P \in Nat /\ M \in Nat /\ BudgetCount(e) \in Nat /\ LevelCount(e) \in Nat
          /\ DOMAIN Plan.policies = 1..P /\ (Plan.budgets = <<>> <=> BudgetCount(e) = 0)
          /\ M = BudgetCount(e) * LevelCount(e)
      BY <1>1, PlanCounts DEF Plan, PerPolicy
    <2>2. Len(benchmarks[e]) + 1 = Number(e, at[1], at[2], at[3]) /\ Len(benchmarks[e]) \in Nat
      <3>1. benchmarks[e] \in Seq(RunRecords)
        BY <1>1 DEF SweepInv
      <3>2. Len(benchmarks[e]) \in Nat
        BY <3>1
      <3> QED BY <1>1, <3>2 DEF SweepInv
    <2> HIDE DEF P, M
    <2>3. Number(e, at[1], at[2], at[3]) = (at[1] - 1) * M + ((at[2] - 1) * LevelCount(e) + at[3])
      BY DEF Number, M
    <2>4. CASE Plan.budgets = <<>>
      <3>1. at[1] = 1 /\ at[2] = 1 /\ at[3] = 1 /\ M = 0
        BY <1>1, <2>1, <2>4 DEF SweepInv, AtInv, Sweeping
      <3>2. P * M = 0 /\ (1 - 1) * M = 0 /\ (1 - 1) * LevelCount(e) = 0
        BY <2>1, <3>1
      <3> QED BY <2>2, <2>3, <3>1, <3>2 DEF P, M
    <2>5. CASE Plan.budgets # <<>>
      <3>1. at[1] \in 1..(P + 1) /\ (at[1] = P + 1 => at[2] = 1 /\ at[3] = 1) /\ at[1] \notin 1..P
        BY <1>1, <2>1, <2>5 DEF SweepInv, AtInv, Sweeping, InSweep, P
      <3>2. at[1] = P + 1 /\ at[2] = 1 /\ at[3] = 1
        BY <2>1, <3>1
      <3>3. (at[1] - 1) * M = P * M /\ (at[2] - 1) * LevelCount(e) = 0 /\ P * M \in Nat
        BY <2>1, <3>2
      <3> QED BY <2>2, <2>3, <3>2, <3>3 DEF P, M
    <2> QED BY <2>4, <2>5
  <1>6. \A k, i, a, b, c : HasNumber(k, i, a, b, c)' <=> HasNumber(k, i, a, b, c)
    BY <1>1 DEF HasNumber, Number
  <1>7. ASSUME NEW k \in DOMAIN Suite
        PROVE  /\ k < e + 1 => Len(benchmarks[k]) = PolicyCount(k) * PerPolicy(k)
               /\ k > e => benchmarks[k] = <<>>
    <2>1. k \in Nat /\ (k < e + 1 => k < e \/ k = e)
      BY <1>2, <1>3
    <2> QED BY <1>5, <2>1 DEF SweepInv
  <1>8. ASSUME NEW k \in DOMAIN Suite, k = e + 1 PROVE Len(benchmarks[k]) + 1 = 1
    <2>1. k > e
      BY <1>3, <1>8
    <2> QED BY <1>7, <2>1
  <1>9. \A k \in DOMAIN Suite : k > e + 1 => k > e
    BY <1>2, <1>3
  <1>10. \A k \in DOMAIN Suite : \A i \in DOMAIN benchmarks[k] :
           \E a, b, c \in Nat : HasNumber(k, i, a, b, c)'
    BY <1>6 DEF SweepInv
  <1> HIDE DEF e
  <1>11. active' = Launched /\ benchmarks' \in [DOMAIN Suite -> Seq(RunRecords)]
    BY <1>1 DEF SweepInv
  <1> QED BY <1>1, <1>3, <1>4, <1>7, <1>8, <1>9, <1>10, <1>11 DEF SweepInv

-----------------------------------------------------------------------------
\* An experiment that ended ran every combination once.
LEMMA SweptAll == ASSUME SweepInv PROVE MatrixComplete
  <1> SUFFICES ASSUME NEW k \in DOMAIN Suite, Ended(k)
               PROVE  /\ {<<benchmarks[k][n].policy, benchmarks[k][n].budget, benchmarks[k][n].level>> :
                           n \in DOMAIN benchmarks[k]}
                           = Range(Suite[k].policies) \X Range(Suite[k].budgets) \X Range(Suite[k].levels)
                      /\ Len(benchmarks[k]) = Len(Suite[k].policies) * Len(Suite[k].budgets)
                                                * Len(Suite[k].levels)
    BY DEF MatrixComplete
  <1> DEFINE P == PolicyCount(k)
             B == BudgetCount(k)
             L == LevelCount(k)
             M == PerPolicy(k)
             Row(n) == <<benchmarks[k][n].policy, benchmarks[k][n].budget, benchmarks[k][n].level>>
  <1>1. /\ P \in Nat /\ B \in Nat /\ L \in Nat /\ M = B * L
        /\ DOMAIN Suite[k].policies = 1..P /\ DOMAIN Suite[k].budgets = 1..B
        /\ DOMAIN Suite[k].levels = 1..L
    BY PlanCounts DEF PerPolicy
  <1>2. /\ Len(benchmarks[k]) = P * M /\ DOMAIN benchmarks[k] = 1..(P * M)
        /\ \A n \in DOMAIN benchmarks[k] : \E a, b, c \in Nat : HasNumber(k, n, a, b, c)
    <2>1. benchmarks[k] \in Seq(RunRecords) /\ Len(benchmarks[k]) = P * M
      BY DEF SweepInv, Ended
    <2>2. DOMAIN benchmarks[k] = 1..Len(benchmarks[k])
      BY <2>1
    <2> QED BY <2>1, <2>2 DEF SweepInv
  <1>3. Len(benchmarks[k]) = Len(Suite[k].policies) * Len(Suite[k].budgets) * Len(Suite[k].levels)
    <2>1. P * (B * L) = P * B * L
      BY <1>1
    <2>2. Len(benchmarks[k]) = P * B * L
      BY <1>1, <1>2, <2>1
    <2> QED BY <2>2 DEF PolicyCount, BudgetCount, LevelCount
  <1>4. ASSUME NEW n \in DOMAIN benchmarks[k]
        PROVE  Row(n) \in Range(Suite[k].policies) \X Range(Suite[k].budgets) \X Range(Suite[k].levels)
    <2>1. PICK a, b, c \in Nat : HasNumber(k, n, a, b, c)
      BY <1>2
    <2>2. /\ Row(n) = <<Suite[k].policies[a], Suite[k].budgets[b], Suite[k].levels[c]>>
          /\ a \in 1..P /\ b \in 1..B /\ c \in 1..L
      BY <2>1 DEF HasNumber
    <2> HIDE DEF P, B, L, Row
    <2>3. /\ Suite[k].policies[a] \in Range(Suite[k].policies)
          /\ Suite[k].budgets[b] \in Range(Suite[k].budgets)
          /\ Suite[k].levels[c] \in Range(Suite[k].levels)
      BY <1>1, <2>2 DEF Range
    <2> QED BY <2>2, <2>3
  <1>5. ASSUME NEW a \in 1..P, NEW b \in 1..B, NEW c \in 1..L
        PROVE  \E n \in DOMAIN benchmarks[k] :
                 Row(n) = <<Suite[k].policies[a], Suite[k].budgets[b], Suite[k].levels[c]>>
    <2> DEFINE n == Number(k, a, b, c)
    <2>1. n \in DOMAIN benchmarks[k]
      BY <1>2, NumberTells
    <2>2. PICK e, f, g \in Nat : HasNumber(k, n, e, f, g)
      BY <1>2, <2>1
    <2>3. e \in 1..P /\ f \in 1..B /\ g \in 1..L /\ n = Number(k, e, f, g)
      BY <2>2 DEF HasNumber
    <2>4. a = e /\ b = f /\ c = g
      BY <2>3, NumberTells
    <2> QED BY <2>1, <2>2, <2>4 DEF HasNumber
  <1>6. ASSUME NEW t \in Range(Suite[k].policies) \X Range(Suite[k].budgets) \X Range(Suite[k].levels)
        PROVE  \E n \in DOMAIN benchmarks[k] : t = Row(n)
    <2>1. PICK p \in Range(Suite[k].policies), q \in Range(Suite[k].budgets), r \in Range(Suite[k].levels) :
            t = <<p, q, r>>
      BY <1>6
    <2>2. PICK a \in 1..P : p = Suite[k].policies[a]
      BY <1>1, <2>1 DEF Range
    <2>3. PICK b \in 1..B : q = Suite[k].budgets[b]
      BY <1>1, <2>1 DEF Range
    <2>4. PICK c \in 1..L : r = Suite[k].levels[c]
      BY <1>1, <2>1 DEF Range
    <2> HIDE DEF P, B, L, Row
    <2> QED BY <1>5, <2>1, <2>2, <2>3, <2>4
  <1>7. {Row(n) : n \in DOMAIN benchmarks[k]}
          = Range(Suite[k].policies) \X Range(Suite[k].budgets) \X Range(Suite[k].levels)
    <2> HIDE DEF Row
    <2> QED BY <1>4, <1>6
  <1> QED BY <1>3, <1>7

\* The runs of a policy are one stretch of the runs, and the place of one among them is
\* its distance from the beginning of the stretch.
LEMMA PlaceInStretch ==
  ASSUME SweepInv, NEW k \in DOMAIN Suite, Ended(k), NEW n \in DOMAIN benchmarks[k],
         NEW a \in Nat, NEW b \in Nat, NEW c \in Nat, HasNumber(k, n, a, b, c)
  PROVE  PlaceOf(n, k) + 1 = (b - 1) * LevelCount(k) + c
  <1> DEFINE P == PolicyCount(k)
             M == PerPolicy(k)
             r == (b - 1) * LevelCount(k) + c
             start == (a - 1) * M
             Mine == RunsOf(benchmarks[k][n].policy, k)
             before == {m \in Mine : m < n}
  <1>1. /\ P \in Nat /\ M \in Nat /\ DOMAIN Suite[k].policies = 1..P /\ LevelCount(k) \in Nat
        /\ IsInjective(Suite[k].policies)
    BY PlanCounts, SuiteAssumption
  <1>2. /\ a \in 1..P /\ b \in 1..BudgetCount(k) /\ c \in 1..LevelCount(k) /\ n = start + r
        /\ r \in 1..M /\ benchmarks[k][n].policy = Suite[k].policies[a]
    BY NumberTells DEF HasNumber, Number
  <1>3. /\ DOMAIN benchmarks[k] = 1..(P * M)
        /\ \A m \in DOMAIN benchmarks[k] : \E e, f, g \in Nat : HasNumber(k, m, e, f, g)
    <2>1. benchmarks[k] \in Seq(RunRecords) /\ Len(benchmarks[k]) = P * M
      BY DEF SweepInv, Ended
    <2>2. DOMAIN benchmarks[k] = 1..Len(benchmarks[k])
      BY <2>1
    <2> QED BY <2>1, <2>2 DEF SweepInv
  <1>4. ASSUME NEW m \in DOMAIN benchmarks[k], m < n
        PROVE  m \in Mine <=> start < m
    <2>1. PICK e, f, g \in Nat : HasNumber(k, m, e, f, g)
      BY <1>3
    <2> DEFINE s == (f - 1) * LevelCount(k) + g
    <2>2. /\ e \in 1..P /\ f \in 1..BudgetCount(k) /\ g \in 1..LevelCount(k)
          /\ m = (e - 1) * M + s /\ s \in 1..M /\ benchmarks[k][m].policy = Suite[k].policies[e]
      BY <2>1, NumberTells DEF HasNumber, Number
    <2>3. m \in Mine <=> e = a
      <3>1. m \in Mine <=> Suite[k].policies[e] = Suite[k].policies[a]
        BY <1>2, <2>2 DEF RunsOf
      <3> QED BY <1>1, <1>2, <2>2, <3>1 DEF IsInjective
    <2> HIDE DEF P, M, r, s, Mine
    <2>4. a - 1 \in Nat /\ e - 1 \in Nat /\ (a - 1 = e - 1 <=> a = e)
      <3>1. a \in 1..P /\ e \in 1..P /\ P \in Nat
        BY <1>1, <1>2, <2>2
      <3> QED BY <3>1
    <2>5. (e - 1) * M + s < (a - 1) * M + r => (a - 1 = e - 1 <=> (a - 1) * M < (e - 1) * M + s)
      BY <1>1, <1>2, <2>2, <2>4, RowAndPlace
    <2> QED BY <1>2, <1>4, <2>2, <2>3, <2>4, <2>5
  <1>5. Mine \subseteq DOMAIN benchmarks[k]
    BY DEF RunsOf
  <1> HIDE DEF P, M, r, Mine
  <1>6. start \in Nat /\ r \in Nat /\ 1 <= r /\ n = start + r /\ n <= P * M /\ P * M \in Nat
    <2>1. P * M \in Nat /\ a - 1 \in Nat
      BY <1>1, <1>2
    <2>2. start \in Nat
      BY <1>1, <2>1, RowsApart
    <2>3. n \in 1..(P * M)
      BY <1>3
    <2> HIDE DEF start
    <2>4. n = start + r /\ r \in 1..M
      BY <1>2 DEF start
    <2> QED BY <1>1, <2>1, <2>2, <2>3, <2>4
  <1> HIDE DEF start
  <1>7. before = (start + 1)..(n - 1)
    <2>1. \A m \in (start + 1)..(n - 1) : m \in DOMAIN benchmarks[k] /\ m < n /\ start < m
      BY <1>3, <1>6
    <2>2. \A m \in DOMAIN benchmarks[k] : m < n /\ start < m => m \in (start + 1)..(n - 1)
      BY <1>3, <1>6
    <2>3. \A m : m \in before <=> m \in (start + 1)..(n - 1)
      BY <1>4, <1>5, <2>1, <2>2
    <2> HIDE DEF before
    <2> QED BY <2>3
  <1>8. PlaceOf(n, k) = Cardinality(before)
    BY DEF PlaceOf, Place, Mine
  <1> HIDE DEF before
  <1>9. Cardinality((start + 1)..(n - 1)) = r - 1
    <2> DEFINE lo == start + 1
               hi == n - 1
    <2>1. lo \in Int /\ hi \in Int
      BY <1>6
    <2> HIDE DEF lo, hi
    <2>2. Cardinality(lo..hi) = IF lo > hi THEN 0 ELSE hi - lo + 1
      BY <2>1, FS_Interval
    <2> QED BY <1>6, <2>2 DEF lo, hi
  <1> QED BY <1>6, <1>7, <1>8, <1>9 DEF r

\* Two runs at the same place have the same budget and level.
LEMMA SamePlaceSameSetting == ASSUME SweepInv PROVE PairsAligned
  <1> SUFFICES ASSUME NEW k \in DOMAIN Suite, Ended(k), NEW m \in DOMAIN benchmarks[k],
                      NEW n \in DOMAIN benchmarks[k], PlaceOf(m, k) = PlaceOf(n, k)
               PROVE  /\ benchmarks[k][m].budget = benchmarks[k][n].budget
                      /\ benchmarks[k][m].level = benchmarks[k][n].level
    BY DEF PairsAligned
  <1>1. PICK a, b, c \in Nat : HasNumber(k, m, a, b, c)
    BY DEF SweepInv
  <1>2. PICK e, f, g \in Nat : HasNumber(k, n, e, f, g)
    BY DEF SweepInv
  <1>3. PlaceOf(m, k) + 1 = (b - 1) * LevelCount(k) + c
    BY <1>1, PlaceInStretch
  <1>4. PlaceOf(n, k) + 1 = (f - 1) * LevelCount(k) + g
    BY <1>2, PlaceInStretch
  <1>5. b = f /\ c = g
    BY <1>1, <1>2, <1>3, <1>4, NumberTells DEF HasNumber
  <1> QED BY <1>1, <1>2, <1>5 DEF HasNumber

-----------------------------------------------------------------------------
\* Experiment: its reports.

AllRuns == UNION {{j} \X DOMAIN benchmarks[j] : j \in DOMAIN Suite}
OfPolicy(p) == {run \in AllRuns : PolicyOf(run) = p}
SweepPoints == [policy : SuitePolicies, x : {0}, y : Nat]
SweepReports == {Report(list) : list \in Seq(SweepPoints)}

\* The analyzer was given every run, and there is a report for each experiment that
\* ended, of the runs there were then.
ReportsInv ==
  /\ points \in Seq(SweepPoints)
  /\ {points[n].policy : n \in DOMAIN points} = {PolicyOf(run) : run \in AllRuns}
  /\ \A p \in SuitePolicies :
       IsFiniteSet(OfPolicy(p)) /\ Counted(points, p) = Cardinality(OfPolicy(p))
  /\ \A k \in DOMAIN Suite : \A n \in DOMAIN benchmarks[k] : benchmarks[k][n].policy \in SuitePolicies
  /\ reports \in Seq(SweepReports) /\ DOMAIN reports = 1..(experiment - 1)
  /\ ReportCoversAll

\* What a report says, of the runs made until then.
Covers(report, runs) ==
  /\ report.policies = {PolicyOf(run) : run \in runs}
  /\ \A p \in report.policies : report.counts[p] = Cardinality({run \in runs : PolicyOf(run) = p})

\* The report of the experiment that ends is of all runs.
LEMMA ReportOfAll ==
  ASSUME ReportsInv PROVE Covers(Report(points), AllRuns)
  <1> DEFINE policies == {points[n].policy : n \in DOMAIN points}
  <1>1. /\ Report(points).policies = policies
        /\ Report(points).counts = [p \in policies |-> Counted(points, p)]
    BY DEF Report
  <1>2. policies \subseteq SuitePolicies
    <2>1. \A run \in AllRuns : PolicyOf(run) \in SuitePolicies
      <3> TAKE run \in AllRuns
      <3>1. PICK j \in DOMAIN Suite : run \in {j} \X DOMAIN benchmarks[j]
        BY DEF AllRuns
      <3>2. run[1] = j /\ run[2] \in DOMAIN benchmarks[j]
        BY <3>1
      <3> QED BY <3>2 DEF PolicyOf, ReportsInv
    <2> QED BY <2>1 DEF ReportsInv
  <1>3. policies = {PolicyOf(run) : run \in AllRuns}
    BY DEF ReportsInv
  <1> HIDE DEF policies
  <1>4. \A p \in policies : Report(points).counts[p] = Cardinality(OfPolicy(p))
    BY <1>1, <1>2 DEF ReportsInv
  <1> QED BY <1>1, <1>3, <1>4 DEF Covers, OfPolicy

\* While an experiment runs there are no runs of later ones.
LEMMA RunsSoFar ==
  ASSUME SweepInv, experiment \in DOMAIN Suite PROVE RunsUpTo(experiment) = AllRuns
  <1>1. DOMAIN Suite = 1..Len(Suite) /\ Len(Suite) \in Nat
    BY SuiteAssumption
  <1>2. \A j \in DOMAIN Suite : j \in 1..experiment \/ j > experiment
    BY <1>1
  <1>3. \A j \in 1..experiment : j \in DOMAIN Suite
    BY <1>1
  <1>4. \A j \in DOMAIN Suite : j > experiment => DOMAIN benchmarks[j] = {}
    BY DEF SweepInv
  <1>5. \A run : run \in RunsUpTo(experiment) <=> run \in AllRuns
    <2> TAKE run
    <2>1. run \in RunsUpTo(experiment) <=> \E j \in 1..experiment : run \in {j} \X DOMAIN benchmarks[j]
      BY DEF RunsUpTo
    <2>2. run \in AllRuns <=> \E j \in DOMAIN Suite : run \in {j} \X DOMAIN benchmarks[j]
      BY DEF AllRuns
    <2> QED BY <1>2, <1>3, <1>4, <2>1, <2>2
  <1> QED BY <1>5

\* Before the first run nothing was given.
LEMMA SweepInitReports == ASSUME SweepInit PROVE ReportsInv
  <1>1. /\ benchmarks = [k \in DOMAIN Suite |-> <<>>] /\ points = <<>> /\ reports = <<>>
        /\ experiment = 1
    BY DEF SweepInit
  <1>2. AllRuns = {}
    BY <1>1 DEF AllRuns
  <1>3. DOMAIN points = {} /\ points \in Seq(SweepPoints) /\ DOMAIN reports = {} /\ 1..(1 - 1) = {}
        /\ reports \in Seq(SweepReports)
    BY <1>1
  <1>4. \A p : {k \in DOMAIN points : points[k].policy = p} = {}
    BY <1>3
  <1>5. \A p : OfPolicy(p) = {}
    BY <1>2 DEF OfPolicy
  <1>6. IsFiniteSet({}) /\ Cardinality({}) = 0
    BY FS_EmptySet
  <1>7. \A p : IsFiniteSet(OfPolicy(p)) /\ Counted(points, p) = Cardinality(OfPolicy(p))
    BY <1>4, <1>5, <1>6 DEF Counted
  <1>8. ReportCoversAll
    BY <1>3 DEF ReportCoversAll
  <1>9. \A k \in DOMAIN Suite : DOMAIN benchmarks[k] = {}
    BY <1>1
  <1> QED BY <1>1, <1>2, <1>3, <1>7, <1>8, <1>9 DEF ReportsInv

\* A run is given to the analyzer when it is kept.
LEMMA RunIsGiven == ASSUME SweepInv, ReportsInv, RunBenchmark PROVE ReportsInv'
  <1> DEFINE e == experiment
             n == Len(benchmarks[e])
             new == <<e, n + 1>>
  <1>1. PICK r \in RunRecords :
          /\ benchmarks' = [benchmarks EXCEPT ![experiment] = Append(@, r)]
          /\ points' = Append(points, Point(r))
    BY RunAppends
  <1>2. e \in DOMAIN Suite /\ experiment' = e /\ reports' = reports
    BY RunAppends
  <1>3. /\ n \in Nat /\ DOMAIN benchmarks[e] = 1..n /\ n + 1 \notin 1..n
        /\ \A k \in DOMAIN Suite : k # e => benchmarks'[k] = benchmarks[k]
        /\ DOMAIN benchmarks'[e] = 1..n \union {n + 1}
        /\ \A i \in 1..n : benchmarks'[e][i] = benchmarks[e][i]
        /\ benchmarks'[e][n + 1] = r
    BY <1>1, <1>2, RunMore
  <1>4. r.policy \in SuitePolicies /\ Point(r) \in SweepPoints /\ Point(r).policy = r.policy
    <2>1. r.policy \in SuitePolicies /\ r.quality \in Nat
      BY SuiteAssumption DEF RunRecords
    <2> QED BY <2>1 DEF Point, SweepPoints
  <1> HIDE DEF e, n
  <1>5. /\ AllRuns' = AllRuns \union {new} /\ new \notin AllRuns
        /\ \A run \in AllRuns : PolicyOf(run)' = PolicyOf(run)
    <2>1. \A run : run \in AllRuns <=> \E j \in DOMAIN Suite : run \in {j} \X DOMAIN benchmarks[j]
      BY DEF AllRuns
    <2>2. \A run : run \in AllRuns' <=> \E j \in DOMAIN Suite : run \in {j} \X DOMAIN benchmarks'[j]
      BY DEF AllRuns
    <2>3. \A run : run \in {e} \X DOMAIN benchmarks'[e] <=> run \in {e} \X DOMAIN benchmarks[e] \/ run = new
      BY <1>3
    <2>4. new \notin AllRuns
      BY <1>3, <2>1
    <2>5. \A run : run \in AllRuns' <=> run \in AllRuns \/ run = new
      <3> HIDE DEF new
      <3> QED BY <1>2, <1>3, <2>1, <2>2, <2>3
    <2>6. ASSUME NEW run \in AllRuns PROVE benchmarks'[run[1]][run[2]] = benchmarks[run[1]][run[2]]
      <3>1. PICK j \in DOMAIN Suite : run \in {j} \X DOMAIN benchmarks[j]
        BY <2>1
      <3>2. run[1] = j /\ run[2] \in DOMAIN benchmarks[j]
        BY <3>1
      <3> QED BY <1>3, <3>2
    <2> QED BY <2>4, <2>5, <2>6 DEF PolicyOf
  <1>6. benchmarks'[new[1]][new[2]].policy = r.policy
    BY <1>3
  <1> HIDE DEF new
  <1>7. {PolicyOf(run) : run \in AllRuns}' = {PolicyOf(run) : run \in AllRuns} \union {r.policy}
    <2> DEFINE Now(run) == benchmarks'[run[1]][run[2]].policy
    <2>1. {PolicyOf(run) : run \in AllRuns}' = {Now(run) : run \in AllRuns'}
      BY DEF PolicyOf
    <2>2. \A run \in AllRuns : Now(run) = PolicyOf(run)
      BY <1>5 DEF PolicyOf
    <2>3. Now(new) = r.policy
      BY <1>6
    <2> HIDE DEF Now
    <2> QED BY <1>5, <2>1, <2>2, <2>3
  <1>8. points' \in Seq(SweepPoints)
        /\ {points'[i].policy : i \in DOMAIN points'} = {points[i].policy : i \in DOMAIN points} \union {r.policy}
    <2> DEFINE pt == Point(r)
               m == Len(points)
    <2>1. points \in Seq(SweepPoints) /\ pt \in SweepPoints /\ points' = Append(points, pt)
      BY <1>1, <1>4 DEF ReportsInv
    <2> HIDE DEF pt
    <2>2. /\ m \in Nat /\ DOMAIN points = 1..m /\ DOMAIN points' = 1..(m + 1)
          /\ points' \in Seq(SweepPoints)
          /\ \A i \in 1..m : points'[i] = points[i]
          /\ points'[m + 1] = pt
      BY <2>1
    <2> HIDE DEF m
    <2>3. 1..(m + 1) = 1..m \union {m + 1}
      BY <2>2
    <2> QED BY <1>4, <2>2, <2>3 DEF pt
  <1>9. ASSUME NEW p \in SuitePolicies
        PROVE  IsFiniteSet(OfPolicy(p)') /\ Counted(points', p) = Cardinality(OfPolicy(p)')
    <2>1. OfPolicy(p)' = IF r.policy = p THEN OfPolicy(p) \union {new} ELSE OfPolicy(p)
      <3> DEFINE Now(run) == benchmarks'[run[1]][run[2]].policy
      <3>1. OfPolicy(p)' = {run \in AllRuns' : Now(run) = p}
        BY DEF OfPolicy, PolicyOf
      <3>2. \A run \in AllRuns : Now(run) = PolicyOf(run)
        BY <1>5 DEF PolicyOf
      <3>3. Now(new) = r.policy
        BY <1>6
      <3> HIDE DEF Now
      <3> QED BY <1>5, <3>1, <3>2, <3>3 DEF OfPolicy
    <2>2. new \notin OfPolicy(p)
      BY <1>5 DEF OfPolicy
    <2>3. IsFiniteSet(OfPolicy(p)) /\ Counted(points, p) = Cardinality(OfPolicy(p))
      BY DEF ReportsInv
    <2>4. IsFiniteSet(OfPolicy(p) \union {new})
          /\ Cardinality(OfPolicy(p) \union {new}) = Cardinality(OfPolicy(p)) + 1
      BY <2>2, <2>3, FS_AddElement
    <2> DEFINE pt == Point(r)
    <2>5. points \in Seq(SweepPoints) /\ pt \in SweepPoints /\ points' = Append(points, pt)
          /\ pt.policy = r.policy
      BY <1>1, <1>4 DEF ReportsInv
    <2> HIDE DEF pt
    <2>6. /\ pt.policy = p => Counted(Append(points, pt), p) = Counted(points, p) + 1
          /\ pt.policy # p => Counted(Append(points, pt), p) = Counted(points, p)
      BY <2>5, OneMoreCounted
    <2> QED BY <2>1, <2>3, <2>4, <2>5, <2>6
  <1>10. \A k \in DOMAIN Suite : \A i \in DOMAIN benchmarks'[k] : benchmarks'[k][i].policy \in SuitePolicies
    BY <1>3, <1>4 DEF ReportsInv
  <1>11. DOMAIN reports' = 1..(experiment' - 1)
             /\ reports' \in Seq(SweepReports)
    BY <1>2 DEF ReportsInv, e
  <1>12. ReportCoversAll'
    <2> SUFFICES ASSUME NEW k \in DOMAIN reports PROVE Covers(reports[k], RunsUpTo(k))'
      BY <1>2 DEF ReportCoversAll, Covers
    <2>1. Covers(reports[k], RunsUpTo(k))
      BY DEF ReportsInv, ReportCoversAll, Covers
    <2>2. e \in 1..Len(Suite) /\ Len(Suite) \in Nat /\ k \in 1..(e - 1) /\ DOMAIN Suite = 1..Len(Suite)
      <3>1. DOMAIN Suite = 1..Len(Suite) /\ Len(Suite) \in Nat
        BY SuiteAssumption
      <3>2. k \in 1..(e - 1)
        BY DEF ReportsInv, e
      <3> QED BY <1>2, <3>1, <3>2
    <2>3. \A j \in 1..k : j \in DOMAIN Suite /\ j # e
      BY <2>2
    <2>4. \A j \in 1..k : benchmarks'[j] = benchmarks[j]
      BY <1>3, <2>3
    <2>5. \A run : run \in RunsUpTo(k)' <=> run \in RunsUpTo(k)
      BY <2>4 DEF RunsUpTo
    <2>6. \A run \in RunsUpTo(k) : PolicyOf(run)' = PolicyOf(run)
      <3> TAKE run \in RunsUpTo(k)
      <3>1. PICK j \in 1..k : run \in {j} \X DOMAIN benchmarks[j]
        BY DEF RunsUpTo
      <3>2. run[1] = j
        BY <3>1
      <3> QED BY <2>4, <3>2 DEF PolicyOf
    <2>7. RunsUpTo(k)' = RunsUpTo(k)
      BY <2>5
    <2> DEFINE Now(run) == benchmarks'[run[1]][run[2]].policy
               runs == RunsUpTo(k)
    <2>8. \A run \in runs : Now(run) = PolicyOf(run)
      BY <2>6 DEF PolicyOf
    <2>9. Covers(reports[k], RunsUpTo(k))' <=>
            /\ reports'[k].policies = {Now(run) : run \in RunsUpTo(k)'}
            /\ \A p \in reports'[k].policies :
                 reports'[k].counts[p] = Cardinality({run \in RunsUpTo(k)' : Now(run) = p})
      BY DEF Covers, PolicyOf
    <2> HIDE DEF Now
    <2>10. {Now(run) : run \in runs} = {PolicyOf(run) : run \in runs}
      BY <2>8
    <2>11. \A p : {run \in runs : Now(run) = p} = {run \in runs : PolicyOf(run) = p}
      BY <2>8
    <2> QED BY <1>2, <2>1, <2>7, <2>9, <2>10, <2>11 DEF Covers
  <1> QED BY <1>7, <1>8, <1>9, <1>10, <1>11, <1>12 DEF ReportsInv

\* Ending an experiment reports on all runs so far.
LEMMA FinishReports == ASSUME SweepInv, ReportsInv, FinishExperiment PROVE ReportsInv'
  <1> DEFINE e == experiment
  <1>1. /\ e \in DOMAIN Suite /\ reports' = Append(reports, Report(points)) /\ points' = points
        /\ experiment' = e + 1 /\ benchmarks' = benchmarks
    BY DEF FinishExperiment, AfterReport, Sweeping
  <1>2. e \in Nat \ {0}
    <2>1. DOMAIN Suite = 1..Len(Suite) /\ Len(Suite) \in Nat
      BY SuiteAssumption
    <2> QED BY <1>1, <2>1
  <1>3. Covers(Report(points), RunsUpTo(e))
    BY <1>1, ReportOfAll, RunsSoFar
  <1>4. /\ DOMAIN reports' = 1..e /\ reports'[e] = Report(points) /\ reports' \in Seq(SweepReports)
        /\ \A k \in 1..(e - 1) : reports'[k] = reports[k]
    <2> DEFINE report == Report(points)
    <2>1. /\ reports \in Seq(SweepReports) /\ report \in SweepReports
          /\ DOMAIN reports = 1..(e - 1) /\ reports' = Append(reports, report)
      BY <1>1 DEF ReportsInv, SweepReports
    <2> HIDE DEF report, e
    <2>2. Len(reports) \in Nat /\ DOMAIN reports = 1..Len(reports)
      BY <2>1
    <2>3. Len(reports) = e - 1
      BY <1>2, <2>1, <2>2
    <2>4. /\ reports' \in Seq(SweepReports) /\ DOMAIN reports' = 1..(Len(reports) + 1)
          /\ \A k \in 1..Len(reports) : reports'[k] = reports[k]
          /\ reports'[Len(reports) + 1] = report
      BY <2>1
    <2>5. Len(reports) + 1 = e
      BY <1>2, <2>3
    <2> QED BY <2>3, <2>4, <2>5 DEF report
  <1>5. \A k : k \in 1..e <=> k \in 1..(e - 1) \/ k = e
    BY <1>2
  <1>6. /\ \A k : RunsUpTo(k)' = RunsUpTo(k)
        /\ \A run : PolicyOf(run)' = PolicyOf(run)
        /\ AllRuns' = AllRuns /\ \A p : OfPolicy(p)' = OfPolicy(p)
    BY <1>1 DEF RunsUpTo, PolicyOf, AllRuns, OfPolicy
  <1>7. \A k \in 1..e : Covers(reports'[k], RunsUpTo(k))
    <2>1. \A k \in 1..(e - 1) : Covers(reports[k], RunsUpTo(k))
      BY DEF ReportsInv, ReportCoversAll, Covers
    <2> HIDE DEF e
    <2> QED BY <1>3, <1>4, <1>5, <2>1
  <1>8. ReportCoversAll'
    <2> SUFFICES ASSUME NEW k \in DOMAIN reports' PROVE Covers(reports[k], RunsUpTo(k))'
      BY DEF ReportCoversAll, Covers
    <2>1. Covers(reports'[k], RunsUpTo(k))
      BY <1>4, <1>7
    <2> QED BY <1>6, <2>1 DEF Covers
  <1>9. DOMAIN reports' = 1..(experiment' - 1)
    <2>1. (e + 1) - 1 = e
      BY <1>2
    <2> QED BY <1>1, <1>4, <2>1
  <1>10. {PolicyOf(run) : run \in AllRuns}' = {PolicyOf(run) : run \in AllRuns}
    BY <1>1 DEF PolicyOf, AllRuns
  <1> QED BY <1>1, <1>4, <1>6, <1>8, <1>9, <1>10 DEF ReportsInv

\* A sweep that ended was complete, though override calls failed; what is paired was
\* run under the same budget and at the same level; and each report is of all runs so
\* far: for any experiments, policies, budgets and levels.
THEOREM SweepsAreTrue == SweepSpec => [](MatrixComplete /\ PairsAligned /\ ReportCoversAll)
  <1>1. SweepInit => SweepInv /\ ReportsInv
    BY SweepInitInv, SweepInitReports
  <1>2. SweepInv /\ ReportsInv /\ [SweepNext]_sweepVars => SweepInv' /\ ReportsInv'
    <2> SUFFICES ASSUME SweepInv, ReportsInv, [SweepNext]_sweepVars PROVE SweepInv' /\ ReportsInv'
      OBVIOUS
    <2>1. ASSUME UNCHANGED <<experiment, at, active, benchmarks>> PROVE SweepInv'
      <3>1. AtInv' = AtInv
        BY <2>1 DEF AtInv, Sweeping, Plan
      <3>2. \A k, n, a, b, c : HasNumber(k, n, a, b, c)' = HasNumber(k, n, a, b, c)
        BY <2>1 DEF HasNumber, Number
      <3>3. \A k : Number(k, at[1], at[2], at[3])' = Number(k, at[1], at[2], at[3])
        BY <2>1 DEF Number
      <3> QED BY <2>1, <3>1, <3>2, <3>3 DEF SweepInv
    <2>2. ASSUME UNCHANGED <<experiment, benchmarks, points, reports>> PROVE ReportsInv'
      <3>1. /\ ReportCoversAll' = ReportCoversAll /\ AllRuns' = AllRuns
            /\ \A p : OfPolicy(p)' = OfPolicy(p)
        BY <2>2 DEF ReportCoversAll, RunsUpTo, PolicyOf, AllRuns, OfPolicy
      <3>2. {PolicyOf(run) : run \in AllRuns}' = {PolicyOf(run) : run \in AllRuns}
        BY <2>2 DEF PolicyOf, AllRuns
      <3> QED BY <2>2, <3>1, <3>2 DEF ReportsInv
    <2>3. CASE UNCHANGED sweepVars
      BY <2>1, <2>2, <2>3 DEF sweepVars
    <2>4. CASE SetPolicy
      BY <2>2, <2>4, SetPolicyPreserves DEF SetPolicy
    <2>5. CASE RunBenchmark
      BY <2>5, RunPreservesSweep, RunIsGiven
    <2>6. CASE FinishExperiment
      BY <2>6, FinishPreservesSweep, FinishReports
    <2> QED BY <2>3, <2>4, <2>5, <2>6 DEF SweepNext
  <1>3. SweepInv /\ ReportsInv => MatrixComplete /\ PairsAligned /\ ReportCoversAll
    BY SweptAll, SamePlaceSameSetting DEF ReportsInv
  <1> QED
    BY <1>1, <1>2, <1>3, PTL DEF SweepSpec

\* Together: what the two runners, the sweep, the ablations and the analyzer promise of
\* their results holds in every state each of them reaches.
THEOREM HarnessIsTrue ==
  BenchSpec /\ AnalyzerSpec /\ StressSpec /\ SweepSpec /\ AblationSpec => []HarnessTrue
  <1>1. BenchSpec => []AggregateInRange
    BY AggregatesAreInRange
  <1>2. AnalyzerSpec => []ReportAddsUp
    BY ReportsAddUp
  <1>3. StressSpec => []StressTrue
    BY WorkloadsAreTrue
  <1>4. SweepSpec => [](MatrixComplete /\ PairsAligned /\ ReportCoversAll)
    BY SweepsAreTrue
  <1>5. AblationSpec => []ComparisonTrue
    BY ComparisonsAreTrue
  <1>6. AggregateInRange /\ ReportAddsUp /\ StressTrue /\ (MatrixComplete /\ PairsAligned /\ ReportCoversAll)
          /\ ComparisonTrue => HarnessTrue
    BY DEF HarnessTrue, StressTrue
  <1> QED
    BY <1>1, <1>2, <1>3, <1>4, <1>5, <1>6, PTL

-----------------------------------------------------------------------------
\* Greatest and least of finite sets of numbers.

\* A set of numbers with finitely many elements has a greatest.
LEMMA MaxIsGreatest ==
  ASSUME NEW S \in SUBSET Nat, IsFiniteSet(S), S # {}
  PROVE  Max(S) \in S /\ Max(S) \in Nat /\ \A y \in S : y <= Max(S)
  <1> DEFINE Over(x) == {y \in S : y > x}
             sizes == {Cardinality(Over(x)) : x \in S}
  <1>1. \A x \in S : IsFiniteSet(Over(x)) /\ Cardinality(Over(x)) \in Nat
    <2> TAKE x \in S
    <2>1. Over(x) \subseteq S
      OBVIOUS
    <2> HIDE DEF Over
    <2> QED BY <2>1, FS_Subset, FS_CardinalityType
  <1>2. PICK x \in S : \A y \in S : Cardinality(Over(x)) <= Cardinality(Over(y))
    <2>1. sizes \in SUBSET Nat /\ sizes # {}
      BY <1>1
    <2>2. PICK m \in sizes : \A k \in sizes : m <= k
      <3> HIDE DEF sizes
      <3> QED BY <2>1, LeastNumber
    <2>3. PICK x \in S : m = Cardinality(Over(x))
      OBVIOUS
    <2> HIDE DEF Over
    <2> QED BY <2>2, <2>3
  <1>3. ASSUME NEW y \in S, ~(y <= x) PROVE FALSE
    <2>1. x \in Nat /\ y \in Nat /\ \A z \in S : z \in Nat
      OBVIOUS
    <2>2. y \in Over(x) /\ y \notin Over(y) /\ Over(y) \subseteq Over(x)
      <3>1. y > x /\ ~(y > y) /\ \A z \in S : z > y => z > x
        BY <1>3, <2>1
      <3> QED BY <3>1
    <2> HIDE DEF Over
    <2>3. Cardinality(Over(y)) <= Cardinality(Over(x)) /\ Cardinality(Over(y)) # Cardinality(Over(x))
      <3>1. Over(y) # Over(x)
        BY <2>2
      <3> QED BY <1>1, <2>2, <3>1, FS_Subset
    <2>4. Cardinality(Over(x)) \in Nat /\ Cardinality(Over(y)) \in Nat
          /\ Cardinality(Over(x)) <= Cardinality(Over(y))
      BY <1>1, <1>2
    <2> QED BY <2>3, <2>4
  <1>4. \E z \in S : \A y \in S : z >= y
    BY <1>3
  <1>5. Max(S) \in S /\ \A y \in S : Max(S) >= y
    BY <1>4 DEF Max
  <1> QED BY <1>5

\* The greatest of a column is in it, and nothing in the column is above it.
LEMMA LargestInColumn ==
  ASSUME NEW t, NEW field, IsFiniteSet(DOMAIN t), DOMAIN t # {},
         \A i \in DOMAIN t : t[i][field] \in Nat
  PROVE  /\ Largest(t, field) \in Nat
         /\ \A i \in DOMAIN t : t[i][field] <= Largest(t, field)
         /\ \E i \in DOMAIN t : t[i][field] = Largest(t, field)
  <1> DEFINE column == [i \in DOMAIN t |-> t[i][field]]
             values == {t[i][field] : i \in DOMAIN t}
  <1>1. column \in Surjection(DOMAIN t, values)
    BY DEF Surjection
  <1>2. IsFiniteSet(values)
    BY <1>1, FS_Surjection
  <1>3. values \in SUBSET Nat /\ values # {}
    OBVIOUS
  <1>4. Largest(t, field) = Max(values)
    BY DEF Largest
  <1> HIDE DEF values
  <1>5. Max(values) \in values /\ Max(values) \in Nat /\ \A y \in values : y <= Max(values)
    BY <1>2, <1>3, MaxIsGreatest
  <1> QED BY <1>4, <1>5 DEF values

\* What is left of a finite set by a condition is finite, and counted.
LEMMA PartIsFinite ==
  ASSUME NEW S, IsFiniteSet(S), NEW T \in SUBSET S
  PROVE  IsFiniteSet(T) /\ Cardinality(T) \in Nat /\ Cardinality(T) <= Cardinality(S)
         /\ Cardinality(S) \in Nat
  BY FS_Subset, FS_CardinalityType

\* The k-th smallest value is one of the values, with at most k below it and more than
\* k not above it.
LEMMA SmallestIsThere ==
  ASSUME NEW S, IsFiniteSet(S), NEW f \in [S -> Nat], NEW k \in Nat, k < Cardinality(S)
  PROVE  /\ Smallest(f, S, k) \in Nat /\ \E i \in S : Smallest(f, S, k) = f[i]
         /\ Cardinality({i \in S : f[i] < Smallest(f, S, k)}) <= k
         /\ k < Cardinality({i \in S : f[i] <= Smallest(f, S, k)})
  <1> DEFINE UpTo(v) == {i \in S : f[i] <= v}
             Enough == {v \in Nat : k < Cardinality(UpTo(v))}
             values == {f[i] : i \in S}
  <1>1. \A v \in Nat : Cardinality(UpTo(v)) \in Nat
    BY PartIsFinite
  <1>2. Enough # {}
    <2>1. S # {}
      BY FS_EmptySet
    <2>2. values \in SUBSET Nat /\ values # {} /\ f \in Surjection(S, values)
      BY <2>1 DEF Surjection
    <2>3. IsFiniteSet(values)
      BY <2>2, FS_Surjection
    <2>4. Max(values) \in Nat /\ \A v \in values : v <= Max(values)
      <3> HIDE DEF values
      <3> QED BY <2>2, <2>3, MaxIsGreatest
    <2>5. \A i \in S : f[i] <= Max(values)
      BY <2>4
    <2> HIDE DEF values
    <2>6. UpTo(Max(values)) = S
      BY <2>5
    <2> HIDE DEF UpTo
    <2> QED BY <2>4, <2>6
  <1>3. PICK v \in Enough : \A w \in Enough : v <= w
    <2>1. Enough \in SUBSET Nat
      OBVIOUS
    <2> HIDE DEF Enough
    <2> QED BY <1>2, <2>1, LeastNumber
  <1>4. v \in Nat /\ k < Cardinality(UpTo(v))
    OBVIOUS
  <1> DEFINE below == {i \in S : f[i] < v}
  <1>5. Cardinality(below) <= k
    <2>1. CASE v = 0
      <3>1. below = {}
        BY <2>1
      <3> HIDE DEF below
      <3> QED BY <3>1, FS_EmptySet
    <2>2. CASE v # 0
      <3>1. v - 1 \in Nat /\ below = UpTo(v - 1)
        BY <1>4, <2>2
      <3>2. v - 1 \notin Enough
        <4> HIDE DEF Enough
        <4> QED BY <1>3, <1>4, <3>1
      <3>3. ~(k < Cardinality(UpTo(v - 1)))
        <4> HIDE DEF UpTo
        <4> QED BY <3>1, <3>2
      <3> HIDE DEF UpTo, below
      <3> QED BY <1>1, <3>1, <3>3
    <2> QED BY <2>1, <2>2
  <1>6. v \in values
    <2> SUFFICES ASSUME v \notin values PROVE FALSE
      OBVIOUS
    <2>1. UpTo(v) = below
      BY <1>4
    <2>2. Cardinality(below) \in Nat
      BY PartIsFinite
    <2> HIDE DEF UpTo, below, Enough
    <2> QED BY <1>4, <1>5, <2>1, <2>2
  <1> DEFINE P(u) == /\ Cardinality({i \in S : f[i] < u}) <= k
                     /\ k < Cardinality({i \in S : f[i] <= u})
  <1>7. P(v)
    BY <1>4, <1>5
  <1>8. Smallest(f, S, k) = CHOOSE u \in values : P(u)
    BY DEF Smallest
  <1> HIDE DEF P, values
  <1>9. Smallest(f, S, k) \in values /\ P(Smallest(f, S, k))
    BY <1>6, <1>7, <1>8
  <1> QED BY <1>9 DEF P, values

-----------------------------------------------------------------------------
\* FeatureCases: features served and trained on.

FeaturesInv ==
  /\ IsFiniteSet(DOMAIN batch) /\ DOMAIN batch \subseteq Nat
  /\ batch \in [DOMAIN batch -> Blocks]

\* A batch is built block by block.
LEMMA FeaturesStep ==
  ASSUME FeaturesInv, [FeaturesNext]_batch PROVE FeaturesInv'
  <1> USE DEF FeaturesInv
  <1>1. CASE UNCHANGED batch
    BY <1>1
  <1>2. ASSUME NEW kind \in Kinds, NEW id \in kind.ids, NEW b \in kind.blocks, AddBlock(kind, id, b)
        PROVE  FeaturesInv'
    <2>1. id \in Nat /\ b \in Blocks
      BY CasesAssumption
    <2>2. batch' = [i \in DOMAIN batch \cup {id} |-> IF i = id THEN b ELSE batch[i]]
      BY <1>2 DEF AddBlock
    <2>3. DOMAIN batch' = DOMAIN batch \cup {id} /\ \A i \in DOMAIN batch' : batch'[i] \in Blocks
      BY <2>1, <2>2
    <2>4. IsFiniteSet(DOMAIN batch')
      BY <2>3, FS_AddElement
    <2>5. Blocks' = Blocks
      BY DEF Blocks, Tier
    <2>6. DOMAIN batch' \subseteq Nat
      BY <2>1, <2>3
    <2>7. batch' \in [DOMAIN batch' -> Blocks]
      BY <2>2, <2>3
    <2> QED BY <2>4, <2>5, <2>6, <2>7
  <1> QED BY <1>1, <1>2 DEF FeaturesNext

\* The fields of a block.
LEMMA BlockFields ==
  ASSUME FeaturesInv, NEW i \in DOMAIN batch
  PROVE  /\ batch[i].age \in Nat /\ batch[i].last \in Nat /\ batch[i].count \in Nat
         /\ batch[i].avg \in Nat /\ batch[i].max \in Nat
         /\ batch[i].layer \in 0..NumLayers - 1 /\ batch[i].head \in 0..NumHeadGroups - 1
         /\ batch[i].tier \in {"GPU_FP16", "GPU_QUANTIZED", "CPU_OFFLOADED", "EVICTED"}
         /\ i \in Nat
  <1>1. batch[i] \in Blocks /\ i \in Nat
    BY DEF FeaturesInv
  <1>2. DOMAIN Tier = {"GPU_FP16", "GPU_QUANTIZED", "CPU_OFFLOADED", "EVICTED"}
    BY DEF Tier
  <1> QED BY <1>1, <1>2 DEF Blocks

TraceOf == [i \in DOMAIN batch |-> FromBlockState(batch[i])]

\* The anchors of normalisation, of the batch and of its records.
LEMMA AnchorsAgree ==
  ASSUME FeaturesInv, Asked
  PROVE  /\ \A field \in {"age", "last", "layer"} :
              /\ Largest(TraceOf, field) = Largest(batch, field) /\ Largest(batch, field) \in Nat
              /\ \A i \in DOMAIN batch : batch[i][field] <= Largest(batch, field)
         /\ Max(DOMAIN batch) \in Nat /\ \A i \in DOMAIN batch : i <= Max(DOMAIN batch)
  <1>1. IsFiniteSet(DOMAIN batch) /\ DOMAIN batch # {} /\ DOMAIN batch \in SUBSET Nat
    BY DEF FeaturesInv, Asked
  <1>2. ASSUME NEW field \in {"age", "last", "layer"}
        PROVE  /\ Largest(TraceOf, field) = Largest(batch, field) /\ Largest(batch, field) \in Nat
               /\ \A i \in DOMAIN batch : batch[i][field] <= Largest(batch, field)
    <2>1. \A i \in DOMAIN batch : batch[i][field] \in Nat
      <3> TAKE i \in DOMAIN batch
      <3>1. batch[i].age \in Nat /\ batch[i].last \in Nat /\ batch[i].layer \in 0..NumLayers - 1
        BY BlockFields
      <3> QED BY <3>1
    <2>2. \A i \in DOMAIN batch : TraceOf[i][field] = batch[i][field]
      BY DEF TraceOf, FromBlockState
    <2>3. DOMAIN TraceOf = DOMAIN batch
      BY DEF TraceOf
    <2>4. {TraceOf[i][field] : i \in DOMAIN TraceOf} = {batch[i][field] : i \in DOMAIN batch}
      BY <2>2, <2>3
    <2>5. Largest(TraceOf, field) = Largest(batch, field)
      BY <2>4 DEF Largest
    <2> QED BY <1>1, <2>1, <2>5, LargestInColumn
  <1> QED BY <1>1, <1>2, MaxIsGreatest

\* What is served, in the terms of the batch.
LEMMA ServedRow ==
  ASSUME NEW i \in DOMAIN batch
  PROVE  LET step == Floored(1, Largest(batch, "last"))
             b == batch[i]
             row == Served[i]
             single == [j \in DOMAIN batch |-> Single(batch[j].avg)]
             N == Cardinality(DOMAIN batch)
         IN /\ row.block_age_normalized = <<b.age, Floored(1, Largest(batch, "age"))>>
            /\ row.recency_score = <<1, 1 + step - b.last>>
            /\ row.access_frequency = <<b.count, step>>
            /\ row.avg_attention_score = <<b.avg, 1>>
            /\ row.max_attention_score = <<b.max, 1>>
            /\ row.attention_rank_normalized = <<Rank(single, b.avg), N>>
            /\ row.sink_token_flag = Flag(i < SinkTokenBlocks)
            /\ row.prefix_reuse_flag = Flag(b.prefix)
            /\ row.layer_depth_normalized = <<b.layer, Floored(1, NumLayers - 1)>>
            /\ row.head_group_normalized = <<b.head, Floored(1, NumHeadGroups - 1)>>
            /\ row.is_heavy_hitter = Flag(b.avg >= HeavyThreshold(single, HeavyHitters(N)))
            /\ row.is_recent_window = Flag(i >= Floored(1, Max(DOMAIN batch)) - RecentWindow)
            /\ row.access_frequency_log = <<b.count, step>>
            /\ row.tier_encoded = <<Tier[b.tier], 3>>
            /\ row.inter_access_interval_normalized = <<step - b.last, step>>
  BY DEF Served, BatchStats, Extract

\* What is trained on, in the terms of the batch it was recorded from.
LEMMA TrainedRow ==
  ASSUME FeaturesInv, Asked, NEW i \in DOMAIN batch
  PROVE  LET step == OrOne(Largest(batch, "last"))
             b == batch[i]
             row == Trained[i]
         IN /\ row.block_age_normalized = <<b.age, OrOne(Largest(batch, "age"))>>
            /\ row.recency_score = <<1, 1 + step - b.last>>
            /\ row.access_frequency = <<b.count, Floored(1, step)>>
            /\ row.avg_attention_score = <<b.avg, 1>>
            /\ row.max_attention_score = <<b.max, 1>>
            /\ row.attention_rank_normalized
                 = <<Rank(Attention(batch), b.avg), Cardinality(DOMAIN batch)>>
            /\ row.sink_token_flag = Flag(i < 4)
            /\ row.prefix_reuse_flag = Flag(b.prefix)
            /\ row.layer_depth_normalized = <<b.layer, Floored(1, Largest(batch, "layer"))>>
            /\ row.head_group_normalized = <<b.head, 8>>
            /\ row.is_heavy_hitter = Flag(5 * b.avg >= Percentile80(Attention(batch)))
            /\ row.is_recent_window = <<Capped(512, Floored(0, i - (OrOne(Max(DOMAIN batch)) - 512))), 512>>
            /\ row.access_frequency_log = <<b.count, Floored(1, step)>>
            /\ row.tier_encoded = <<Tier[b.tier], 3>>
            /\ row.inter_access_interval_normalized = <<step - b.last, Floored(1, step)>>
  <1> DEFINE t == TraceOf
  <1>1. Trained[i] = TrainRow(i, t)
    BY DEF Trained, TraceOf
  <1>2. DOMAIN t = DOMAIN batch /\ Attention(t) = Attention(batch)
    BY DEF TraceOf, Attention, FromBlockState
  <1>3. /\ Largest(t, "age") = Largest(batch, "age") /\ Largest(t, "last") = Largest(batch, "last")
        /\ Largest(t, "layer") = Largest(batch, "layer")
    BY AnchorsAgree
  <1>4. t[i] = FromBlockState(batch[i])
    BY DEF TraceOf
  <1>5. /\ t[i].age = batch[i].age /\ t[i].last = batch[i].last /\ t[i].count = batch[i].count
        /\ t[i].avg = batch[i].avg /\ t[i].max = batch[i].max /\ t[i].prefix = batch[i].prefix
        /\ t[i].layer = batch[i].layer /\ t[i].head = batch[i].head
    BY <1>4 DEF FromBlockState
  <1>6. TierEncoded(t[i]) = Tier[batch[i].tier]
    <2> DEFINE tier == batch[i].tier
    <2>1. /\ t[i].quantized_flag = (tier = "GPU_QUANTIZED")
          /\ t[i].offloaded_flag = (tier = "CPU_OFFLOADED") /\ t[i].evicted_flag = (tier = "EVICTED")
      BY <1>4 DEF FromBlockState
    <2>2. tier \in {"GPU_FP16", "GPU_QUANTIZED", "CPU_OFFLOADED", "EVICTED"}
      BY BlockFields
    <2>3. /\ Tier["GPU_FP16"] = 0 /\ Tier["GPU_QUANTIZED"] = 1 /\ Tier["CPU_OFFLOADED"] = 2
          /\ Tier["EVICTED"] = 3
      BY DEF Tier
    <2> HIDE DEF tier, t
    <2> QED BY <2>1, <2>2, <2>3 DEF TierEncoded, tier
  <1> HIDE DEF t
  <1> QED BY <1>1, <1>2, <1>3, <1>5, <1>6 DEF TrainRow, TrainRecency

\* What is divided by.
LEMMA Denominators ==
  ASSUME NEW v \in Nat
  PROVE  /\ Floored(1, v) = OrOne(v) /\ Floored(1, OrOne(v)) = OrOne(v)
         /\ OrOne(v) \in Nat \ {0} /\ v <= OrOne(v)
  BY DEF Floored, OrOne

-----------------------------------------------------------------------------
\* float32 keeps what its values are at least.
LEMMA SingleIsNat ==
  ASSUME NEW v \in Nat
  PROVE  /\ Single(v) \in Nat
         /\ \A u \in Nat : v >= Single(u) => Single(v) >= Single(u)
  <1>1. Grain \in Nat \ {0}
    BY FeatureAssumption
  <1> DEFINE half == Grain \div 2
  <1>2. half \in Nat
    BY <1>1
  <1> HIDE DEF half
  <1>3. ASSUME NEW u \in Nat
        PROVE  LET q == (u + half) \div Grain
               IN  q \in Nat /\ Single(u) = Grain * q /\ Grain * q \in Nat
                   /\ Grain * q <= u + half /\ u + half < Grain * q + Grain
    <2> DEFINE q == (u + half) \div Grain
    <2>1. q \in Int /\ Grain * q <= u + half /\ u + half < Grain * q + Grain
      BY <1>1, <1>2
    <2>2. q \in Nat
      BY <1>1, <1>2
    <2>3. Single(u) = Grain * q
      BY DEF Single, half
    <2> HIDE DEF q
    <2>4. Grain * q \in Nat
      BY <1>1, <2>2
    <2> QED BY <2>1, <2>2, <2>3, <2>4 DEF q
  <1>4. ASSUME NEW u \in Nat, v >= Single(u) PROVE Single(v) >= Single(u)
    <2> DEFINE p == (v + half) \div Grain
               q == (u + half) \div Grain
    <2>1. /\ p \in Nat /\ Single(v) = Grain * p /\ v + half < Grain * p + Grain
          /\ q \in Nat /\ Single(u) = Grain * q
      BY <1>3
    <2> HIDE DEF p, q
    <2>2. Grain * q < Grain * p + Grain
      <3>1. Grain * q \in Nat /\ Grain * p \in Nat
        BY <1>1, <2>1
      <3> QED BY <1>1, <1>2, <1>4, <2>1, <3>1
    <2>3. Grain * q < Grain * (p + 1)
      BY <1>1, <2>1, <2>2
    <2>4. q < p + 1
      BY <1>1, <2>1, <2>3
    <2>5. q <= p
      BY <2>1, <2>4
    <2>6. Grain * q <= Grain * p
      BY <1>1, <2>1, <2>5
    <2> QED BY <2>1, <2>6
  <1> QED BY <1>3, <1>4

\* Of a part of a finite set and the rest.
LEMMA PartAndRest ==
  ASSUME NEW S, IsFiniteSet(S), NEW T \in SUBSET S
  PROVE  /\ Cardinality(S \ T) = Cardinality(S) - Cardinality(T)
         /\ Cardinality(T) \in Nat /\ Cardinality(S) \in Nat /\ Cardinality(S \ T) \in Nat
         /\ Cardinality(T) <= Cardinality(S)
  <1>1. S \cap T = T
    OBVIOUS
  <1>2. Cardinality(S \ T) = Cardinality(S) - Cardinality(S \cap T)
    BY FS_Difference
  <1>3. S \ T \in SUBSET S
    OBVIOUS
  <1> QED BY <1>1, <1>2, <1>3, PartIsFinite

\* The threshold: the attention of one of the blocks, reached by as many as there are
\* to be heavy hitters, and by no more when all are different.
LEMMA ThresholdCounts ==
  ASSUME NEW S, IsFiniteSet(S), S # {}, NEW f \in [S -> Nat], NEW n \in 1..Cardinality(S)
  PROVE  LET top == HeavyThreshold(f, n)
         IN /\ top \in Nat /\ \E i \in S : top = f[i]
            /\ Cardinality({i \in S : f[i] >= top}) >= n
            /\ (\A i, j \in S : f[i] = f[j] => i = j) => Cardinality({i \in S : f[i] >= top}) <= n
  <1> DEFINE N == Cardinality(S)
             top == HeavyThreshold(f, n)
             Under == {i \in S : f[i] < top}
             Level == {i \in S : f[i] <= top}
             Over == {i \in S : f[i] >= top}
  <1>1. N \in Nat /\ n \in Nat /\ N - n \in Nat /\ N - n < N
    BY FS_CardinalityType
  <1>2. top = Smallest(f, S, N - n)
    BY DEF HeavyThreshold
  <1> HIDE DEF top, N
  <1>3. /\ top \in Nat /\ \E i \in S : top = f[i]
        /\ Cardinality(Under) <= N - n /\ N - n < Cardinality(Level)
    <2>1. N - n < Cardinality(S)
      BY <1>1 DEF N
    <2> QED BY <1>1, <1>2, <2>1, SmallestIsThere
  <1>4. Over = S \ Under
    BY <1>3
  <1>5. /\ Cardinality(Over) = N - Cardinality(Under) /\ Cardinality(Under) \in Nat
        /\ Cardinality(Over) \in Nat
    <2>1. Under \in SUBSET S
      OBVIOUS
    <2> HIDE DEF Under, Over
    <2> QED BY <1>4, <2>1, PartAndRest DEF N
  <1>6. ASSUME \A i, j \in S : f[i] = f[j] => i = j PROVE Cardinality(Over) <= n
    <2>1. PICK first \in S : top = f[first]
      BY <1>3
    <2>2. Level = Under \union {first}
      BY <1>3, <1>6, <2>1
    <2>3. IsFiniteSet(Under) /\ first \notin Under
      <3>1. Under \in SUBSET S
        OBVIOUS
      <3>2. first \notin Under
        BY <1>3, <2>1
      <3> HIDE DEF Under
      <3> QED BY <3>1, <3>2, PartIsFinite
    <2> HIDE DEF Level, Under, Over
    <2>4. Cardinality(Level) = Cardinality(Under) + 1
      BY <2>2, <2>3, FS_AddElement
    <2> QED BY <1>1, <1>3, <1>5, <2>4
  <1> HIDE DEF Over, Under, Level
  <1>7. Cardinality(Over) >= n
    BY <1>1, <1>3, <1>5
  <1> QED BY <1>3, <1>6, <1>7 DEF Over, top

\* The number of blocks, and of those to be heavy hitters.
LEMMA HowManyHeavy ==
  ASSUME FeaturesInv, Asked
  PROVE  LET N == Cardinality(DOMAIN batch) IN N \in Nat \ {0} /\ HeavyHitters(N) \in 1..N
  <1> DEFINE N == Cardinality(DOMAIN batch)
  <1>1. N \in Nat /\ N # 0
    BY FS_CardinalityType, FS_EmptySet DEF FeaturesInv, Asked
  <1>2. HeavyOneIn \in Nat \ {0}
    BY FeatureAssumption
  <1> DEFINE q == N \div HeavyOneIn
  <1> HIDE DEF N
  <1>3. q \in 0..N
    <2>1. HeavyOneIn * 0 <= N /\ N <= HeavyOneIn * N
      BY <1>1, <1>2
    <2> QED BY <1>1, <1>2, <2>1, QuotientIsBetween
  <1>4. HeavyHitters(N) = Floored(1, q)
    BY DEF HeavyHitters
  <1> HIDE DEF q
  <1>5. HeavyHitters(N) \in 1..N
    BY <1>1, <1>3, <1>4 DEF Floored
  <1> QED BY <1>1, <1>5 DEF N

Singles == [i \in DOMAIN batch |-> Single(batch[i].avg)]
Threshold == HeavyThreshold(Singles, HeavyHitters(Cardinality(DOMAIN batch)))

\* What the flag of a heavy hitter and the rank are.
LEMMA HeavyAndRank ==
  ASSUME FeaturesInv, Asked
  PROVE  /\ Singles \in [DOMAIN batch -> Nat] /\ Threshold \in Nat
         /\ \A i \in DOMAIN batch :
              /\ Served[i].is_heavy_hitter[1] = IF batch[i].avg >= Threshold THEN 1 ELSE 0
              /\ Served[i].is_heavy_hitter[2] = 1
              /\ Served[i].attention_rank_normalized[1]
                   = Cardinality({j \in DOMAIN batch : Singles[j] < batch[i].avg})
              /\ Served[i].attention_rank_normalized[2] = Cardinality(DOMAIN batch)
  <1>1. Singles \in [DOMAIN batch -> Nat]
    BY BlockFields, SingleIsNat DEF Singles
  <1>2. Threshold \in Nat
    BY <1>1, HowManyHeavy, ThresholdCounts DEF Threshold, FeaturesInv, Asked
  <1>3. ASSUME NEW i \in DOMAIN batch
        PROVE  /\ Served[i].is_heavy_hitter = Flag(batch[i].avg >= Threshold)
               /\ Served[i].attention_rank_normalized = <<Rank(Singles, batch[i].avg), Cardinality(DOMAIN batch)>>
               /\ DOMAIN Singles = DOMAIN batch
    BY ServedRow DEF Singles, Threshold
  <1>4. ASSUME NEW i \in DOMAIN batch
        PROVE  /\ Served[i].is_heavy_hitter[1] = IF batch[i].avg >= Threshold THEN 1 ELSE 0
               /\ Served[i].is_heavy_hitter[2] = 1
    <2>1. Served[i].is_heavy_hitter = Flag(batch[i].avg >= Threshold)
      BY <1>3
    <2> QED BY <2>1 DEF Flag
  <1>5. ASSUME NEW i \in DOMAIN batch
        PROVE  /\ Served[i].attention_rank_normalized[1]
                    = Cardinality({j \in DOMAIN batch : Singles[j] < batch[i].avg})
               /\ Served[i].attention_rank_normalized[2] = Cardinality(DOMAIN batch)
    <2>1. /\ Served[i].attention_rank_normalized[1] = Rank(Singles, batch[i].avg)
          /\ Served[i].attention_rank_normalized[2] = Cardinality(DOMAIN batch)
          /\ DOMAIN Singles = DOMAIN batch
      BY <1>3
    <2>2. Rank(Singles, batch[i].avg)
            = Cardinality({j \in DOMAIN Singles : Singles[j] < batch[i].avg})
      BY DEF Rank
    <2> QED BY <2>1, <2>2
  <1> QED BY <1>1, <1>2, <1>4, <1>5

\* More attention is never a lower rank, nor a flag lost.
LEMMA OrderOfAttention == ASSUME FeaturesInv PROVE AttentionOrderKept
  <1> SUFFICES ASSUME Asked, NEW i \in DOMAIN batch, NEW j \in DOMAIN batch, batch[i].avg <= batch[j].avg
               PROVE  /\ Served[i].attention_rank_normalized[1] <= Served[j].attention_rank_normalized[1]
                      /\ Served[i].is_heavy_hitter[1] <= Served[j].is_heavy_hitter[1]
    BY DEF AttentionOrderKept
  <1> DEFINE Lower(k) == {l \in DOMAIN batch : Singles[l] < batch[k].avg}
  <1>1. batch[i].avg \in Nat /\ batch[j].avg \in Nat /\ Threshold \in Nat
        /\ \A l \in DOMAIN batch : Singles[l] \in Nat
    BY BlockFields, HeavyAndRank
  <1>2. Lower(i) \subseteq Lower(j)
    BY <1>1
  <1>3. IsFiniteSet(Lower(j))
    <2>1. Lower(j) \in SUBSET DOMAIN batch
      OBVIOUS
    <2> HIDE DEF Lower
    <2> QED BY <2>1, PartIsFinite DEF FeaturesInv
  <1>4. Cardinality(Lower(i)) <= Cardinality(Lower(j))
    <2> HIDE DEF Lower
    <2> QED BY <1>2, <1>3, FS_Subset
  <1>5. (batch[i].avg >= Threshold) => batch[j].avg >= Threshold
    BY <1>1
  <1> QED BY <1>4, <1>5, HeavyAndRank

\* No more blocks are heavy hitters than should be if all are different in float32, and
\* no fewer if none is rounded.
LEMMA HeavyAreCounted == ASSUME FeaturesInv PROVE HeavyHittersCounted
  <1> SUFFICES ASSUME Asked PROVE HeavyHittersCounted
    BY DEF HeavyHittersCounted
  <1> DEFINE S == DOMAIN batch
             n == HeavyHitters(Cardinality(S))
             flagged == {i \in S : Served[i].is_heavy_hitter[1] = 1}
             Over == {i \in S : Singles[i] >= Threshold}
  <1>1. IsFiniteSet(S) /\ S # {} /\ n \in 1..Cardinality(S) /\ Singles \in [S -> Nat] /\ n \in Nat
    BY HowManyHeavy, HeavyAndRank DEF FeaturesInv, Asked
  <1>2. /\ Threshold \in Nat /\ \E i \in S : Threshold = Singles[i]
        /\ Cardinality(Over) >= n
        /\ (\A i, j \in S : Singles[i] = Singles[j] => i = j) => Cardinality(Over) <= n
    BY <1>1, ThresholdCounts DEF Threshold
  <1>3. flagged = {i \in S : batch[i].avg >= Threshold}
    <2>1. \A i \in S : Served[i].is_heavy_hitter[1] = IF batch[i].avg >= Threshold THEN 1 ELSE 0
      BY HeavyAndRank
    <2>2. \A i \in S : Served[i].is_heavy_hitter[1] = 1 <=> batch[i].avg >= Threshold
      BY <2>1
    <2> QED BY <2>2
  <1>4. PICK top \in S : Threshold = Single(batch[top].avg)
    BY <1>2 DEF Singles
  <1>5. flagged \in SUBSET Over
    <2>1. ASSUME NEW i \in S, batch[i].avg >= Threshold PROVE Singles[i] >= Threshold
      <3>1. batch[i].avg \in Nat /\ batch[top].avg \in Nat
        BY BlockFields
      <3>2. Single(batch[i].avg) >= Single(batch[top].avg)
        BY <1>4, <2>1, <3>1, SingleIsNat
      <3> QED BY <1>4, <3>2 DEF Singles
    <2> QED BY <1>3, <2>1
  <1>6. Over \in SUBSET S
    OBVIOUS
  <1>7. Cardinality(flagged) <= Cardinality(Over) /\ Cardinality(flagged) \in Nat /\ Cardinality(Over) \in Nat
    <2> HIDE DEF flagged, Over, S
    <2>1. IsFiniteSet(Over)
      BY <1>1, <1>6, PartIsFinite
    <2> QED BY <1>1, <1>5, <1>6, <2>1, PartIsFinite
  <1>8. ASSUME \A i, j \in S : Single(batch[i].avg) = Single(batch[j].avg) => i = j
        PROVE  Cardinality(flagged) <= n
    <2>1. \A i, j \in S : Singles[i] = Singles[j] => i = j
      BY <1>8 DEF Singles
    <2>2. Cardinality(Over) <= n
      BY <1>2, <2>1
    <2> HIDE DEF flagged, Over, n
    <2> QED BY <1>1, <1>7, <2>2
  <1>9. ASSUME \A i \in S : Single(batch[i].avg) = batch[i].avg
        PROVE  Cardinality(flagged) >= n
    <2>1. flagged = Over
      BY <1>3, <1>9 DEF Singles
    <2> HIDE DEF flagged, Over, n
    <2> QED BY <1>2, <2>1
  <1> HIDE DEF flagged, n
  <1> QED BY <1>8, <1>9 DEF HeavyHittersCounted, flagged, n

-----------------------------------------------------------------------------
\* What LabelGenerator takes for granted of the extractor's configuration: four blocks are
\* sinks, and heads are divided by eight.
AsTrained == SinkTokenBlocks = 4 /\ NumHeadGroups <= 9

\* On the features that are shared the row served is the row trained on.
LEMMA SharedAreSame == ASSUME FeaturesInv, AsTrained PROVE SharedFeaturesAgree
  <1> SUFFICES ASSUME Asked, NEW i \in DOMAIN batch, NEW f \in Shared
               PROVE  Same(Served[i][f], Trained[i][f])
    BY DEF SharedFeaturesAgree
  <1>1. Largest(batch, "age") \in Nat /\ Largest(batch, "last") \in Nat
    BY AnchorsAgree
  <1>2. /\ Floored(1, Largest(batch, "age")) = OrOne(Largest(batch, "age"))
        /\ Floored(1, Largest(batch, "last")) = OrOne(Largest(batch, "last"))
        /\ Floored(1, OrOne(Largest(batch, "last"))) = OrOne(Largest(batch, "last"))
    BY <1>1, Denominators
  <1>3. SinkTokenBlocks = 4
    BY DEF AsTrained
  <1> DEFINE s == Served[i]
             t == Trained[i]
             b == batch[i]
             age == OrOne(Largest(batch, "age"))
             step == OrOne(Largest(batch, "last"))
             tier == <<Tier[b.tier], 3>>
  <1>4. /\ s.block_age_normalized = <<b.age, age>>
        /\ s.recency_score = <<1, 1 + step - b.last>>
        /\ s.access_frequency = <<b.count, step>>
        /\ s.avg_attention_score = <<b.avg, 1>>
        /\ s.max_attention_score = <<b.max, 1>>
        /\ s.sink_token_flag = Flag(i < 4)
        /\ s.prefix_reuse_flag = Flag(b.prefix)
        /\ s.access_frequency_log = <<b.count, step>>
        /\ s.tier_encoded = tier
        /\ s.inter_access_interval_normalized = <<step - b.last, step>>
    BY <1>2, <1>3, ServedRow
  <1>5. /\ t.block_age_normalized = <<b.age, age>>
        /\ t.recency_score = <<1, 1 + step - b.last>>
        /\ t.access_frequency = <<b.count, step>>
        /\ t.avg_attention_score = <<b.avg, 1>>
        /\ t.max_attention_score = <<b.max, 1>>
        /\ t.sink_token_flag = Flag(i < 4)
        /\ t.prefix_reuse_flag = Flag(b.prefix)
        /\ t.access_frequency_log = <<b.count, step>>
        /\ t.tier_encoded = tier
        /\ t.inter_access_interval_normalized = <<step - b.last, step>>
    BY <1>2, TrainedRow
  <1>6. s[f] = t[f]
    <2> HIDE DEF s, t, b, age, step, tier
    <2> QED BY <1>4, <1>5 DEF Shared
  <1>7. Same(s[f], t[f]) = (t[f][1] * t[f][2] = t[f][1] * t[f][2])
    BY <1>6 DEF Same
  <1> QED BY <1>7

\* A part of a whole.
InUnit(ratio) == ratio[2] > 0 /\ ratio[1] \in 0..ratio[2]

\* What is named normalised, a score of recency or a flag is between 0 and 1.
LEMMA ServedInUnit ==
  ASSUME FeaturesInv, Asked, NEW i \in DOMAIN batch, NEW f \in Normalised
  PROVE  InUnit(Served[i][f])
  <1> DEFINE s == Served[i]
             b == batch[i]
             age == Largest(batch, "age")
             step == OrOne(Largest(batch, "last"))
             last == Max(DOMAIN batch)
             N == Cardinality(DOMAIN batch)
             lower == {j \in DOMAIN batch : Singles[j] < b.avg}
  <1>1. /\ age \in Nat /\ b.age \in Nat /\ b.age <= age
        /\ Largest(batch, "last") \in Nat /\ b.last \in Nat /\ b.last <= Largest(batch, "last")
        /\ b.layer \in 0..NumLayers - 1 /\ b.head \in 0..NumHeadGroups - 1
        /\ b.tier \in {"GPU_FP16", "GPU_QUANTIZED", "CPU_OFFLOADED", "EVICTED"}
    BY AnchorsAgree, BlockFields
  <1>2. step \in Nat \ {0} /\ b.last <= step /\ Floored(1, Largest(batch, "last")) = step
    <2>1. Largest(batch, "last") <= step /\ step \in Nat \ {0} /\ Floored(1, Largest(batch, "last")) = step
      BY <1>1, Denominators
    <2> HIDE DEF step, b
    <2> QED BY <1>1, <2>1
  <1>3. N \in Nat \ {0} /\ Cardinality(lower) \in 0..N
    <2>1. lower \in SUBSET DOMAIN batch
      OBVIOUS
    <2> HIDE DEF lower
    <2>2. Cardinality(lower) \in Nat /\ Cardinality(lower) <= N
      BY <2>1, PartIsFinite DEF FeaturesInv
    <2>3. N \in Nat \ {0}
      BY HowManyHeavy
    <2> HIDE DEF N
    <2> QED BY <2>2, <2>3
  <1>4. NumLayers \in Nat \ {0} /\ NumHeadGroups \in Nat \ {0}
    BY FeatureAssumption
  <1>5. InUnit(s.attention_rank_normalized) /\ InUnit(s.is_heavy_hitter)
    <2>1. /\ s.attention_rank_normalized[1] = Cardinality(lower)
          /\ s.attention_rank_normalized[2] = N
          /\ s.is_heavy_hitter[1] = IF b.avg >= Threshold THEN 1 ELSE 0
          /\ s.is_heavy_hitter[2] = 1
      BY HeavyAndRank
    <2> HIDE DEF s, lower, N
    <2> QED BY <1>3, <2>1 DEF InUnit
  <1>6. InUnit(s.block_age_normalized)
    <2>1. s.block_age_normalized = <<b.age, Floored(1, age)>>
      BY ServedRow
    <2> HIDE DEF s, b, age
    <2> QED BY <1>1, <2>1 DEF InUnit, Floored
  <1>7. InUnit(s.recency_score) /\ InUnit(s.inter_access_interval_normalized)
    <2>1. /\ s.recency_score = <<1, 1 + step - b.last>>
          /\ s.inter_access_interval_normalized = <<step - b.last, step>>
      BY <1>2, ServedRow
    <2> HIDE DEF s, b, step
    <2> QED BY <1>1, <1>2, <2>1 DEF InUnit
  <1>8. InUnit(s.layer_depth_normalized) /\ InUnit(s.head_group_normalized)
    <2>1. /\ s.layer_depth_normalized = <<b.layer, Floored(1, NumLayers - 1)>>
          /\ s.head_group_normalized = <<b.head, Floored(1, NumHeadGroups - 1)>>
      BY ServedRow
    <2> HIDE DEF s, b
    <2> QED BY <1>1, <1>4, <2>1 DEF InUnit, Floored
  <1>9. InUnit(s.is_recent_window)
    <2>1. s.is_recent_window = Flag(i >= Floored(1, last) - RecentWindow)
      BY ServedRow
    <2> HIDE DEF s, last
    <2> QED BY <2>1 DEF InUnit, Flag
  <1>10. InUnit(s.tier_encoded)
    <2>1. s.tier_encoded = <<Tier[b.tier], 3>>
      BY ServedRow
    <2>2. Tier[b.tier] \in 0..3
      BY <1>1 DEF Tier
    <2> HIDE DEF s, b
    <2> QED BY <2>1, <2>2 DEF InUnit
  <1> HIDE DEF s
  <1>11. InUnit(s[f])
    BY <1>5, <1>6, <1>7, <1>8, <1>9, <1>10 DEF Normalised
  <1> QED BY <1>11 DEF s

\* So it is when it is trained on.
LEMMA TrainedInUnit ==
  ASSUME FeaturesInv, AsTrained, Asked, NEW i \in DOMAIN batch, NEW f \in Normalised
  PROVE  InUnit(Trained[i][f])
  <1> DEFINE t == Trained[i]
             b == batch[i]
             age == Largest(batch, "age")
             step == OrOne(Largest(batch, "last"))
             layer == Largest(batch, "layer")
             last == OrOne(Max(DOMAIN batch))
             N == Cardinality(DOMAIN batch)
             lower == {j \in DOMAIN batch : batch[j].avg < b.avg}
  <1>1. /\ age \in Nat /\ b.age \in Nat /\ b.age <= age
        /\ Largest(batch, "last") \in Nat /\ b.last \in Nat /\ b.last <= Largest(batch, "last")
        /\ layer \in Nat /\ b.layer <= layer /\ b.layer \in 0..NumLayers - 1
        /\ b.head \in 0..NumHeadGroups - 1
        /\ b.tier \in {"GPU_FP16", "GPU_QUANTIZED", "CPU_OFFLOADED", "EVICTED"}
        /\ i \in Nat /\ Max(DOMAIN batch) \in Nat
    BY AnchorsAgree, BlockFields
  <1>2. step \in Nat \ {0} /\ b.last <= step /\ Floored(1, step) = step
    <2>1. Largest(batch, "last") <= step /\ step \in Nat \ {0} /\ Floored(1, step) = step
      BY <1>1, Denominators
    <2> HIDE DEF step, b
    <2> QED BY <1>1, <2>1
  <1>3. N \in Nat \ {0} /\ Cardinality(lower) \in 0..N
    <2>1. lower \in SUBSET DOMAIN batch
      OBVIOUS
    <2> HIDE DEF lower
    <2>2. Cardinality(lower) \in Nat /\ Cardinality(lower) <= N
      BY <2>1, PartIsFinite DEF FeaturesInv
    <2>3. N \in Nat \ {0}
      BY HowManyHeavy
    <2> HIDE DEF N
    <2> QED BY <2>2, <2>3
  <1>4. NumLayers \in Nat \ {0} /\ NumHeadGroups \in Nat \ {0} /\ NumHeadGroups <= 9
    BY FeatureAssumption DEF AsTrained
  <1>5. InUnit(t.attention_rank_normalized)
    <2>1. t.attention_rank_normalized = <<Rank(Attention(batch), b.avg), N>>
      BY TrainedRow
    <2>2. Rank(Attention(batch), b.avg) = Cardinality(lower)
      BY DEF Rank, Attention
    <2> HIDE DEF t, lower, N
    <2> QED BY <1>3, <2>1, <2>2 DEF InUnit
  <1>6. InUnit(t.block_age_normalized)
    <2>1. t.block_age_normalized = <<b.age, OrOne(age)>>
      BY TrainedRow
    <2> HIDE DEF t, b, age
    <2> QED BY <1>1, <2>1 DEF InUnit, OrOne
  <1>7. InUnit(t.recency_score) /\ InUnit(t.inter_access_interval_normalized)
    <2>1. /\ t.recency_score = <<1, 1 + step - b.last>>
          /\ t.inter_access_interval_normalized = <<step - b.last, step>>
      BY <1>2, TrainedRow
    <2> HIDE DEF t, b, step
    <2> QED BY <1>1, <1>2, <2>1 DEF InUnit
  <1>8. InUnit(t.layer_depth_normalized) /\ InUnit(t.head_group_normalized)
    <2>1. /\ t.layer_depth_normalized = <<b.layer, Floored(1, layer)>>
          /\ t.head_group_normalized = <<b.head, 8>>
      BY TrainedRow
    <2> HIDE DEF t, b, layer
    <2> QED BY <1>1, <1>4, <2>1 DEF InUnit, Floored
  <1>9. InUnit(t.is_recent_window)
    <2>1. t.is_recent_window = <<Capped(512, Floored(0, i - (last - 512))), 512>>
      BY TrainedRow
    <2>2. last \in Nat
      BY <1>1, Denominators
    <2> HIDE DEF t, last
    <2> QED BY <1>1, <2>1, <2>2 DEF InUnit, Floored, Capped
  <1>10. InUnit(t.tier_encoded)
    <2>1. t.tier_encoded = <<Tier[b.tier], 3>>
      BY TrainedRow
    <2>2. Tier[b.tier] \in 0..3
      BY <1>1 DEF Tier
    <2> HIDE DEF t, b
    <2> QED BY <2>1, <2>2 DEF InUnit
  <1>11. InUnit(t.is_heavy_hitter)
    <2>1. t.is_heavy_hitter = Flag(5 * b.avg >= Percentile80(Attention(batch)))
      BY TrainedRow
    <2> HIDE DEF t
    <2> QED BY <2>1 DEF InUnit, Flag
  <1> HIDE DEF t
  <1>12. InUnit(t[f])
    BY <1>5, <1>6, <1>7, <1>8, <1>9, <1>10, <1>11 DEF Normalised
  <1> QED BY <1>12 DEF t

\* The features of every batch, served and trained on: float32 keeps the order of
\* attention, heavy hitters are as many as they should be, what is shared is the same,
\* and what is normalised is between 0 and 1.
THEOREM ServedIsTrained ==
  ASSUME AsTrained
  PROVE  FeaturesSpec
           => [](AttentionOrderKept /\ HeavyHittersCounted /\ SharedFeaturesAgree /\ FeaturesInUnit)
  <1>1. FeaturesInit => FeaturesInv
    <2> SUFFICES ASSUME FeaturesInit PROVE FeaturesInv
      OBVIOUS
    <2>1. batch = <<>> /\ DOMAIN batch = {}
      BY DEF FeaturesInit
    <2> QED BY <2>1, FS_EmptySet DEF FeaturesInv
  <1>2. FeaturesInv /\ [FeaturesNext]_batch => FeaturesInv'
    BY FeaturesStep
  <1>3. FeaturesInv
          => AttentionOrderKept /\ HeavyHittersCounted /\ SharedFeaturesAgree /\ FeaturesInUnit
    <2> SUFFICES ASSUME FeaturesInv PROVE FeaturesInUnit
      BY OrderOfAttention, HeavyAreCounted, SharedAreSame
    <2>1. ASSUME Asked, NEW i \in DOMAIN batch, NEW f \in Normalised, NEW row \in {Served[i], Trained[i]}
          PROVE  row[f][2] > 0 /\ row[f][1] \in 0..row[f][2]
      <3>1. InUnit(row[f])
        BY <2>1, ServedInUnit, TrainedInUnit
      <3> QED BY <3>1 DEF InUnit
    <2> QED BY <2>1 DEF FeaturesInUnit
  <1> QED
    BY <1>1, <1>2, <1>3, PTL DEF FeaturesSpec

-----------------------------------------------------------------------------
\* ImportanceLabels: the score of a block and the labels of a trace.

\* Products, term by term.
LEMMA ProductGrows ==
  ASSUME NEW a \in Nat, NEW b \in Nat, NEW c \in Nat, a <= b
  PROVE  a * c \in Nat /\ b * c \in Nat /\ a * c <= b * c
  <1> DEFINE d == b - a
  <1>1. d \in Nat /\ b = a + d
    OBVIOUS
  <1> HIDE DEF d
  <1>2. b * c = a * c + d * c /\ a * c \in Nat /\ d * c \in Nat
    BY <1>1
  <1> QED BY <1>2

\* What a quotient is, from its remainder.
LEMMA QuotientIs ==
  ASSUME NEW a \in Nat, NEW b \in Nat \ {0}, NEW q \in Nat, b * q <= a, a < b * q + b
  PROVE  a \div b = q
  <1> DEFINE p == a \div b
  <1>1. p \in Int /\ b * p <= a /\ a < b * p + b
    OBVIOUS
  <1> HIDE DEF p
  <1>2. b * p < b * (q + 1) /\ b * q < b * (p + 1)
    BY <1>1
  <1>3. p < q + 1 /\ q < p + 1
    BY <1>1, <1>2
  <1> QED BY <1>1, <1>3 DEF p

\* The combined label before it is clipped, from what it is made of: the maxima A, C
\* and M, a record's attention a and m, and its reuse u.
Raw(A, C, M, a, m, u) == 8 * a * C * M + 3 * A * M * u + 6 * m * A * C - 2 * A * C * M

Reuse(C, r) == Clip((IF r.prefix THEN 2 * C ELSE 0) + r.count, 2 * C)

\* The sum that priority_score clips is a number, and grows with every part of it.
LEMMA RawGrows ==
  ASSUME NEW A \in Nat, NEW C \in Nat, NEW M \in Nat,
         NEW a \in Nat, NEW m \in Nat, NEW u \in Nat,
         NEW b \in Nat, NEW n \in Nat, NEW v \in Nat, a <= b, m <= n, u <= v
  PROVE  /\ Raw(A, C, M, a, m, u) \in Int /\ Raw(A, C, M, b, n, v) \in Int
         /\ Raw(A, C, M, a, m, u) <= Raw(A, C, M, b, n, v)
  <1>1. 8 * a * C * M \in Nat /\ 8 * b * C * M \in Nat /\ 8 * a * C * M <= 8 * b * C * M
    <2>1. 8 * a \in Nat /\ 8 * b \in Nat /\ 8 * a <= 8 * b
      OBVIOUS
    <2>2. 8 * a * C \in Nat /\ 8 * b * C \in Nat /\ 8 * a * C <= 8 * b * C
      BY <2>1, ProductGrows
    <2> QED BY <2>2, ProductGrows
  <1>2. 3 * A * M * u \in Nat /\ 3 * A * M * v \in Nat /\ 3 * A * M * u <= 3 * A * M * v
    <2> DEFINE w == 3 * A * M
    <2>1. w \in Nat
      OBVIOUS
    <2> HIDE DEF w
    <2>2. u * w \in Nat /\ v * w \in Nat /\ u * w <= v * w
      BY <2>1, ProductGrows
    <2>3. u * w = w * u /\ v * w = w * v
      BY <2>1
    <2> QED BY <2>2, <2>3 DEF w
  <1>3. 6 * m * A * C \in Nat /\ 6 * n * A * C \in Nat /\ 6 * m * A * C <= 6 * n * A * C
    <2>1. 6 * m \in Nat /\ 6 * n \in Nat /\ 6 * m <= 6 * n
      OBVIOUS
    <2>2. 6 * m * A \in Nat /\ 6 * n * A \in Nat /\ 6 * m * A <= 6 * n * A
      BY <2>1, ProductGrows
    <2> QED BY <2>2, ProductGrows
  <1>4. 2 * A * C * M \in Nat
    OBVIOUS
  <1> DEFINE a1 == 8 * a * C * M
             b1 == 8 * b * C * M
             a2 == 3 * A * M * u
             b2 == 3 * A * M * v
             a3 == 6 * m * A * C
             b3 == 6 * n * A * C
             d == 2 * A * C * M
  <1>5. Raw(A, C, M, a, m, u) = a1 + a2 + a3 - d /\ Raw(A, C, M, b, n, v) = b1 + b2 + b3 - d
    BY DEF Raw
  <1> HIDE DEF a1, b1, a2, b2, a3, b3, d
  <1>6. a1 <= b1 /\ a2 <= b2 /\ a3 <= b3 /\ {a1, a2, a3, b1, b2, b3, d} \subseteq Nat
    BY <1>1, <1>2, <1>3, <1>4 DEF a1, b1, a2, b2, a3, b3, d
  <1>7. a1 + a2 + a3 - d \in Int /\ b1 + b2 + b3 - d \in Int
        /\ a1 + a2 + a3 - d <= b1 + b2 + b3 - d
    BY <1>6
  <1> QED BY <1>5, <1>7

Records == [avg : Nat, max : Nat, count : Nat, prefix : BOOLEAN, quantised : BOOLEAN]
LabelsInv == scored \in Seq(Records)

\* What the labels of a trace with records are divided by.
LEMMA TraceAnchors ==
  ASSUME LabelsInv, NEW k \in DOMAIN scored
  PROVE  /\ IsFiniteSet(DOMAIN scored) /\ \A j \in DOMAIN scored : scored[j] \in Records
         /\ \A field \in {"avg", "max", "count"} :
              /\ Largest(scored, field) \in Nat
              /\ \A j \in DOMAIN scored : scored[j][field] <= Largest(scored, field)
              /\ \E j \in DOMAIN scored : scored[j][field] = Largest(scored, field)
  <1> DEFINE n == Len(scored)
  <1>1. n \in Nat /\ DOMAIN scored = 1..n /\ \A j \in DOMAIN scored : scored[j] \in Records
    <2>1. scored \in Seq(Records)
      BY DEF LabelsInv
    <2>2. Len(scored) \in Nat /\ DOMAIN scored = 1..Len(scored)
          /\ \A j \in 1..Len(scored) : scored[j] \in Records
      BY <2>1, ElementOfSeq
    <2> QED BY <2>2
  <1> HIDE DEF n
  <1>2. IsFiniteSet(DOMAIN scored)
    BY <1>1, FS_Interval
  <1>3. ASSUME NEW field \in {"avg", "max", "count"}
        PROVE  \A j \in DOMAIN scored : scored[j][field] \in Nat
    BY <1>1 DEF Records
  <1> QED BY <1>1, <1>2, <1>3, LargestInColumn

\* The combined label is Raw, clipped to the whole.
LEMMA CombinedIsRaw ==
  ASSUME NEW t, NEW r
  PROVE  LET A == OrOne(Largest(t, "avg"))
             C == OrOne(Largest(t, "count"))
             M == OrOne(Largest(t, "max"))
         IN Combined(t, r) = <<Clip(Raw(A, C, M, r.avg, r.max, Reuse(C, r)), 20 * A * C * M), 20 * A * C * M>>
  BY DEF Combined, Raw, Reuse

\* A product of three that are not 0.
LEMMA WholeIsPositive ==
  ASSUME NEW A \in Nat \ {0}, NEW C \in Nat \ {0}, NEW M \in Nat \ {0}
  PROVE  20 * A * C * M \in Nat \ {0} /\ A * C * M \in Nat \ {0}
  <1>1. 20 * A \in Nat \ {0}
    OBVIOUS
  <1>2. 20 * A * C \in Nat \ {0}
    BY <1>1
  <1>3. A * C \in Nat \ {0}
    OBVIOUS
  <1>4. A * C * M \in Nat \ {0}
    BY <1>3
  <1> QED BY <1>2, <1>4

\* More reuse of a record that is used more.
LEMMA ReuseGrows ==
  ASSUME NEW C \in Nat, NEW r \in Records, NEW s \in Records, Below(r, s)
  PROVE  Reuse(C, r) \in Nat /\ Reuse(C, s) \in Nat /\ Reuse(C, r) <= Reuse(C, s)
  BY DEF Reuse, Clip, Records, Below

-----------------------------------------------------------------------------
\* No record that another exceeds in every signal is labelled or scored above it.
LEMMA OrderIsKept == ASSUME LabelsInv PROVE OrderKept
  <1> SUFFICES ASSUME NEW j \in DOMAIN scored, NEW k \in DOMAIN scored, Below(scored[j], scored[k])
               PROVE  /\ AtMostAs(Combined(scored, scored[j]), Combined(scored, scored[k]))
                      /\ AtMostAs(AttentionMass(scored, scored[j]), AttentionMass(scored, scored[k]))
                      /\ ScoreBlock(scored[j]) <= ScoreBlock(scored[k])
    BY DEF OrderKept
  <1> DEFINE r == scored[j]
             s == scored[k]
             A == OrOne(Largest(scored, "avg"))
             C == OrOne(Largest(scored, "count"))
             M == OrOne(Largest(scored, "max"))
  <1>1. r \in Records /\ s \in Records /\ Below(r, s)
    BY TraceAnchors
  <1>2. A \in Nat \ {0} /\ C \in Nat \ {0} /\ M \in Nat \ {0}
    BY TraceAnchors DEF OrOne
  <1>3. /\ Combined(scored, r) = <<Clip(Raw(A, C, M, r.avg, r.max, Reuse(C, r)), 20 * A * C * M), 20 * A * C * M>>
        /\ Combined(scored, s) = <<Clip(Raw(A, C, M, s.avg, s.max, Reuse(C, s)), 20 * A * C * M), 20 * A * C * M>>
    BY CombinedIsRaw
  <1>4. AttentionMass(scored, r) = <<r.avg, A>> /\ AttentionMass(scored, s) = <<s.avg, A>>
    BY DEF AttentionMass
  <1> HIDE DEF A, C, M, r, s
  <1> DEFINE u == Reuse(C, r)
             v == Reuse(C, s)
             x == Raw(A, C, M, r.avg, r.max, u)
             y == Raw(A, C, M, s.avg, s.max, v)
             w == 20 * A * C * M
  <1>5. u \in Nat /\ v \in Nat /\ u <= v
    BY <1>1, <1>2, ReuseGrows
  <1>6. /\ r.avg \in Nat /\ s.avg \in Nat /\ r.avg <= s.avg
        /\ r.max \in Nat /\ s.max \in Nat /\ r.max <= s.max
    BY <1>1 DEF Records, Below
  <1> HIDE DEF u, v
  <1>7. x \in Int /\ y \in Int /\ x <= y
    BY <1>2, <1>5, <1>6, RawGrows
  <1>8. w \in Nat
    BY <1>2, WholeIsPositive
  <1>9. Combined(scored, r) = <<Clip(x, w), w>> /\ Combined(scored, s) = <<Clip(y, w), w>>
    BY <1>3 DEF u, v
  <1> HIDE DEF x, y, w
  <1>10. AtMostAs(Combined(scored, r), Combined(scored, s))
    BY <1>7, <1>8, <1>9 DEF AtMostAs, Clip
  <1>11. AtMostAs(AttentionMass(scored, r), AttentionMass(scored, s))
    BY <1>4, <1>6 DEF AtMostAs
  <1>12. ScoreBlock(r) <= ScoreBlock(s)
    <2> DEFINE a1 == Clip(r.avg, 10)
               a2 == Clip(s.avg, 10)
               b1 == ReuseProxy(r)
               b2 == ReuseProxy(s)
               c1 == Clip(r.max, 10)
               c2 == Clip(s.max, 10)
               d1 == MemoryCost(r)
               d2 == MemoryCost(s)
    <2>1. a1 \in Nat /\ a2 \in Nat /\ a1 <= a2 /\ c1 \in Nat /\ c2 \in Nat /\ c1 <= c2
      BY <1>6 DEF Clip
    <2>2. b1 \in Nat /\ b2 \in Nat /\ b1 <= b2
      BY <1>1 DEF ReuseProxy, Clip, Below, Records
    <2>3. d1 \in Nat /\ d2 \in Nat /\ d2 <= d1
      BY <1>1 DEF MemoryCost, Below, Records
    <2>4. /\ ScoreBlock(r) = Clip(40 * a1 + 30 * b1 + 30 * c1 - 10 * d1, 1000)
          /\ ScoreBlock(s) = Clip(40 * a2 + 30 * b2 + 30 * c2 - 10 * d2, 1000)
      BY DEF ScoreBlock
    <2> HIDE DEF a1, a2, b1, b2, c1, c2, d1, d2
    <2> QED BY <2>1, <2>2, <2>3, <2>4 DEF Clip
  <1> QED BY <1>10, <1>11, <1>12 DEF r, s

\* The record that leads its trace is to be kept, one without any signal is not.
LEMMA EndsAreKept == ASSUME LabelsInv PROVE EndsKept
  <1> SUFFICES ASSUME NEW k \in DOMAIN scored
               PROVE  LET r == scored[k]
                      IN /\ (\A j \in DOMAIN scored : Below(scored[j], r)) /\ r.max > 0 /\ r.avg > 0 /\ r.count > 0
                              => Keep(Combined(scored, r)) /\ Keep(AttentionMass(scored, r))
                         /\ Below(r, Record(0, 0, 0, FALSE, TRUE))
                              => ~Keep(Combined(scored, r)) /\ ScoreBlock(r) = 0
    BY DEF EndsKept
  <1> DEFINE r == scored[k]
             A == OrOne(Largest(scored, "avg"))
             C == OrOne(Largest(scored, "count"))
             M == OrOne(Largest(scored, "max"))
             u == Reuse(C, r)
             x == Raw(A, C, M, r.avg, r.max, u)
             w == 20 * A * C * M
             p == A * C * M
  <1>1. r \in Records
    BY TraceAnchors
  <1>2. A \in Nat \ {0} /\ C \in Nat \ {0} /\ M \in Nat \ {0}
    BY TraceAnchors DEF OrOne
  <1>3. Combined(scored, r) = <<Clip(x, w), w>> /\ AttentionMass(scored, r) = <<r.avg, A>>
    BY CombinedIsRaw DEF AttentionMass
  <1>4. w \in Nat \ {0} /\ p \in Nat \ {0} /\ w = 20 * p
    <2> HIDE DEF A, C, M
    <2>1. w \in Nat \ {0} /\ p \in Nat \ {0}
      BY <1>2, WholeIsPositive
    <2>2. w = 20 * p
      BY <1>2
    <2> QED BY <2>1, <2>2
  <1>5. ASSUME \A j \in DOMAIN scored : Below(scored[j], r), r.max > 0, r.avg > 0, r.count > 0
        PROVE  Keep(Combined(scored, r)) /\ Keep(AttentionMass(scored, r))
    <2>1. r.avg = Largest(scored, "avg") /\ r.count = Largest(scored, "count") /\ r.max = Largest(scored, "max")
      <3>1. /\ \A j \in DOMAIN scored :
                 /\ scored[j].avg <= r.avg /\ scored[j].count <= r.count /\ scored[j].max <= r.max
            /\ r.avg \in Nat /\ r.count \in Nat /\ r.max \in Nat
        BY <1>1, <1>5 DEF Below, Records
      <3>2. /\ r.avg <= Largest(scored, "avg") /\ r.count <= Largest(scored, "count")
            /\ r.max <= Largest(scored, "max")
            /\ Largest(scored, "avg") \in Nat /\ Largest(scored, "count") \in Nat
            /\ Largest(scored, "max") \in Nat
        BY TraceAnchors
      <3>3. /\ \E j \in DOMAIN scored : scored[j].avg = Largest(scored, "avg")
            /\ \E j \in DOMAIN scored : scored[j].count = Largest(scored, "count")
            /\ \E j \in DOMAIN scored : scored[j].max = Largest(scored, "max")
        BY TraceAnchors
      <3>4. /\ Largest(scored, "avg") <= r.avg /\ Largest(scored, "count") <= r.count
            /\ Largest(scored, "max") <= r.max
        BY <3>1, <3>3
      <3> HIDE DEF r
      <3> QED BY <3>1, <3>2, <3>4
    <2>2. r.avg = A /\ r.count = C /\ r.max = M
      BY <1>1, <1>5, <2>1 DEF OrOne
    <2> HIDE DEF A, C, M, r
    <2>3. u \in Nat /\ C <= u
      BY <1>1, <1>2, <2>2 DEF Reuse, Clip, Records
    <2> HIDE DEF u
    <2>4. Raw(A, C, M, A, M, C) \in Int /\ x \in Int /\ Raw(A, C, M, A, M, C) <= x
      <3>1. A \in Nat /\ C \in Nat /\ M \in Nat /\ A <= A /\ M <= M
        BY <1>2
      <3>2. /\ Raw(A, C, M, A, M, C) \in Int /\ Raw(A, C, M, A, M, u) \in Int
            /\ Raw(A, C, M, A, M, C) <= Raw(A, C, M, A, M, u)
        BY <2>3, <3>1, RawGrows
      <3>3. x = Raw(A, C, M, A, M, u)
        BY <2>2
      <3> HIDE DEF x
      <3> QED BY <3>2, <3>3
    <2>5. Raw(A, C, M, A, M, C) = 15 * p
      BY <1>2 DEF Raw
    <2> HIDE DEF x, w, p
    <2>6. Keep(<<Clip(x, w), w>>)
      BY <1>4, <2>4, <2>5 DEF Keep, Clip
    <2>7. Keep(<<r.avg, A>>)
      BY <1>2, <2>2 DEF Keep
    <2> QED BY <1>3, <2>6, <2>7
  <1>6. ASSUME Below(r, Record(0, 0, 0, FALSE, TRUE))
        PROVE  ~Keep(Combined(scored, r)) /\ ScoreBlock(r) = 0
    <2>1. r.avg = 0 /\ r.max = 0 /\ r.count = 0 /\ ~r.prefix /\ r.quantised \in BOOLEAN
      BY <1>1, <1>6 DEF Below, Record, Records
    <2> HIDE DEF A, C, M, r
    <2>2. u = 0
      BY <1>2, <2>1 DEF Reuse, Clip
    <2>3. x = -2 * p
      <3>1. x = Raw(A, C, M, 0, 0, 0)
        BY <2>1, <2>2
      <3>2. 8 * 0 * C * M = 0 /\ 3 * A * M * 0 = 0 /\ 6 * 0 * A * C = 0 /\ 2 * A * C * M = 2 * p
        BY <1>2
      <3> QED BY <1>4, <3>1, <3>2 DEF Raw
    <2> HIDE DEF x, w, p
    <2>4. ~Keep(<<Clip(x, w), w>>)
      BY <1>4, <2>3 DEF Keep, Clip
    <2>5. ScoreBlock(r) = 0
      BY <2>1 DEF ScoreBlock, ReuseProxy, MemoryCost, Clip
    <2> QED BY <1>3, <2>4, <2>5
  <1> QED BY <1>5, <1>6

\* A clipped ratio in thousandths does not change when both sides are multiplied.
LEMMA ThousandthsScale ==
  ASSUME NEW z \in {1, 3, 9}, NEW x \in Int, NEW w \in Nat \ {0}
  PROVE  Thousandths(<<Clip(z * x, z * w), z * w>>) = Thousandths(<<Clip(x, w), w>>)
  <1> DEFINE c == Clip(x, w)
             q == (1000 * c) \div w
  <1>1. c \in Nat /\ Clip(z * x, z * w) = z * c
    BY DEF Clip
  <1> HIDE DEF c
  <1>2. 1000 * c \in Nat
    BY <1>1
  <1>3. q \in Nat /\ w * q \in Nat /\ w * q <= 1000 * c /\ 1000 * c < w * q + w
    BY <1>2
  <1>4. Thousandths(<<c, w>>) = q
    BY DEF Thousandths
  <1> HIDE DEF q
  <1> DEFINE g == w * q
  <1>5. /\ z * w \in Nat \ {0} /\ 1000 * (z * c) \in Nat
        /\ (z * w) * q = z * g
    BY <1>1, <1>3
  <1>6. g \in Nat /\ g <= 1000 * c /\ 1000 * c < g + w
    BY <1>3
  <1> HIDE DEF g
  <1>7. z * g <= 1000 * (z * c) /\ 1000 * (z * c) < z * g + z * w
    BY <1>1, <1>6
  <1>8. (1000 * (z * c)) \div (z * w) = q
    <2>1. (z * w) * q <= 1000 * (z * c) /\ 1000 * (z * c) < (z * w) * q + z * w
      BY <1>5, <1>7
    <2> DEFINE a == 1000 * (z * c)
               b == z * w
    <2>2. a \in Nat /\ b \in Nat \ {0} /\ b * q <= a /\ a < b * q + b
      BY <1>5, <2>1
    <2> HIDE DEF a, b
    <2>3. a \div b = q
      BY <1>3, <2>2, QuotientIs
    <2> QED BY <2>3 DEF a, b
  <1>9. Thousandths(<<z * c, z * w>>) = (1000 * (z * c)) \div (z * w)
    BY DEF Thousandths
  <1> QED BY <1>1, <1>4, <1>8, <1>9 DEF c

-----------------------------------------------------------------------------
\* The greatest of a column that is measured in another unit is measured so too, and 0
\* in every unit: what is divided by is OrOne of it, and 1 then.
LEMMA ScaledAnchor ==
  ASSUME LabelsInv, NEW k \in DOMAIN scored, NEW field \in {"avg", "max"}
  PROVE  \E p \in {1, 3} :
           /\ OrOne(Largest(Scaled, field)) = p * OrOne(Largest(scored, field))
           /\ Scaled[k][field] = p * scored[k][field]
  <1> DEFINE L == Largest(scored, field)
             S == Largest(Scaled, field)
  <1>1. /\ IsFiniteSet(DOMAIN scored) /\ \A j \in DOMAIN scored : scored[j] \in Records
        /\ L \in Nat /\ \A j \in DOMAIN scored : scored[j][field] <= L
        /\ \E j \in DOMAIN scored : scored[j][field] = L
    BY TraceAnchors
  <1>2. /\ DOMAIN Scaled = DOMAIN scored
        /\ \A j \in DOMAIN scored : /\ scored[j][field] \in Nat
                                    /\ Scaled[j][field] = 3 * scored[j][field]
    BY <1>1 DEF Scaled, Records
  <1>3. /\ S \in Nat /\ \A j \in DOMAIN scored : Scaled[j][field] <= S
        /\ \E j \in DOMAIN scored : Scaled[j][field] = S
    <2>1. \A j \in DOMAIN Scaled : Scaled[j][field] \in Nat
      BY <1>2
    <2> QED BY <1>1, <1>2, <2>1, LargestInColumn
  <1> HIDE DEF L, S
  <1>4. S = 3 * L
    <2>1. S <= 3 * L
      BY <1>1, <1>2, <1>3
    <2>2. 3 * L <= S
      BY <1>1, <1>2, <1>3
    <2> QED BY <1>1, <1>3, <2>1, <2>2
  <1>5. CASE L = 0
    <2>1. scored[k][field] = 0 /\ S = 0
      BY <1>1, <1>2, <1>4, <1>5
    <2>2. OrOne(S) = 1 * OrOne(L) /\ Scaled[k][field] = 1 * scored[k][field]
      BY <1>2, <1>5, <2>1 DEF OrOne
    <2> QED BY <2>2 DEF L, S
  <1>6. CASE L # 0
    <2>1. OrOne(S) = 3 * OrOne(L) /\ Scaled[k][field] = 3 * scored[k][field]
      BY <1>1, <1>2, <1>4, <1>6 DEF OrOne
    <2> QED BY <2>1 DEF L, S
  <1> QED BY <1>5, <1>6

\* Labels have no unit.
LEMMA LabelsHaveNoUnit == ASSUME LabelsInv PROVE UnitFree
  <1> SUFFICES ASSUME NEW k \in DOMAIN scored
               PROVE  Thousandths(Combined(scored, scored[k])) = Thousandths(Combined(Scaled, Scaled[k]))
    BY DEF UnitFree
  <1> DEFINE r == scored[k]
             A == OrOne(Largest(scored, "avg"))
             C == OrOne(Largest(scored, "count"))
             M == OrOne(Largest(scored, "max"))
             u == Reuse(C, r)
             x == Raw(A, C, M, r.avg, r.max, u)
             w == 20 * A * C * M
  <1>1. r \in Records
    BY TraceAnchors
  <1>2. A \in Nat \ {0} /\ C \in Nat \ {0} /\ M \in Nat \ {0}
    BY TraceAnchors DEF OrOne
  <1>3. PICK p \in {1, 3} : /\ OrOne(Largest(Scaled, "avg")) = p * A
                            /\ Scaled[k].avg = p * r.avg
    BY ScaledAnchor
  <1>4. PICK q \in {1, 3} : /\ OrOne(Largest(Scaled, "max")) = q * M
                            /\ Scaled[k].max = q * r.max
    BY ScaledAnchor
  <1>5. /\ OrOne(Largest(Scaled, "count")) = C
        /\ Scaled[k].count = r.count /\ Scaled[k].prefix = r.prefix
    <2>1. /\ DOMAIN Scaled = DOMAIN scored
          /\ \A j \in DOMAIN scored : /\ Scaled[j].count = scored[j].count
                                      /\ Scaled[j].prefix = scored[j].prefix
      BY TraceAnchors DEF Scaled, Records
    <2>2. {Scaled[j].count : j \in DOMAIN Scaled} = {scored[j].count : j \in DOMAIN scored}
      BY <2>1
    <2>3. Largest(Scaled, "count") = Largest(scored, "count")
      BY <2>2 DEF Largest
    <2> QED BY <2>1, <2>3
  <1> DEFINE P == OrOne(Largest(Scaled, "avg"))
             Q == OrOne(Largest(Scaled, "max"))
             D == OrOne(Largest(Scaled, "count"))
             s == Scaled[k]
  <1>6. /\ Combined(scored, r) = <<Clip(x, w), w>>
        /\ Combined(Scaled, s) = <<Clip(Raw(P, D, Q, s.avg, s.max, Reuse(D, s)), 20 * P * D * Q), 20 * P * D * Q>>
    BY CombinedIsRaw
  <1>7. P = p * A /\ Q = q * M /\ D = C /\ s.avg = p * r.avg /\ s.max = q * r.max /\ Reuse(D, s) = u
    BY <1>3, <1>4, <1>5 DEF Reuse
  <1>8. r.avg \in Nat /\ r.max \in Nat /\ u \in Nat
    <2> HIDE DEF r, C
    <2> QED BY <1>1, <1>2 DEF Records, Reuse, Clip
  <1> HIDE DEF r, A, C, M, P, Q, D, s, u
  <1>9. PICK z \in {1, 3, 9} : /\ Raw(P, C, Q, s.avg, s.max, u) = z * x
                              /\ 20 * P * C * Q = z * w
    <2> DEFINE a == r.avg
               m == r.max
               b == s.avg
               n == s.max
    <2>1. A \in Nat /\ C \in Nat /\ M \in Nat /\ a \in Nat /\ m \in Nat /\ u \in Nat
          /\ P = p * A /\ Q = q * M /\ b = p * a /\ n = q * m
      BY <1>2, <1>7, <1>8
    <2> HIDE DEF a, m, b, n
    <2>2. \E z \in {1, 3, 9} : /\ Raw(P, C, Q, b, n, u) = z * Raw(A, C, M, a, m, u)
                              /\ 20 * P * C * Q = z * (20 * A * C * M)
      <3>1. ASSUME NEW z \in {1, 3, 9},
                   Raw(P, C, Q, b, n, u) = z * Raw(A, C, M, a, m, u),
                   20 * P * C * Q = z * (20 * A * C * M)
            PROVE  \E y \in {1, 3, 9} : /\ Raw(P, C, Q, b, n, u) = y * Raw(A, C, M, a, m, u)
                                       /\ 20 * P * C * Q = y * (20 * A * C * M)
        BY <3>1
      <3>2. CASE p = 1 /\ q = 1
        <4>1. /\ Raw(P, C, Q, b, n, u) = 1 * Raw(A, C, M, a, m, u)
              /\ 20 * P * C * Q = 1 * (20 * A * C * M)
          BY <2>1, <3>2 DEF Raw
        <4> QED BY <3>1, <4>1
      <3>3. CASE (p = 1 /\ q = 3) \/ (p = 3 /\ q = 1)
        <4>1. /\ Raw(P, C, Q, b, n, u) = 3 * Raw(A, C, M, a, m, u)
              /\ 20 * P * C * Q = 3 * (20 * A * C * M)
          BY <2>1, <3>3 DEF Raw
        <4> QED BY <3>1, <4>1
      <3>4. CASE p = 3 /\ q = 3
        <4>1. /\ Raw(P, C, Q, b, n, u) = 9 * Raw(A, C, M, a, m, u)
              /\ 20 * P * C * Q = 9 * (20 * A * C * M)
          BY <2>1, <3>4 DEF Raw
        <4> QED BY <3>1, <4>1
      <3> QED BY <3>2, <3>3, <3>4
    <2> QED BY <2>2 DEF a, m, b, n
  <1>10. w \in Nat \ {0} /\ x \in Int
    <2>1. r.avg <= r.avg /\ r.max <= r.max /\ u <= u
      BY <1>8
    <2> QED BY <1>2, <1>8, <2>1, WholeIsPositive, RawGrows
  <1>11. Combined(Scaled, s) = <<Clip(z * x, z * w), z * w>>
    <2> HIDE DEF x, w
    <2> QED BY <1>6, <1>7, <1>9
  <1> HIDE DEF x, w
  <1>12. Thousandths(Combined(Scaled, s)) = Thousandths(Combined(scored, r))
    BY <1>6, <1>10, <1>11, ThousandthsScale
  <1> QED BY <1>12 DEF r, s

\* The labels of every trace: no record that another exceeds in everything is labelled
\* or scored above it, what leads is kept and what shows nothing is not, and the unit of
\* attention does not matter.
THEOREM LabelsAreTrue == LabelsSpec => []LabelsTrue
  <1>1. LabelsInit => LabelsInv
    BY DEF LabelsInit, LabelsInv
  <1>2. LabelsInv /\ [LabelsNext]_scored => LabelsInv'
    <2> SUFFICES ASSUME LabelsInv, [LabelsNext]_scored PROVE LabelsInv'
      OBVIOUS
    <2>1. Records' = Records
      BY DEF Records
    <2>2. CASE UNCHANGED scored
      BY <2>1, <2>2 DEF LabelsInv
    <2>3. ASSUME NEW avg \in Attentions, NEW max \in Attentions, NEW count \in Counts,
                 NEW prefix \in BOOLEAN, NEW quantised \in BOOLEAN,
                 scored' = Append(scored, Record(avg, max, count, prefix, quantised))
          PROVE  LabelsInv'
      <3>1. Record(avg, max, count, prefix, quantised) \in Records
        BY ScoresAssumption DEF Record, Records
      <3> QED BY <2>1, <2>3, <3>1 DEF LabelsInv
    <2> QED BY <2>2, <2>3 DEF LabelsNext
  <1>3. LabelsInv => LabelsTrue
    BY OrderIsKept, EndsAreKept, LabelsHaveNoUnit DEF LabelsTrue
  <1> QED
    BY <1>1, <1>2, <1>3, PTL DEF LabelsSpec

-----------------------------------------------------------------------------
\* What kind of work a prompt is.

\* The types, from the least specific on.
LEMMA TypesInOrder ==
  /\ Precedence[1] = "unknown" /\ Precedence[2] = "single_doc_qa"
  /\ Precedence[3] = "structured_data" /\ Precedence[4] = "dialogue"
  /\ Precedence[5] = "summarization" /\ Precedence[6] = "multi_doc_qa" /\ Precedence[7] = "code"
  BY DEF Precedence

\* The types of the patterns, tried in the order of their precedence.
LEMMA PatternTypes ==
  /\ DOMAIN RouterPatterns = 1..6 /\ DOMAIN ClassifierPatterns = 1..6 /\ DOMAIN Precedence = 1..7
  /\ \A k \in 1..6 : /\ RouterPatterns[k][1] = Precedence[8 - k]
                     /\ ClassifierPatterns[k][1] = Precedence[8 - k]
  <1>1. DOMAIN RouterPatterns = 1..6 /\ DOMAIN ClassifierPatterns = 1..6 /\ DOMAIN Precedence = 1..7
    BY DEF RouterPatterns, ClassifierPatterns, Precedence
  <1>2. ASSUME NEW k \in 1..6
        PROVE  RouterPatterns[k][1] = Precedence[8 - k] /\ ClassifierPatterns[k][1] = Precedence[8 - k]
    <2>1. \/ (k = 1 /\ 8 - k = 7) \/ (k = 2 /\ 8 - k = 6) \/ (k = 3 /\ 8 - k = 5)
          \/ (k = 4 /\ 8 - k = 4) \/ (k = 5 /\ 8 - k = 3) \/ (k = 6 /\ 8 - k = 2)
      OBVIOUS
    <2>2. /\ RouterPatterns[1][1] = "code" /\ RouterPatterns[2][1] = "multi_doc_qa"
          /\ RouterPatterns[3][1] = "summarization" /\ RouterPatterns[4][1] = "dialogue"
          /\ RouterPatterns[5][1] = "structured_data" /\ RouterPatterns[6][1] = "single_doc_qa"
      BY DEF RouterPatterns
    <2>3. /\ ClassifierPatterns[1][1] = "code" /\ ClassifierPatterns[2][1] = "multi_doc_qa"
          /\ ClassifierPatterns[3][1] = "summarization" /\ ClassifierPatterns[4][1] = "dialogue"
          /\ ClassifierPatterns[5][1] = "structured_data" /\ ClassifierPatterns[6][1] = "single_doc_qa"
      BY DEF ClassifierPatterns
    <2> QED BY <2>1, <2>2, <2>3, TypesInOrder
  <1> QED BY <1>1, <1>2

\* The patterns an excerpt shows, and how specific what it shows is.
Found(patterns, excerpt) ==
  {k \in DOMAIN patterns : \E n \in DOMAIN excerpt : excerpt[n] \in patterns[k][2]}
IsLevel(level, patterns, words, excerpt) ==
  IF Found(patterns, excerpt) # {}
  THEN 8 - level \in Found(patterns, excerpt) /\ \A j \in Found(patterns, excerpt) : 8 - level <= j
  ELSE level = IF Len(excerpt) > words THEN 2 ELSE 1

\* The type of an excerpt is that of the level it reaches.
LEMMA TypeOfLevel ==
  ASSUME NEW patterns \in {RouterPatterns, ClassifierPatterns}, NEW words \in Nat, NEW excerpt
  PROVE  \E level \in 1..7 : /\ IsLevel(level, patterns, words, excerpt)
                             /\ ByPattern(patterns, words, excerpt) = Precedence[level]
  <1> DEFINE found == Found(patterns, excerpt)
  <1>1. DOMAIN patterns = 1..6 /\ \A k \in 1..6 : patterns[k][1] = Precedence[8 - k]
    BY PatternTypes
  <1>2. CASE found # {}
    <2>1. found \in SUBSET Nat /\ found \subseteq 1..6
      BY <1>1 DEF Found
    <2> HIDE DEF found
    <2>2. \E k \in found : \A j \in found : k <= j
      BY <1>2, <2>1, LeastNumber
    <2> DEFINE first == CHOOSE k \in found : \A j \in found : k <= j
    <2>3. first \in found /\ \A j \in found : first <= j
      BY <2>2
    <2>4. ByPattern(patterns, words, excerpt) = patterns[first][1]
      BY <1>2 DEF ByPattern, Found, found
    <2> HIDE DEF first
    <2>5. first \in 1..6 /\ 8 - first \in 1..7 /\ 8 - (8 - first) = first
      BY <2>1, <2>3
    <2>6. IsLevel(8 - first, patterns, words, excerpt)
      BY <1>2, <2>3, <2>5 DEF IsLevel, found
    <2>7. patterns[first][1] = Precedence[8 - first]
      BY <1>1, <2>5
    <2> QED BY <2>4, <2>5, <2>6, <2>7
  <1>3. CASE found = {}
    <2> DEFINE level == IF Len(excerpt) > words THEN 2 ELSE 1
    <2>1. level \in 1..7 /\ IsLevel(level, patterns, words, excerpt)
      BY <1>3 DEF IsLevel
    <2>2. ByPattern(patterns, words, excerpt) = IF Len(excerpt) > words THEN "single_doc_qa" ELSE "unknown"
      BY <1>3 DEF ByPattern, Found
    <2>3. Precedence[1] = "unknown" /\ Precedence[2] = "single_doc_qa"
      BY TypesInOrder
    <2> QED BY <2>1, <2>2, <2>3
  <1> QED BY <1>2, <1>3

\* An excerpt that shows every pattern another shows, and is no shorter, has a type at
\* least as specific.
LEMMA MoreIsMoreSpecific ==
  ASSUME NEW patterns \in {RouterPatterns, ClassifierPatterns}, NEW words \in Nat,
         NEW less, NEW more, Len(less) \in Nat, Len(more) \in Nat, Len(less) <= Len(more),
         Found(patterns, less) \subseteq Found(patterns, more)
  PROVE  AtLeastAs(ByPattern(patterns, words, more), ByPattern(patterns, words, less))
  <1>1. PICK i \in 1..7 : /\ IsLevel(i, patterns, words, more)
                          /\ ByPattern(patterns, words, more) = Precedence[i]
    BY TypeOfLevel
  <1>2. PICK j \in 1..7 : /\ IsLevel(j, patterns, words, less)
                          /\ ByPattern(patterns, words, less) = Precedence[j]
    BY TypeOfLevel
  <1>3. i >= j
    <2>1. CASE Found(patterns, less) # {}
      <3>1. 8 - j \in Found(patterns, more) /\ \A k \in Found(patterns, more) : 8 - i <= k
        BY <1>1, <1>2, <2>1 DEF IsLevel
      <3>2. 8 - i <= 8 - j
        BY <3>1
      <3> QED BY <3>2
    <2>2. CASE Found(patterns, less) = {} /\ Found(patterns, more) # {}
      <3>1. j = IF Len(less) > words THEN 2 ELSE 1
        BY <1>2, <2>2 DEF IsLevel
      <3>2. 8 - i \in DOMAIN patterns
        BY <1>1, <2>2 DEF IsLevel, Found
      <3>3. DOMAIN patterns = 1..6
        BY PatternTypes
      <3> QED BY <3>1, <3>2, <3>3
    <2>3. CASE Found(patterns, less) = {} /\ Found(patterns, more) = {}
      <3>1. j = (IF Len(less) > words THEN 2 ELSE 1) /\ i = (IF Len(more) > words THEN 2 ELSE 1)
        BY <1>1, <1>2, <2>3 DEF IsLevel
      <3> QED BY <3>1
    <2> QED BY <2>1, <2>2, <2>3
  <1> QED BY <1>1, <1>2, <1>3, PatternTypes DEF AtLeastAs

\* What the excerpt of a text is.
LEMMA ExcerptIsStart ==
  ASSUME WorkloadAssumption, NEW text \in Seq(Phrases)
  PROVE  /\ ExcerptOf(text) \in Seq(Phrases)
         /\ Len(ExcerptOf(text)) = IF Len(text) < Excerpt THEN Len(text) ELSE Excerpt
         /\ \A k \in DOMAIN ExcerptOf(text) : ExcerptOf(text)[k] = text[k]
  <1> DEFINE m == IF Len(text) < Excerpt THEN Len(text) ELSE Excerpt
  <1>1. Excerpt \in Nat /\ Len(text) \in Nat /\ m \in Nat /\ m <= Len(text)
    BY DEF WorkloadAssumption
  <1>2. \A k \in 1..m : text[k] \in Phrases
    BY <1>1
  <1>3. ExcerptOf(text) = SubSeq(text, 1, m)
    BY DEF ExcerptOf
  <1> HIDE DEF m
  <1>4. /\ SubSeq(text, 1, m) \in Seq(Phrases)
        /\ Len(SubSeq(text, 1, m)) = IF 1 <= m THEN m - 1 + 1 ELSE 0
        /\ \A k \in 1..m - 1 + 1 : SubSeq(text, 1, m)[k] = text[1 + k - 1]
    BY <1>1, <1>2, SubSeqProperties
  <1>5. Len(SubSeq(text, 1, m)) = m
    BY <1>1, <1>4
  <1>6. ASSUME NEW k \in DOMAIN SubSeq(text, 1, m) PROVE SubSeq(text, 1, m)[k] = text[k]
    <2>1. k \in 1..m
      BY <1>4, <1>5
    <2>2. k \in 1..m - 1 + 1 /\ 1 + k - 1 = k
      BY <1>1, <2>1
    <2> QED BY <1>4, <2>2
  <1> QED BY <1>3, <1>4, <1>5, <1>6 DEF m

\* The excerpt of a text's start is the start of its excerpt, and is all of it when the
\* start is long enough.
LEMMA ExcerptGrows ==
  ASSUME WorkloadAssumption, NEW text \in Seq(Phrases), NEW n \in 0..Len(text)
  PROVE  LET before == SubSeq(text, 1, n)
         IN /\ before \in Seq(Phrases) /\ Len(before) = n
            /\ Len(ExcerptOf(before)) \in Nat /\ Len(ExcerptOf(text)) \in Nat
            /\ Len(ExcerptOf(before)) <= Len(ExcerptOf(text))
            /\ DOMAIN ExcerptOf(before) \subseteq DOMAIN ExcerptOf(text)
            /\ \A k \in DOMAIN ExcerptOf(before) : ExcerptOf(before)[k] = ExcerptOf(text)[k]
            /\ n >= Excerpt => ExcerptOf(before) = ExcerptOf(text)
  <1> DEFINE before == SubSeq(text, 1, n)
             old == ExcerptOf(before)
             new == ExcerptOf(text)
  <1>1. Len(text) \in Nat /\ n \in Nat /\ n <= Len(text) /\ Excerpt \in Nat
    BY DEF WorkloadAssumption
  <1>2. /\ before \in Seq(Phrases)
        /\ Len(before) = IF 1 <= n THEN n - 1 + 1 ELSE 0
        /\ \A k \in 1..n - 1 + 1 : before[k] = text[1 + k - 1]
    <2>1. \A k \in 1..n : text[k] \in Phrases
      BY <1>1
    <2> QED BY <1>1, <2>1, SubSeqProperties
  <1>3. Len(before) = n /\ \A k \in 1..n : before[k] = text[k]
    <2>1. Len(before) = n
      BY <1>1, <1>2
    <2>2. ASSUME NEW k \in 1..n PROVE before[k] = text[k]
      <3>1. k \in 1..n - 1 + 1 /\ 1 + k - 1 = k
        BY <1>1
      <3> QED BY <1>2, <3>1
    <2> QED BY <2>1, <2>2
  <1> HIDE DEF before
  <1>4. /\ old \in Seq(Phrases) /\ Len(old) = (IF Len(before) < Excerpt THEN Len(before) ELSE Excerpt)
        /\ \A k \in DOMAIN old : old[k] = before[k]
    BY <1>2, ExcerptIsStart
  <1>5. /\ new \in Seq(Phrases) /\ Len(new) = (IF Len(text) < Excerpt THEN Len(text) ELSE Excerpt)
        /\ \A k \in DOMAIN new : new[k] = text[k]
    BY ExcerptIsStart
  <1> HIDE DEF old, new
  <1>6. Len(old) \in Nat /\ Len(new) \in Nat /\ Len(old) <= Len(new) /\ Len(old) <= n
        /\ (n >= Excerpt => Len(old) = Len(new))
    BY <1>1, <1>3, <1>4, <1>5
  <1>7. DOMAIN old = 1..Len(old) /\ DOMAIN new = 1..Len(new)
    BY <1>4, <1>5
  <1>8. \A k \in 1..Len(old) : k \in 1..Len(new) /\ k \in 1..n
    BY <1>1, <1>6
  <1>9. \A k \in DOMAIN old : k \in DOMAIN new /\ old[k] = new[k]
    BY <1>3, <1>4, <1>5, <1>7, <1>8
  <1>10. n >= Excerpt => old = new
    BY <1>4, <1>5, <1>6, <1>7, <1>9
  <1> QED BY <1>2, <1>3, <1>6, <1>9, <1>10 DEF before, old, new

\* Without metadata and a pipeline the patterns decide.
LEMMA NothingNamed ==
  /\ "" \notin Types /\ NoLabel \notin Types
  /\ \A text : /\ Routed(text) = ByPattern(RouterPatterns, RouterWords, ExcerptOf(text))
              /\ Classified(text) = ByPattern(ClassifierPatterns, ClassifierWords, ExcerptOf(text))
  <1>1. \A t \in Types : t = "unknown" \/ \E k \in 1..6 : t = Precedence[8 - k]
    BY PatternTypes DEF Types
  <1>2. \A k \in 1..7 : Precedence[k] \notin {"", NoLabel}
    <2>1. \A k \in 1..7 : k = 1 \/ k = 2 \/ k = 3 \/ k = 4 \/ k = 5 \/ k = 6 \/ k = 7
      OBVIOUS
    <2> QED BY <2>1, TypesInOrder DEF NoLabel
  <1>3. \A k \in 1..6 : 8 - k \in 1..7
    OBVIOUS
  <1>4. "" \notin Types /\ NoLabel \notin Types
    BY <1>1, <1>2, <1>3 DEF NoLabel
  <1>5. Explicit("", "") = ""
    BY DEF Explicit
  <1> QED BY <1>4, <1>5 DEF Routed, Classified, Classify, ClassifyFromPrompt

\* As a prompt grows its type gets more specific, and past the excerpt it stays.
LEMMA TypeSettles ==
  ASSUME WorkloadAssumption, prompt \in Seq(Phrases)
  PROVE  GrowingKeepsType
  <1>1. \A text : /\ Routed(text) = ByPattern(RouterPatterns, RouterWords, ExcerptOf(text))
                  /\ Classified(text) = ByPattern(ClassifierPatterns, ClassifierWords, ExcerptOf(text))
    BY NothingNamed
  <1>2. RouterWords \in Nat /\ ClassifierWords \in Nat
    BY DEF WorkloadAssumption
  <1>3. ASSUME NEW n \in 0..Len(prompt), NEW before, before = SubSeq(prompt, 1, n)
        PROVE  /\ AtLeastAs(Routed(prompt), Routed(before))
               /\ AtLeastAs(Classified(prompt), Classified(before))
               /\ n >= Excerpt => Routed(prompt) = Routed(before) /\ Classified(prompt) = Classified(before)
    <2> DEFINE old == ExcerptOf(before)
               new == ExcerptOf(prompt)
    <2>1. /\ Len(old) \in Nat /\ Len(new) \in Nat /\ Len(old) <= Len(new)
          /\ DOMAIN old \subseteq DOMAIN new /\ \A k \in DOMAIN old : old[k] = new[k]
          /\ n >= Excerpt => old = new
      BY <1>3, ExcerptGrows
    <2> HIDE DEF old, new
    <2>2. \A patterns : Found(patterns, old) \subseteq Found(patterns, new)
      BY <2>1 DEF Found
    <2>3. AtLeastAs(ByPattern(RouterPatterns, RouterWords, new), ByPattern(RouterPatterns, RouterWords, old))
      BY <1>2, <2>1, <2>2, MoreIsMoreSpecific
    <2>4. AtLeastAs(ByPattern(ClassifierPatterns, ClassifierWords, new),
                    ByPattern(ClassifierPatterns, ClassifierWords, old))
      BY <1>2, <2>1, <2>2, MoreIsMoreSpecific
    <2> QED BY <1>1, <2>1, <2>3, <2>4 DEF old, new
  <1> QED BY <1>3 DEF GrowingKeepsType

\* What only one of the two knows apart, their patterns show the same.
LEMMA SameWordsFound ==
  ASSUME NEW phrase \in Phrases \ OneSided
  PROVE  /\ \A k \in 1..6 : phrase \in RouterPatterns[k][2] <=> phrase \in ClassifierPatterns[k][2]
         /\ phrase \in {"user: hi", "word"} \/ \E k \in 1..6 : phrase \in RouterPatterns[k][2]
  <1>1. /\ RouterPatterns[1][2] = {"def f", "Class"} /\ RouterPatterns[2][2] = {"compare"}
        /\ RouterPatterns[3][2] = {"summary"} /\ RouterPatterns[4][2] = {"said", "chat"}
        /\ RouterPatterns[5][2] = {"table"} /\ RouterPatterns[6][2] = {"what is"}
    BY DEF RouterPatterns
  <1>2. /\ ClassifierPatterns[1][2] = {"def f"} /\ ClassifierPatterns[2][2] = {"compare"}
        /\ ClassifierPatterns[3][2] = {"summary", "summarise"}
        /\ ClassifierPatterns[4][2] = {"said", "asked"} /\ ClassifierPatterns[5][2] = {"rank"}
        /\ ClassifierPatterns[6][2] = {"what is", "where"}
    BY DEF ClassifierPatterns
  <1>3. \A k \in 1..6 : k = 1 \/ k = 2 \/ k = 3 \/ k = 4 \/ k = 5 \/ k = 6
    OBVIOUS
  <1>4. \A x : x \in SeenBy(RouterPatterns) <=> \E k \in 1..6 : x \in RouterPatterns[k][2]
    BY PatternTypes DEF SeenBy
  <1>5. \A x : x \in SeenBy(ClassifierPatterns) <=> \E k \in 1..6 : x \in ClassifierPatterns[k][2]
    BY PatternTypes DEF SeenBy
  <1>6. \A x : x \in SeenBy(RouterPatterns) <=>
               x \in {"def f", "Class", "compare", "summary", "said", "chat", "table", "what is"}
    <2> SUFFICES ASSUME NEW x
                 PROVE  x \in SeenBy(RouterPatterns) <=>
                          x \in {"def f", "Class", "compare", "summary", "said", "chat", "table", "what is"}
      OBVIOUS
    <2>1. (\E k \in 1..6 : x \in RouterPatterns[k][2]) <=>
            \/ x \in RouterPatterns[1][2] \/ x \in RouterPatterns[2][2] \/ x \in RouterPatterns[3][2]
            \/ x \in RouterPatterns[4][2] \/ x \in RouterPatterns[5][2] \/ x \in RouterPatterns[6][2]
      BY <1>3
    <2> QED BY <1>1, <1>4, <2>1
  <1>7. \A x : x \in SeenBy(ClassifierPatterns) <=>
               x \in {"def f", "compare", "summary", "summarise", "said", "asked", "rank",
                      "what is", "where"}
    <2> SUFFICES ASSUME NEW x
                 PROVE  x \in SeenBy(ClassifierPatterns) <=>
                          x \in {"def f", "compare", "summary", "summarise", "said", "asked", "rank",
                                 "what is", "where"}
      OBVIOUS
    <2>1. (\E k \in 1..6 : x \in ClassifierPatterns[k][2]) <=>
            \/ x \in ClassifierPatterns[1][2] \/ x \in ClassifierPatterns[2][2]
            \/ x \in ClassifierPatterns[3][2] \/ x \in ClassifierPatterns[4][2]
            \/ x \in ClassifierPatterns[5][2] \/ x \in ClassifierPatterns[6][2]
      BY <1>3
    <2> QED BY <1>2, <1>5, <2>1
  <1>8. phrase \in {"def f", "compare", "summary", "said", "what is", "user: hi", "word"}
    BY <1>6, <1>7 DEF Phrases, OneSided
  <1>9. \A k \in 1..6 : phrase \in RouterPatterns[k][2] <=> phrase \in ClassifierPatterns[k][2]
    BY <1>1, <1>2, <1>3, <1>8
  <1>10. phrase \in {"user: hi", "word"} \/ \E k \in 1..6 : phrase \in RouterPatterns[k][2]
    BY <1>4, <1>6, <1>8
  <1> QED BY <1>9, <1>10

\* The server and the features agree on what both know.
LEMMA BothAgree ==
  ASSUME WorkloadAssumption, prompt \in Seq(Phrases)
  PROVE  TypesAgree
  <1> DEFINE excerpt == ExcerptOf(prompt)
             seen == ToSet(excerpt)
             R == Found(RouterPatterns, excerpt)
             C == Found(ClassifierPatterns, excerpt)
  <1>1. SUFFICES ASSUME seen \intersect OneSided = {}
                 PROVE  \/ Routed(prompt) = Classified(prompt)
                        \/ /\ seen \subseteq {"user: hi", "word"}
                           /\ Len(excerpt) \in ClassifierWords + 1..RouterWords
    BY DEF TypesAgree
  <1>2. excerpt \in Seq(Phrases) /\ Len(excerpt) \in Nat
    BY ExcerptIsStart
  <1>3. /\ Routed(prompt) = ByPattern(RouterPatterns, RouterWords, excerpt)
        /\ Classified(prompt) = ByPattern(ClassifierPatterns, ClassifierWords, excerpt)
    BY NothingNamed
  <1>4. RouterWords \in Nat /\ ClassifierWords \in Nat
    BY DEF WorkloadAssumption
  <1> HIDE DEF excerpt
  <1>5. \A n \in DOMAIN excerpt : excerpt[n] \in Phrases \ OneSided
    BY <1>1, <1>2 DEF ToSet
  <1>6. R = C
    <2>1. \A n \in DOMAIN excerpt : \A k \in 1..6 :
            excerpt[n] \in RouterPatterns[k][2] <=> excerpt[n] \in ClassifierPatterns[k][2]
      BY <1>5, SameWordsFound
    <2>2. \A k : k \in R <=> k \in C
      BY <2>1, PatternTypes DEF Found
    <2> HIDE DEF R, C
    <2> QED BY <2>2
  <1>7. PICK i \in 1..7 : /\ IsLevel(i, RouterPatterns, RouterWords, excerpt)
                          /\ Routed(prompt) = Precedence[i]
    BY <1>3, <1>4, TypeOfLevel
  <1>8. PICK j \in 1..7 : /\ IsLevel(j, ClassifierPatterns, ClassifierWords, excerpt)
                          /\ Classified(prompt) = Precedence[j]
    BY <1>3, <1>4, TypeOfLevel
  <1>9. CASE R # {}
    <2>1. 8 - i \in R /\ 8 - j \in R /\ \A k \in R : 8 - i <= k /\ 8 - j <= k
      BY <1>6, <1>7, <1>8, <1>9 DEF IsLevel
    <2>2. 8 - i <= 8 - j /\ 8 - j <= 8 - i
      BY <2>1
    <2>3. i = j
      BY <2>2
    <2> QED BY <1>7, <1>8, <2>3
  <1>10. CASE R = {}
    <2>1. /\ i = IF Len(excerpt) > RouterWords THEN 2 ELSE 1
          /\ j = IF Len(excerpt) > ClassifierWords THEN 2 ELSE 1
      BY <1>6, <1>7, <1>8, <1>10 DEF IsLevel
    <2>2. CASE Len(excerpt) \in ClassifierWords + 1..RouterWords
      <3>1. ASSUME NEW n \in DOMAIN excerpt PROVE excerpt[n] \in {"user: hi", "word"}
        <4>1. \A k \in 1..6 : excerpt[n] \notin RouterPatterns[k][2]
          BY <1>10, PatternTypes DEF Found
        <4> QED BY <1>5, <4>1, SameWordsFound
      <3>2. seen \subseteq {"user: hi", "word"}
        BY <3>1 DEF ToSet
      <3> QED BY <2>2, <3>2
    <2>3. CASE Len(excerpt) \notin ClassifierWords + 1..RouterWords
      <3>1. ClassifierWords <= RouterWords
        BY DEF WorkloadAssumption
      <3>2. i = j
        BY <1>2, <1>4, <2>1, <2>3, <3>1
      <3> QED BY <1>7, <1>8, <3>2
    <2> QED BY <2>2, <2>3
  <1> QED BY <1>9, <1>10

\* A caller's type is the one given.
LEMMA CallerIsBelieved == ExplicitWins
  <1>1. SUFFICES ASSUME NEW t \in {"code", "dialogue", "dialog"}, NEW u \in {"", "summarization"},
                        NEW label \in {NoLabel, "unknown", "spam"}
                 PROVE  LET routed == Classify(prompt, t, u)
                            classified == ClassifyFromPrompt(prompt, t, u, label)
                        IN IF t \in Types THEN routed = t /\ classified = t
                           ELSE /\ routed = Routed(prompt)
                                /\ classified = IF label \in Types THEN label ELSE Classified(prompt)
    BY DEF ExplicitWins
  <1>2. Explicit(t, u) = t
    BY DEF Explicit
  <1>3. CASE t \in Types
    BY <1>2, <1>3 DEF Classify, ClassifyFromPrompt
  <1>4. CASE t \notin Types
    <2>1. Classify(prompt, t, u) = Routed(prompt)
      BY <1>2, <1>4, NothingNamed DEF Classify
    <2>2. ClassifyFromPrompt(prompt, t, u, label) = IF label \in Types THEN label ELSE Classified(prompt)
      BY <1>2, <1>4, NothingNamed DEF ClassifyFromPrompt
    <2> QED BY <1>4, <2>1, <2>2
  <1> QED BY <1>3, <1>4

\* What a request's metrics make of it, settled.
LEMMA MetricsAreSettled == MetricsSettle
  <1>1. ASSUME NEW p \in Nat, NEW g \in Nat, NEW h \in Nat, NEW reuse \in BOOLEAN, g <= h
        PROVE  LET early == ClassifyFromMetrics(p, g, reuse)
                   late == ClassifyFromMetrics(p, h, reuse)
               IN /\ early \in {"code", "summarization"} => late = early
                  /\ late = "single_doc_qa" => early = "single_doc_qa"
    BY <1>1 DEF ClassifyFromMetrics
  <1>2. Lengths \subseteq Nat
    BY DEF Lengths
  <1> HIDE DEF Lengths
  <1> QED BY <1>1, <1>2 DEF MetricsSettle

\* WorkloadTypes: whatever a conversation is made of, each phrase it grows by leaves its
\* type as specific as it was, past the excerpt it changes no more, the server and the
\* features give it the same one unless it has a phrase that only one of them knows, and
\* a type the caller names is the one it gets.
THEOREM TypesAreTrue == PromptSpec => []TypesTrue
  <1> DEFINE Written == prompt \in Seq(Phrases)
  <1>1. PromptInit => Written
    BY DEF PromptInit
  <1>2. Written /\ [PromptNext]_prompt => Written'
    BY DEF PromptNext, WritePhrase
  <1>3. Written => TypesTrue
    BY WorkloadAssumption, TypeSettles, BothAgree, CallerIsBelieved, MetricsAreSettled DEF TypesTrue
  <1> HIDE DEF Written
  <1> QED BY <1>1, <1>2, <1>3, PTL DEF PromptSpec

\* Together: what features, labels and types promise holds of every batch, every trace
\* and every prompt.
THEOREM FeaturesAreTrue ==
  ASSUME AsTrained PROVE FeaturesSpec /\ LabelsSpec /\ PromptSpec => []FeaturesTrue
  <1>1. FeaturesSpec => [](AttentionOrderKept /\ HeavyHittersCounted /\ SharedFeaturesAgree /\ FeaturesInUnit)
    BY ServedIsTrained
  <1>2. LabelsSpec => []LabelsTrue
    BY LabelsAreTrue
  <1>3. PromptSpec => []TypesTrue
    BY TypesAreTrue
  <1>4. (AttentionOrderKept /\ HeavyHittersCounted /\ SharedFeaturesAgree /\ FeaturesInUnit) /\ LabelsTrue
          /\ TypesTrue => FeaturesTrue
    BY DEF FeaturesTrue
  <1> QED
    BY <1>1, <1>2, <1>3, <1>4, PTL

-----------------------------------------------------------------------------
\* TextMetrics: the two dynamic programs.

\* What an alignment is.
LEMMA AlignmentIs ==
  ASSUME NEW m \in Nat, NEW n \in Nat, NEW f
  PROVE  f \in Alignments(m, n) <=>
           /\ f \in [DOMAIN f -> 1..n] /\ DOMAIN f \subseteq 1..m
           /\ \A i, j \in DOMAIN f : i < j => f[i] < f[j]
  BY DEF Alignments

\* No two places stand opposite one place, so that no more stand opposite another than
\* either text has; those with equal elements are some of them.
LEMMA AlignmentSizes ==
  ASSUME NEW m \in Nat, NEW n \in Nat, NEW f \in Alignments(m, n), NEW a, NEW b
  PROVE  /\ \A i \in DOMAIN f : i \in 1..m /\ i \in Nat /\ f[i] \in 1..n /\ f[i] \in Nat
         /\ \A i, j \in DOMAIN f : f[i] = f[j] => i = j
         /\ IsFiniteSet(DOMAIN f) /\ Cardinality(DOMAIN f) \in Nat
         /\ Cardinality(DOMAIN f) <= m /\ Cardinality(DOMAIN f) <= n
         /\ IsFiniteSet(Equals(f, a, b)) /\ Cardinality(Equals(f, a, b)) \in Nat
         /\ Cardinality(Equals(f, a, b)) <= Cardinality(DOMAIN f)
         /\ Cardinality(DOMAIN f \ Equals(f, a, b)) = Cardinality(DOMAIN f) - Cardinality(Equals(f, a, b))
  <1>1. /\ f \in [DOMAIN f -> 1..n] /\ DOMAIN f \subseteq 1..m
        /\ \A i, j \in DOMAIN f : i < j => f[i] < f[j]
    BY AlignmentIs
  <1>2. \A i \in DOMAIN f : i \in 1..m /\ i \in Nat /\ f[i] \in 1..n /\ f[i] \in Nat
    BY <1>1
  <1>3. ASSUME NEW i \in DOMAIN f, NEW j \in DOMAIN f, f[i] = f[j] PROVE i = j
    <2>1. ~(f[i] < f[j]) /\ ~(f[j] < f[i])
      BY <1>2, <1>3
    <2>2. ~(i < j) /\ ~(j < i)
      BY <1>1, <2>1
    <2> QED BY <1>2, <2>2
  <1>4. /\ IsFiniteSet(1..m) /\ Cardinality(1..m) = m /\ IsFiniteSet(1..n) /\ Cardinality(1..n) = n
    <2>1. m \in Int /\ n \in Int /\ 1 \in Int /\ (IF 1 > m THEN 0 ELSE m - 1 + 1) = m
          /\ (IF 1 > n THEN 0 ELSE n - 1 + 1) = n
      OBVIOUS
    <2> QED BY <2>1, FS_Interval
  <1>5. /\ IsFiniteSet(DOMAIN f) /\ Cardinality(DOMAIN f) \in Nat /\ Cardinality(DOMAIN f) <= m
    BY <1>1, <1>4, PartIsFinite
  <1>6. Cardinality(DOMAIN f) <= n
    <2>1. f \in Injection(DOMAIN f, 1..n)
      BY <1>1, <1>3 DEF Injection, IsInjective
    <2> QED BY <1>4, <2>1, FS_Injection
  <1> DEFINE E == Equals(f, a, b)
  <1>7. E \subseteq DOMAIN f
    BY DEF Equals
  <1> HIDE DEF E
  <1>8. IsFiniteSet(E) /\ Cardinality(E) \in Nat /\ Cardinality(E) <= Cardinality(DOMAIN f)
    BY <1>5, <1>7, PartIsFinite
  <1>9. Cardinality(DOMAIN f \ E) = Cardinality(DOMAIN f) - Cardinality(E)
    <2>1. DOMAIN f \intersect E = E
      BY <1>7
    <2> QED BY <1>5, <1>8, <2>1, FS_Difference
  <1> QED BY <1>2, <1>3, <1>5, <1>6, <1>8, <1>9 DEF E

\* g has the pairs of f but one.
Drops(g, f, x) == DOMAIN g = DOMAIN f \ {x} /\ \A i \in DOMAIN g : g[i] = f[i]

\* An alignment with one more pair has one more equal pair when the two elements of
\* that pair are equal.
LEMMA OnePairApart ==
  ASSUME NEW m \in Nat, NEW n \in Nat, NEW f \in Alignments(m, n), NEW x, x \in DOMAIN f,
         NEW g, Drops(g, f, x), NEW a, NEW b
  PROVE  /\ Cardinality(DOMAIN f) = Cardinality(DOMAIN g) + 1
         /\ Cardinality(Equals(f, a, b)) =
              Cardinality(Equals(g, a, b)) + (IF a[x] = b[f[x]] THEN 1 ELSE 0)
  <1>3. IsFiniteSet(DOMAIN f) /\ Cardinality(DOMAIN f) \in Nat
    BY AlignmentSizes
  <1>4. Cardinality(DOMAIN f \ {x}) = Cardinality(DOMAIN f) - 1
    BY <1>3, FS_RemoveElement
  <1>5. Equals(g, a, b) = Equals(f, a, b) \ {x}
    BY DEF Equals, Drops
  <1>6. IsFiniteSet(Equals(f, a, b)) /\ Cardinality(Equals(f, a, b)) \in Nat
    BY AlignmentSizes
  <1>7. Cardinality(Equals(f, a, b) \ {x}) =
          IF x \in Equals(f, a, b) THEN Cardinality(Equals(f, a, b)) - 1 ELSE Cardinality(Equals(f, a, b))
    BY <1>6, FS_RemoveElement
  <1>8. x \in Equals(f, a, b) <=> a[x] = b[f[x]]
    BY DEF Equals
  <1>9. DOMAIN g = DOMAIN f \ {x}
    BY DEF Drops
  <1> QED BY <1>3, <1>4, <1>5, <1>6, <1>7, <1>8, <1>9

\* One pair can be taken out.
LEMMA OnePairLess ==
  ASSUME NEW m \in Nat, NEW n \in Nat, NEW f \in Alignments(m, n), NEW x, x \in DOMAIN f
  PROVE  \E g \in Alignments(m, n) : Drops(g, f, x)
  <1> DEFINE g == [i \in DOMAIN f \ {x} |-> f[i]]
  <1>1. DOMAIN g = DOMAIN f \ {x} /\ \A i \in DOMAIN g : g[i] = f[i]
    OBVIOUS
  <1>2. /\ f \in [DOMAIN f -> 1..n] /\ DOMAIN f \subseteq 1..m
        /\ \A i, j \in DOMAIN f : i < j => f[i] < f[j]
    BY AlignmentIs
  <1>3. g \in [DOMAIN g -> 1..n]
    BY <1>2
  <1> HIDE DEF g
  <1>4. DOMAIN g \subseteq 1..m /\ \A i, j \in DOMAIN g : i < j => g[i] < g[j]
    BY <1>1, <1>2
  <1>5. g \in Alignments(m, n)
    BY <1>3, <1>4, AlignmentIs
  <1>6. Drops(g, f, x)
    BY <1>1 DEF Drops
  <1> QED BY <1>5, <1>6

\* One can be put at the end.
LEMMA OnePairMore ==
  ASSUME NEW m \in Nat \ {0}, NEW n \in Nat \ {0}, NEW f \in Alignments(m - 1, n - 1), NEW a, NEW b
  PROVE  \E g \in Alignments(m, n) :
           /\ Cardinality(DOMAIN g) = Cardinality(DOMAIN f) + 1
           /\ Cardinality(Equals(g, a, b)) =
                Cardinality(Equals(f, a, b)) + (IF a[m] = b[n] THEN 1 ELSE 0)
  <1> DEFINE g == [i \in DOMAIN f \union {m} |-> IF i = m THEN n ELSE f[i]]
  <1>0. m - 1 \in Nat /\ n - 1 \in Nat /\ m \in Nat /\ n \in Nat
    OBVIOUS
  <1>1. DOMAIN g = DOMAIN f \union {m} /\ \A i \in DOMAIN g : g[i] = IF i = m THEN n ELSE f[i]
    OBVIOUS
  <1>2. /\ f \in [DOMAIN f -> 1..n - 1] /\ DOMAIN f \subseteq 1..m - 1
        /\ \A i, j \in DOMAIN f : i < j => f[i] < f[j]
    BY <1>0, AlignmentIs
  <1>3. m \notin DOMAIN f /\ \A i \in DOMAIN f : i \in 1..m /\ i < m /\ f[i] \in 1..n /\ f[i] < n
    BY <1>0, <1>2
  <1>4. g \in [DOMAIN g -> 1..n]
    BY <1>3
  <1> HIDE DEF g
  <1>5. g \in Alignments(m, n)
    <2>1. DOMAIN g \subseteq 1..m
      BY <1>1, <1>3
    <2>2. ASSUME NEW i \in DOMAIN g, NEW j \in DOMAIN g, i < j PROVE g[i] < g[j]
      <3>1. i # m
        BY <1>1, <1>3, <2>2
      <3>2. CASE j = m
        BY <1>1, <1>3, <3>1, <3>2
      <3>3. CASE j # m
        BY <1>1, <1>2, <2>2, <3>1, <3>3
      <3> QED BY <3>2, <3>3
    <2> QED BY <1>4, <2>1, <2>2, AlignmentIs
  <1>6. Drops(f, g, m)
    BY <1>1, <1>3 DEF Drops
  <1>7. m \in DOMAIN g /\ g[m] = n
    BY <1>1
  <1>8. /\ Cardinality(DOMAIN g) = Cardinality(DOMAIN f) + 1
        /\ Cardinality(Equals(g, a, b)) = Cardinality(Equals(f, a, b)) + (IF a[m] = b[g[m]] THEN 1 ELSE 0)
    BY <1>0, <1>5, <1>6, <1>7, OnePairApart
  <1> QED BY <1>5, <1>7, <1>8

\* An alignment of a part is one of the whole, and the reverse when it keeps to the part.
LEMMA AlignmentWithin ==
  ASSUME NEW m \in Nat, NEW n \in Nat, NEW k \in Nat, NEW l \in Nat, NEW f \in Alignments(m, n),
         \A i \in DOMAIN f : i <= k /\ f[i] <= l
  PROVE  f \in Alignments(k, l)
  <1>1. /\ f \in [DOMAIN f -> 1..n] /\ DOMAIN f \subseteq 1..m
        /\ \A i, j \in DOMAIN f : i < j => f[i] < f[j]
    BY AlignmentIs
  <1>2. \A i \in DOMAIN f : i \in 1..k /\ f[i] \in 1..l
    BY <1>1
  <1>3. f \in [DOMAIN f -> 1..l] /\ DOMAIN f \subseteq 1..k
    BY <1>1, <1>2
  <1> QED BY <1>1, <1>3, AlignmentIs

\* An alignment of two prefixes is one of two longer prefixes.
LEMMA PartOfWhole ==
  ASSUME NEW k \in Nat, NEW l \in Nat, NEW m \in Nat, NEW n \in Nat, k <= m, l <= n,
         NEW f \in Alignments(k, l)
  PROVE  f \in Alignments(m, n)
  <1>1. /\ f \in [DOMAIN f -> 1..l] /\ DOMAIN f \subseteq 1..k
        /\ \A i, j \in DOMAIN f : i < j => f[i] < f[j]
    BY AlignmentIs
  <1>2. \A i \in DOMAIN f : i \in 1..m /\ f[i] \in 1..n
    BY <1>1
  <1>3. f \in [DOMAIN f -> 1..n] /\ DOMAIN f \subseteq 1..m
    BY <1>1, <1>2
  <1> QED BY <1>1, <1>3, AlignmentIs

\* An alignment leaves the last place of one of the two texts out, or has the two last
\* places opposite each other.
LEMMA LastPlaces ==
  ASSUME NEW m \in Nat \ {0}, NEW n \in Nat \ {0}, NEW f \in Alignments(m, n)
  PROVE  \/ f \in Alignments(m - 1, n)
         \/ f \in Alignments(m, n - 1)
         \/ /\ m \in DOMAIN f /\ f[m] = n
            /\ \E g \in Alignments(m - 1, n - 1) : Drops(g, f, m)
  <1>1. /\ \A i \in DOMAIN f : i \in 1..m /\ i \in Nat /\ f[i] \in 1..n /\ f[i] \in Nat
        /\ \A i, j \in DOMAIN f : f[i] = f[j] => i = j
        /\ \A i, j \in DOMAIN f : i < j => f[i] < f[j]
    BY AlignmentSizes, AlignmentIs
  <1>2. m - 1 \in Nat /\ n - 1 \in Nat
    OBVIOUS
  <1>3. CASE m \notin DOMAIN f
    <2>1. \A i \in DOMAIN f : i <= m - 1 /\ f[i] <= n
      BY <1>1, <1>3
    <2> QED BY <1>2, <2>1, AlignmentWithin
  <1>4. CASE \A i \in DOMAIN f : f[i] # n
    <2>1. \A i \in DOMAIN f : i <= m /\ f[i] <= n - 1
      BY <1>1, <1>4
    <2> QED BY <1>2, <2>1, AlignmentWithin
  <1>5. CASE m \in DOMAIN f /\ \E i \in DOMAIN f : f[i] = n
    <2>1. PICK i \in DOMAIN f : f[i] = n
      BY <1>5
    <2>2. f[m] = n
      <3>1. ~(i < m)
        <4>1. ~(f[i] < f[m])
          BY <1>1, <1>5, <2>1
        <4> QED BY <1>1, <1>5, <4>1
      <3>2. i = m
        BY <1>1, <3>1
      <3> QED BY <2>1, <3>2
    <2>3. PICK g \in Alignments(m, n) : Drops(g, f, m)
      <3>1. m \in Nat /\ n \in Nat
        OBVIOUS
      <3> QED BY <1>5, <3>1, OnePairLess
    <2>4. ASSUME NEW j \in DOMAIN g PROVE j <= m - 1 /\ g[j] <= n - 1
      <3>1. j \in DOMAIN f /\ j # m /\ g[j] = f[j]
        BY <2>3 DEF Drops
      <3>2. f[j] # n
        BY <1>1, <1>5, <2>2, <3>1
      <3> QED BY <1>1, <3>1, <3>2
    <2>5. g \in Alignments(m - 1, n - 1)
      BY <1>2, <2>3, <2>4, AlignmentWithin
    <2> QED BY <1>5, <2>2, <2>3, <2>5
  <1> QED BY <1>3, <1>4, <1>5

\* Leaving the last places of both out loses one pair at the most.
LEMMA LosesOnePair ==
  ASSUME NEW m \in Nat \ {0}, NEW n \in Nat \ {0}, NEW f \in Alignments(m, n), NEW a, NEW b
  PROVE  \E g \in Alignments(m - 1, n - 1) :
           /\ Cardinality(DOMAIN f) <= Cardinality(DOMAIN g) + 1
           /\ Cardinality(Equals(f, a, b)) <= Cardinality(Equals(g, a, b)) + 1
  <1>1. /\ \A i \in DOMAIN f : i \in 1..m /\ i \in Nat /\ f[i] \in 1..n /\ f[i] \in Nat
        /\ \A i, j \in DOMAIN f : f[i] = f[j] => i = j
        /\ \A i, j \in DOMAIN f : i < j => f[i] < f[j]
        /\ Cardinality(DOMAIN f) \in Nat /\ Cardinality(Equals(f, a, b)) \in Nat
    BY AlignmentSizes, AlignmentIs
  <1>2. m - 1 \in Nat /\ n - 1 \in Nat
    OBVIOUS
  <1>3. CASE \A i \in DOMAIN f : i # m /\ f[i] # n
    <2>1. \A i \in DOMAIN f : i <= m - 1 /\ f[i] <= n - 1
      BY <1>1, <1>3
    <2>2. f \in Alignments(m - 1, n - 1)
      BY <1>2, <2>1, AlignmentWithin
    <2>3. /\ Cardinality(DOMAIN f) <= Cardinality(DOMAIN f) + 1
          /\ Cardinality(Equals(f, a, b)) <= Cardinality(Equals(f, a, b)) + 1
      BY <1>1
    <2> QED BY <2>2, <2>3
  <1>4. CASE \E i \in DOMAIN f : i = m \/ f[i] = n
    <2>1. PICK x \in DOMAIN f : \A i \in DOMAIN f \ {x} : i # m /\ f[i] # n
      <3>1. CASE m \in DOMAIN f
        <4>1. \A i \in DOMAIN f \ {m} : i # m /\ f[i] # n
          <5>1. TAKE i \in DOMAIN f \ {m}
          <5>2. i < m
            BY <1>1
          <5>3. f[i] < f[m]
            BY <1>1, <3>1, <5>2
          <5> QED BY <1>1, <3>1, <5>3
        <4> QED BY <3>1, <4>1
      <3>2. CASE m \notin DOMAIN f
        <4>1. PICK x \in DOMAIN f : f[x] = n
          BY <1>4, <3>2
        <4>2. \A i \in DOMAIN f \ {x} : i # m /\ f[i] # n
          BY <1>1, <3>2, <4>1
        <4> QED BY <4>2
      <3> QED BY <3>1, <3>2
    <2>0. m \in Nat /\ n \in Nat
      OBVIOUS
    <2>2. PICK g \in Alignments(m, n) : Drops(g, f, x)
      BY <2>0, OnePairLess
    <2>3. \A j \in DOMAIN g : j <= m - 1 /\ g[j] <= n - 1
      BY <1>1, <2>1, <2>2 DEF Drops
    <2>4. g \in Alignments(m - 1, n - 1)
      BY <1>2, <2>2, <2>3, AlignmentWithin
    <2>5. Cardinality(DOMAIN g) \in Nat /\ Cardinality(Equals(g, a, b)) \in Nat
      BY <2>0, AlignmentSizes
    <2>6. /\ Cardinality(DOMAIN f) <= Cardinality(DOMAIN g) + 1
          /\ Cardinality(Equals(f, a, b)) <= Cardinality(Equals(g, a, b)) + 1
      <3>1. /\ Cardinality(DOMAIN f) = Cardinality(DOMAIN g) + 1
            /\ Cardinality(Equals(f, a, b)) =
                 Cardinality(Equals(g, a, b)) + (IF a[x] = b[f[x]] THEN 1 ELSE 0)
        BY <2>0, <2>2, OnePairApart
      <3> QED BY <2>5, <3>1
    <2> QED BY <2>4, <2>6
  <1> QED BY <1>3, <1>4

-----------------------------------------------------------------------------
\* Of the alignments of the first i elements of a with the first j of b, v is the most
\* pairs of equal elements that one has, and v is the least that one leaves to edit.
PairsIn(f) == Cardinality(DOMAIN f)
EqualPairs(f, a, b) == Cardinality(Equals(f, a, b))
MostEqual(a, b, v, i, j) ==
  /\ v \in Nat /\ \E f \in Alignments(i, j) : EqualPairs(f, a, b) = v
  /\ \A f \in Alignments(i, j) : EqualPairs(f, a, b) <= v
LeastEdits(a, b, v, i, j) ==
  /\ v \in Nat /\ \E f \in Alignments(i, j) : PairsIn(f) + EqualPairs(f, a, b) + v = i + j
  /\ \A f \in Alignments(i, j) : PairsIn(f) + EqualPairs(f, a, b) + v <= i + j

\* Beside an empty text nothing stands opposite anything.
LEMMA BesideEmpty ==
  ASSUME NEW a, NEW b, NEW i \in Nat, NEW j \in Nat, i = 0 \/ j = 0
  PROVE  MostEqual(a, b, 0, i, j) /\ LeastEdits(a, b, i + j, i, j)
  <1> DEFINE none == [k \in {} |-> 0]
  <1>1. none \in Alignments(i, j)
    <2>1. DOMAIN none = {} /\ none \in [DOMAIN none -> 1..j]
      OBVIOUS
    <2> HIDE DEF none
    <2> QED BY <2>1, AlignmentIs
  <1>2. ASSUME NEW f \in Alignments(i, j) PROVE PairsIn(f) = 0 /\ EqualPairs(f, a, b) = 0
    <2>1. PairsIn(f) \in Nat /\ PairsIn(f) <= i /\ PairsIn(f) <= j
          /\ EqualPairs(f, a, b) \in Nat /\ EqualPairs(f, a, b) <= PairsIn(f)
      BY AlignmentSizes DEF PairsIn, EqualPairs
    <2> QED BY <2>1
  <1> HIDE DEF none
  <1>3. i + j \in Nat /\ 0 \in Nat /\ 0 <= 0 /\ 0 + 0 + (i + j) = i + j /\ i + j <= i + j
    OBVIOUS
  <1>4. MostEqual(a, b, 0, i, j)
    BY <1>1, <1>2, <1>3 DEF MostEqual
  <1>5. LeastEdits(a, b, i + j, i, j)
    <2>1. \A f \in Alignments(i, j) : PairsIn(f) + EqualPairs(f, a, b) + (i + j) = i + j
      BY <1>2, <1>3
    <2> QED BY <1>1, <1>3, <2>1 DEF LeastEdits
  <1> QED BY <1>4, <1>5

\* What the loops compute from three neighbours is what the place in the table stands for.
LEMMA EntryIsMost ==
  ASSUME NEW a, NEW b, NEW i \in Nat \ {0}, NEW j \in Nat \ {0}, NEW d, NEW l, NEW u,
         MostEqual(a, b, d, i - 1, j - 1), MostEqual(a, b, l, i, j - 1), MostEqual(a, b, u, i - 1, j)
  PROVE  MostEqual(a, b, LcsEntry(a[i], b[j], d, l, u), i, j)
  <1> DEFINE same == a[i] = b[j]
             new == LcsEntry(a[i], b[j], d, l, u)
  <1>1. i \in Nat /\ j \in Nat /\ i - 1 \in Nat /\ j - 1 \in Nat /\ d \in Nat /\ l \in Nat /\ u \in Nat
    BY DEF MostEqual
  <1>2. new = IF same THEN d + 1 ELSE IF l >= u THEN l ELSE u
    BY <1>1, OfTwo DEF LcsEntry
  <1>3. new \in Nat
    BY <1>1, <1>2
  <1>4. \A f \in Alignments(i, j) : PairsIn(f) \in Nat /\ EqualPairs(f, a, b) \in Nat
    BY <1>1, AlignmentSizes DEF PairsIn, EqualPairs
  <1>5. \A f \in Alignments(i - 1, j - 1) :
          f \in Alignments(i, j - 1) /\ f \in Alignments(i - 1, j) /\ PairsIn(f) \in Nat /\ EqualPairs(f, a, b) \in Nat
    <2>1. i - 1 <= i /\ j - 1 <= j /\ i <= i /\ j <= j
      BY <1>1
    <2>2. \A f \in Alignments(i - 1, j - 1) : f \in Alignments(i, j - 1) /\ f \in Alignments(i - 1, j)
      BY <1>1, <2>1, PartOfWhole
    <2>3. \A f \in Alignments(i - 1, j - 1) : PairsIn(f) \in Nat /\ EqualPairs(f, a, b) \in Nat
      BY <1>1, AlignmentSizes DEF PairsIn, EqualPairs
    <2> QED BY <2>2, <2>3
  <1>6. \A f : f \in Alignments(i, j - 1) \/ f \in Alignments(i - 1, j) => f \in Alignments(i, j)
    BY <1>1, PartOfWhole
  <1> HIDE DEF new
  <1>7. CASE same
    <2>1. PICK f \in Alignments(i - 1, j - 1) : EqualPairs(f, a, b) = d
      BY DEF MostEqual
    <2>2. PICK longer \in Alignments(i, j) : EqualPairs(longer, a, b) = d + 1
      BY <1>7, <2>1, OnePairMore DEF EqualPairs
    <2>3. ASSUME NEW h \in Alignments(i, j) PROVE EqualPairs(h, a, b) <= d + 1
      <3>1. PICK g \in Alignments(i - 1, j - 1) : EqualPairs(h, a, b) <= EqualPairs(g, a, b) + 1
        BY LosesOnePair DEF EqualPairs
      <3>2. EqualPairs(g, a, b) <= d /\ EqualPairs(g, a, b) \in Nat /\ EqualPairs(h, a, b) \in Nat
        BY <1>4, <1>5 DEF MostEqual
      <3> QED BY <1>1, <3>1, <3>2
    <2> QED BY <1>2, <1>3, <1>7, <2>2, <2>3 DEF MostEqual, new
  <1>8. CASE ~same
    <2>1. PICK f \in Alignments(i, j) : EqualPairs(f, a, b) = new
      <3>1. \E f \in Alignments(i, j) : EqualPairs(f, a, b) = l
        BY <1>6 DEF MostEqual
      <3>2. \E f \in Alignments(i, j) : EqualPairs(f, a, b) = u
        BY <1>6 DEF MostEqual
      <3> QED BY <1>2, <1>8, <3>1, <3>2
    <2>2. l <= new /\ u <= new
      BY <1>1, <1>2, <1>8
    <2>3. ASSUME NEW h \in Alignments(i, j) PROVE EqualPairs(h, a, b) <= new
      <3>1. CASE h \in Alignments(i - 1, j)
        <4>1. EqualPairs(h, a, b) <= u
          BY <3>1 DEF MostEqual
        <4> QED BY <1>1, <1>3, <1>4, <2>2, <4>1
      <3>2. CASE h \in Alignments(i, j - 1)
        <4>1. EqualPairs(h, a, b) <= l
          BY <3>2 DEF MostEqual
        <4> QED BY <1>1, <1>3, <1>4, <2>2, <4>1
      <3>3. CASE /\ i \in DOMAIN h /\ h[i] = j
                 /\ \E g \in Alignments(i - 1, j - 1) : Drops(g, h, i)
        <4>0. PICK g \in Alignments(i - 1, j - 1) : Drops(g, h, i)
          BY <3>3
        <4>1. EqualPairs(h, a, b) = EqualPairs(g, a, b) + 0
          BY <1>1, <1>8, <3>3, <4>0, OnePairApart DEF EqualPairs
        <4>2. EqualPairs(g, a, b) <= l /\ EqualPairs(g, a, b) \in Nat
          BY <1>5 DEF MostEqual
        <4> QED BY <1>1, <1>3, <2>2, <4>1, <4>2
      <3> QED BY <3>1, <3>2, <3>3, LastPlaces
    <2> QED BY <1>3, <2>1, <2>3 DEF MostEqual, new
  <1> QED BY <1>7, <1>8

\* The entry _levenshtein writes is the least number of edits between the two prefixes,
\* when the three entries it is made of are that of theirs.
LEMMA EntryIsLeast ==
  ASSUME NEW a, NEW b, NEW i \in Nat \ {0}, NEW j \in Nat \ {0}, NEW d, NEW l, NEW u,
         LeastEdits(a, b, d, i - 1, j - 1), LeastEdits(a, b, l, i, j - 1), LeastEdits(a, b, u, i - 1, j)
  PROVE  LeastEdits(a, b, EditEntry(a[i], b[j], d, l, u), i, j)
  <1> DEFINE same == a[i] = b[j]
             new == EditEntry(a[i], b[j], d, l, u)
  <1>1. i \in Nat /\ j \in Nat /\ i - 1 \in Nat /\ j - 1 \in Nat /\ d \in Nat /\ l \in Nat /\ u \in Nat
    BY DEF LeastEdits
  <1>2. /\ new \in Nat /\ (same => new = d)
        /\ ~same => /\ new <= d + 1 /\ new <= l + 1 /\ new <= u + 1
                    /\ new = d + 1 \/ new = l + 1 \/ new = u + 1
    <2>1. /\ Min({d, u, l}) \in {d, u, l} /\ Min({d, u, l}) <= d /\ Min({d, u, l}) <= u
          /\ Min({d, u, l}) <= l
      <3>1. \E x \in {d, u, l} : \A y \in {d, u, l} : x <= y
        BY <1>1
      <3>2. Min({d, u, l}) \in {d, u, l} /\ \A y \in {d, u, l} : Min({d, u, l}) <= y
        BY <3>1 DEF Min
      <3> QED BY <3>2
    <2> QED BY <1>1, <2>1 DEF EditEntry
  <1>4. \A f \in Alignments(i, j) : PairsIn(f) \in Nat /\ EqualPairs(f, a, b) \in Nat
    BY <1>1, AlignmentSizes DEF PairsIn, EqualPairs
  <1>5. \A f \in Alignments(i - 1, j - 1) :
          f \in Alignments(i, j - 1) /\ f \in Alignments(i - 1, j) /\ PairsIn(f) \in Nat /\ EqualPairs(f, a, b) \in Nat
    <2>1. i - 1 <= i /\ j - 1 <= j /\ i <= i /\ j <= j
      BY <1>1
    <2>2. \A f \in Alignments(i - 1, j - 1) : f \in Alignments(i, j - 1) /\ f \in Alignments(i - 1, j)
      BY <1>1, <2>1, PartOfWhole
    <2>3. \A f \in Alignments(i - 1, j - 1) : PairsIn(f) \in Nat /\ EqualPairs(f, a, b) \in Nat
      BY <1>1, AlignmentSizes DEF PairsIn, EqualPairs
    <2> QED BY <2>2, <2>3
  <1>6. \A f : f \in Alignments(i, j - 1) \/ f \in Alignments(i - 1, j) => f \in Alignments(i, j)
    BY <1>1, PartOfWhole
  <1> HIDE DEF new
  <1>7. PICK f \in Alignments(i - 1, j - 1) : PairsIn(f) + EqualPairs(f, a, b) + d = (i - 1) + (j - 1)
    BY DEF LeastEdits
  <1>8. PairsIn(f) \in Nat /\ EqualPairs(f, a, b) \in Nat
    BY <1>5
  <1>9. PICK longer \in Alignments(i, j) :
          /\ PairsIn(longer) = PairsIn(f) + 1
          /\ EqualPairs(longer, a, b) = EqualPairs(f, a, b) + (IF same THEN 1 ELSE 0)
    BY OnePairMore DEF PairsIn, EqualPairs
  <1>10. CASE same
    <2>1. PairsIn(longer) + EqualPairs(longer, a, b) + new = i + j
      BY <1>1, <1>2, <1>7, <1>8, <1>9, <1>10
    <2>2. ASSUME NEW h \in Alignments(i, j) PROVE PairsIn(h) + EqualPairs(h, a, b) + new <= i + j
      <3>1. PICK g \in Alignments(i - 1, j - 1) : /\ PairsIn(h) <= PairsIn(g) + 1
                                                  /\ EqualPairs(h, a, b) <= EqualPairs(g, a, b) + 1
        BY LosesOnePair DEF PairsIn, EqualPairs
      <3>2. PairsIn(g) + EqualPairs(g, a, b) + d <= (i - 1) + (j - 1) /\ PairsIn(g) \in Nat /\ EqualPairs(g, a, b) \in Nat
        BY <1>5 DEF LeastEdits
      <3>3. PairsIn(h) \in Nat /\ EqualPairs(h, a, b) \in Nat
        BY <1>4
      <3> QED BY <1>1, <1>2, <1>10, <3>1, <3>2, <3>3
    <2> QED BY <1>2, <2>1, <2>2 DEF LeastEdits, new
  <1>11. CASE ~same
    <2>1. \E g \in Alignments(i, j) : PairsIn(g) + EqualPairs(g, a, b) + new = i + j
      <3>1. CASE new = d + 1
        <4>1. EqualPairs(longer, a, b) = EqualPairs(f, a, b) /\ PairsIn(longer) = PairsIn(f) + 1
          <5>1. EqualPairs(longer, a, b) = EqualPairs(f, a, b) + 0
            BY <1>9, <1>11
          <5> QED BY <1>8, <1>9, <5>1
        <4>2. PairsIn(longer) + EqualPairs(longer, a, b) + new = i + j
          <5> DEFINE p == PairsIn(f)
                     q == EqualPairs(f, a, b)
          <5>1. p \in Nat /\ q \in Nat /\ p + q + d = (i - 1) + (j - 1)
            BY <1>7, <1>8
          <5> HIDE DEF p, q
          <5>2. (p + 1) + q + (d + 1) = i + j
            BY <1>1, <5>1
          <5>3. (PairsIn(f) + 1) + EqualPairs(f, a, b) + (d + 1) = i + j
            BY <5>2 DEF p, q
          <5> QED BY <3>1, <4>1, <5>3
        <4> QED BY <4>2
      <3>2. CASE new = l + 1
        <4>1. PICK g \in Alignments(i, j - 1) : PairsIn(g) + EqualPairs(g, a, b) + l = i + (j - 1)
          BY DEF LeastEdits
        <4>2. g \in Alignments(i, j)
          BY <1>6
        <4>3. PairsIn(g) + EqualPairs(g, a, b) + new = i + j
          BY <1>1, <1>4, <3>2, <4>1, <4>2
        <4> QED BY <4>2, <4>3
      <3>3. CASE new = u + 1
        <4>1. PICK g \in Alignments(i - 1, j) : PairsIn(g) + EqualPairs(g, a, b) + u = (i - 1) + j
          BY DEF LeastEdits
        <4>2. g \in Alignments(i, j)
          BY <1>6
        <4>3. PairsIn(g) + EqualPairs(g, a, b) + new = i + j
          BY <1>1, <1>4, <3>3, <4>1, <4>2
        <4> QED BY <4>2, <4>3
      <3> QED BY <1>2, <1>11, <3>1, <3>2, <3>3
    <2>2. ASSUME NEW h \in Alignments(i, j) PROVE PairsIn(h) + EqualPairs(h, a, b) + new <= i + j
      <3>0. PairsIn(h) \in Nat /\ EqualPairs(h, a, b) \in Nat
        BY <1>4
      <3>1. CASE h \in Alignments(i - 1, j)
        <4>1. PairsIn(h) + EqualPairs(h, a, b) + u <= (i - 1) + j
          BY <3>1 DEF LeastEdits
        <4> QED BY <1>1, <1>2, <1>11, <3>0, <4>1
      <3>2. CASE h \in Alignments(i, j - 1)
        <4>1. PairsIn(h) + EqualPairs(h, a, b) + l <= i + (j - 1)
          BY <3>2 DEF LeastEdits
        <4> QED BY <1>1, <1>2, <1>11, <3>0, <4>1
      <3>3. CASE /\ i \in DOMAIN h /\ h[i] = j
                 /\ \E g \in Alignments(i - 1, j - 1) : Drops(g, h, i)
        <4>0. PICK g \in Alignments(i - 1, j - 1) : Drops(g, h, i)
          BY <3>3
        <4>1. PairsIn(h) = PairsIn(g) + 1 /\ EqualPairs(h, a, b) = EqualPairs(g, a, b) + 0
          BY <1>1, <1>11, <3>3, <4>0, OnePairApart DEF EqualPairs, PairsIn
        <4>2. PairsIn(g) + EqualPairs(g, a, b) + d <= (i - 1) + (j - 1) /\ PairsIn(g) \in Nat /\ EqualPairs(g, a, b) \in Nat
          BY <1>5 DEF LeastEdits
        <4> QED BY <1>1, <1>2, <1>11, <4>1, <4>2
      <3> QED BY <3>1, <3>2, <3>3, LastPlaces
    <2> QED BY <1>2, <2>1, <2>2 DEF LeastEdits, new
  <1> QED BY <1>10, <1>11

-----------------------------------------------------------------------------

\* What the tables hold after each round of the loops.
Places == 1..Len(reference) + 1

ScanTypeOK ==
  scan \in [row : Nat \ {0}, column : Nat, prev : [Places -> Nat], curr : [Places -> Nat],
            dp : [Places -> Nat], corner : Nat]

RowsInv ==
  \A k \in Places :
    /\ MostEqual(prediction, reference, scan.prev[k], scan.row - 1, k - 1)
    /\ k <= scan.column => MostEqual(prediction, reference, scan.curr[k], scan.row, k - 1)
    /\ LeastEdits(prediction, reference, scan.dp[k],
                  IF k <= scan.column THEN scan.row ELSE scan.row - 1, k - 1)

ScanInv ==
  /\ ScanTypeOK /\ RowsInv
  /\ scan.row <= Len(prediction) + 1 /\ scan.column <= Len(reference) + 1
  /\ scan.row = Len(prediction) + 1 => scan.column = 0
  /\ scan.column = 0 => scan.curr = Zeroes
  /\ scan.column > 0 =>
       LeastEdits(prediction, reference, scan.corner, scan.row - 1, scan.column - 1)

TextInv == /\ prediction \in Seq(Tokens) /\ reference \in Seq(Tokens)
           /\ scan # NoScan => ScanInv

\* One round of the inner loop fills one more entry of both rows.
LEMMA RoundFillsEntry ==
  ASSUME prediction \in Seq(Tokens), reference \in Seq(Tokens), ScanInv, FillEntry
  PROVE  ScanInv'
  <1> DEFINE j == scan.column
             i == scan.row
             most == LcsEntry(prediction[i], reference[j], scan.prev[j], scan.curr[j], scan.prev[j + 1])
             least == EditEntry(prediction[i], reference[j], scan.corner, scan.dp[j], scan.dp[j + 1])
             a == prediction
             b == reference
  <1>1. /\ i \in Nat \ {0} /\ i \in Nat /\ i - 1 \in Nat /\ j \in Nat /\ Len(reference) \in Nat
        /\ Len(prediction) \in Nat /\ i <= Len(prediction) /\ j \in 1..Len(reference)
        /\ j \in Nat \ {0} /\ j \in Places /\ j + 1 \in Places /\ (j + 1) - 1 = j /\ ~(j + 1 <= j)
    <2>1. Len(reference) \in Nat /\ Len(prediction) \in Nat
      BY LenProperties
    <2>2. i \in Nat \ {0} /\ j \in Nat
      BY DEF ScanInv, ScanTypeOK
    <2>3. i <= Len(prediction) /\ j \in 1..Len(reference)
      BY DEF FillEntry, InLoop
    <2> HIDE DEF i, j
    <2> QED BY <2>1, <2>2, <2>3 DEF Places
  <1>2. UNCHANGED <<prediction, reference>>
    BY DEF FillEntry, InLoop
  <1>3. ScanTypeOK
    BY DEF ScanInv
  <1>4. scan' = [row |-> i, column |-> j + 1, prev |-> scan.prev,
                 curr |-> [scan.curr EXCEPT ![j + 1] = most],
                 dp |-> [scan.dp EXCEPT ![j + 1] = least], corner |-> scan.dp[j + 1]]
    BY <1>1, <1>3 DEF FillEntry, ScanTypeOK
  <1>5. MostEqual(a, b, most, i, j)
    <2>1. MostEqual(a, b, scan.prev[j], i - 1, j - 1) /\ MostEqual(a, b, scan.curr[j], i, j - 1)
          /\ MostEqual(a, b, scan.prev[j + 1], i - 1, j)
      BY <1>1 DEF ScanInv, RowsInv
    <2> QED BY <1>1, <2>1, EntryIsMost
  <1>6. LeastEdits(a, b, least, i, j) /\ LeastEdits(a, b, scan.dp[j + 1], i - 1, j)
    <2>1. LeastEdits(a, b, scan.corner, i - 1, j - 1)
      BY <1>1 DEF ScanInv
    <2>2. LeastEdits(a, b, scan.dp[j], i, j - 1) /\ LeastEdits(a, b, scan.dp[j + 1], i - 1, j)
      BY <1>1 DEF ScanInv, RowsInv
    <2> QED BY <1>1, <2>1, <2>2, EntryIsLeast
  <1>7. most \in Nat /\ least \in Nat
    BY <1>5, <1>6 DEF MostEqual, LeastEdits
  <1> HIDE DEF most, least
  <1>8. Places' = Places
    BY <1>2 DEF Places
  <1>9. ScanTypeOK'
    <2>1. /\ scan.prev \in [Places -> Nat] /\ scan.curr \in [Places -> Nat]
          /\ scan.dp \in [Places -> Nat] /\ scan.dp[j + 1] \in Nat
      BY <1>1, <1>3 DEF ScanTypeOK
    <2>2. j + 1 \in Nat
      BY <1>1
    <2> HIDE DEF i, j
    <2> QED BY <1>1, <1>4, <1>7, <1>8, <2>1, <2>2 DEF ScanTypeOK
  <1>10. ASSUME NEW k \in Places
         PROVE  /\ MostEqual(a, b, scan'.prev[k], scan'.row - 1, k - 1)
                /\ k <= scan'.column => MostEqual(a, b, scan'.curr[k], scan'.row, k - 1)
                /\ LeastEdits(a, b, scan'.dp[k],
                              IF k <= scan'.column THEN scan'.row ELSE scan'.row - 1, k - 1)
    <2>1. /\ MostEqual(a, b, scan.prev[k], i - 1, k - 1)
          /\ k <= j => MostEqual(a, b, scan.curr[k], i, k - 1)
          /\ LeastEdits(a, b, scan.dp[k], IF k <= j THEN i ELSE i - 1, k - 1)
      BY DEF ScanInv, RowsInv
    <2>2. k \in Nat
      BY <1>1 DEF Places
    <2>3. CASE k = j + 1
      <3>1. scan'.curr[k] = most /\ scan'.dp[k] = least /\ k <= j + 1 /\ k - 1 = j
        BY <1>1, <1>3, <1>4, <2>3 DEF ScanTypeOK
      <3> QED BY <1>4, <1>5, <1>6, <2>1, <3>1
    <2>4. CASE k # j + 1
      <3>1. scan'.curr[k] = scan.curr[k] /\ scan'.dp[k] = scan.dp[k] /\ (k <= j + 1 <=> k <= j)
        BY <1>1, <1>3, <1>4, <2>2, <2>4 DEF ScanTypeOK
      <3> QED BY <1>4, <2>1, <3>1
    <2> QED BY <2>3, <2>4
  <1>11. RowsInv'
    BY <1>2, <1>8, <1>10 DEF RowsInv
  <1>12. /\ scan'.row <= Len(prediction) + 1 /\ scan'.column <= Len(reference) + 1
         /\ scan'.row # Len(prediction) + 1 /\ scan'.column # 0
         /\ LeastEdits(a, b, scan'.corner, scan'.row - 1, scan'.column - 1)
    BY <1>1, <1>4, <1>6
  <1> QED BY <1>2, <1>9, <1>11, <1>12 DEF ScanInv

-----------------------------------------------------------------------------

\* A row begins with an empty text of the reference.
LEMMA RowBegins ==
  ASSUME prediction \in Seq(Tokens), reference \in Seq(Tokens), ScanInv, BeginRow
  PROVE  ScanInv'
  <1> DEFINE i == scan.row
             a == prediction
             b == reference
  <1>1. /\ i \in Nat /\ i \in Nat \ {0} /\ i - 1 \in Nat /\ Len(reference) \in Nat /\ Len(prediction) \in Nat
        /\ i <= Len(prediction) /\ scan.column = 0 /\ 1 \in Places /\ i + 0 = i
    <2>1. Len(reference) \in Nat /\ Len(prediction) \in Nat
      BY LenProperties
    <2>2. i \in Nat \ {0} /\ i <= Len(prediction) /\ scan.column = 0
      BY DEF ScanInv, ScanTypeOK, BeginRow, InLoop
    <2> HIDE DEF i
    <2> QED BY <2>1, <2>2 DEF Places
  <1>2. UNCHANGED <<prediction, reference>> /\ Places' = Places
    BY DEF BeginRow, InLoop, Places
  <1>3. ScanTypeOK /\ scan.curr = Zeroes
    BY <1>1 DEF ScanInv
  <1>4. scan' = [row |-> i, column |-> 1, prev |-> scan.prev, curr |-> scan.curr,
                 dp |-> [scan.dp EXCEPT ![1] = i], corner |-> scan.dp[1]]
    BY <1>1, <1>3 DEF BeginRow, ScanTypeOK
  <1>5. MostEqual(a, b, 0, i, 0) /\ LeastEdits(a, b, i, i, 0)
    <2>1. MostEqual(a, b, 0, i, 0) /\ LeastEdits(a, b, i + 0, i, 0)
      BY <1>1, BesideEmpty
    <2> QED BY <1>1, <2>1
  <1>6. LeastEdits(a, b, scan.dp[1], i - 1, 0)
    <2>1. ~(1 <= scan.column) /\ 1 - 1 = 0
      BY <1>1
    <2>2. LeastEdits(a, b, scan.dp[1], IF 1 <= scan.column THEN i ELSE i - 1, 1 - 1)
      BY <1>1 DEF ScanInv, RowsInv
    <2> QED BY <2>1, <2>2
  <1>7. ScanTypeOK'
    <2>1. /\ scan.prev \in [Places -> Nat] /\ scan.curr \in [Places -> Nat]
          /\ scan.dp \in [Places -> Nat] /\ scan.dp[1] \in Nat
      BY <1>1, <1>3 DEF ScanTypeOK
    <2> HIDE DEF i
    <2> QED BY <1>1, <1>2, <1>4, <2>1 DEF ScanTypeOK
  <1>8. ASSUME NEW k \in Places
         PROVE  /\ MostEqual(a, b, scan'.prev[k], scan'.row - 1, k - 1)
                /\ k <= scan'.column => MostEqual(a, b, scan'.curr[k], scan'.row, k - 1)
                /\ LeastEdits(a, b, scan'.dp[k],
                              IF k <= scan'.column THEN scan'.row ELSE scan'.row - 1, k - 1)
    <2>1. /\ MostEqual(a, b, scan.prev[k], i - 1, k - 1)
          /\ LeastEdits(a, b, scan.dp[k], IF k <= scan.column THEN i ELSE i - 1, k - 1)
      BY DEF ScanInv, RowsInv
    <2>2. k \in Nat /\ k >= 1
      BY <1>1 DEF Places
    <2>3. CASE k = 1
      <3>1. scan'.curr[k] = 0 /\ scan'.dp[k] = i /\ k - 1 = 0 /\ k <= 1
        BY <1>1, <1>3, <1>4, <2>3 DEF ScanTypeOK, Zeroes, Places
      <3> QED BY <1>4, <1>5, <2>1, <3>1
    <2>4. CASE k # 1
      <3>1. scan'.dp[k] = scan.dp[k] /\ ~(k <= 1) /\ ~(k <= scan.column)
        BY <1>1, <1>3, <1>4, <2>2, <2>4 DEF ScanTypeOK
      <3> QED BY <1>4, <2>1, <3>1
    <2> QED BY <2>3, <2>4
  <1>9. RowsInv'
    BY <1>2, <1>8 DEF RowsInv
  <1>10. /\ scan'.row <= Len(prediction) + 1 /\ scan'.column <= Len(reference) + 1
         /\ scan'.row # Len(prediction) + 1 /\ scan'.column # 0
         /\ LeastEdits(a, b, scan'.corner, scan'.row - 1, scan'.column - 1)
    <2>1. scan'.row = i /\ scan'.column = 1 /\ scan'.corner = scan.dp[1] /\ 1 - 1 = 0
      BY <1>4
    <2> HIDE DEF i
    <2> QED BY <1>1, <1>6, <2>1
  <1> QED BY <1>2, <1>7, <1>9, <1>10 DEF ScanInv

\* At the end of a row the one that was filled is the one that is read.
LEMMA RowEnds ==
  ASSUME prediction \in Seq(Tokens), reference \in Seq(Tokens), ScanInv, EndRow
  PROVE  ScanInv'
  <1> DEFINE i == scan.row
             a == prediction
             b == reference
  <1>1. /\ i \in Nat /\ Len(reference) \in Nat /\ Len(prediction) \in Nat
        /\ i <= Len(prediction) /\ scan.column = Len(reference) + 1
        /\ (i + 1) - 1 = i /\ i + 1 \in Nat \ {0}
        /\ \A k \in Places : k \in Nat /\ k >= 1 /\ k <= scan.column
    <2>1. Len(reference) \in Nat /\ Len(prediction) \in Nat
      BY LenProperties
    <2>2. i \in Nat \ {0} /\ i <= Len(prediction) /\ scan.column = Len(reference) + 1
      BY DEF ScanInv, ScanTypeOK, EndRow, InLoop
    <2> HIDE DEF i
    <2> QED BY <2>1, <2>2 DEF Places
  <1>2. UNCHANGED <<prediction, reference>> /\ Places' = Places /\ Zeroes' = Zeroes
    BY DEF EndRow, InLoop, Places, Zeroes
  <1>3. ScanTypeOK
    BY DEF ScanInv
  <1>4. scan' = [row |-> i + 1, column |-> 0, prev |-> scan.curr, curr |-> Zeroes,
                 dp |-> scan.dp, corner |-> scan.corner]
    BY <1>1, <1>3 DEF EndRow, ScanTypeOK
  <1>5. ScanTypeOK'
    <2>1. /\ scan.curr \in [Places -> Nat] /\ Zeroes \in [Places -> Nat]
          /\ scan.dp \in [Places -> Nat] /\ scan.corner \in Nat
      BY <1>1, <1>3 DEF ScanTypeOK, Zeroes, Places
    <2> HIDE DEF i
    <2> QED BY <1>1, <1>2, <1>4, <2>1 DEF ScanTypeOK
  <1>6. ASSUME NEW k \in Places
         PROVE  /\ MostEqual(a, b, scan'.prev[k], scan'.row - 1, k - 1)
                /\ ~(k <= scan'.column)
                /\ LeastEdits(a, b, scan'.dp[k], scan'.row - 1, k - 1)
    <2>1. /\ MostEqual(a, b, scan.curr[k], i, k - 1)
          /\ LeastEdits(a, b, scan.dp[k], i, k - 1)
      BY <1>1 DEF ScanInv, RowsInv
    <2>2. ~(k <= 0)
      BY <1>1
    <2> QED BY <1>1, <1>4, <2>1, <2>2
  <1>7. RowsInv'
    BY <1>2, <1>6 DEF RowsInv
  <1>8. /\ scan'.row <= Len(prediction) + 1 /\ scan'.column <= Len(reference) + 1
        /\ scan'.column = 0 /\ ~(scan'.column > 0) /\ scan'.curr = Zeroes
    <2>1. scan'.row = i + 1 /\ scan'.column = 0 /\ scan'.curr = Zeroes
      BY <1>4
    <2> HIDE DEF i
    <2> QED BY <1>1, <2>1
  <1> QED BY <1>2, <1>5, <1>7, <1>8 DEF ScanInv

\* Before the first row nothing of the prediction was looked at.
LEMMA ScanBegins ==
  ASSUME prediction \in Seq(Tokens), reference \in Seq(Tokens), BeginScan
  PROVE  ScanInv'
  <1> DEFINE a == prediction
             b == reference
             count == [k \in Places |-> k - 1]
  <1>1. /\ Len(reference) \in Nat /\ Len(prediction) \in Nat
        /\ \A k \in Places : k \in Nat /\ k >= 1 /\ k - 1 \in Nat /\ 0 + (k - 1) = k - 1
    <2>1. Len(reference) \in Nat /\ Len(prediction) \in Nat
      BY LenProperties
    <2> QED BY <2>1 DEF Places
  <1>2. UNCHANGED <<prediction, reference>> /\ Places' = Places /\ Zeroes' = Zeroes
    BY DEF BeginScan, Places, Zeroes
  <1>3. scan' = [row |-> 1, column |-> 0, prev |-> Zeroes, curr |-> Zeroes, dp |-> count, corner |-> 0]
    BY DEF BeginScan, Places
  <1>4. /\ Zeroes \in [Places -> Nat] /\ count \in [Places -> Nat]
        /\ \A k \in Places : Zeroes[k] = 0 /\ count[k] = k - 1
    BY <1>1 DEF Zeroes, Places
  <1> HIDE DEF count
  <1>5. ScanTypeOK'
    BY <1>2, <1>3, <1>4 DEF ScanTypeOK
  <1>6. ASSUME NEW k \in Places
         PROVE  /\ MostEqual(a, b, scan'.prev[k], scan'.row - 1, k - 1)
                /\ ~(k <= scan'.column)
                /\ LeastEdits(a, b, scan'.dp[k], scan'.row - 1, k - 1)
    <2>1. MostEqual(a, b, 0, 0, k - 1) /\ LeastEdits(a, b, 0 + (k - 1), 0, k - 1)
      BY <1>1, BesideEmpty
    <2>2. ~(k <= 0) /\ 1 - 1 = 0
      BY <1>1
    <2> QED BY <1>1, <1>3, <1>4, <2>1, <2>2
  <1>7. RowsInv'
    BY <1>2, <1>6 DEF RowsInv
  <1>8. /\ scan'.row <= Len(prediction) + 1 /\ scan'.column <= Len(reference) + 1
        /\ scan'.column = 0 /\ ~(scan'.column > 0) /\ scan'.curr = Zeroes
    BY <1>1, <1>3
  <1> QED BY <1>2, <1>5, <1>7, <1>8 DEF ScanInv

-----------------------------------------------------------------------------

\* What is at least, or at most, everything in a set it belongs to.
LEMMA MaxAndMinAre ==
  ASSUME NEW S \in SUBSET Int, NEW v \in S
  PROVE  /\ (\A y \in S : y <= v) => Max(S) = v
         /\ (\A y \in S : v <= y) => Min(S) = v
  <1>1. ASSUME \A y \in S : y <= v PROVE Max(S) = v
    <2>1. \A x \in S : x \in Int
      OBVIOUS
    <2>2. \E x \in S : \A y \in S : x >= y
      BY <1>1, <2>1
    <2>3. Max(S) \in S /\ \A y \in S : Max(S) >= y
      BY <2>2 DEF Max
    <2>4. Max(S) <= v /\ Max(S) >= v /\ Max(S) \in Int /\ v \in Int
      BY <1>1, <2>1, <2>3
    <2> QED BY <2>4
  <1>2. ASSUME \A y \in S : v <= y PROVE Min(S) = v
    <2>1. \A x \in S : x \in Int
      OBVIOUS
    <2>2. \E x \in S : \A y \in S : x <= y
      BY <1>2, <2>1
    <2>3. Min(S) \in S /\ \A y \in S : Min(S) <= y
      BY <2>2 DEF Min
    <2>4. v <= Min(S) /\ Min(S) <= v /\ Min(S) \in Int /\ v \in Int
      BY <1>2, <2>1, <2>3
    <2> QED BY <2>4
  <1> QED BY <1>1, <1>2

\* What an alignment leaves to edit.
LEMMA EditsAre ==
  ASSUME NEW T, NEW a \in Seq(T), NEW b \in Seq(T), NEW f \in Alignments(Len(a), Len(b))
  PROVE  /\ Edits(f, a, b) = Len(a) + Len(b) - PairsIn(f) - EqualPairs(f, a, b)
         /\ PairsIn(f) \in Nat /\ EqualPairs(f, a, b) \in Nat /\ EqualPairs(f, a, b) <= PairsIn(f)
         /\ PairsIn(f) <= Len(a) /\ PairsIn(f) <= Len(b)
         /\ Len(a) \in Nat /\ Len(b) \in Nat /\ Edits(f, a, b) \in Nat
  <1>1. Len(a) \in Nat /\ Len(b) \in Nat
    BY LenProperties
  <1>2. /\ PairsIn(f) \in Nat /\ PairsIn(f) <= Len(a) /\ PairsIn(f) <= Len(b)
        /\ EqualPairs(f, a, b) \in Nat /\ EqualPairs(f, a, b) <= PairsIn(f)
        /\ Cardinality(DOMAIN f \ Equals(f, a, b)) = PairsIn(f) - EqualPairs(f, a, b)
    BY <1>1, AlignmentSizes DEF PairsIn, EqualPairs
  <1>3. Edits(f, a, b) = (Len(a) - PairsIn(f)) + (Len(b) - PairsIn(f)) + (PairsIn(f) - EqualPairs(f, a, b))
    BY <1>2 DEF Edits, PairsIn
  <1> QED BY <1>1, <1>2, <1>3

\* The last entries are the two reference definitions.
LEMMA TablesAnswer ==
  ASSUME NEW T, NEW a \in Seq(T), NEW b \in Seq(T), NEW v
  PROVE  /\ MostEqual(a, b, v, Len(a), Len(b)) => v = Longest(a, b)
         /\ LeastEdits(a, b, v, Len(a), Len(b)) => v = FewestEdits(a, b)
  <1> DEFINE A == Alignments(Len(a), Len(b))
             equal == {EqualPairs(f, a, b) : f \in A}
             edits == {Edits(f, a, b) : f \in A}
  <1>1. equal \in SUBSET Int /\ edits \in SUBSET Int /\ Len(a) \in Nat /\ Len(b) \in Nat
    <2>1. \A f \in A : EqualPairs(f, a, b) \in Int /\ Edits(f, a, b) \in Int
      BY EditsAre
    <2> QED BY <2>1, LenProperties
  <1>2. Longest(a, b) = Max(equal) /\ FewestEdits(a, b) = Min(edits)
    BY DEF Longest, FewestEdits, EqualPairs
  <1>3. ASSUME MostEqual(a, b, v, Len(a), Len(b)) PROVE v = Longest(a, b)
    <2>1. v \in equal /\ \A y \in equal : y <= v
      BY <1>3 DEF MostEqual
    <2> HIDE DEF equal
    <2> QED BY <1>1, <1>2, <2>1, MaxAndMinAre
  <1>4. ASSUME LeastEdits(a, b, v, Len(a), Len(b)) PROVE v = FewestEdits(a, b)
    <2>1. v \in Nat /\ \A f \in A : PairsIn(f) + EqualPairs(f, a, b) + v <= Len(a) + Len(b)
      BY <1>4 DEF LeastEdits
    <2>2. PICK f \in A : PairsIn(f) + EqualPairs(f, a, b) + v = Len(a) + Len(b)
      BY <1>4 DEF LeastEdits
    <2>3. Edits(f, a, b) = v
      <3>1. /\ Edits(f, a, b) = Len(a) + Len(b) - PairsIn(f) - EqualPairs(f, a, b)
            /\ PairsIn(f) \in Nat /\ EqualPairs(f, a, b) \in Nat
        BY EditsAre
      <3> DEFINE p == PairsIn(f)
                 q == EqualPairs(f, a, b)
                 m == Len(a)
                 n == Len(b)
      <3>2. /\ p \in Nat /\ q \in Nat /\ m \in Nat /\ n \in Nat /\ v \in Nat /\ p + q + v = m + n
            /\ Edits(f, a, b) = m + n - p - q
        BY <1>1, <2>1, <2>2, <3>1
      <3> HIDE DEF p, q, m, n
      <3> QED BY <3>2
    <2>4. ASSUME NEW g \in A PROVE v <= Edits(g, a, b)
      <3>1. /\ Edits(g, a, b) = Len(a) + Len(b) - PairsIn(g) - EqualPairs(g, a, b)
            /\ PairsIn(g) \in Nat /\ EqualPairs(g, a, b) \in Nat
        BY EditsAre
      <3>2. PairsIn(g) + EqualPairs(g, a, b) + v <= Len(a) + Len(b)
        BY <2>1
      <3> QED BY <1>1, <2>1, <3>1, <3>2
    <2>5. v \in edits /\ \A y \in edits : v <= y
      BY <2>3, <2>4
    <2> HIDE DEF edits
    <2> QED BY <1>1, <1>2, <2>5, MaxAndMinAre
  <1> QED BY <1>3, <1>4

\* What the two functions return.
LEMMA ScansAreTrue ==
  ASSUME TextInv, Scanned
  PROVE  /\ LcsLength = Longest(prediction, reference)
         /\ Levenshtein = FewestEdits(prediction, reference)
         /\ MostEqual(prediction, reference, LcsLength, Len(prediction), Len(reference))
         /\ LeastEdits(prediction, reference, Levenshtein, Len(prediction), Len(reference))
  <1> DEFINE k == Len(reference) + 1
  <1>1. /\ prediction \in Seq(Tokens) /\ reference \in Seq(Tokens) /\ ScanInv
        /\ scan.row = Len(prediction) + 1 /\ scan.column = 0
    BY DEF TextInv, Scanned, ScanInv
  <1>2. Len(prediction) \in Nat /\ Len(reference) \in Nat
    BY <1>1, LenProperties
  <1>3. k \in Places /\ k - 1 = Len(reference) /\ scan.row - 1 = Len(prediction) /\ ~(k <= scan.column)
    BY <1>1, <1>2 DEF Places
  <1>4. /\ MostEqual(prediction, reference, scan.prev[k], Len(prediction), Len(reference))
        /\ LeastEdits(prediction, reference, scan.dp[k], Len(prediction), Len(reference))
    <2> HIDE DEF k
    <2> QED BY <1>1, <1>3 DEF ScanInv, RowsInv
  <1>5. scan.prev[k] = LcsLength /\ scan.dp[k] = Levenshtein
    BY DEF LcsLength, Levenshtein
  <1> HIDE DEF k
  <1> QED BY <1>1, <1>4, <1>5, TablesAnswer

\* Every step keeps the invariant: a token is written before the loops begin, and the
\* steps of the loops are the lemmas above.
LEMMA TextStepsKeepInv == TextInv /\ [TextNext]_textVars => TextInv'
  <1> SUFFICES ASSUME TextInv, [TextNext]_textVars PROVE TextInv'
    OBVIOUS
  <1>1. prediction \in Seq(Tokens) /\ reference \in Seq(Tokens)
    BY DEF TextInv
  <1>2. CASE WriteToken
    <2>1. scan = NoScan /\ scan' = NoScan /\ NoScan' = NoScan
      BY <1>2 DEF WriteToken, NoScan
    <2>2. PICK t \in Tokens : /\ prediction' \in {prediction, Append(prediction, t)}
                             /\ reference' \in {reference, Append(reference, t)}
      BY <1>2 DEF WriteToken, WriteTo
    <2>3. prediction' \in Seq(Tokens) /\ reference' \in Seq(Tokens)
      <3>1. Append(prediction, t) \in Seq(Tokens) /\ Append(reference, t) \in Seq(Tokens)
        BY <1>1, AppendProperties
      <3>2. \A s \in {prediction, Append(prediction, t), reference, Append(reference, t)} : s \in Seq(Tokens)
        BY <1>1, <3>1
      <3> QED BY <2>2, <3>2, Zenon
    <2> QED BY <2>1, <2>3 DEF TextInv
  <1>3. CASE BeginScan
    BY <1>1, <1>3, ScanBegins DEF BeginScan, TextInv
  <1>4. CASE BeginRow
    BY <1>1, <1>4, RowBegins DEF BeginRow, InLoop, TextInv
  <1>5. CASE FillEntry
    <2>1. UNCHANGED <<prediction, reference>> /\ scan # NoScan
      BY <1>5 DEF FillEntry, InLoop
    <2> QED BY <1>1, <1>5, <2>1, RoundFillsEntry DEF TextInv
  <1>6. CASE EndRow
    BY <1>1, <1>6, RowEnds DEF EndRow, InLoop, TextInv
  <1>7. CASE UNCHANGED textVars
    BY <1>1, <1>7 DEF textVars, TextInv, ScanInv, ScanTypeOK, RowsInv, Places, Zeroes, NoScan
  <1> QED BY <1>2, <1>3, <1>4, <1>5, <1>6, <1>7 DEF TextNext

-----------------------------------------------------------------------------

\* Every place in an order is somebody's.
LEMMA PlaceOnto ==
  ASSUME NEW S \in SUBSET Nat, IsFiniteSet(S)
  PROVE  /\ Cardinality(S) \in Nat
         /\ \A p \in S : Place(p, S) \in 0..Cardinality(S) - 1
         /\ \A k \in 0..Cardinality(S) - 1 : \E p \in S : Place(p, S) = k
  <1> DEFINE f == [p \in S |-> Place(p, S)]
             N == Cardinality(S)
             T == 0..N - 1
  <1>1. N \in Nat
    BY FS_CardinalityType
  <1>2. ASSUME NEW p \in S PROVE Place(p, S) \in T
    <2> DEFINE before == {m \in S : m < p}
    <2>1. before \subseteq S /\ p \notin before
      OBVIOUS
    <2>2. Place(p, S) = Cardinality(before) /\ Place(p, S) \in Nat
      BY PlaceIsNat
    <2> HIDE DEF before
    <2>3. Cardinality(before) <= N /\ (Cardinality(before) = N => before = S)
      BY <2>1, FS_Subset
    <2>4. Cardinality(before) # N
      BY <2>1, <2>3
    <2> HIDE DEF N
    <2> QED BY <1>1, <2>2, <2>3, <2>4
  <1>3. f \in [S -> T]
    BY <1>2
  <1>4. f \in Injection(S, T)
    <2>1. ASSUME NEW p \in S, NEW q \in S, f[p] = f[q] PROVE p = q
      <3>1. Place(p, S) = Place(q, S)
        BY <2>1
      <3> QED BY <3>1, PlaceTells
    <2> HIDE DEF f
    <2> QED BY <1>3, <2>1 DEF Injection, IsInjective
  <1>5. IsFiniteSet(T) /\ Cardinality(T) = Cardinality(S)
    <2>1. 0 \in Int /\ N - 1 \in Int /\ (IF 0 > N - 1 THEN 0 ELSE (N - 1) - 0 + 1) = N
      <3> HIDE DEF N
      <3> QED BY <1>1
    <2> QED BY <2>1, FS_Interval
  <1>6. f \in Surjection(S, T)
    <2> HIDE DEF f, T
    <2> QED BY <1>4, <1>5, FS_Injection
  <1>7. \A k \in T : \E p \in S : f[p] = k
    <2> HIDE DEF f, T
    <2> QED BY <1>6 DEF Surjection
  <1> QED BY <1>1, <1>2, <1>7

\* The copies of a token among the places E of a text, and which of them one is.
Copies(E, s, t) == {k \in E : s[k] = t}
Numbered(E, s, i) == <<s[i], Place(i, Copies(E, s, s[i])) + 1>>

\* The number of a copy is one of 1 to the number of copies, and token and number tell
\* which copy it is.
LEMMA NumbersTell ==
  ASSUME NEW E \in SUBSET Nat, IsFiniteSet(E), NEW s, NEW i \in E
  PROVE  /\ i \in Copies(E, s, s[i]) /\ Copies(E, s, s[i]) \in SUBSET Nat
         /\ IsFiniteSet(Copies(E, s, s[i])) /\ Cardinality(Copies(E, s, s[i])) \in Nat
         /\ Place(i, Copies(E, s, s[i])) + 1 \in 1..Cardinality(Copies(E, s, s[i]))
         /\ \A j \in E : Numbered(E, s, i) = Numbered(E, s, j) => i = j
  <1> DEFINE C(t) == Copies(E, s, t)
  <1>1. \A t : C(t) \in SUBSET E /\ C(t) \in SUBSET Nat
    BY DEF Copies
  <1>2. \A j \in E : j \in C(s[j])
    BY DEF Copies
  <1> HIDE DEF C
  <1>3. IsFiniteSet(C(s[i])) /\ Cardinality(C(s[i])) \in Nat
    BY <1>1, PartIsFinite
  <1>4. Place(i, C(s[i])) + 1 \in 1..Cardinality(C(s[i]))
    <2>1. Place(i, C(s[i])) \in 0..Cardinality(C(s[i])) - 1
      BY <1>1, <1>2, <1>3, PlaceOnto
    <2> QED BY <1>3, <2>1
  <1>5. ASSUME NEW j \in E, Numbered(E, s, i) = Numbered(E, s, j) PROVE i = j
    <2>1. s[i] = s[j] /\ Place(i, C(s[i])) + 1 = Place(j, C(s[j])) + 1
      BY <1>5 DEF Numbered, C
    <2>2. i \in C(s[i]) /\ j \in C(s[i]) /\ C(s[i]) \in SUBSET Nat
      BY <1>1, <1>2, <2>1
    <2>3. Place(i, C(s[i])) \in Nat /\ Place(j, C(s[i])) \in Nat
      BY <2>2, PlaceIsNat
    <2>4. Place(i, C(s[i])) = Place(j, C(s[i]))
      BY <2>1, <2>3
    <2> QED BY <2>2, <2>4, PlaceTells
  <1> QED BY <1>1, <1>2, <1>3, <1>4, <1>5 DEF C

\* A Counter has every copy once.
LEMMA CounterIs ==
  ASSUME NEW T, NEW s \in Seq(T)
  PROVE  /\ IsFiniteSet(Counter(s)) /\ Cardinality(Counter(s)) = Len(s) /\ Len(s) \in Nat
         /\ \A t : CountOf(s, t) \in Nat
         /\ \A t, c : <<t, c>> \in Counter(s) <=> c \in 1..CountOf(s, t)
         /\ \A p \in Counter(s) : p = <<p[1], p[2]>>
  <1> DEFINE D == DOMAIN s
             num == [i \in D |-> Numbered(D, s, i)]
  <1>1. Len(s) \in Nat /\ D = 1..Len(s) /\ D \in SUBSET Nat
    <2>1. Len(s) \in Nat /\ D = 1..Len(s)
      BY LenProperties
    <2> QED BY <2>1
  <1>2. IsFiniteSet(D) /\ Cardinality(D) = Len(s)
    <2>1. 1 \in Int /\ Len(s) \in Int /\ (IF 1 > Len(s) THEN 0 ELSE Len(s) - 1 + 1) = Len(s)
      BY <1>1
    <2> QED BY <1>1, <2>1, FS_Interval
  <1>3. \A t : /\ CountOf(s, t) = Cardinality(Copies(D, s, t)) /\ CountOf(s, t) \in Nat
               /\ IsFiniteSet(Copies(D, s, t)) /\ Copies(D, s, t) \in SUBSET D
    <2> TAKE t
    <2>1. Copies(D, s, t) \in SUBSET D /\ CountOf(s, t) = Cardinality(Copies(D, s, t))
      BY DEF Copies, CountOf
    <2> QED BY <1>2, <2>1, PartIsFinite
  <1>4. \A t, c : <<t, c>> \in Counter(s) <=> c \in 1..CountOf(s, t)
    <2> TAKE t, c
    <2>1. <<t, c>> \in Counter(s) <=> t \in ToSet(s) /\ c \in 1..CountOf(s, t)
      BY DEF Counter
    <2>2. ASSUME c \in 1..CountOf(s, t) PROVE t \in ToSet(s)
      <3>1. CountOf(s, t) # 0
        BY <1>3, <2>2
      <3>2. Copies(D, s, t) # {}
        BY <1>3, <3>1, FS_EmptySet
      <3>3. PICK k \in D : s[k] = t
        BY <3>2 DEF Copies
      <3> QED BY <3>3 DEF ToSet
    <2> QED BY <2>1, <2>2
  <1>5. \A p \in Counter(s) : p = <<p[1], p[2]>>
    BY DEF Counter
  <1>6. ASSUME NEW i \in D PROVE num[i] \in Counter(s)
    <2>1. Place(i, Copies(D, s, s[i])) + 1 \in 1..Cardinality(Copies(D, s, s[i]))
      BY <1>1, <1>2, NumbersTell
    <2>2. <<s[i], Place(i, Copies(D, s, s[i])) + 1>> \in Counter(s)
      BY <1>3, <1>4, <2>1
    <2> QED BY <2>2 DEF Numbered
  <1>7. \A i, j \in D : num[i] = num[j] => i = j
    BY <1>1, <1>2, NumbersTell
  <1>8. ASSUME NEW p \in Counter(s) PROVE \E i \in D : num[i] = p
    <2> DEFINE C == Copies(D, s, p[1])
    <2>1. p[2] \in 1..Cardinality(C) /\ IsFiniteSet(C) /\ C \in SUBSET Nat /\ Cardinality(C) \in Nat
      BY <1>1, <1>3, <1>4, <1>5
    <2>2. p[2] - 1 \in 0..Cardinality(C) - 1 /\ p[2] \in Nat
      BY <2>1
    <2>3. PICK i \in C : Place(i, C) = p[2] - 1
      <3> HIDE DEF C
      <3> QED BY <2>1, <2>2, PlaceOnto
    <2>4. i \in D /\ s[i] = p[1]
      BY DEF Copies
    <2>5. num[i] = <<p[1], p[2]>>
      <3>1. (p[2] - 1) + 1 = p[2]
        BY <2>2
      <3> QED BY <2>3, <2>4, <3>1 DEF Numbered
    <2> QED BY <1>5, <2>4, <2>5
  <1>9. num \in Bijection(D, Counter(s))
    <2>1. num \in [D -> Counter(s)]
      BY <1>6
    <2> HIDE DEF num
    <2> QED BY <1>7, <1>8, <2>1 DEF Bijection, Injection, Surjection, IsInjective
  <1>10. IsFiniteSet(Counter(s)) /\ Cardinality(Counter(s)) = Cardinality(D)
    <2> HIDE DEF num, D
    <2>1. ExistsBijection(D, Counter(s))
      BY <1>9 DEF ExistsBijection
    <2> QED BY <1>2, <2>1, FS_Bijection
  <1> QED BY <1>1, <1>2, <1>3, <1>4, <1>5, <1>10

-----------------------------------------------------------------------------

\* No more tokens can be matched than both texts have, and tokens that an alignment
\* matches are among them.
LEMMA CommonBounds ==
  ASSUME NEW T, NEW a \in Seq(T), NEW b \in Seq(T)
  PROVE  /\ Common(a, b) \in Nat /\ Common(a, b) <= Len(a) /\ Common(a, b) <= Len(b)
         /\ Common(a, b) = Common(b, a) /\ IsFiniteSet(Counter(a) \intersect Counter(b))
  <1> DEFINE C == Counter(a) \intersect Counter(b)
  <1>1. /\ IsFiniteSet(Counter(a)) /\ Cardinality(Counter(a)) = Len(a)
        /\ IsFiniteSet(Counter(b)) /\ Cardinality(Counter(b)) = Len(b)
    BY CounterIs
  <1>2. C \in SUBSET Counter(a) /\ C \in SUBSET Counter(b) /\ C = Counter(b) \intersect Counter(a)
    OBVIOUS
  <1>3. Common(a, b) = Cardinality(C) /\ Common(b, a) = Cardinality(C)
    BY <1>2 DEF Common
  <1> HIDE DEF C
  <1>4. IsFiniteSet(C) /\ Cardinality(C) \in Nat /\ Cardinality(C) <= Cardinality(Counter(a))
        /\ Cardinality(C) <= Cardinality(Counter(b))
    BY <1>1, <1>2, PartIsFinite
  <1> QED BY <1>1, <1>3, <1>4 DEF C

\* Every equal pair of an alignment is a token the two Counters have in common, copies
\* counted, so that a common subsequence is no longer than what F1 counts.
LEMMA EqualsAreCommon ==
  ASSUME NEW T, NEW a \in Seq(T), NEW b \in Seq(T), NEW f \in Alignments(Len(a), Len(b))
  PROVE  EqualPairs(f, a, b) <= Common(a, b)
  <1> DEFINE E == Equals(f, a, b)
             C == Counter(a) \intersect Counter(b)
             num == [i \in E |-> Numbered(E, a, i)]
  <1>1. /\ Len(a) \in Nat /\ Len(b) \in Nat /\ DOMAIN a = 1..Len(a) /\ DOMAIN b = 1..Len(b)
    BY LenProperties
  <1>2. /\ \A i \in DOMAIN f : i \in DOMAIN a /\ i \in Nat /\ f[i] \in DOMAIN b
        /\ \A i, j \in DOMAIN f : f[i] = f[j] => i = j
        /\ IsFiniteSet(E)
    BY <1>1, AlignmentSizes
  <1>3. E \in SUBSET Nat /\ \A i \in E : i \in DOMAIN f /\ a[i] = b[f[i]]
    BY <1>2 DEF Equals
  <1> HIDE DEF E
  <1>4. ASSUME NEW t PROVE /\ IsFiniteSet(Copies(E, a, t)) /\ Cardinality(Copies(E, a, t)) \in Nat
                           /\ Cardinality(Copies(E, a, t)) <= CountOf(a, t)
                           /\ Cardinality(Copies(E, a, t)) <= CountOf(b, t)
                           /\ CountOf(a, t) \in Nat /\ CountOf(b, t) \in Nat
    <2> DEFINE M == Copies(E, a, t)
               A == {k \in DOMAIN a : a[k] = t}
               B == {k \in DOMAIN b : b[k] = t}
               g == [i \in M |-> f[i]]
    <2>1. M \in SUBSET E /\ \A i \in M : i \in DOMAIN f /\ f[i] \in DOMAIN b /\ b[f[i]] = t /\ i \in A
      BY <1>2, <1>3 DEF Copies
    <2>2. IsFiniteSet(A) /\ IsFiniteSet(B) /\ Cardinality(A) = CountOf(a, t) /\ Cardinality(B) = CountOf(b, t)
      <3>1. IsFiniteSet(DOMAIN a) /\ IsFiniteSet(DOMAIN b)
        BY <1>1, FS_Interval
      <3>2. A \in SUBSET DOMAIN a /\ B \in SUBSET DOMAIN b
        OBVIOUS
      <3> HIDE DEF A, B
      <3>3. IsFiniteSet(A) /\ IsFiniteSet(B)
        BY <3>1, <3>2, PartIsFinite
      <3> QED BY <3>3 DEF CountOf, A, B
    <2>3. g \in [M -> B] /\ \A i, j \in M : g[i] = g[j] => i = j
      BY <1>2, <2>1
    <2>4. M \in SUBSET A
      BY <2>1
    <2> HIDE DEF M, A, B, g
    <2>5. g \in Injection(M, B)
      BY <2>3 DEF Injection, IsInjective
    <2>6. Cardinality(M) <= Cardinality(B)
      BY <2>2, <2>5, FS_Injection
    <2>7. IsFiniteSet(M) /\ Cardinality(M) \in Nat /\ Cardinality(M) <= Cardinality(A)
      BY <2>2, <2>4, PartIsFinite
    <2>8. CountOf(a, t) \in Nat /\ CountOf(b, t) \in Nat
      BY CounterIs
    <2> QED BY <2>2, <2>6, <2>7, <2>8 DEF M
  <1>5. ASSUME NEW i \in E PROVE num[i] \in C
    <2> DEFINE t == a[i]
               c == Place(i, Copies(E, a, a[i])) + 1
    <2>1. c \in 1..Cardinality(Copies(E, a, t))
      BY <1>2, <1>3, NumbersTell
    <2>2. Cardinality(Copies(E, a, t)) \in Nat /\ Cardinality(Copies(E, a, t)) <= CountOf(a, t)
          /\ Cardinality(Copies(E, a, t)) <= CountOf(b, t) /\ CountOf(a, t) \in Nat /\ CountOf(b, t) \in Nat
      BY <1>4
    <2>3. num[i] = <<t, c>>
      BY DEF Numbered
    <2> HIDE DEF c, t, num
    <2>4. c \in 1..CountOf(a, t) /\ c \in 1..CountOf(b, t)
      BY <2>1, <2>2
    <2>5. <<t, c>> \in Counter(a) /\ <<t, c>> \in Counter(b)
      BY <2>4, CounterIs
    <2> QED BY <2>3, <2>5
  <1>6. num \in Injection(E, C)
    <2>1. num \in [E -> C]
      BY <1>5
    <2>2. \A i, j \in E : num[i] = num[j] => i = j
      BY <1>2, <1>3, NumbersTell
    <2> HIDE DEF num, C
    <2> QED BY <2>1, <2>2 DEF Injection, IsInjective
  <1>7. Cardinality(E) <= Cardinality(C)
    <2>1. IsFiniteSet(C)
      BY CommonBounds
    <2> HIDE DEF num, C
    <2> QED BY <1>6, <2>1, FS_Injection
  <1> QED BY <1>7 DEF E, Common, EqualPairs

\* All tokens of both texts match exactly when they are as many of each kind.
LEMMA AllInCommon ==
  ASSUME NEW T, NEW a \in Seq(T), NEW b \in Seq(T)
  PROVE  (Common(a, b) = Len(a) /\ Common(a, b) = Len(b)) <=> (\A t \in T : CountOf(a, t) = CountOf(b, t))
  <1> DEFINE C == Counter(a) \intersect Counter(b)
  <1>1. /\ IsFiniteSet(Counter(a)) /\ Cardinality(Counter(a)) = Len(a) /\ Len(a) \in Nat
        /\ IsFiniteSet(Counter(b)) /\ Cardinality(Counter(b)) = Len(b) /\ Len(b) \in Nat
    BY CounterIs
  <1>2. Common(a, b) = Cardinality(C)
    BY DEF Common
  <1>3. ASSUME Common(a, b) = Len(a), Common(a, b) = Len(b), NEW t \in T
        PROVE  CountOf(a, t) = CountOf(b, t)
    <2>1. C \subseteq Counter(a) /\ C \subseteq Counter(b)
      OBVIOUS
    <2> HIDE DEF C
    <2>2. C = Counter(a) /\ C = Counter(b)
      <3>1. Cardinality(C) = Cardinality(Counter(a)) => C = Counter(a)
        BY <1>1, <2>1, FS_Subset
      <3>2. Cardinality(C) = Cardinality(Counter(b)) => C = Counter(b)
        BY <1>1, <2>1, FS_Subset
      <3> QED BY <1>1, <1>2, <1>3, <3>1, <3>2
    <2>3. CountOf(a, t) \in Nat /\ CountOf(b, t) \in Nat
      BY CounterIs
    <2>4. \A c : c \in 1..CountOf(a, t) <=> c \in 1..CountOf(b, t)
      <3> TAKE c
      <3>1. <<t, c>> \in Counter(a) <=> c \in 1..CountOf(a, t)
        BY CounterIs
      <3>2. <<t, c>> \in Counter(b) <=> c \in 1..CountOf(b, t)
        BY CounterIs
      <3> QED BY <2>2, <3>1, <3>2
    <2>5. CountOf(a, t) <= CountOf(b, t)
      <3>1. CASE CountOf(a, t) = 0
        BY <2>3, <3>1
      <3>2. CASE CountOf(a, t) # 0
        <4>1. CountOf(a, t) \in 1..CountOf(a, t)
          BY <2>3, <3>2
        <4>2. CountOf(a, t) \in 1..CountOf(b, t)
          BY <2>4, <4>1
        <4> QED BY <2>3, <4>2
      <3> QED BY <3>1, <3>2
    <2>6. CountOf(b, t) <= CountOf(a, t)
      <3>1. CASE CountOf(b, t) = 0
        BY <2>3, <3>1
      <3>2. CASE CountOf(b, t) # 0
        <4>1. CountOf(b, t) \in 1..CountOf(b, t)
          BY <2>3, <3>2
        <4>2. CountOf(b, t) \in 1..CountOf(a, t)
          BY <2>4, <4>1
        <4> QED BY <2>3, <4>2
      <3> QED BY <3>1, <3>2
    <2> QED BY <2>3, <2>5, <2>6
  <1>4. ASSUME \A t \in T : CountOf(a, t) = CountOf(b, t)
        PROVE  Common(a, b) = Len(a) /\ Common(a, b) = Len(b)
    <2>1. ToSet(a) \subseteq T /\ ToSet(b) \subseteq T
      <3>1. /\ a \in [1..Len(a) -> T] /\ DOMAIN a = 1..Len(a)
            /\ b \in [1..Len(b) -> T] /\ DOMAIN b = 1..Len(b)
        BY LenProperties
      <3> QED BY <3>1 DEF ToSet
    <2>2. \A t, c : <<t, c>> \in Counter(a) <=> <<t, c>> \in Counter(b)
      <3> TAKE t, c
      <3>1. <<t, c>> \in Counter(a) <=> c \in 1..CountOf(a, t)
        BY CounterIs
      <3>2. <<t, c>> \in Counter(b) <=> c \in 1..CountOf(b, t)
        BY CounterIs
      <3>3. <<t, c>> \in Counter(a) => t \in T
        BY <2>1 DEF Counter
      <3>4. <<t, c>> \in Counter(b) => t \in T
        BY <2>1 DEF Counter
      <3> QED BY <1>4, <3>1, <3>2, <3>3, <3>4
    <2>3. Counter(a) = Counter(b)
      <3>1. \A p \in Counter(a) : p \in Counter(b)
        <4> TAKE p \in Counter(a)
        <4>1. p = <<p[1], p[2]>>
          BY CounterIs
        <4> QED BY <2>2, <4>1
      <3>2. \A p \in Counter(b) : p \in Counter(a)
        <4> TAKE p \in Counter(b)
        <4>1. p = <<p[1], p[2]>>
          BY CounterIs
        <4> QED BY <2>2, <4>1
      <3> QED BY <3>1, <3>2
    <2>4. C = Counter(a)
      BY <2>3
    <2> HIDE DEF C
    <2> QED BY <1>1, <1>2, <2>3, <2>4
  <1> QED BY <1>3, <1>4

-----------------------------------------------------------------------------

\* An alignment read from the other text's side.
LEMMA Mirrored ==
  ASSUME NEW m \in Nat, NEW n \in Nat, NEW f \in Alignments(m, n), NEW a, NEW b
  PROVE  \E g \in Alignments(n, m) : PairsIn(g) = PairsIn(f) /\ EqualPairs(g, b, a) = EqualPairs(f, a, b)
  <1> DEFINE R == {f[i] : i \in DOMAIN f}
             g == [k \in R |-> CHOOSE i \in DOMAIN f : f[i] = k]
  <1>1. /\ \A i \in DOMAIN f : i \in 1..m /\ i \in Nat /\ f[i] \in 1..n /\ f[i] \in Nat
        /\ \A i, j \in DOMAIN f : f[i] = f[j] => i = j
        /\ \A i, j \in DOMAIN f : i < j => f[i] < f[j]
        /\ IsFiniteSet(DOMAIN f) /\ IsFiniteSet(Equals(f, a, b))
    BY AlignmentSizes, AlignmentIs
  <1>2. DOMAIN g = R /\ \A k \in R : g[k] \in DOMAIN f /\ f[g[k]] = k
    OBVIOUS
  <1>3. \A i \in DOMAIN f : f[i] \in R /\ g[f[i]] = i
    <2> TAKE i \in DOMAIN f
    <2>1. f[i] \in R
      OBVIOUS
    <2> HIDE DEF g, R
    <2> QED BY <1>1, <1>2, <2>1
  <1>4. g \in [R -> 1..m]
    <2>1. \A k \in R : (CHOOSE i \in DOMAIN f : f[i] = k) \in 1..m
      BY <1>1
    <2> QED BY <2>1
  <1>5. R \subseteq 1..n
    BY <1>1
  <1> HIDE DEF g, R
  <1>6. g \in Alignments(n, m)
    <2>1. ASSUME NEW k \in R, NEW l \in R, k < l PROVE g[k] < g[l]
      <3>1. g[k] \in DOMAIN f /\ g[l] \in DOMAIN f /\ f[g[k]] = k /\ f[g[l]] = l
        BY <1>2
      <3>2. ~(g[l] < g[k]) /\ g[l] # g[k]
        <4>1. k \in Nat /\ l \in Nat
          BY <1>1, <3>1
        <4>2. ~(l < k) /\ l # k
          BY <2>1, <4>1
        <4> QED BY <1>1, <3>1, <4>2
      <3> QED BY <1>1, <3>1, <3>2
    <2> QED BY <1>2, <1>4, <1>5, <2>1, AlignmentIs
  <1>7. PairsIn(g) = PairsIn(f)
    <2> DEFINE h == [i \in DOMAIN f |-> f[i]]
    <2>1. h \in [DOMAIN f -> R] /\ (\A i, j \in DOMAIN f : h[i] = h[j] => i = j)
          /\ \A k \in R : \E i \in DOMAIN f : h[i] = k
      BY <1>1, <1>2, <1>3
    <2> HIDE DEF h
    <2>2. h \in Bijection(DOMAIN f, R)
      BY <2>1 DEF Bijection, Injection, Surjection, IsInjective
    <2>3. ExistsBijection(DOMAIN f, R)
      BY <2>2 DEF ExistsBijection
    <2> QED BY <1>1, <1>2, <2>3, FS_Bijection DEF PairsIn
  <1>8. EqualPairs(g, b, a) = EqualPairs(f, a, b)
    <2> DEFINE E == Equals(f, a, b)
               G == Equals(g, b, a)
               h == [i \in E |-> f[i]]
    <2>1. \A i \in E : i \in DOMAIN f /\ f[i] \in G
      BY <1>2, <1>3 DEF Equals
    <2>2. \A k \in G : g[k] \in E /\ f[g[k]] = k
      BY <1>2 DEF Equals
    <2> HIDE DEF E, G
    <2>3. h \in [E -> G] /\ (\A i, j \in E : h[i] = h[j] => i = j) /\ \A k \in G : \E i \in E : h[i] = k
      BY <1>1, <2>1, <2>2
    <2> HIDE DEF h
    <2>4. h \in Bijection(E, G)
      BY <2>3 DEF Bijection, Injection, Surjection, IsInjective
    <2>5. ExistsBijection(E, G)
      BY <2>4 DEF ExistsBijection
    <2>6. IsFiniteSet(E)
      BY <1>1 DEF E
    <2>7. Cardinality(G) = Cardinality(E)
      BY <2>5, <2>6, FS_Bijection
    <2> QED BY <2>7 DEF EqualPairs, E, G
  <1> QED BY <1>6, <1>7, <1>8

\* So neither dynamic program tells the two texts apart.
LEMMA NoSides ==
  ASSUME NEW m \in Nat, NEW n \in Nat, NEW a, NEW b, NEW v
  PROVE  /\ MostEqual(a, b, v, m, n) => MostEqual(b, a, v, n, m)
         /\ LeastEdits(a, b, v, m, n) => LeastEdits(b, a, v, n, m)
  <1>1. ASSUME MostEqual(a, b, v, m, n) PROVE MostEqual(b, a, v, n, m)
    <2>1. PICK f \in Alignments(m, n) : EqualPairs(f, a, b) = v
      BY <1>1 DEF MostEqual
    <2>2. \E g \in Alignments(n, m) : EqualPairs(g, b, a) = v
      BY <2>1, Mirrored
    <2>3. ASSUME NEW g \in Alignments(n, m) PROVE EqualPairs(g, b, a) <= v
      <3>1. PICK h \in Alignments(m, n) : EqualPairs(h, a, b) = EqualPairs(g, b, a)
        BY Mirrored
      <3>2. EqualPairs(h, a, b) <= v
        BY <1>1 DEF MostEqual
      <3> QED BY <3>1, <3>2
    <2> QED BY <1>1, <2>2, <2>3 DEF MostEqual
  <1>2. ASSUME LeastEdits(a, b, v, m, n) PROVE LeastEdits(b, a, v, n, m)
    <2>1. PICK f \in Alignments(m, n) : PairsIn(f) + EqualPairs(f, a, b) + v = m + n
      BY <1>2 DEF LeastEdits
    <2>2. PICK g \in Alignments(n, m) : PairsIn(g) = PairsIn(f) /\ EqualPairs(g, b, a) = EqualPairs(f, a, b)
      BY Mirrored
    <2>3. m + n = n + m
      OBVIOUS
    <2>4. PairsIn(g) + EqualPairs(g, b, a) + v = n + m
      BY <2>1, <2>2, <2>3
    <2>5. ASSUME NEW k \in Alignments(n, m) PROVE PairsIn(k) + EqualPairs(k, b, a) + v <= n + m
      <3>1. PICK h \in Alignments(m, n) : PairsIn(h) = PairsIn(k) /\ EqualPairs(h, a, b) = EqualPairs(k, b, a)
        BY Mirrored
      <3>2. PairsIn(h) + EqualPairs(h, a, b) + v <= m + n
        BY <1>2 DEF LeastEdits
      <3> QED BY <2>3, <3>1, <3>2
    <2> QED BY <1>2, <2>4, <2>5 DEF LeastEdits
  <1> QED BY <1>1, <1>2

\* Place by place, as far as the shorter text goes.
LEMMA SideBySide ==
  ASSUME NEW T, NEW a \in Seq(T), NEW b \in Seq(T)
  PROVE  \E f \in Alignments(Len(a), Len(b)) :
           /\ PairsIn(f) = Len(a) \/ PairsIn(f) = Len(b)
           /\ a = b => PairsIn(f) = Len(a) /\ EqualPairs(f, a, b) = Len(a)
  <1> DEFINE m == Len(a)
             n == Len(b)
             w == IF m <= n THEN m ELSE n
             f == [i \in 1..w |-> i]
  <1>1. m \in Nat /\ n \in Nat
    BY LenProperties
  <1> HIDE DEF m, n
  <1>2. w \in Nat /\ w <= m /\ w <= n /\ (w = m \/ w = n)
    BY <1>1
  <1> HIDE DEF w
  <1>3. DOMAIN f = 1..w /\ \A i \in 1..w : f[i] = i
    OBVIOUS
  <1>4. \A i \in 1..w : i \in 1..n /\ i \in 1..m /\ i \in Nat
    BY <1>1, <1>2
  <1>5. f \in [1..w -> 1..n]
    BY <1>4
  <1> HIDE DEF f
  <1>6. f \in Alignments(m, n)
    <2>1. 1..w \subseteq 1..m
      BY <1>4
    <2> QED BY <1>1, <1>3, <1>5, <2>1, AlignmentIs
  <1>7. Cardinality(1..w) = w
    <2>1. 1 \in Int /\ w \in Int /\ (IF 1 > w THEN 0 ELSE w - 1 + 1) = w
      BY <1>2
    <2> QED BY <2>1, FS_Interval
  <1>8. PairsIn(f) = w
    BY <1>3, <1>7 DEF PairsIn
  <1>9. ASSUME a = b PROVE EqualPairs(f, a, b) = w /\ w = m
    <2>1. Equals(f, a, b) = 1..w
      BY <1>3, <1>9 DEF Equals
    <2>2. m = n
      BY <1>9 DEF m, n
    <2> QED BY <1>2, <1>7, <2>1, <2>2 DEF EqualPairs
  <1> QED BY <1>2, <1>6, <1>8, <1>9 DEF m, n

\* Texts all of which match are the same: every place is opposite itself.
LEMMA AllMatch ==
  ASSUME NEW T, NEW a \in Seq(T), NEW b \in Seq(T), NEW f \in Alignments(Len(a), Len(b)),
         EqualPairs(f, a, b) = Len(a), Len(b) = Len(a)
  PROVE  a = b
  <1> DEFINE m == Len(a)
  <1>1. m \in Nat /\ DOMAIN a = 1..m /\ DOMAIN b = 1..m /\ IsFiniteSet(1..m) /\ Cardinality(1..m) = m
    <2>1. m \in Nat /\ DOMAIN a = 1..m /\ DOMAIN b = 1..m
      BY LenProperties
    <2>2. 1 \in Int /\ m \in Int /\ (IF 1 > m THEN 0 ELSE m - 1 + 1) = m
      BY <2>1
    <2> QED BY <2>1, <2>2, FS_Interval
  <1>2. f \in Alignments(m, m)
    OBVIOUS
  <1>3. Cardinality(Equals(f, a, b)) = m
    BY DEF EqualPairs
  <1> HIDE DEF m
  <1>4. /\ \A i \in DOMAIN f : i \in 1..m /\ i \in Nat /\ f[i] \in 1..m /\ f[i] \in Nat
        /\ \A i, j \in DOMAIN f : i < j => f[i] < f[j]
    BY <1>1, <1>2, AlignmentSizes, AlignmentIs
  <1>5. Equals(f, a, b) = 1..m /\ DOMAIN f = 1..m
    <2>1. Equals(f, a, b) \subseteq DOMAIN f /\ DOMAIN f \subseteq 1..m
      BY <1>4 DEF Equals
    <2>2. Equals(f, a, b) \subseteq 1..m
      BY <2>1
    <2>3. Equals(f, a, b) = 1..m
      BY <1>1, <1>3, <2>2, FS_Subset
    <2> QED BY <2>1, <2>3
  <1>6. ASSUME NEW low \in 1..m, f[low] < low PROVE FALSE
    <2> DEFINE S == {i \in 1..m : f[i] < i}
    <2>1. S \in SUBSET Nat /\ S # {}
      BY <1>6
    <2>2. PICK i \in S : \A j \in S : i <= j
      <3> HIDE DEF S
      <3> QED BY <2>1, LeastNumber
    <2>3. i \in 1..m /\ i \in Nat /\ f[i] < i /\ f[i] \in Nat /\ f[i] >= 1
      BY <1>4, <1>5
    <2>4. i - 1 \in 1..m /\ i - 1 < i /\ ~(i <= i - 1)
      BY <1>1, <2>3
    <2>5. i - 1 \notin S
      BY <2>2, <2>4
    <2>6. ~(f[i - 1] < i - 1) /\ f[i - 1] \in Nat /\ f[i - 1] < f[i]
      BY <1>4, <1>5, <2>3, <2>4, <2>5
    <2> QED BY <2>3, <2>6
  <1>7. ASSUME NEW high \in 1..m, f[high] > high PROVE FALSE
    <2> DEFINE S == {k \in 0..m - 1 : f[m - k] > m - k}
    <2>1. m - high \in S
      <3>1. m - high \in 0..m - 1 /\ m - (m - high) = high
        BY <1>1
      <3> QED BY <1>7, <3>1
    <2>2. S \in SUBSET Nat /\ S # {}
      <3>1. S \subseteq 0..m - 1
        OBVIOUS
      <3>2. \A k \in 0..m - 1 : k \in Nat
        BY <1>1
      <3> HIDE DEF S
      <3> QED BY <2>1, <3>1, <3>2
    <2>3. PICK k \in S : \A l \in S : k <= l
      <3> HIDE DEF S
      <3> QED BY <2>2, LeastNumber
    <2> DEFINE i == m - k
    <2>4. k \in 0..m - 1 /\ i \in 1..m /\ i \in Nat /\ f[i] > i
      BY <1>1
    <2>5. f[i] \in 1..m
      BY <1>4, <1>5, <2>4
    <2>6. i + 1 \in 1..m /\ k - 1 \in 0..m - 1 /\ m - (k - 1) = i + 1 /\ ~(k <= k - 1)
      BY <1>1, <2>4, <2>5
    <2>7. k - 1 \notin S
      BY <2>3, <2>6
    <2>8. ~(f[i + 1] > i + 1)
      BY <2>6, <2>7
    <2> HIDE DEF i, S
    <2>9. f[i] < f[i + 1] /\ f[i + 1] \in Nat
      BY <1>4, <1>5, <2>4, <2>6
    <2> QED BY <2>4, <2>5, <2>8, <2>9
  <1>8. ASSUME NEW i \in 1..m PROVE a[i] = b[i]
    <2>1. ~(f[i] < i) /\ ~(f[i] > i) /\ f[i] \in Nat /\ i \in Nat
      BY <1>4, <1>5, <1>6, <1>7
    <2>2. f[i] = i
      BY <2>1
    <2>3. i \in Equals(f, a, b)
      BY <1>5
    <2> QED BY <2>2, <2>3 DEF Equals
  <1>9. \A i \in 1..Len(a) : a[i] = b[i]
    BY <1>8 DEF m
  <1> QED BY <1>9, SeqEqual

-----------------------------------------------------------------------------

\* A ratio of a part to a whole lies in the unit interval, is as good as itself, and full
\* when the part is the whole.
LEMMA RatioIsScore ==
  ASSUME NEW n \in Nat, NEW d \in Nat \ {0}, n <= d, NEW f, f = <<n, d>>
  PROVE  /\ f[2] > 0 /\ f[1] \in 0..f[2] /\ SameScore(f, f)
         /\ SameScore(f, FullScore) <=> n = d
  <1>1. f[1] = n /\ f[2] = d /\ FullScore[1] = 1 /\ FullScore[2] = 1
    BY DEF FullScore
  <1>2. d \in Nat /\ d > 0 /\ n \in 0..d /\ n * 1 = n /\ 1 * d = d
    OBVIOUS
  <1>3. n * d \in Nat
    <2>1. \A x, y \in Nat : x * y \in Nat
      OBVIOUS
    <2> QED BY <1>2, <2>1
  <1>4. SameScore(f, f)
    <2>1. n * d <= n * d
      BY <1>3
    <2> QED BY <1>1, <2>1 DEF SameScore, Leq
  <1>5. SameScore(f, FullScore) <=> n = d
    <2>1. SameScore(f, FullScore) <=> n * 1 <= 1 * d /\ 1 * d <= n * 1
      BY <1>1 DEF SameScore, Leq
    <2> QED BY <1>2, <2>1
  <1> QED BY <1>1, <1>2, <1>4, <1>5

\* The empty text is the one without elements.
LEMMA EmptyHasNone ==
  ASSUME NEW T, NEW s \in Seq(T)
  PROVE  Len(s) \in Nat /\ (s = <<>> <=> Len(s) = 0)
  BY LenProperties, EmptySeq

\* token_f1 is a ratio from 0 to 1, the same for the two texts exchanged, and all of 1
\* just when every token occurs as often in one as in the other.
LEMMA F1IsScore ==
  ASSUME NEW T, NEW a \in Seq(T), NEW b \in Seq(T)
  PROVE  \E n \in Nat, d \in Nat \ {0} :
           /\ TokenF1(a, b) = <<n, d>> /\ n <= d /\ TokenF1(b, a) = <<n, d>>
           /\ n = d <=> \A t \in T : CountOf(a, t) = CountOf(b, t)
  <1> DEFINE C == Common(a, b)
             same == \A t \in T : CountOf(a, t) = CountOf(b, t)
  <1>1. /\ Len(a) \in Nat /\ (a = <<>> <=> Len(a) = 0) /\ Len(b) \in Nat /\ (b = <<>> <=> Len(b) = 0)
    BY EmptyHasNone
  <1>2. C \in Nat /\ C <= Len(a) /\ C <= Len(b) /\ C = Common(b, a)
    BY CommonBounds
  <1>3. same <=> C = Len(a) /\ C = Len(b)
    BY AllInCommon
  <1>4. /\ 0 \in Nat /\ 1 \in Nat \ {0} /\ 0 <= 1 /\ 1 <= 1 /\ 0 # 1
        /\ 2 * C \in Nat /\ Len(a) + Len(b) \in Nat /\ 2 * C <= Len(a) + Len(b)
        /\ Len(b) + Len(a) = Len(a) + Len(b)
        /\ (2 * C = Len(a) + Len(b) <=> C = Len(a) /\ C = Len(b))
    <2> HIDE DEF C
    <2> QED BY <1>1, <1>2
  <1> HIDE DEF C, same
  <1>5. CASE a = <<>> /\ b = <<>>
    <2>1. TokenF1(a, b) = <<1, 1>> /\ TokenF1(b, a) = <<1, 1>>
      BY <1>5 DEF TokenF1
    <2>2. same
      BY <1>1, <1>2, <1>3, <1>5
    <2> QED BY <1>4, <2>1, <2>2 DEF same
  <1>6. CASE (a = <<>> \/ b = <<>>) /\ ~(a = <<>> /\ b = <<>>)
    <2>1. TokenF1(a, b) = <<0, 1>> /\ TokenF1(b, a) = <<0, 1>>
      BY <1>6 DEF TokenF1
    <2>2. ~same
      BY <1>1, <1>2, <1>3, <1>6
    <2> QED BY <1>4, <2>1, <2>2 DEF same
  <1>7. CASE a # <<>> /\ b # <<>> /\ C = 0
    <2>1. TokenF1(a, b) = <<0, 1>> /\ TokenF1(b, a) = <<0, 1>>
      BY <1>2, <1>7 DEF TokenF1, HarmonicMean, C
    <2>2. ~same
      BY <1>1, <1>3, <1>7
    <2> QED BY <1>4, <2>1, <2>2 DEF same
  <1>8. CASE a # <<>> /\ b # <<>> /\ C # 0
    <2>1. TokenF1(a, b) = <<2 * C, Len(a) + Len(b)>> /\ TokenF1(b, a) = <<2 * C, Len(b) + Len(a)>>
      BY <1>2, <1>8 DEF TokenF1, HarmonicMean, C
    <2>2. Len(a) + Len(b) \in Nat \ {0}
      BY <1>1, <1>8
    <2> QED BY <1>3, <1>4, <2>1, <2>2 DEF same
  <1> QED BY <1>5, <1>6, <1>7, <1>8

\* _rouge_l is a ratio from 0 to 1, the same for the two texts exchanged, all of 1 just
\* when the texts are equal and not empty, and at most token_f1.
LEMMA RougeIsScore ==
  ASSUME NEW T, NEW a \in Seq(T), NEW b \in Seq(T), NEW v,
         a = <<>> \/ b = <<>> \/ MostEqual(a, b, v, Len(a), Len(b))
  PROVE  /\ \E n \in Nat, d \in Nat \ {0} :
              /\ RougeL(a, b, v) = <<n, d>> /\ n <= d /\ RougeL(b, a, Longest(b, a)) = <<n, d>>
              /\ n = d <=> a = b /\ a # <<>>
         /\ Leq(RougeL(a, b, v), TokenF1(a, b))
  <1>1. /\ Len(a) \in Nat /\ (a = <<>> <=> Len(a) = 0) /\ Len(b) \in Nat /\ (b = <<>> <=> Len(b) = 0)
    BY EmptyHasNone
  <1>2. PICK k \in Nat, e \in Nat \ {0} : TokenF1(a, b) = <<k, e>> /\ k <= e
    BY F1IsScore
  <1>3. 0 \in Nat /\ 1 \in Nat \ {0} /\ 0 <= 1 /\ 0 # 1 /\ 0 * e <= k * 1
    BY <1>2
  <1>4. ASSUME RougeL(a, b, v) = <<0, 1>> PROVE Leq(RougeL(a, b, v), TokenF1(a, b))
    BY <1>2, <1>3, <1>4 DEF Leq
  <1>5. CASE a = <<>> \/ b = <<>>
    <2>1. RougeL(a, b, v) = <<0, 1>> /\ RougeL(b, a, Longest(b, a)) = <<0, 1>>
      BY <1>5 DEF RougeL
    <2> QED BY <1>3, <1>4, <1>5, <2>1
  <1>6. CASE a # <<>> /\ b # <<>> /\ MostEqual(a, b, v, Len(a), Len(b))
    <2>1. v \in Nat
      BY <1>6 DEF MostEqual
    <2>2. v = Longest(b, a)
      <3>1. MostEqual(b, a, v, Len(b), Len(a))
        BY <1>1, <1>6, NoSides
      <3> QED BY <3>1, TablesAnswer
    <2>3. PICK f \in Alignments(Len(a), Len(b)) : EqualPairs(f, a, b) = v
      BY <1>6 DEF MostEqual
    <2>4. v <= Common(a, b) /\ v <= Len(a) /\ v <= Len(b)
      <3>1. v <= Common(a, b)
        BY <2>3, EqualsAreCommon
      <3>2. Common(a, b) \in Nat /\ Common(a, b) <= Len(a) /\ Common(a, b) <= Len(b)
        BY CommonBounds
      <3> QED BY <1>1, <2>1, <3>1, <3>2
    <2>5. (v = Len(a) /\ v = Len(b)) <=> a = b
      <3>1. ASSUME v = Len(a), v = Len(b) PROVE a = b
        BY <2>3, <3>1, AllMatch
      <3>2. ASSUME a = b PROVE v = Len(a) /\ v = Len(b)
        <4>1. PICK g \in Alignments(Len(a), Len(b)) : EqualPairs(g, a, b) = Len(a)
          BY <3>2, SideBySide
        <4>2. EqualPairs(g, a, b) <= v
          BY <1>6 DEF MostEqual
        <4>3. Len(a) <= v
          BY <4>1, <4>2
        <4> QED BY <1>1, <2>1, <2>4, <3>2, <4>3
      <3> QED BY <3>1, <3>2
    <2>6. CASE v = 0
      <3>1. RougeL(a, b, v) = <<0, 1>> /\ RougeL(b, a, Longest(b, a)) = <<0, 1>>
        BY <1>6, <2>2, <2>6 DEF RougeL, HarmonicMean
      <3>2. a # b
        BY <1>1, <1>6, <2>5, <2>6
      <3> QED BY <1>3, <1>4, <3>1, <3>2
    <2>7. CASE v # 0
      <3>1. RougeL(a, b, v) = <<2 * v, Len(a) + Len(b)>> /\ RougeL(b, a, Longest(b, a)) = <<2 * v, Len(b) + Len(a)>>
        BY <1>6, <2>2, <2>7 DEF RougeL, HarmonicMean
      <3>2. /\ 2 * v \in Nat /\ Len(a) + Len(b) \in Nat \ {0} /\ 2 * v <= Len(a) + Len(b)
            /\ Len(b) + Len(a) = Len(a) + Len(b)
            /\ (2 * v = Len(a) + Len(b) <=> v = Len(a) /\ v = Len(b))
        BY <1>1, <1>6, <2>1, <2>4
      <3>3. Common(a, b) \in Nat /\ Common(a, b) # 0 /\ 2 * Common(a, b) \in Nat /\ 2 * v <= 2 * Common(a, b)
        <4>1. Common(a, b) \in Nat
          BY CommonBounds
        <4> QED BY <2>1, <2>4, <2>7, <4>1
      <3>4. TokenF1(a, b) = <<2 * Common(a, b), Len(a) + Len(b)>>
        BY <1>6, <3>3 DEF TokenF1, HarmonicMean
      <3>5. Leq(RougeL(a, b, v), TokenF1(a, b))
        <4> DEFINE x == 2 * v
                   y == 2 * Common(a, b)
                   z == Len(a) + Len(b)
        <4>1. x \in Nat /\ y \in Nat /\ z \in Nat /\ x <= y
          BY <3>2, <3>3
        <4> HIDE DEF x, y, z
        <4>2. z * x <= z * y
          BY <4>1, ProductGrows
        <4>3. x * z <= y * z
          <5>1. \A p, q \in Nat : p * q = q * p
            OBVIOUS
          <5> QED BY <4>1, <4>2, <5>1
        <4>4. <<x, z>>[1] = x /\ <<x, z>>[2] = z /\ <<y, z>>[1] = y /\ <<y, z>>[2] = z
          OBVIOUS
        <4>5. Leq(<<x, z>>, <<y, z>>)
          BY <4>3, <4>4 DEF Leq
        <4> QED BY <3>1, <3>4, <4>5 DEF x, y, z
      <3> QED BY <1>6, <2>5, <3>1, <3>2, <3>5
    <2> QED BY <2>6, <2>7
  <1> QED BY <1>5, <1>6

\* _edit_similarity is a ratio from 0 to 1, the same for the two texts exchanged, and all
\* of 1 just when the texts are equal.
LEMMA EditIsScore ==
  ASSUME NEW T, NEW a \in Seq(T), NEW b \in Seq(T), NEW v,
         a = <<>> \/ b = <<>> \/ LeastEdits(a, b, v, Len(a), Len(b))
  PROVE  \E n \in Nat, d \in Nat \ {0} :
           /\ EditSimilarity(a, b, v) = <<n, d>> /\ n <= d
           /\ EditSimilarity(b, a, FewestEdits(b, a)) = <<n, d>>
           /\ n = d <=> a = b
  <1> DEFINE m == Len(a)
             n == Len(b)
  <1>1. /\ m \in Nat /\ (a = <<>> <=> m = 0) /\ n \in Nat /\ (b = <<>> <=> n = 0)
    BY EmptyHasNone
  <1>2. 0 \in Nat /\ 1 \in Nat \ {0} /\ 0 <= 1 /\ 0 # 1 /\ 1 <= 1 /\ 1 \in Nat
    OBVIOUS
  <1>3. CASE a = <<>> /\ b = <<>>
    <2>1. EditSimilarity(a, b, v) = <<1, 1>> /\ EditSimilarity(b, a, FewestEdits(b, a)) = <<1, 1>>
      BY <1>3 DEF EditSimilarity
    <2> QED BY <1>2, <1>3, <2>1
  <1>4. CASE (a = <<>> \/ b = <<>>) /\ ~(a = <<>> /\ b = <<>>)
    <2>1. EditSimilarity(a, b, v) = <<0, 1>> /\ EditSimilarity(b, a, FewestEdits(b, a)) = <<0, 1>>
      BY <1>4 DEF EditSimilarity
    <2>2. a # b
      BY <1>4
    <2> QED BY <1>2, <2>1, <2>2
  <1>5. CASE a # <<>> /\ b # <<>> /\ LeastEdits(a, b, v, m, n)
    <2>1. v \in Nat /\ \A f \in Alignments(m, n) : PairsIn(f) + EqualPairs(f, a, b) + v <= m + n
      BY <1>5 DEF LeastEdits
    <2>2. v = FewestEdits(b, a)
      <3>1. LeastEdits(b, a, v, n, m)
        BY <1>1, <1>5, NoSides
      <3> QED BY <3>1, TablesAnswer
    <2> DEFINE longer == IF m >= n THEN m ELSE n
    <2>3. Max({m, n}) = longer /\ Max({n, m}) = longer
      <3>1. {n, m} = {m, n}
        OBVIOUS
      <3>2. Max({m, n}) = longer
        BY <1>1, OfTwo
      <3> QED BY <3>1, <3>2
    <2>4. EditSimilarity(a, b, v) = <<longer - v, longer>>
          /\ EditSimilarity(b, a, FewestEdits(b, a)) = <<longer - v, longer>>
      <3> HIDE DEF longer
      <3> QED BY <1>5, <2>2, <2>3 DEF EditSimilarity
    <2>5. PICK f \in Alignments(m, n) :
            /\ PairsIn(f) = m \/ PairsIn(f) = n
            /\ a = b => PairsIn(f) = m /\ EqualPairs(f, a, b) = m
      BY SideBySide
    <2>6. \A g \in Alignments(m, n) : /\ PairsIn(g) \in Nat /\ EqualPairs(g, a, b) \in Nat /\ PairsIn(g) <= m
                                      /\ PairsIn(g) <= n /\ EqualPairs(g, a, b) <= PairsIn(g)
      BY EditsAre
    <2> HIDE DEF m, n
    <2>7. v <= longer /\ longer \in Nat \ {0} /\ longer - v \in Nat /\ longer - v <= longer
      <3>1. /\ PairsIn(f) \in Nat /\ EqualPairs(f, a, b) \in Nat /\ PairsIn(f) <= m /\ PairsIn(f) <= n
            /\ PairsIn(f) + EqualPairs(f, a, b) + v <= m + n
        BY <2>1, <2>6
      <3> DEFINE p == PairsIn(f)
                 q == EqualPairs(f, a, b)
      <3>2. p \in Nat /\ q \in Nat /\ p + q + v <= m + n /\ (p = m \/ p = n) /\ p <= m /\ p <= n
        BY <2>5, <3>1
      <3> HIDE DEF p, q
      <3>3. v <= longer
        BY <1>1, <2>1, <3>2
      <3>4. longer \in Nat \ {0}
        BY <1>1, <1>5
      <3> HIDE DEF longer
      <3> QED BY <2>1, <3>3, <3>4
    <2>8. longer - v = longer <=> a = b
      <3>1. ASSUME v = 0 PROVE a = b
        <4>1. PICK g \in Alignments(m, n) : PairsIn(g) + EqualPairs(g, a, b) + v = m + n
          BY <1>5 DEF LeastEdits
        <4> DEFINE p == PairsIn(g)
                   q == EqualPairs(g, a, b)
        <4>2. p \in Nat /\ q \in Nat /\ p + q + v = m + n /\ p <= m /\ p <= n /\ q <= p
          BY <2>6, <4>1
        <4> HIDE DEF p, q
        <4>3. q = m /\ n = m
          BY <1>1, <3>1, <4>2
        <4> QED BY <4>3, AllMatch DEF m, n, q
      <3>2. ASSUME a = b PROVE v = 0
        <4>1. m = n
          BY <3>2 DEF m, n
        <4>2. PairsIn(f) = m /\ EqualPairs(f, a, b) = m /\ PairsIn(f) + EqualPairs(f, a, b) + v <= m + n
          BY <2>1, <2>5, <3>2
        <4>3. m + m + v <= m + m
          BY <4>1, <4>2
        <4> QED BY <1>1, <2>1, <4>3
      <3>3. longer - v = longer <=> v = 0
        <4> HIDE DEF longer
        <4> QED BY <2>1, <2>7
      <3> QED BY <3>1, <3>2, <3>3
    <2> HIDE DEF longer
    <2> QED BY <2>4, <2>7, <2>8
  <1> QED BY <1>3, <1>4, <1>5

\* ScoresConsistent follows from the tables being right.
LEMMA ScoresAgree == TextInv => ScoresConsistent
  <1> SUFFICES ASSUME TextInv PROVE ScoresConsistent
    OBVIOUS
  <1> DEFINE a == prediction
             b == reference
             f1 == TokenF1(a, b)
             rouge == RougeL(a, b, LcsLength)
             edit == EditSimilarity(a, b, Levenshtein)
  <1>1. a \in Seq(Tokens) /\ b \in Seq(Tokens)
    BY DEF TextInv
  <1>2. SUFFICES ASSUME Scanned \/ a = <<>> \/ b = <<>>
                 PROVE  /\ \A f \in {f1, rouge, edit} : f[2] > 0 /\ f[1] \in 0..f[2]
                        /\ SameScore(f1, TokenF1(b, a)) /\ SameScore(rouge, RougeL(b, a, Longest(b, a)))
                        /\ SameScore(edit, EditSimilarity(b, a, FewestEdits(b, a)))
                        /\ Leq(rouge, f1)
                        /\ SameScore(f1, FullScore) <=> \A t \in Tokens : CountOf(a, t) = CountOf(b, t)
                        /\ SameScore(rouge, FullScore) <=> a = b /\ a # <<>>
                        /\ SameScore(edit, FullScore) <=> a = b
    BY DEF ScoresConsistent
  <1>3. /\ a = <<>> \/ b = <<>> \/ MostEqual(a, b, LcsLength, Len(a), Len(b))
        /\ a = <<>> \/ b = <<>> \/ LeastEdits(a, b, Levenshtein, Len(a), Len(b))
    BY <1>2, ScansAreTrue
  <1>4. PICK n1 \in Nat, d1 \in Nat \ {0} :
          /\ f1 = <<n1, d1>> /\ n1 <= d1 /\ TokenF1(b, a) = <<n1, d1>>
          /\ n1 = d1 <=> \A t \in Tokens : CountOf(a, t) = CountOf(b, t)
    BY <1>1, F1IsScore
  <1>5. /\ \E n \in Nat, d \in Nat \ {0} :
             /\ rouge = <<n, d>> /\ n <= d /\ RougeL(b, a, Longest(b, a)) = <<n, d>>
             /\ n = d <=> a = b /\ a # <<>>
        /\ Leq(rouge, f1)
    BY <1>1, <1>3, RougeIsScore
  <1>6. PICK n2 \in Nat, d2 \in Nat \ {0} :
          /\ rouge = <<n2, d2>> /\ n2 <= d2 /\ RougeL(b, a, Longest(b, a)) = <<n2, d2>>
          /\ n2 = d2 <=> a = b /\ a # <<>>
    BY <1>5
  <1>7. PICK n3 \in Nat, d3 \in Nat \ {0} :
          /\ edit = <<n3, d3>> /\ n3 <= d3
          /\ EditSimilarity(b, a, FewestEdits(b, a)) = <<n3, d3>>
          /\ n3 = d3 <=> a = b
    BY <1>1, <1>3, EditIsScore
  <1>8. /\ f1[2] > 0 /\ f1[1] \in 0..f1[2] /\ SameScore(f1, f1)
        /\ SameScore(f1, FullScore) <=> n1 = d1
    BY <1>4, RatioIsScore
  <1>9. /\ rouge[2] > 0 /\ rouge[1] \in 0..rouge[2] /\ SameScore(rouge, rouge)
        /\ SameScore(rouge, FullScore) <=> n2 = d2
    BY <1>6, RatioIsScore
  <1>10. /\ edit[2] > 0 /\ edit[1] \in 0..edit[2] /\ SameScore(edit, edit)
         /\ SameScore(edit, FullScore) <=> n3 = d3
    BY <1>7, RatioIsScore
  <1> HIDE DEF f1, rouge, edit
  <1>11. \A f \in {f1, rouge, edit} : f[2] > 0 /\ f[1] \in 0..f[2]
    BY <1>8, <1>9, <1>10
  <1>12. SameScore(f1, TokenF1(b, a)) /\ SameScore(rouge, RougeL(b, a, Longest(b, a)))
         /\ SameScore(edit, EditSimilarity(b, a, FewestEdits(b, a)))
    BY <1>4, <1>6, <1>7, <1>8, <1>9, <1>10
  <1> QED BY <1>4, <1>5, <1>6, <1>7, <1>8, <1>9, <1>10, <1>11, <1>12

-----------------------------------------------------------------------------

\* What is picked from a text: every place that is chosen is found again, in the same
\* order, and places with no chosen one between them become neighbours.
LEMMA PickedIs ==
  ASSUME NEW T, NEW text \in Seq(T), NEW S \in SUBSET DOMAIN text
  PROVE  /\ Picked(text, S) \in Seq(T) /\ S \in SUBSET Nat /\ IsFiniteSet(S)
         /\ \A p \in S : /\ Place(p, S) \in Nat /\ Place(p, S) + 1 \in DOMAIN Picked(text, S)
                         /\ Picked(text, S)[Place(p, S) + 1] = text[p]
         /\ \A k \in DOMAIN Picked(text, S) : \E p \in S : k = Place(p, S) + 1
         /\ \A p, q \in S : p < q => Place(p, S) < Place(q, S)
         /\ \A p, q \in S : p + 1 = q => Place(q, S) = Place(p, S) + 1
  <1> DEFINE N == Cardinality(S)
             P == Picked(text, S)
  <1>1. Len(text) \in Nat /\ DOMAIN text = 1..Len(text)
    BY LenProperties
  <1>2. S \in SUBSET Nat /\ IsFiniteSet(S)
    <2>1. S \in SUBSET (1..Len(text)) /\ IsFiniteSet(1..Len(text))
      BY <1>1, FS_Interval
    <2> QED BY <2>1, FS_Subset
  <1>3. /\ N \in Nat
        /\ \A p \in S : Place(p, S) \in 0..N - 1
        /\ \A k \in 0..N - 1 : \E p \in S : Place(p, S) = k
    BY <1>2, PlaceOnto
  <1>4. DOMAIN P = 1..N
    BY DEF Picked
  <1>5. ASSUME NEW p \in S
        PROVE  Place(p, S) \in Nat /\ Place(p, S) + 1 \in DOMAIN P /\ P[Place(p, S) + 1] = text[p]
    <2> DEFINE k == Place(p, S) + 1
    <2>1. Place(p, S) \in Nat /\ k \in 1..N /\ k - 1 = Place(p, S)
      <3> HIDE DEF N
      <3> QED BY <1>3
    <2> HIDE DEF k, N
    <2>2. P[k] = text[CHOOSE q \in S : Place(q, S) = k - 1]
      BY <2>1 DEF Picked, N
    <2>3. \A q \in S : Place(q, S) = k - 1 => q = p
      BY <1>2, <2>1, PlaceTells
    <2>4. (CHOOSE q \in S : Place(q, S) = k - 1) = p
      BY <2>1, <2>3
    <2> QED BY <1>4, <2>1, <2>2, <2>4 DEF k
  <1>6. ASSUME NEW k \in DOMAIN P PROVE \E p \in S : k = Place(p, S) + 1
    <2>1. k - 1 \in 0..N - 1 /\ (k - 1) + 1 = k
      <3> HIDE DEF N, P
      <3> QED BY <1>3, <1>4
    <2>2. PICK p \in S : Place(p, S) = k - 1
      <3> HIDE DEF N
      <3> QED BY <1>3, <2>1
    <2> QED BY <2>1, <2>2
  <1>7. P \in Seq(T)
    <2>1. ASSUME NEW k \in 1..N PROVE P[k] \in T
      <3>1. PICK p \in S : k = Place(p, S) + 1
        BY <1>4, <1>6
      <3>2. P[k] = text[p]
        BY <1>5, <3>1
      <3>3. text[p] \in T
        BY <1>1, ElementOfSeq
      <3> QED BY <3>2, <3>3
    <2>2. P = [k \in 1..N |-> P[k]]
      BY DEF Picked
    <2>3. P \in [1..N -> T]
      <3> HIDE DEF P, N
      <3> QED BY <2>1, <2>2
    <2> HIDE DEF P, N
    <2> QED BY <1>3, <2>3, SeqDef
  <1>8. \A p, q \in S : p < q => Place(p, S) < Place(q, S)
    BY <1>2, PlacesGrow
  <1>9. ASSUME NEW p \in S, NEW q \in S, p + 1 = q PROVE Place(q, S) = Place(p, S) + 1
    <2>1. p \in Nat /\ q \in Nat /\ p < q /\ \A r \in S : r \in Nat
      BY <1>2, <1>9
    <2>2. Place(p, S) \in Nat /\ Place(q, S) \in Nat /\ Place(p, S) < Place(q, S)
      BY <1>5, <1>8, <2>1
    <2>3. ASSUME Place(p, S) + 1 < Place(q, S) PROVE FALSE
      <3>1. Place(p, S) + 1 \in 0..N - 1
        <4> HIDE DEF N
        <4> QED BY <1>3, <2>2, <2>3
      <3>2. PICK r \in S : Place(r, S) = Place(p, S) + 1
        <4> HIDE DEF N
        <4> QED BY <1>3, <3>1
      <3>3. ~(r < p) /\ r # p /\ ~(q < r) /\ r # q
        <4>1. r < p => Place(r, S) < Place(p, S)
          BY <1>8
        <4>2. q < r => Place(q, S) < Place(r, S)
          BY <1>8
        <4>3. Place(r, S) # Place(p, S) /\ Place(r, S) # Place(q, S)
              /\ ~(Place(r, S) < Place(p, S)) /\ ~(Place(q, S) < Place(r, S))
          BY <2>2, <2>3, <3>2
        <4> QED BY <4>1, <4>2, <4>3
      <3> QED BY <1>9, <2>1, <3>3
    <2> QED BY <2>2, <2>3
  <1> QED BY <1>2, <1>5, <1>6, <1>7, <1>8, <1>9

\* A text from which everything is picked.
LEMMA AllPicked ==
  ASSUME NEW T, NEW text \in Seq(T)
  PROVE  Picked(text, DOMAIN text) = text
  <1> DEFINE S == DOMAIN text
             n == Len(text)
  <1>1. n \in Nat /\ S = 1..n
    BY LenProperties
  <1>2. ASSUME NEW k \in S PROVE Place(k, S) + 1 = k
    <2>1. k \in Nat /\ k - 1 \in Int /\ 1 \in Int
      <3> HIDE DEF n, S
      <3> QED BY <1>1
    <2>2. {m \in S : m < k} = 1..k - 1
      <3> HIDE DEF n, S
      <3> QED BY <1>1, <2>1
    <2>3. Cardinality(1..k - 1) = k - 1
      <3>1. (IF 1 > k - 1 THEN 0 ELSE (k - 1) - 1 + 1) = k - 1
        <4>1. k >= 1
          <5> HIDE DEF n, S
          <5> QED BY <1>1
        <4> QED BY <2>1, <4>1
      <3> QED BY <2>1, <3>1, FS_Interval
    <2>4. Place(k, S) = k - 1
      <3>1. S \in SUBSET Nat
        BY <1>1
      <3> HIDE DEF S
      <3> QED BY <2>1, <2>2, <2>3, <3>1, PlaceIsNat
    <2> QED BY <2>1, <2>4
  <1>3. IsFiniteSet(S) /\ Cardinality(S) = n
    <2>1. 1 \in Int /\ n \in Int /\ (IF 1 > n THEN 0 ELSE n - 1 + 1) = n
      <3> HIDE DEF n
      <3> QED BY <1>1
    <2> QED BY <1>1, <2>1, FS_Interval
  <1>4. Picked(text, S) \in Seq(T) /\ \A p \in S : Picked(text, S)[Place(p, S) + 1] = text[p]
    BY PickedIs
  <1>5. Len(Picked(text, S)) = n /\ DOMAIN Picked(text, S) = 1..n
    <2>1. DOMAIN Picked(text, S) = 1..n
      BY <1>3 DEF Picked
    <2> HIDE DEF n, S
    <2> QED BY <1>1, <1>4, <2>1, LenProperties
  <1>6. \A k \in 1..n : Picked(text, S)[k] = text[k]
    <2> HIDE DEF n, S
    <2> QED BY <1>1, <1>2, <1>4
  <1> HIDE DEF S
  <1>7. Picked(text, S) = text
    BY <1>4, <1>5, <1>6, SeqEqual DEF n
  <1> QED BY <1>7 DEF S

-----------------------------------------------------------------------------

\* Neighbours in what is picked have no chosen place between them.
LEMMA PickedNeighbours ==
  ASSUME NEW T, NEW text \in Seq(T), NEW S \in SUBSET DOMAIN text,
         NEW p \in S, NEW q \in S, Place(q, S) = Place(p, S) + 1
  PROVE  p \in Nat /\ q \in Nat /\ p < q /\ \A r \in S : ~(p < r /\ r < q)
  <1>1. S \in SUBSET Nat
    BY PickedIs
  <1>2. \A r \in S : r \in Nat /\ Place(r, S) \in Nat
    BY <1>1, PlaceIsNat
  <1>3. \A r, s \in S : r < s => Place(r, S) < Place(s, S)
    BY <1>1, PlacesGrow
  <1>4. ~(Place(q, S) < Place(p, S)) /\ Place(p, S) # Place(q, S)
    BY <1>2
  <1>5. p < q
    <2>1. p # q /\ ~(q < p)
      BY <1>3, <1>4
    <2> QED BY <1>2, <2>1
  <1>6. ASSUME NEW r \in S, p < r, r < q PROVE FALSE
    <2>1. Place(p, S) < Place(r, S) /\ Place(r, S) < Place(q, S)
      BY <1>3, <1>6
    <2> QED BY <1>2, <2>1
  <1> QED BY <1>2, <1>5, <1>6

\* The places of a text are numbers.
LEMMA PlacesOfText ==
  ASSUME NEW T, NEW t \in Seq(T), NEW k \in DOMAIN t
  PROVE  /\ k \in Int /\ (k - 1) + 1 = k /\ (k + 1) - 1 = k
         /\ Len(t) \in Nat /\ DOMAIN t = 1..Len(t)
  <1>1. Len(t) \in Nat /\ DOMAIN t = 1..Len(t)
    BY LenProperties
  <1>2. k \in Int
    BY <1>1
  <1> QED BY <1>1, <1>2

\* Where the parts of words are all picked, and touch only if they touched before, an
\* article in what is picked was one in the text.
LEMMA ArticlesCame ==
  ASSUME NEW T, NEW t \in Seq(T), NEW S \in SUBSET DOMAIN t,
         \A k \in DOMAIN t : IsPart(t, k) => k \in S,
         \A i, j \in S : /\ i < j /\ IsPart(t, i) /\ IsPart(t, j)
                         /\ \A m \in S : ~(i < m /\ m < j)
                         => j = i + 1,
         NEW c, c = Picked(t, S), NEW k \in DOMAIN c, NEW l \in DOMAIN c, IsArticle(c, k, l)
  PROVE  \E p, q \in S : IsArticle(t, p, q) /\ t[p] = c[k]
  <1>1. PICK p \in S : k = Place(p, S) + 1
    BY PickedIs
  <1>2. PICK q \in S : l = Place(q, S) + 1
    BY PickedIs
  <1>3. /\ Place(p, S) \in Nat /\ Place(q, S) \in Nat /\ c[k] = t[p] /\ c[l] = t[q] /\ S \in SUBSET Nat
        /\ \A r \in S : Place(r, S) + 1 \in DOMAIN c /\ c[Place(r, S) + 1] = t[r]
    BY <1>1, <1>2, PickedIs
  <1>4. p \in DOMAIN t /\ q \in DOMAIN t /\ (p - 1) + 1 = p
    BY PlacesOfText
  <1>5. IsPart(t, p) /\ IsPart(t, q)
    <2>1. c[k] \in WordPieces /\ c[l] \in WordPieces
      BY DEF IsArticle, WordPieces
    <2> QED BY <1>3, <1>4, <2>1 DEF IsPart
  <1>6. ~IsPart(t, p - 1)
    <2> SUFFICES ASSUME IsPart(t, p - 1) PROVE FALSE
      OBVIOUS
    <2>1. p - 1 \in DOMAIN t /\ t[p - 1] \in WordPieces
      BY DEF IsPart
    <2>2. p - 1 \in S
      BY <2>1
    <2>3. Place(p, S) = Place(p - 1, S) + 1
      BY <1>4, <2>2, PickedIs
    <2>4. IsPart(c, Place(p - 1, S) + 1)
      BY <1>3, <2>1, <2>2 DEF IsPart
    <2>5. Place(p - 1, S) + 1 = k - 1
      <3>1. Place(p - 1, S) \in Nat
        BY <1>3, <2>2, PlaceIsNat
      <3> QED BY <1>1, <2>3, <3>1
    <2> QED BY <2>4, <2>5 DEF IsArticle
  <1>7. ~IsPart(t, q + 1)
    <2> SUFFICES ASSUME IsPart(t, q + 1) PROVE FALSE
      OBVIOUS
    <2>1. q + 1 \in DOMAIN t /\ t[q + 1] \in WordPieces
      BY DEF IsPart
    <2>2. q + 1 \in S
      BY <2>1
    <2>3. Place(q + 1, S) = Place(q, S) + 1
      BY <2>2, PickedIs
    <2>4. IsPart(c, l + 1)
      BY <1>2, <1>3, <2>1, <2>2, <2>3 DEF IsPart
    <2> QED BY <2>4 DEF IsArticle
  <1>8. CASE k = l
    <2>1. p = q
      <3>1. Place(p, S) = Place(q, S)
        BY <1>1, <1>2, <1>3, <1>8
      <3> QED BY <1>3, <3>1, PlaceTells
    <2>2. t[p] = "article" \/ l = k + 1
      BY <1>3 DEF IsArticle
    <2>3. l # k + 1
      BY <1>1, <1>3, <1>8
    <2> QED BY <1>3, <1>6, <1>7, <2>1, <2>2, <2>3 DEF IsArticle
  <1>9. CASE k # l
    <2>1. l = k + 1 /\ t[p] = "t" /\ t[q] = "he"
      BY <1>3, <1>9 DEF IsArticle
    <2>2. Place(q, S) = Place(p, S) + 1
      BY <1>1, <1>2, <1>3, <2>1
    <2>3. p < q /\ \A m \in S : ~(p < m /\ m < q)
      BY <2>2, PickedNeighbours
    <2>4. q = p + 1
      BY <1>5, <2>3
    <2> QED BY <1>3, <1>6, <1>7, <2>1, <2>4 DEF IsArticle
  <1> QED BY <1>8, <1>9

\* No article is left when the articles of a text have become spaces: what is beside an
\* article is no part of a word, before and after.
LEMMA NoneIsLeft ==
  ASSUME NEW T, NEW t \in Seq(T), NEW p \in DOMAIN t, NEW q \in DOMAIN t
  PROVE  ~IsArticle(WithoutArticles(t), p, q)
  <1> DEFINE w == WithoutArticles(t)
  <1> SUFFICES ASSUME IsArticle(w, p, q) PROVE FALSE
    OBVIOUS
  <1>1. DOMAIN w = DOMAIN t /\ \A j \in DOMAIN t : w[j] = IF InArticle(t, j) THEN " " ELSE t[j]
    BY DEF WithoutArticles
  <1> HIDE DEF w
  <1>2. w[p] # " " /\ w[q] # " "
    BY DEF IsArticle
  <1>3. w[p] = t[p] /\ w[q] = t[q] /\ ~InArticle(t, p) /\ ~InArticle(t, q)
    BY <1>1, <1>2
  <1>4. IsPart(t, p) /\ IsPart(t, q)
    BY <1>3 DEF IsArticle, IsPart, WordPieces
  <1>5. p \in Int /\ q \in Int /\ (p = q \/ q = p + 1)
    <2>1. p = q \/ q = p + 1
      BY DEF IsArticle
    <2> QED BY <2>1, PlacesOfText
  <1>6. ASSUME NEW j \in DOMAIN t, j + 1 = p \/ j = q + 1, IsPart(t, j) PROVE IsPart(w, j)
    <2>1. ~InArticle(t, j)
      <3> SUFFICES ASSUME NEW k \in DOMAIN t, NEW l \in DOMAIN t, j \in k..l, IsArticle(t, k, l)
                   PROVE  FALSE
        BY DEF InArticle
      <3>1. p \notin k..l /\ q \notin k..l
        BY <1>3 DEF InArticle
      <3>2. j \in Int /\ k \in Int /\ l \in Int
        BY PlacesOfText
      <3>3. p = l + 1 \/ q = k - 1
        <4>1. j + 1 = p => p = l + 1
          BY <1>5, <3>1, <3>2
        <4>2. j = q + 1 => q = k - 1
          BY <1>5, <3>1, <3>2
        <4> QED BY <1>6, <4>1, <4>2
      <3> QED BY <1>4, <3>3 DEF IsArticle
    <2> QED BY <1>1, <1>6, <2>1 DEF IsPart
  <1>7. ~IsPart(t, p - 1)
    <2>1. IsPart(t, p - 1) => p - 1 \in DOMAIN t
      BY DEF IsPart
    <2>2. (p - 1) + 1 = p
      BY <1>5
    <2> QED BY <1>6, <2>1, <2>2 DEF IsArticle
  <1>8. ~IsPart(t, q + 1)
    <2>1. IsPart(t, q + 1) => q + 1 \in DOMAIN t
      BY DEF IsPart
    <2> QED BY <1>6, <2>1 DEF IsArticle
  <1>9. IsArticle(t, p, q)
    BY <1>3, <1>7, <1>8 DEF IsArticle
  <1>10. p \in p..q
    BY <1>5
  <1> QED BY <1>3, <1>9, <1>10 DEF InArticle

-----------------------------------------------------------------------------

\* The pieces normalize_answer leaves, and a space with a piece on its left and one further
\* on.
Plain == {"article", "t", "he", "word", " ", "symbol"}
Between(t, k, space) == k > 1 /\ t[k - 1] # space /\ \E j \in k + 1..Len(t) : t[j] # space

\* What there is nothing to normalise in.
Tidy(t) == /\ \A k \in DOMAIN t : t[k] \in Plain
           /\ \A k \in DOMAIN t : t[k] = " " => Between(t, k, " ")
           /\ \A k, l \in DOMAIN t : ~IsArticle(t, k, l)

\* A tidy text is normalised already.
LEMMA TidyIsStable ==
  ASSUME NEW t \in Seq(Pieces), Tidy(t)
  PROVE  NormalizeAnswer(t) = t
  <1>1. WithoutArticles(t) = t
    <2>1. \A j \in DOMAIN t : (IF InArticle(t, j) THEN " " ELSE t[j]) = t[j]
      BY DEF Tidy, InArticle
    <2>2. t = [j \in DOMAIN t |-> t[j]]
      BY LenProperties
    <2> QED BY <2>1, <2>2 DEF WithoutArticles
  <1>2. WithoutPunctuation(t) = t
    <2>1. {k \in DOMAIN t : t[k] \notin {"_", "."}} = DOMAIN t
      BY DEF Tidy, Plain
    <2> QED BY <2>1, AllPicked DEF WithoutPunctuation
  <1>3. Collapsed(t) = t
    <2>1. {k \in DOMAIN t : \/ t[k] # " "
                            \/ /\ k > 1 /\ t[k - 1] # " "
                               /\ \E j \in k + 1..Len(t) : t[j] # " "} = DOMAIN t
      BY DEF Tidy, Between
    <2> QED BY <2>1, AllPicked DEF Collapsed
  <1> QED BY <1>1, <1>2, <1>3 DEF NormalizeAnswer

\* A text of such pieces has no punctuation in its words.
LEMMA PlainHasNothing ==
  ASSUME NEW t \in Seq(Pieces), \A k \in DOMAIN t : t[k] \in Plain
  PROVE  NothingInWords(t)
  <1>1. \A k \in DOMAIN t : t[k] # "_" /\ t[k] # "."
    BY DEF Plain
  <1>2. ASSUME NEW i \in DOMAIN t, NEW j \in DOMAIN t, i + 1 < j
        PROVE  i + 1 \in i + 1..j - 1 /\ i + 1 \in DOMAIN t
    <2>1. i \in 1..Len(t) /\ j \in 1..Len(t) /\ Len(t) \in Nat /\ DOMAIN t = 1..Len(t)
      BY PlacesOfText
    <2> QED BY <1>2, <2>1
  <1> QED BY <1>1, <1>2 DEF NothingInWords

\* What is picked stands in the text.
LEMMA PickedValues ==
  ASSUME NEW T, NEW t \in Seq(T), NEW S \in SUBSET DOMAIN t, NEW V, \A k \in S : t[k] \in V
  PROVE  Picked(t, S) \in Seq(T) /\ \A k \in DOMAIN Picked(t, S) : Picked(t, S)[k] \in V
  <1>1. ASSUME NEW k \in DOMAIN Picked(t, S) PROVE Picked(t, S)[k] \in V
    <2>1. PICK q \in S : k = Place(q, S) + 1
      BY PickedIs
    <2>2. Picked(t, S)[Place(q, S) + 1] = t[q]
      BY PickedIs
    <2> QED BY <2>1, <2>2
  <1> QED BY <1>1, PickedIs

\* Where every piece other than a space is picked, and a space only between a piece on its
\* left and one further on, so stand the spaces in what is picked.
LEMMA SpacesKept ==
  ASSUME NEW T, NEW t \in Seq(T), NEW space, NEW S \in SUBSET DOMAIN t,
         \A k \in DOMAIN t : t[k] # space => k \in S,
         \A k \in S : t[k] = space => Between(t, k, space),
         NEW c, c = Picked(t, S), NEW j \in DOMAIN c, c[j] = space
  PROVE  Between(c, j, space)
  <1>1. c \in Seq(T) /\ Len(c) \in Nat /\ DOMAIN c = 1..Len(c)
    <2>1. c \in Seq(T)
      BY PickedIs
    <2> QED BY <2>1, LenProperties
  <1>2. \A p \in S : Place(p, S) \in Nat /\ Place(p, S) + 1 \in DOMAIN c /\ c[Place(p, S) + 1] = t[p]
    BY PickedIs
  <1>3. PICK k \in S : j = Place(k, S) + 1
    BY PickedIs
  <1>4. t[k] = space
    BY <1>2, <1>3
  <1>5. k \in Int /\ (k - 1) + 1 = k /\ Len(t) \in Nat /\ DOMAIN t = 1..Len(t) /\ k \in 1..Len(t)
    BY PlacesOfText
  <1>6. k > 1 /\ t[k - 1] # space /\ \E l \in k + 1..Len(t) : t[l] # space
    BY <1>4 DEF Between
  <1>7. j > 1 /\ c[j - 1] # space
    <2>1. k - 1 \in DOMAIN t
      BY <1>5, <1>6
    <2>2. k - 1 \in S
      BY <1>6, <2>1
    <2>3. Place(k, S) = Place(k - 1, S) + 1
      BY <1>5, <2>2, PickedIs
    <2>4. Place(k - 1, S) \in Nat /\ c[Place(k - 1, S) + 1] = t[k - 1]
      BY <1>2, <2>2
    <2>5. j - 1 = Place(k - 1, S) + 1 /\ j > 1
      BY <1>3, <2>3, <2>4
    <2> QED BY <1>6, <2>4, <2>5
  <1>8. \E l \in j + 1..Len(c) : c[l] # space
    <2>1. PICK m \in k + 1..Len(t) : t[m] # space
      BY <1>6
    <2>2. m \in DOMAIN t /\ k < m
      BY <1>5
    <2>3. m \in S
      BY <2>1, <2>2
    <2>4. /\ Place(m, S) \in Nat /\ Place(m, S) + 1 \in DOMAIN c /\ c[Place(m, S) + 1] = t[m]
          /\ Place(k, S) \in Nat
      BY <1>2, <2>3
    <2>5. Place(k, S) < Place(m, S)
      BY <2>2, <2>3, PickedIs
    <2>6. Place(m, S) + 1 \in j + 1..Len(c)
      BY <1>1, <1>3, <2>4, <2>5
    <2> QED BY <2>1, <2>4, <2>6
  <1> QED BY <1>7, <1>8 DEF Between

\* The places punctuation leaves, and those join and split keep.
Unpunctuated(t) == {k \in DOMAIN t : t[k] \notin {"_", "."}}
Joined(t) == {k \in DOMAIN t : t[k] # " " \/ Between(t, k, " ")}

\* normalize_answer, with the names of what stands between its steps.
LEMMA StepsOfNormalize ==
  ASSUME NEW t \in Seq(Pieces), NEW w, w = WithoutArticles(t),
         NEW p, p = Picked(w, Unpunctuated(w)), NEW c, c = Picked(p, Joined(p))
  PROVE  /\ NormalizeAnswer(t) = c /\ w \in Seq(Pieces) /\ p \in Seq(Pieces) /\ c \in Seq(Pieces)
         /\ Unpunctuated(w) \in SUBSET DOMAIN w /\ Joined(p) \in SUBSET DOMAIN p
         /\ \A k \in DOMAIN p : p[k] \in Plain
         /\ \A k \in DOMAIN c : c[k] \in Plain
  <1>1. w \in Seq(Pieces)
    <2>1. Len(t) \in Nat /\ t \in [1..Len(t) -> Pieces] /\ DOMAIN t = 1..Len(t)
      BY LenProperties
    <2>2. \A j \in 1..Len(t) : (IF InArticle(t, j) THEN " " ELSE t[j]) \in Pieces
      BY <2>1 DEF Pieces
    <2>3. w \in [1..Len(t) -> Pieces]
      BY <2>1, <2>2 DEF WithoutArticles
    <2> QED BY <2>1, <2>3, SeqDef
  <1>2. NormalizeAnswer(t) = c
    <2>1. WithoutPunctuation(w) = Picked(w, Unpunctuated(w))
      BY DEF WithoutPunctuation, Unpunctuated
    <2>2. Collapsed(p) = Picked(p, Joined(p))
      BY DEF Collapsed, Joined, Between
    <2> QED BY <2>1, <2>2 DEF NormalizeAnswer
  <1>3. Unpunctuated(w) \in SUBSET DOMAIN w /\ Joined(p) \in SUBSET DOMAIN p
    BY DEF Unpunctuated, Joined
  <1>4. \A k \in Unpunctuated(w) : w[k] \in Plain
    <2> TAKE k \in Unpunctuated(w)
    <2>1. k \in 1..Len(w)
      BY <1>1, <1>3, PlacesOfText
    <2>2. w[k] \in Pieces
      BY <1>1, <2>1, ElementOfSeq
    <2> QED BY <2>2 DEF Pieces, Plain, Unpunctuated
  <1>5. p \in Seq(Pieces) /\ \A k \in DOMAIN p : p[k] \in Plain
    BY <1>1, <1>3, <1>4, PickedValues
  <1>6. \A k \in Joined(p) : p[k] \in Plain
    BY <1>3, <1>5
  <1>7. c \in Seq(Pieces) /\ \A k \in DOMAIN c : c[k] \in Plain
    BY <1>3, <1>5, <1>6, PickedValues
  <1> QED BY <1>1, <1>2, <1>3, <1>5, <1>7

\* Parts of words that touch when the punctuation is gone touched before.
LEMMA PunctuationParts ==
  ASSUME NEW t \in Seq(Pieces), NothingInWords(t), NEW w, w = WithoutArticles(t),
         w \in Seq(Pieces), NEW i \in Unpunctuated(w), NEW j \in Unpunctuated(w),
         i < j, IsPart(w, i), IsPart(w, j), \A m \in Unpunctuated(w) : ~(i < m /\ m < j)
  PROVE  j = i + 1
  <1>1. DOMAIN w = DOMAIN t /\ \A k \in DOMAIN t : w[k] # " " => w[k] = t[k]
    BY DEF WithoutArticles
  <1>2. i \in DOMAIN t /\ j \in DOMAIN t
    BY <1>1 DEF Unpunctuated
  <1>3. IsPart(t, i) /\ IsPart(t, j)
    <2>1. w[i] # " " /\ w[j] # " "
      BY DEF IsPart, WordPieces
    <2> QED BY <1>1, <1>2, <2>1 DEF IsPart
  <1>4. i \in 1..Len(t) /\ j \in 1..Len(t) /\ Len(t) \in Nat /\ DOMAIN t = 1..Len(t)
    BY <1>2, PlacesOfText
  <1>5. CASE i + 1 < j
    <2>1. PICK k \in i + 1..j - 1 : t[k] # "."
      BY <1>2, <1>3, <1>5 DEF NothingInWords
    <2>2. k \in DOMAIN t /\ i < k /\ k < j
      BY <1>4
    <2>3. t[k] # "_"
      BY <2>2 DEF NothingInWords
    <2>4. w[k] \notin {"_", "."}
      BY <1>1, <2>1, <2>2, <2>3
    <2>5. k \in Unpunctuated(w)
      BY <1>1, <2>2, <2>4 DEF Unpunctuated
    <2> QED BY <2>2, <2>5
  <1>6. CASE ~(i + 1 < j)
    BY <1>4, <1>6
  <1> QED BY <1>5, <1>6

\* Parts of words that touch when the spaces are single touched before.
LEMMA SpacesPart ==
  ASSUME NEW p \in Seq(Pieces), NEW i \in Joined(p), NEW j \in Joined(p),
         i < j, IsPart(p, i), IsPart(p, j), \A m \in Joined(p) : ~(i < m /\ m < j)
  PROVE  j = i + 1
  <1>1. i \in DOMAIN p /\ j \in DOMAIN p
    BY DEF Joined
  <1>2. i \in 1..Len(p) /\ j \in 1..Len(p) /\ Len(p) \in Nat /\ DOMAIN p = 1..Len(p)
    BY <1>1, PlacesOfText
  <1>3. p[i] # " " /\ p[j] # " "
    BY DEF IsPart, WordPieces
  <1>4. CASE i + 1 < j
    <2> DEFINE k == i + 1
    <2>1. /\ k \in DOMAIN p /\ i < k /\ k < j /\ k > 1 /\ k - 1 = i /\ j \in k + 1..Len(p)
      BY <1>2, <1>4
    <2> HIDE DEF k
    <2>2. Between(p, k, " ")
      BY <1>3, <2>1 DEF Between
    <2>3. k \in Joined(p)
      BY <2>1, <2>2 DEF Joined
    <2> QED BY <2>1, <2>3
  <1>5. CASE ~(i + 1 < j)
    BY <1>2, <1>5
  <1> QED BY <1>4, <1>5

\* Whatever the text, what is left has single spaces between its pieces.
LEMMA NormalisedIsPlain ==
  ASSUME NEW t \in Seq(Pieces)
  PROVE  /\ NormalizeAnswer(t) \in Seq(Pieces)
         /\ \A k \in DOMAIN NormalizeAnswer(t) :
              /\ NormalizeAnswer(t)[k] \in Plain
              /\ NormalizeAnswer(t)[k] = " " => Between(NormalizeAnswer(t), k, " ")
  <1> DEFINE w == WithoutArticles(t)
             p == Picked(w, Unpunctuated(w))
             J == Joined(p)
             c == Picked(p, J)
             space == " "
  <1>1. /\ NormalizeAnswer(t) = c /\ p \in Seq(Pieces) /\ c \in Seq(Pieces) /\ J \in SUBSET DOMAIN p
        /\ \A k \in DOMAIN c : c[k] \in Plain
    BY StepsOfNormalize
  <1>2. c = Picked(p, J)
    OBVIOUS
  <1> HIDE DEF w, p
  <1>3. /\ \A k \in DOMAIN p : p[k] # space => k \in J
        /\ \A k \in J : p[k] = space => Between(p, k, space)
    BY DEF Joined
  <1> HIDE DEF J, c, space
  <1>4. ASSUME NEW k \in DOMAIN c, c[k] = space PROVE Between(c, k, space)
    BY <1>1, <1>2, <1>3, <1>4, SpacesKept
  <1>5. \A k \in DOMAIN c : c[k] \in Plain /\ (c[k] = " " => Between(c, k, " "))
    BY <1>1, <1>4 DEF space
  <1> QED BY <1>1, <1>5

\* Where the words have no punctuation in them no article is left, and the text is tidy.
LEMMA NormalisedIsTidy ==
  ASSUME NEW t \in Seq(Pieces), NothingInWords(t)
  PROVE  Tidy(NormalizeAnswer(t))
  <1> DEFINE w == WithoutArticles(t)
             S == Unpunctuated(w)
             p == Picked(w, S)
             J == Joined(p)
             c == Picked(p, J)
  <1>1. /\ NormalizeAnswer(t) = c /\ w \in Seq(Pieces) /\ p \in Seq(Pieces)
        /\ S \in SUBSET DOMAIN w /\ J \in SUBSET DOMAIN p
    BY StepsOfNormalize
  <1>2. DOMAIN w = DOMAIN t /\ \A k \in DOMAIN w : w[k] # "_"
    <2>1. DOMAIN w = DOMAIN t /\ \A k \in DOMAIN t : w[k] # " " => w[k] = t[k]
      BY DEF WithoutArticles
    <2> HIDE DEF w
    <2> QED BY <2>1 DEF NothingInWords
  <1>3. \A i, j \in S : i < j /\ IsPart(w, i) /\ IsPart(w, j) /\ (\A m \in S : ~(i < m /\ m < j)) => j = i + 1
    BY <1>1, PunctuationParts
  <1>4. \A q, r \in DOMAIN t : ~IsArticle(w, q, r)
    BY NoneIsLeft
  <1> HIDE DEF w
  <1>5. \A k \in DOMAIN w : IsPart(w, k) => k \in S
    BY <1>2 DEF IsPart, WordPieces, Unpunctuated
  <1> HIDE DEF S
  <1>6. \A k, l \in DOMAIN p : ~IsArticle(p, k, l)
    <2> SUFFICES ASSUME NEW k \in DOMAIN p, NEW l \in DOMAIN p, IsArticle(p, k, l) PROVE FALSE
      OBVIOUS
    <2>1. \E q, r \in S : IsArticle(w, q, r) /\ w[q] = p[k]
      BY <1>1, <1>3, <1>5, ArticlesCame
    <2> QED BY <1>1, <1>2, <1>4, <2>1
  <1> HIDE DEF p
  <1>7. \A k \in DOMAIN p : IsPart(p, k) => k \in J
    BY DEF IsPart, WordPieces, Joined
  <1>8. \A i, j \in J : i < j /\ IsPart(p, i) /\ IsPart(p, j) /\ (\A m \in J : ~(i < m /\ m < j)) => j = i + 1
    BY <1>1, SpacesPart
  <1> HIDE DEF J
  <1>9. \A k, l \in DOMAIN c : ~IsArticle(c, k, l)
    <2> SUFFICES ASSUME NEW k \in DOMAIN c, NEW l \in DOMAIN c, IsArticle(c, k, l) PROVE FALSE
      OBVIOUS
    <2>1. \E q, r \in J : IsArticle(p, q, r) /\ p[q] = c[k]
      BY <1>1, <1>7, <1>8, ArticlesCame
    <2> QED BY <1>1, <1>6, <2>1
  <1> HIDE DEF c
  <1> QED BY <1>1, <1>9, NormalisedIsPlain DEF Tidy

\* normalize_answer does all of its work the first time where the words of an answer have
\* no punctuation in them, and otherwise the second.
LEMMA AnswersAreStable ==
  answer \in Seq(Pieces) => NormalisedIsStable
  <1> SUFFICES ASSUME answer \in Seq(Pieces) PROVE NormalisedIsStable
    OBVIOUS
  <1> DEFINE once == NormalizeAnswer(answer)
             twice == NormalizeAnswer(once)
  <1>1. once \in Seq(Pieces) /\ \A k \in DOMAIN once : once[k] \in Plain
    BY NormalisedIsPlain
  <1>2. NothingInWords(once)
    BY <1>1, PlainHasNothing
  <1>3. twice \in Seq(Pieces) /\ Tidy(twice)
    BY <1>1, <1>2, NormalisedIsPlain, NormalisedIsTidy
  <1>4. NormalizeAnswer(twice) = twice
    BY <1>3, TidyIsStable
  <1>5. NothingInWords(answer) => twice = once
    BY <1>1, NormalisedIsTidy, TidyIsStable
  <1> QED BY <1>4, <1>5 DEF NormalisedIsStable

-----------------------------------------------------------------------------

\* The tables of every two texts are right in every state, whatever the texts: a text of
\* tokens is all a behaviour needs before the loops begin.
LEMMA TextsKeepInv == TextSpec => []TextInv
  <1>1. TextInit => TextInv
    <2>1. <<>> \in Seq(Tokens)
      BY EmptySeq
    <2> QED BY <2>1 DEF TextInit, TextInv
  <1> QED BY <1>1, TextStepsKeepInv, PTL DEF TextSpec

\* An answer is a sequence of pieces.
LEMMA AnswersArePieces == AnswerSpec => [](answer \in Seq(Pieces))
  <1>1. AnswerInit => answer \in Seq(Pieces)
    BY EmptySeq DEF AnswerInit
  <1>2. answer \in Seq(Pieces) /\ [AnswerNext]_answer => (answer \in Seq(Pieces))'
    <2> SUFFICES ASSUME answer \in Seq(Pieces), [AnswerNext]_answer
                 PROVE  answer' \in Seq(Pieces)
      OBVIOUS
    <2>1. CASE AnswerNext
      <3>1. PICK piece \in Pieces : answer' = Append(answer, piece)
        BY <2>1 DEF AnswerNext, WritePiece
      <3> QED BY <3>1, AppendProperties
    <2> QED BY <2>1
  <1> QED BY <1>1, <1>2, PTL DEF AnswerSpec

\* TextScoresTrue: for every two texts the rolling rows of _lcs_length and the row
\* _levenshtein updates in place give the length of a longest common subsequence and the
\* least number of edits, the scores made of them agree with each other, and
\* normalize_answer does all of its work the first time or, where an answer has punctuation
\* in its words, the second.
THEOREM TextsAreTrue == TextSpec /\ AnswerSpec => []TextScoresTrue
  <1>1. TextInv => LcsIsLongest /\ EditIsDistance
    BY ScansAreTrue DEF LcsIsLongest, EditIsDistance
  <1>2. TextInv /\ answer \in Seq(Pieces) => TextScoresTrue
    BY <1>1, ScoresAgree, AnswersAreStable DEF TextScoresTrue
  <1> QED BY <1>2, TextsKeepInv, AnswersArePieces, PTL
=============================================================================
