------------------------- MODULE EngineArtifacts_proofs -------------------------
(***************************************************************************)
(* Theorems about EngineArtifacts, for any models, networks, customs and   *)
(* bounds: an engine in its place is whole, and an exit code of 0 means    *)
(* what it says.  A script is followed from its start to its end: what it  *)
(* has made so far is in its place, as no other script runs beside it.  A  *)
(* file of a merged dataset is the file of the one dataset that has its    *)
(* name.  The detector yields the persons of the frame, for any frames.    *)
(***************************************************************************)
EXTENDS EngineArtifacts, SequenceTheorems, TLAPS

--------------------------------------------------------------------------------
(* Whose step it is.                                                       *)

\* A step of the detector, or of the operator who brings weights.
Still == UNCHANGED <<fileVars, trainVars, job>>

BootstrapSteps ==
  /\ job.script = "bootstrap"
  /\ \/ BootstrapExport \/ Exported \/ Replace \/ Describe \/ Described
     \/ CopyEngine \/ Copied \/ CopyMeta \/ MetaCopied \/ NoCopy

ExportSteps ==
  /\ job.script = "export"
  /\ \/ ExportModel \/ ExportMissing \/ Exported \/ Replace
     \/ CopyEngine \/ Copied \/ NoCopy \/ NextModel

BrainSteps ==
  /\ job.script = "brain"
  /\ Compile \/ Saved \/ Describe \/ Described

TrainSteps ==
  /\ job.script = "train"
  /\ Merge \/ Pretrain \/ Pretrained \/ Finetune \/ Finetuned

\* The script that runs has no more than it had when it is killed or when the
\* operator removes an engine.
Ends == job' = Idle /\ (Kill \/ RemoveEngine)

LEMMA Moves ==
  ASSUME [Next]_vars
  PROVE  \/ Still \/ Ends
         \/ Bootstrap \/ BootstrapSteps \/ ExportAll \/ ExportSteps
         \/ BuildBrain \/ BrainSteps \/ Train \/ TrainSteps
<1>1. CASE UNCHANGED vars
  BY <1>1 DEF vars, Still
<1>2. CASE Kill \/ RemoveEngine
  BY <1>2 DEF Kill, RemoveEngine, Ends
<1>3. CASE Deploy \/ NewDetector \/ DetectSynthetic \/ DetectPt \/ EngineMissing
             \/ EngineRefused \/ EngineFails \/ EngineAnswers
  BY <1>3 DEF Deploy, NewDetector, DetectSynthetic, DetectPt, EngineMissing, EngineRefused,
              EngineFails, EngineAnswers, Still, fileVars, trainVars
<1>4. CASE Bootstrap \/ ExportAll \/ BuildBrain \/ Train
  BY <1>4
<1>5. CASE BootstrapExport \/ CopyMeta \/ MetaCopied
  BY <1>5 DEF BootstrapExport, CopyMeta, MetaCopied, At, BootstrapSteps
<1>6. CASE Exported \/ Replace \/ CopyEngine \/ Copied \/ NoCopy
  BY <1>6 DEF Exported, Replace, CopyEngine, Copied, NoCopy, At, BootstrapSteps, ExportSteps
<1>7. CASE Describe \/ Described
  BY <1>7 DEF Describe, Described, At, BootstrapSteps, BrainSteps
<1>8. CASE ExportModel \/ ExportMissing \/ NextModel
  BY <1>8 DEF ExportModel, ExportMissing, NextModel, At, ExportSteps
<1>9. CASE Compile \/ Saved
  BY <1>9 DEF Compile, Saved, At, BrainSteps
<1>10. CASE Merge \/ Pretrain \/ Pretrained \/ Finetune \/ Finetuned
  BY <1>10 DEF Merge, Pretrain, Pretrained, Finetune, Finetuned, At, TrainSteps
<1> QED
  BY <1>1, <1>2, <1>3, <1>4, <1>5, <1>6, <1>7, <1>8, <1>9, <1>10 DEF Next

--------------------------------------------------------------------------------
(* Types.                                                                  *)

\* What a script has left to do, and what its training has opened.
Todo ==
  /\ job.script = "bootstrap" => job.todo = <<Best>>
  /\ job.script = "export" =>
       /\ job.todo \in Seq(ToSet(Models)) /\ ToSet(job.todo) \subseteq job.found
       /\ job.at # "done" => job.todo # <<>>
  /\ job.script = "brain" => job.todo \in Seq(Networks) /\ job.todo # <<>>
  /\ job.script = "train" /\ job.at \in {"pretraining", "finetune"} => trained.pretrain # <<>>

TypeInv == TypeOK /\ Todo

LEMMA ConstantTypes ==
  /\ NoFile \in Files /\ Best \in ToSet(Models) /\ SubSeq(BrainSpecs, 1, Brain) \in Seq(Networks)
  /\ SubSeq(BrainSpecs, 1, Brain) # <<>>
  /\ \A m \in ToSet(Models) : Stem[m] \in Names
  /\ Networks \subseteq Names
<1>1. NoFile \in Files
  BY DEF NoFile, Files, None
<1>2. SubSeq(BrainSpecs, 1, Brain) \in Seq(Networks) /\ SubSeq(BrainSpecs, 1, Brain) # <<>>
  <2> DEFINE names == {BrainSpecs[i] : i \in 1 .. Brain}
             brain == SubSeq(BrainSpecs, 1, Brain)
  <2>1. Brain \in Int /\ Brain >= 1
    BY ArtifactsAssumption
  <2>2. \A i \in 1 .. Brain : BrainSpecs[i] \in names
    OBVIOUS
  <2> HIDE DEF names
  <2>3. brain \in Seq(names) /\ Len(brain) = Brain
    BY <2>1, <2>2, SubSeqProperties
  <2> HIDE DEF brain
  <2>4. brain \in Seq(ToSet(brain)) /\ brain # <<>>
    BY <2>1, <2>3 DEF ToSet
  <2> QED
    BY <2>4 DEF Networks, brain
<1> QED
  BY <1>1, <1>2, ArtifactsAssumption DEF Names, Stems

LEMMA Tails ==
  ASSUME NEW S, NEW s \in Seq(S), s # <<>>
  PROVE  /\ Head(s) \in ToSet(s) /\ Head(s) \in S /\ Tail(s) \in Seq(S)
         /\ ToSet(s) = {Head(s)} \union ToSet(Tail(s))
<1>1. /\ Len(s) \in Nat \ {0} /\ DOMAIN s = 1 .. Len(s) /\ Head(s) = s[1]
      /\ Tail(s) \in Seq(S) /\ Len(Tail(s)) = Len(s) - 1
      /\ DOMAIN Tail(s) = 1 .. Len(s) - 1
      /\ \A i \in 1 .. Len(s) - 1 : Tail(s)[i] = s[i + 1]
  OBVIOUS
<1>2. \A x \in ToSet(s) : x = Head(s) \/ x \in ToSet(Tail(s))
  <2>1. TAKE x \in ToSet(s)
  <2>2. PICK i \in 1 .. Len(s) : x = s[i]
    BY <1>1 DEF ToSet
  <2>3. CASE i = 1
    BY <2>2, <2>3, <1>1
  <2>4. CASE i # 1
    <3>1. i - 1 \in 1 .. Len(s) - 1 /\ Tail(s)[i - 1] = x
      BY <2>2, <2>4, <1>1
    <3> QED
      BY <3>1, <1>1 DEF ToSet
  <2> QED
    BY <2>3, <2>4
<1>3. \A x \in ToSet(Tail(s)) : x \in ToSet(s)
  <2>1. TAKE x \in ToSet(Tail(s))
  <2>2. PICK i \in 1 .. Len(s) - 1 : x = Tail(s)[i]
    BY <1>1 DEF ToSet
  <2>3. i + 1 \in DOMAIN s /\ s[i + 1] = x
    BY <2>2, <1>1
  <2> QED
    BY <2>3 DEF ToSet
<1>4. Head(s) \in ToSet(s) /\ Head(s) \in S
  BY <1>1 DEF ToSet
<1> QED
  BY <1>1, <1>2, <1>3, <1>4

\* A list of more than one element has a rest.
LEMMA MoreLeft ==
  ASSUME NEW S, NEW s \in Seq(S), Len(s) > 1
  PROVE  Tail(s) \in Seq(S) /\ Tail(s) # <<>>
<1>1. Len(s) \in Nat /\ Len(<<>>) = 0 /\ s # <<>>
  BY EmptySeq
<1>2. Tail(s) \in Seq(S) /\ Len(Tail(s)) = Len(s) - 1
  BY <1>1
<1>3. Len(Tail(s)) # 0
  BY <1>1, <1>2
<1> QED
  BY <1>1, <1>2, <1>3

LEMMA InitTypes ==
  ASSUME Init
  PROVE  TypeInv
<1> USE ConstantTypes DEF Init, TypeInv
<1>1. weights \in [ToSet(Models) -> Nat]
  OBVIOUS
<1>2. Idle \in Jobs
  BY ArtifactsAssumption DEF Idle, Jobs, Stages, None
<1>3. job.at \in {"idle"} /\ job.script = None
  BY DEF Idle
<1>4. trained \in [pretrain : Seq(Runs), finetune : Seq(Runs)]
  OBVIOUS
<1>5. TypeOK
  BY <1>1, <1>2, <1>3, <1>4 DEF TypeOK
<1>6. Todo
  BY <1>3 DEF Todo, None
<1> QED
  BY <1>5, <1>6

\* Where the script at an engine puts it.
LEMMA NameOfModel ==
  ASSUME TypeInv, job.script \in {"bootstrap", "export", "brain"}, job.at \notin {"idle", "done"}
  PROVE  /\ Name \in Names /\ Model \in Names \union ToSet(Models)
         /\ job.script # "brain" => Model \in ToSet(Models) /\ Name = Stem[Model]
         /\ job.script = "brain" => Model \in Networks /\ Name = Model
<1>1. CASE job.script = "brain"
  BY <1>1, Tails, ConstantTypes DEF TypeInv, Todo, Name, Model
<1>2. CASE job.script # "brain"
  BY <1>2, ConstantTypes DEF TypeInv, TypeOK, Name
<1> QED
  BY <1>1, <1>2

\* The files keep their types.
FileTypes ==
  /\ engines \in [Names -> Files] /\ meta \in [Names -> Files] /\ copies \in [Names -> Files]
  /\ metaCopy \in Files /\ beside \in [ToSet(Models) -> Files] /\ onnx \subseteq ToSet(Models)

LEMMA CutTypes ==
  ASSUME NEW file \in Files
  PROVE  Cut(file) \in Files /\ [file EXCEPT !.cut = FALSE] \in Files
BY DEF Cut, Files

LEMMA ExportTypes ==
  ASSUME TypeInv, job.at = "export", NEW shape \in {"square", "any"}, Export(shape),
         job.script \in {"bootstrap", "export"}, UNCHANGED <<engines, meta, copies, metaCopy>>
  PROVE  FileTypes' /\ job' = [job EXCEPT !.made = job'.made, !.at = "exporting"] /\ job'.made \in Files
<1> DEFINE engine == [model |-> Model, version |-> weights[Model], form |-> "prefixed",
                      shape |-> shape, cut |-> FALSE]
<1>1. Model \in ToSet(Models)
  BY NameOfModel
<1>2. engine \in Files
  BY <1>1 DEF Files, TypeInv, TypeOK
<1>3. /\ beside' = [beside EXCEPT ![Model] = Cut(engine)] /\ onnx' = onnx \union {Model}
      /\ job' = [job EXCEPT !.made = engine, !.at = "exporting"]
  BY DEF Export
<1> HIDE DEF engine
<1>4. job'.made = engine
  BY <1>3 DEF TypeInv, TypeOK, Jobs
<1>5. FileTypes'
  BY <1>1, <1>2, <1>3, CutTypes DEF FileTypes, TypeInv, TypeOK
<1> QED
  BY <1>2, <1>3, <1>4, <1>5

LEMMA StepFileTypes ==
  ASSUME TypeInv, [Next]_vars
  PROVE  FileTypes'
<1> USE DEF TypeInv, TypeOK, FileTypes
<1>1. CASE Still \/ Ends
  <2>1. CASE Still
    BY <2>1 DEF Still, fileVars
  <2>2. CASE Kill
    BY <2>2 DEF Kill, fileVars
  <2>3. CASE RemoveEngine
    BY <2>3, ConstantTypes DEF RemoveEngine
  <2> QED
    BY <1>1, <2>1, <2>2, <2>3 DEF Ends
<1>2. CASE Bootstrap \/ ExportAll \/ BuildBrain \/ Train
  BY <1>2 DEF Bootstrap, ExportAll, BuildBrain, Train, fileVars
<1>3. CASE TrainSteps
  BY <1>3 DEF TrainSteps, Merge, Pretrain, Pretrained, Finetune, Finetuned, fileVars
<1>4. CASE BootstrapExport
  BY <1>4, ExportTypes DEF BootstrapExport, At
<1>5. CASE ExportModel
  BY <1>5, ExportTypes DEF ExportModel, At
<1>6. CASE Exported
  <2>1. Model \in ToSet(Models) /\ job.made \in Files
    BY <1>6, NameOfModel DEF Exported, At, Jobs
  <2> QED
    BY <1>6, <2>1 DEF Exported
<1>7. CASE Replace
  <2>1. Model \in ToSet(Models) /\ Name \in Names
    BY <1>7, NameOfModel DEF Replace, At
  <2> QED
    BY <1>7, <2>1, ConstantTypes DEF Replace
<1>8. CASE Describe \/ Described
  <2>1. Name \in Names
    BY <1>8, NameOfModel DEF Describe, Described, At
  <2>2. engines[Name] \in Files /\ Cut(engines[Name]) \in Files
    BY <2>1, CutTypes
  <2> QED
    BY <1>8, <2>2 DEF Describe, Described
<1>9. CASE CopyEngine \/ Copied
  <2>1. Name \in Names
    BY <1>9, NameOfModel DEF CopyEngine, Copied, At
  <2>2. engines[Name] \in Files /\ Cut(engines[Name]) \in Files
    BY <2>1, CutTypes
  <2> QED
    BY <1>9, <2>2 DEF CopyEngine, Copied
<1>10. CASE CopyMeta \/ MetaCopied
  <2>1. Name \in Names
    BY <1>10, NameOfModel DEF CopyMeta, MetaCopied, At
  <2>2. meta[Name] \in Files /\ Cut(meta[Name]) \in Files
    BY <2>1, CutTypes
  <2> QED
    BY <1>10, <2>2 DEF CopyMeta, MetaCopied
<1>11. CASE NoCopy \/ ExportMissing \/ NextModel
  BY <1>11 DEF NoCopy, ExportMissing, NextModel, fileVars
<1>12. CASE Compile
  <2>1. Name \in Names
    BY <1>12, NameOfModel DEF Compile, At
  <2>2. [NoFile EXCEPT !.model = Name, !.form = "torchscript", !.shape = "any", !.cut = TRUE] \in Files
    BY <2>1 DEF NoFile, Files
  <2> QED
    BY <1>12, <2>2 DEF Compile
<1>13. CASE Saved
  <2>1. Name \in Names
    BY <1>13, NameOfModel DEF Saved, At
  <2>2. [engines[Name] EXCEPT !.cut = FALSE] \in Files
    BY <2>1, CutTypes
  <2>3. engines' = [engines EXCEPT ![Name] = [engines[Name] EXCEPT !.cut = FALSE]]
    BY <1>13, <2>1 DEF Saved
  <2> QED
    BY <1>13, <2>2, <2>3 DEF Saved
<1> QED
  BY <1>1, <1>2, <1>3, <1>4, <1>5, <1>6, <1>7, <1>8, <1>9, <1>10, <1>11, <1>12, <1>13, Moves
     DEF BootstrapSteps, ExportSteps, BrainSteps

\* The runs of the training keep their types, and the versions grow.
TrainTypes == trained \in [pretrain : Seq(Runs), finetune : Seq(Runs)] /\ version \in Nat

LEMMA FillTypes ==
  ASSUME TrainTypes, NEW stage \in {"pretrain", "finetune"}, NEW base \in Nat, Fill(stage, base)
  PROVE  /\ TrainTypes' /\ trained'[stage] \in Seq(Runs) /\ Len(trained'[stage]) = Len(trained[stage])
         /\ \A other \in {"pretrain", "finetune"} \ {stage} : trained'[other] = trained[other]
<1> DEFINE run == [version |-> version + 1, base |-> base]
           filled == [trained[stage] EXCEPT ![Len(trained[stage])] = run]
<1>1. run \in Runs /\ trained[stage] \in Seq(Runs)
  BY DEF Runs, TrainTypes
<1>2. trained' = [trained EXCEPT ![stage] = filled] /\ version' = version + 1
  BY DEF Fill
<1> HIDE DEF run
<1>3. filled \in Seq(Runs) /\ Len(filled) = Len(trained[stage])
  <2> DEFINE old == trained[stage]
  <2>1. old \in Seq(Runs)
    BY <1>1
  <2> HIDE DEF old
  <2>2. CASE Len(old) = 0
    <3>1. Len(old) \notin DOMAIN old /\ [old EXCEPT ![Len(old)] = run] = old
      BY <2>1, <2>2
    <3> QED
      BY <2>1, <3>1 DEF old
  <2>3. CASE Len(old) # 0
    <3>1. Len(old) \in 1 .. Len(old)
      BY <2>1, <2>3
    <3> QED
      BY <1>1, <2>1, <3>1, ExceptSeq DEF old
  <2> QED
    BY <2>2, <2>3
<1> HIDE DEF filled
<1>4. trained'[stage] = filled
  BY <1>2 DEF TrainTypes
<1> QED
  BY <1>2, <1>3, <1>4 DEF TrainTypes

LEMMA OpenTypes ==
  ASSUME TrainTypes, NEW stage \in {"pretrain", "finetune"}, Open(stage)
  PROVE  /\ trained' \in [pretrain : Seq(Runs), finetune : Seq(Runs)]
         /\ trained'[stage] = Append(trained[stage], NoWeights)
         /\ \A other \in {"pretrain", "finetune"} \ {stage} : trained'[other] = trained[other]
<1>1. NoWeights \in Runs
  BY DEF NoWeights, Runs
<1>2. trained' = [trained EXCEPT ![stage] = Append(trained[stage], NoWeights)]
  BY DEF Open
<1>3. CASE stage = "pretrain"
  <2>1. trained' = [trained EXCEPT !.pretrain = Append(trained.pretrain, NoWeights)]
    BY <1>2, <1>3
  <2>2. Append(trained.pretrain, NoWeights) \in Seq(Runs)
    BY <1>1 DEF TrainTypes
  <2> QED
    BY <1>3, <2>1, <2>2 DEF TrainTypes
<1>4. CASE stage = "finetune"
  <2>1. trained' = [trained EXCEPT !.finetune = Append(trained.finetune, NoWeights)]
    BY <1>2, <1>4
  <2>2. Append(trained.finetune, NoWeights) \in Seq(Runs)
    BY <1>1 DEF TrainTypes
  <2> QED
    BY <1>4, <2>1, <2>2 DEF TrainTypes
<1> QED
  BY <1>3, <1>4

LEMMA StepTrainTypes ==
  ASSUME TypeInv, [Next]_vars
  PROVE  TrainTypes'
<1>1. TrainTypes
  BY DEF TypeInv, TypeOK, TrainTypes
<1>2. CASE UNCHANGED <<trained, version>>
  BY <1>1, <1>2 DEF TrainTypes
<1>3. CASE Pretrain
  BY <1>1, <1>3, OpenTypes DEF Pretrain, TrainTypes
<1>4. CASE Pretrained
  BY <1>1, <1>4, FillTypes DEF Pretrained
<1>5. CASE Finetune
  BY <1>1, <1>5, OpenTypes DEF Finetune, TrainTypes
<1>6. CASE Finetuned
  <2>1. job.made.version \in Nat
    BY DEF TypeInv, TypeOK, Jobs, Files
  <2> QED
    BY <1>1, <1>6, <2>1, FillTypes DEF Finetuned
<1>7. CASE Still \/ Ends \/ Bootstrap \/ ExportAll \/ BuildBrain \/ Train
  BY <1>2, <1>7 DEF Still, Ends, Kill, RemoveEngine, Bootstrap, ExportAll, BuildBrain, Train, trainVars
<1>8. CASE BootstrapSteps \/ ExportSteps \/ BrainSteps \/ Merge
  BY <1>2, <1>8 DEF BootstrapSteps, ExportSteps, BrainSteps, Merge, BootstrapExport, ExportModel,
       ExportMissing, NextModel, Exported, Replace, Describe, Described, CopyEngine, Copied, CopyMeta,
       MetaCopied, NoCopy, Compile, Saved, trainVars
<1> QED
  BY <1>3, <1>4, <1>5, <1>6, <1>7, <1>8, Moves DEF TrainSteps

\* A script in progress has a type, and something to do.
JobTypes ==
  /\ job \in Jobs
  /\ job.at \notin {"idle", "done"} /\ job.script \in {"bootstrap", "export"}
       => job.todo # <<>> /\ Model \in ToSet(Models)

LEMMA IdleType ==
  /\ Idle \in Jobs /\ Idle.todo = <<>>
  /\ Idle.script = None /\ Idle.at = "idle" /\ Idle.built = [m \in Names |-> NoFile]
BY ConstantTypes, ArtifactsAssumption DEF Idle, Jobs, None, Stages

\* A script that starts.
LEMMA StartTypes ==
  ASSUME TypeInv, Bootstrap \/ ExportAll \/ BuildBrain \/ Train
  PROVE  JobTypes' /\ Todo'
<1> USE IdleType DEF JobTypes, Todo, Jobs
<1>1. CASE Bootstrap
  <2>1. <<Best>> \in Seq(ToSet(Models) \union Networks) /\ Head(<<Best>>) \in ToSet(Models) /\ <<Best>> # <<>>
    BY ConstantTypes
  <2>2. PICK codebase \in BOOLEAN :
          LET run == [Idle EXCEPT !.script = "bootstrap", !.todo = <<Best>>, !.codebase = codebase] IN
          \/ job' = [run EXCEPT !.at = "copy"] \/ job' = [run EXCEPT !.at = "export"]
          \/ job' = [run EXCEPT !.at = "done", !.exit = 1]
    BY <1>1 DEF Bootstrap
  <2> DEFINE run == [Idle EXCEPT !.script = "bootstrap", !.todo = <<Best>>, !.codebase = codebase]
  <2>3. run \in Jobs /\ run.script = "bootstrap" /\ run.todo = <<Best>>
    BY <2>1
  <2>4. \/ job' = [run EXCEPT !.at = "copy"] \/ job' = [run EXCEPT !.at = "export"]
        \/ job' = [run EXCEPT !.at = "done", !.exit = 1]
    BY <2>2
  <2> HIDE IdleType DEF run
  <2>5. job' \in Jobs /\ job'.script = "bootstrap" /\ job'.todo = <<Best>>
    BY <2>3, <2>4 DEF Stages
  <2> QED
    BY <2>1, <2>5 DEF Model
<1>2. CASE ExportAll
  <2>1. PICK codebase \in BOOLEAN, files \in Listings :
          LET run == [Idle EXCEPT !.script = "export", !.todo = files, !.found = ToSet(files),
                                  !.codebase = codebase]
          IN  \/ job' = [run EXCEPT !.at = "done", !.exit = 1]
              \/ job' = [run EXCEPT !.at = "export"] /\ files # <<>>
    BY <1>2 DEF ExportAll
  <2>2. files \in Seq(ToSet(Models)) /\ files \in Seq(ToSet(Models) \union Networks)
    BY DEF Listings, SeqOf
  <2>3. ToSet(files) \subseteq ToSet(Models)
    BY DEF Listings
  <2>4. files # <<>> => Head(files) \in ToSet(Models)
    BY <2>2
  <2> DEFINE run == [Idle EXCEPT !.script = "export", !.todo = files, !.found = ToSet(files),
                                 !.codebase = codebase]
  <2>5. run \in Jobs /\ run.script = "export" /\ run.todo = files /\ run.found = ToSet(files)
    BY <2>2, <2>3
  <2>6. \/ job' = [run EXCEPT !.at = "done", !.exit = 1]
        \/ job' = [run EXCEPT !.at = "export"] /\ files # <<>>
    BY <2>1
  <2> HIDE IdleType DEF run
  <2>7. /\ job' \in Jobs /\ job'.script = "export" /\ job'.todo = files /\ job'.found = ToSet(files)
        /\ job'.at # "done" => files # <<>>
    BY <2>5, <2>6 DEF Stages
  <2> HIDE DEF Jobs
  <2> QED
    BY <2>2, <2>4, <2>7 DEF Model
<1>3. CASE BuildBrain
  <2>1. SubSeq(BrainSpecs, 1, Brain) \in Seq(ToSet(Models) \union Networks)
    BY ConstantTypes
  <2> DEFINE brain == SubSeq(BrainSpecs, 1, Brain)
  <2>2. job' = [Idle EXCEPT !.script = "brain", !.todo = brain, !.at = "compile"]
    BY <1>3 DEF BuildBrain
  <2>3. brain \in Seq(Networks) /\ brain # <<>>
    BY ConstantTypes
  <2> HIDE DEF brain
  <2> QED
    BY <2>1, <2>2, <2>3 DEF brain, Stages
<1>4. CASE Train
  <2>1. PICK custom \in Customs :
          LET run == [Idle EXCEPT !.script = "train", !.custom = custom,
                                  !.fresh = trained = [pretrain |-> <<>>, finetune |-> <<>>]]
          IN  \/ job' = [run EXCEPT !.at = "pretrain"] \/ job' = [run EXCEPT !.at = "merge"]
              \/ job' = [run EXCEPT !.at = "done", !.exit = 1]
    BY <1>4 DEF Train
  <2> DEFINE run == [Idle EXCEPT !.script = "train", !.custom = custom,
                                 !.fresh = trained = [pretrain |-> <<>>, finetune |-> <<>>]]
  <2>2. run \in Jobs /\ run.script = "train" /\ run.todo = Idle.todo
    OBVIOUS
  <2>3. \/ job' = [run EXCEPT !.at = "pretrain"] \/ job' = [run EXCEPT !.at = "merge"]
        \/ job' = [run EXCEPT !.at = "done", !.exit = 1]
    BY <2>1
  <2> HIDE IdleType DEF run
  <2>4. job' \in Jobs /\ job'.script = "train" /\ job'.at \in {"pretrain", "merge", "done"}
    BY <2>2, <2>3 DEF Stages
  <2> HIDE DEF Jobs
  <2> QED
    BY <2>4
<1> QED
  BY <1>1, <1>2, <1>3, <1>4

\* A script that goes on keeps all but its place.
Same ==
  /\ job'.script = job.script /\ job'.todo = job.todo /\ job'.found = job.found
  /\ job'.made = job.made /\ job'.built = job.built /\ job'.failures = job.failures
  /\ job'.codebase = job.codebase /\ job'.fresh = job.fresh /\ job'.custom = job.custom

LEMMA GotoKeeps ==
  ASSUME job \in Jobs, NEW at \in Stages, Goto(at)
  PROVE  job' \in Jobs /\ Same /\ job'.at = at
BY DEF Goto, Jobs, Same

LEMMA EndKeeps ==
  ASSUME job \in Jobs, NEW code \in {0, 1}, End(code)
  PROVE  job' \in Jobs /\ Same /\ job'.at = "done" /\ job'.exit = code
BY DEF End, Jobs, Same, Stages

LEMMA StepJobTypes ==
  ASSUME TypeInv, [Next]_vars
  PROVE  JobTypes' /\ Todo'
<1> USE DEF JobTypes, Todo, At, Model, Stages
<1>0. JobTypes /\ Todo
  BY DEF TypeInv, TypeOK
<1>1. CASE Still
  BY <1>0, <1>1 DEF Still, trainVars
<1>2. CASE Ends
  BY <1>2, IdleType DEF Ends, None
<1>3. CASE Bootstrap \/ ExportAll \/ BuildBrain \/ Train
  BY <1>3, StartTypes
<1>4. CASE BootstrapExport \/ ExportModel
  <2>1. PICK shape \in {"square", "any"} : Export(shape)
    BY <1>4 DEF BootstrapExport, ExportModel
  <2>2. job' = [job EXCEPT !.made = job'.made, !.at = "exporting"] /\ job'.made \in Files
    BY <2>1, <1>4, ExportTypes DEF BootstrapExport, ExportModel
  <2>3. job.script \in {"bootstrap", "export"} /\ job.at = "export"
    BY <1>4 DEF BootstrapExport, ExportModel
  <2>4. /\ job'.script = job.script /\ job'.todo = job.todo /\ job'.found = job.found
        /\ job'.at = "exporting" /\ job' \in Jobs
    BY <1>0, <2>2 DEF Jobs
  <2> QED
    BY <1>0, <2>3, <2>4
<1>5. CASE Exported
  <2>1. job' \in Jobs /\ Same
    BY <1>0, <1>5, GotoKeeps, EndKeeps DEF Exported
  <2> QED
    BY <1>0, <1>5, <2>1 DEF Exported, Same
<1>6. CASE Replace
  <2>1. Name \in Names /\ job.made \in Files
    BY <1>0, <1>6, NameOfModel DEF Replace, Jobs
  <2>2. \E at \in {"describe", "copy"} :
          job' = [job EXCEPT !.built = [job.built EXCEPT ![Name] = job.made], !.at = at]
    BY <1>0, <1>6 DEF Replace, Jobs
  <2>3. [job.built EXCEPT ![Name] = job.made] \in [Names -> Files]
    BY <1>0, <2>1 DEF Jobs
  <2>4. /\ job'.script = job.script /\ job'.todo = job.todo /\ job'.found = job.found
        /\ job'.at # "done" /\ job' \in Jobs
    BY <1>0, <2>2, <2>3 DEF Jobs
  <2> QED
    BY <1>0, <1>6, <2>4 DEF Replace
<1>7. CASE Describe \/ CopyEngine \/ CopyMeta \/ MetaCopied \/ NoCopy
  <2>1. job' \in Jobs /\ Same
    BY <1>0, <1>7, GotoKeeps, EndKeeps DEF Describe, CopyEngine, CopyMeta, MetaCopied, NoCopy
  <2>2. job.at \notin {"idle", "done"} /\ job.script \in {"bootstrap", "export", "brain"}
    BY <1>7 DEF Describe, CopyEngine, CopyMeta, MetaCopied, NoCopy
  <2> QED
    BY <1>0, <2>1, <2>2 DEF Same
<1>8. CASE Copied
  <2>1. job' \in Jobs /\ Same
    BY <1>0, <1>8, GotoKeeps DEF Copied
  <2> QED
    BY <1>0, <1>8, <2>1 DEF Copied, Same
<1>9. CASE ExportMissing
  <2>1. job' = [job EXCEPT !.failures = job.failures + 1, !.at = "next"] /\ job.script = "export"
        /\ job.at # "done"
    BY <1>9 DEF ExportMissing
  <2>2. job.failures + 1 \in Nat
    BY <1>0 DEF Jobs
  <2>3. /\ job'.script = job.script /\ job'.todo = job.todo /\ job'.found = job.found /\ job' \in Jobs
    BY <1>0, <2>1, <2>2 DEF Jobs
  <2> QED
    BY <1>0, <2>1, <2>3
<1>10. CASE Described
  <2>1. CASE job.script = "bootstrap"
    BY <1>0, <1>10, <2>1, GotoKeeps DEF Described, Same
  <2>2. CASE job.script = "brain" /\ Len(job.todo) = 1
    BY <1>0, <1>10, <2>2, EndKeeps DEF Described, Same
  <2>3. CASE job.script = "brain" /\ Len(job.todo) # 1
    <3>1. job' = [job EXCEPT !.todo = Tail(job.todo), !.at = "compile"]
      BY <1>10, <2>3 DEF Described
    <3>2. job.todo \in Seq(Networks) /\ job.todo # <<>> /\ job.todo \in Seq(ToSet(Models) \union Networks)
      BY <1>0, <2>3 DEF Jobs
    <3>3. Tail(job.todo) \in Seq(Networks) /\ Tail(job.todo) \in Seq(ToSet(Models) \union Networks)
      BY <3>2, Tails
    <3>4. Tail(job.todo) # <<>>
      <4> DEFINE s == job.todo
      <4>1. s \in Seq(Networks) /\ s # <<>> /\ Len(s) # 1
        BY <2>3, <3>2
      <4> HIDE DEF s
      <4>2. Len(Tail(s)) = Len(s) - 1
        BY <4>1, HeadTailProperties
      <4>3. Len(s) \in Nat \ {0} /\ Len(<<>>) = 0
        BY <4>1, EmptySeq
      <4>4. Tail(s) # <<>>
        BY <4>1, <4>2, <4>3
      <4> QED
        BY <4>4 DEF s
    <3> QED
      BY <1>0, <2>3, <3>1, <3>3, <3>4 DEF Jobs
  <2> QED
    BY <1>10, <2>1, <2>2, <2>3 DEF Described
<1>11. CASE NextModel
  <2>1. CASE Len(job.todo) > 1
    <3>1. job' = [job EXCEPT !.todo = Tail(job.todo), !.at = "export"] /\ job.script = "export"
      BY <1>11, <2>1 DEF NextModel
    <3>2. /\ job.todo \in Seq(ToSet(Models)) /\ job.todo \in Seq(ToSet(Models) \union Networks)
          /\ job.todo # <<>> /\ Len(job.todo) > 1
      BY <1>0, <1>11, <2>1, <3>1 DEF Jobs, NextModel
    <3>3. /\ Tail(job.todo) \in Seq(ToSet(Models)) /\ Tail(job.todo) # <<>>
          /\ Tail(job.todo) \in Seq(ToSet(Models) \union Networks)
      BY <3>2, MoreLeft
    <3>4. ToSet(Tail(job.todo)) \subseteq job.found /\ Head(Tail(job.todo)) \in ToSet(Models)
      BY <1>0, <3>1, <3>2, <3>3, Tails
    <3> DEFINE rest == Tail(job.todo)
    <3>5. rest \in Seq(ToSet(Models) \union Networks) /\ rest \in Seq(ToSet(Models)) /\ rest # <<>>
          /\ ToSet(rest) \subseteq job.found /\ Head(rest) \in ToSet(Models)
          /\ job' = [job EXCEPT !.todo = rest, !.at = "export"]
      BY <3>1, <3>3, <3>4
    <3> HIDE DEF rest
    <3>6. /\ job' \in Jobs /\ job'.todo = rest /\ job'.at = "export"
          /\ job'.script = job.script /\ job'.found = job.found
      BY <1>0, <3>5 DEF Jobs, Stages
    <3> QED
      BY <1>0, <3>1, <3>5, <3>6
  <2>2. CASE ~(Len(job.todo) > 1)
    <3>1. job' \in Jobs /\ Same /\ job'.at = "done"
      BY <1>0, <1>11, <2>2, EndKeeps DEF NextModel
    <3> QED
      BY <1>0, <1>11, <3>1 DEF Same, NextModel
  <2> QED
    BY <2>1, <2>2
<1>12. CASE Compile
  <2>1. job' \in Jobs /\ Same
    BY <1>0, <1>12, GotoKeeps, EndKeeps DEF Compile
  <2> QED
    BY <1>0, <1>12, <2>1 DEF Compile, Same
<1>13. CASE Saved
  <2>1. Name \in Names
    BY <1>13, NameOfModel DEF Saved
  <2>2. engines[Name] \in Files /\ [engines[Name] EXCEPT !.cut = FALSE] \in Files
    BY <2>1, CutTypes DEF TypeInv, TypeOK
  <2> DEFINE built == [job.built EXCEPT ![Name] = [engines[Name] EXCEPT !.cut = FALSE]]
  <2>3. built \in [Names -> Files]
    BY <1>0, <2>1, <2>2 DEF Jobs
  <2>4. job' = [job EXCEPT !.built = built, !.at = "describe"] /\ job.script = "brain"
    BY <1>0, <1>13 DEF Saved, Jobs
  <2> HIDE DEF built
  <2> QED
    BY <1>0, <2>3, <2>4 DEF Jobs
<1>14. CASE Merge \/ Pretrain \/ Pretrained \/ Finetuned
  <2>1. job' \in Jobs /\ Same
    BY <1>0, <1>14, GotoKeeps, EndKeeps DEF Merge, Pretrain, Pretrained, Finetuned
  <2>2. job.script = "train" /\ job'.script = "train"
    BY <1>14, <2>1 DEF Merge, Pretrain, Pretrained, Finetuned, Same
  <2>3. job'.at \in {"pretraining", "finetune"} => trained'.pretrain # <<>>
    <3>1. TrainTypes
      BY DEF TypeInv, TypeOK, TrainTypes
    <3>2. CASE Merge
      BY <1>0, <3>2, GotoKeeps DEF Merge
    <3>3. CASE Pretrain
      BY <3>1, <3>3, OpenTypes DEF Pretrain, TrainTypes
    <3>4. CASE Pretrained
      BY <1>0, <3>1, <3>4, FillTypes DEF Pretrained, TrainTypes
    <3>5. CASE Finetuned
      BY <1>0, <3>5, EndKeeps DEF Finetuned
    <3> QED
      BY <1>14, <3>2, <3>3, <3>4, <3>5
  <2> QED
    BY <2>1, <2>2, <2>3
<1>15. CASE Finetune
  <2>1. CASE Planned("pretrain") = NoWeights
    BY <1>0, <1>15, <2>1, EndKeeps DEF Finetune, Same
  <2>2. CASE Planned("pretrain") # NoWeights
    <3>1. Planned("pretrain").version \in Nat
      <4>1. trained.pretrain \in Seq(Runs) /\ trained.pretrain # <<>>
        BY <1>0, <1>15 DEF Finetune, TypeInv, TypeOK
      <4>2. trained.pretrain[1] \in Runs
        BY <4>1
      <4> QED
        BY <4>2 DEF Planned, Runs
    <3>2. [job.made EXCEPT !.version = Planned("pretrain").version] \in Files
      BY <1>0, <3>1 DEF Jobs, Files
    <3>3. job' = [job EXCEPT !.at = "finetuning",
                             !.made = [job.made EXCEPT !.version = Planned("pretrain").version]]
          /\ job.script = "train"
      BY <1>0, <1>15, <2>2 DEF Finetune, Jobs
    <3> QED
      BY <1>0, <3>2, <3>3 DEF Jobs
  <2> QED
    BY <2>1, <2>2
<1> QED
  BY <1>1, <1>2, <1>3, <1>4, <1>5, <1>6, <1>7, <1>8, <1>9, <1>10, <1>11, <1>12, <1>13, <1>14, <1>15, Moves
     DEF BootstrapSteps, ExportSteps, BrainSteps, TrainSteps

LEMMA TypesInductive ==
  ASSUME TypeInv, [Next]_vars
  PROVE  TypeInv'
<1>1. FileTypes' /\ TrainTypes' /\ JobTypes' /\ Todo'
  BY StepFileTypes, StepTrainTypes, StepJobTypes
<1>2. weights' \in [ToSet(Models) -> Nat]
  <2>1. CASE Deploy
    <3>1. PICK v \in {0} \union
                       {Planned(stage).version : stage \in {s \in DOMAIN trained : trained[s] # <<>>}} :
            weights' = [weights EXCEPT ![Best] = v]
      BY <2>1 DEF Deploy
    <3>2. \A s \in DOMAIN trained : trained[s] # <<>> => Planned(s).version \in Nat
      <4>1. TAKE s \in DOMAIN trained
      <4>2. s \in {"pretrain", "finetune"} /\ trained[s] \in Seq(Runs)
        BY DEF TypeInv, TypeOK
      <4>3. trained[s] # <<>> => trained[s][1] \in Runs
        BY <4>2
      <4> QED
        BY <4>3 DEF Planned, Runs
    <3>3. v \in Nat
      BY <3>1, <3>2
    <3> QED
      BY <3>1, <3>3 DEF TypeInv, TypeOK
  <2>2. CASE UNCHANGED weights
    BY <2>2 DEF TypeInv, TypeOK
  <2> QED
    BY <2>1, <2>2 DEF Next, vars, Bootstrap, BootstrapExport, Exported, Replace, Describe, Described,
         CopyEngine, Copied, CopyMeta, MetaCopied, NoCopy, ExportAll, ExportModel, ExportMissing,
         NextModel, BuildBrain, Compile, Saved, Train, Merge, Pretrain, Pretrained, Finetune,
         Finetuned, Kill, RemoveEngine, NewDetector, DetectSynthetic, DetectPt, EngineMissing,
         EngineRefused, EngineFails, EngineAnswers
<1>3. backend' \in Backends \union {"engine"} /\ runtime' \in Files /\ ptModel' \in Nat
  <2> USE DEF TypeInv, TypeOK
  <2>1. PtLoaded \in Nat /\ Engine \in Files
    BY ArtifactsAssumption DEF PtLoaded, Engine, Names, Stems
  <2>2. CASE UNCHANGED <<backend, runtime, ptModel>>
    BY <2>2
  <2>3. CASE NewDetector
    BY <2>3, ConstantTypes DEF NewDetector
  <2>4. ASSUME NEW scene, FallBack(scene)
        PROVE  ptModel' \in Nat
    BY <2>1, <2>4 DEF FallBack
  <2>5. CASE DetectPt
    BY <2>1, <2>5 DEF DetectPt
  <2>6. CASE EngineRefused \/ EngineFails
    BY <2>1, <2>4, <2>6 DEF EngineRefused, EngineFails
  <2>7. CASE EngineAnswers
    BY <2>1, <2>7 DEF EngineAnswers
  <2> QED
    BY <2>2, <2>3, <2>5, <2>6, <2>7 DEF Next, vars, detectorVars, Quiet, Bootstrap, BootstrapExport,
         Exported, Replace, Describe, Described, CopyEngine, Copied, CopyMeta, MetaCopied, NoCopy,
         ExportAll, ExportModel, ExportMissing, NextModel, BuildBrain, Compile, Saved, Train, Merge,
         Pretrain, Pretrained, Finetune, Finetuned, Kill, Deploy, RemoveEngine, DetectSynthetic,
         EngineMissing
<1> QED
  BY <1>1, <1>2, <1>3 DEF TypeInv, TypeOK, FileTypes, TrainTypes, JobTypes

\* The variables of a training, of the files and of a script have their types,
\* whatever is killed and whatever the operator does.
THEOREM TypeCorrect == Spec => []TypeOK
<1>1. Init => TypeInv
  BY InitTypes
<1>2. TypeInv /\ [Next]_vars => TypeInv'
  BY TypesInductive
<1>3. TypeInv => TypeOK
  BY DEF TypeInv
<1> QED
  BY <1>1, <1>2, <1>3, PTL DEF Spec

--------------------------------------------------------------------------------
(* How far a script has come.                                              *)

Ended == job.at = "done" /\ job.exit = 0

\* What is being exported is of the model the script is at, and complete; it is
\* beside the weights once the exporter has returned.
Made ==
  job.at \in {"exporting", "replace"} =>
    /\ job.made.model = Model /\ ~job.made.cut
    /\ job.at = "replace" => beside[Model] = job.made

\* A bootstrap has what it built in its place, then described, then copied,
\* then the description copied.
BootstrapInv ==
  LET s == Stem[Best] IN
  job.script = "bootstrap" =>
    /\ job.built[s] # NoFile =>
         /\ job.at \in {"describe", "describing", "copy", "copying", "copyMeta", "copyingMeta"} \/ Ended
              => engines[s] = job.built[s]
         /\ job.at \in {"copy", "copying", "copyMeta", "copyingMeta"} \/ Ended => meta[s] = engines[s]
    /\ job.at \in {"copyMeta", "copyingMeta"} \/ (Ended /\ job.codebase) => copies[s] = engines[s]
    /\ Ended /\ job.codebase => metaCopy = meta[s]

\* An export without a failure so far has built and copied the engines of the
\* models it is done with; the model it is at has no other model's engine.
Built(m) == engines[Stem[m]] = job.built[Stem[m]] /\ engines[Stem[m]].model = m
Shipped(m) == Built(m) /\ (job.codebase => copies[Stem[m]] = engines[Stem[m]])
ExportInv ==
  job.script = "export" =>
    /\ job.at # "done" => \A m, n \in job.found : Stem[m] = Stem[n] => m = n
    /\ job.at # "done" /\ job.failures = 0 =>
         /\ \A m \in job.found \ ToSet(job.todo) : Shipped(m)
         /\ job.at \in {"copy", "copying"} => Built(Model)
         /\ job.at = "next" => Shipped(Model)
    /\ Ended => \A m \in job.found : Shipped(m)

\* A build of the networks has compiled and described those it is done with.
Compiled(n) == engines[n].model = n /\ ~engines[n].cut
Documented(n) == Compiled(n) /\ meta[n] = engines[n]
BrainInv ==
  job.script = "brain" =>
    /\ job.at # "done" => \A n \in Networks \ ToSet(job.todo) : Documented(n)
    /\ job.at = "save" => engines[Model].model = Model
    /\ job.at \in {"describe", "describing"} => Compiled(Model)
    /\ Ended => \A n \in Networks : Documented(n)

\* A training in a directory without runs is the first of each stage.
Run(v, base) == [version |-> v, base |-> base]
TrainInv ==
  job.script = "train" /\ job.fresh =>
    /\ job.at \in {"merge", "pretrain"} => trained = [pretrain |-> <<>>, finetune |-> <<>>]
    /\ job.at = "pretraining" => trained = [pretrain |-> <<NoWeights>>, finetune |-> <<>>]
    /\ job.at = "finetune" => trained = [pretrain |-> <<Run(version, 0)>>, finetune |-> <<>>]
    /\ job.at = "finetuning" =>
         /\ trained = [pretrain |-> <<Run(version, 0)>>, finetune |-> <<NoWeights>>]
         /\ job.made.version = version
    /\ Ended /\ job.custom # <<>> =>
         trained = [pretrain |-> <<Run(version - 1, 0)>>, finetune |-> <<Run(version, version - 1)>>]

\* The merged dataset of a training is of its configuration.
MergedInv ==
  job.at \in {"pretrain", "pretraining", "finetune"} /\ job.custom # <<>> => merged = Merged(job.custom)

ArtifactsInv ==
  /\ TypeInv /\ Made /\ EnginesWhole
  /\ BootstrapInv /\ ExportInv /\ BrainInv /\ TrainInv /\ MergedInv

\* Where each script starts.
LEMMA Starts ==
  /\ Bootstrap => job'.script = "bootstrap" /\ job'.at \in {"copy", "export", "done"}
  /\ ExportAll => job'.script = "export" /\ job'.at \in {"export", "done"}
  /\ BuildBrain => job'.script = "brain" /\ job'.at = "compile"
  /\ Train => job'.script = "train" /\ job'.at \in {"pretrain", "merge", "done"}
<1>1. Bootstrap => job'.script = "bootstrap" /\ job'.at \in {"copy", "export", "done"}
  BY DEF Bootstrap, Idle
<1>2. ExportAll => job'.script = "export" /\ job'.at \in {"export", "done"}
  BY DEF ExportAll, Idle
<1>3. BuildBrain => job'.script = "brain" /\ job'.at = "compile"
  BY DEF BuildBrain, Idle
<1>4. Train => job'.script = "train" /\ job'.at \in {"pretrain", "merge", "done"}
  BY DEF Train, Idle
<1> QED
  BY <1>1, <1>2, <1>3, <1>4

\* No step goes on with another script than the one that runs.
LEMMA Scripts ==
  ASSUME TypeInv
  PROVE  /\ Ends => job'.script = None
         /\ Bootstrap \/ BootstrapSteps => job'.script = "bootstrap"
         /\ ExportAll \/ ExportSteps => job'.script = "export"
         /\ BuildBrain \/ BrainSteps => job'.script = "brain"
         /\ Train \/ TrainSteps => job'.script = "train"
<1>1. job \in Jobs
  BY DEF TypeInv, TypeOK
<1>2. Ends => job'.script = None
  BY IdleType DEF Ends
<1>7. BootstrapExport \/ ExportModel \/ Exported \/ Replace \/ ExportMissing => job'.script = job.script
  BY <1>1 DEF BootstrapExport, ExportModel, Export, Exported, Replace, ExportMissing, Goto, End, Jobs
<1>8. Describe \/ Described \/ CopyEngine \/ Copied \/ CopyMeta \/ MetaCopied => job'.script = job.script
  BY <1>1 DEF Describe, Described, CopyEngine, Copied, CopyMeta, MetaCopied, Goto, End, Jobs
<1>9. NoCopy \/ NextModel \/ Compile \/ Saved => job'.script = job.script
  BY <1>1 DEF NoCopy, NextModel, Compile, Saved, Goto, End, Jobs
<1>10. Merge \/ Pretrain \/ Pretrained \/ Finetune \/ Finetuned => job'.script = job.script
  BY <1>1 DEF Merge, Pretrain, Pretrained, Finetune, Finetuned, Goto, End, Jobs
<1> QED
  BY <1>2, <1>7, <1>8, <1>9, <1>10, Starts
     DEF BootstrapSteps, ExportSteps, BrainSteps, TrainSteps

\* The engine an exporter returns is the one the script asked for, and it is
\* renamed to the place of that model.
LEMMA MadeStep ==
  ASSUME TypeInv, Made, [Next]_vars
  PROVE  Made'
<1> USE DEF Made, Model
<1>1. job \in Jobs /\ beside \in [ToSet(Models) -> Files]
  BY DEF TypeInv, TypeOK
<1>2. CASE Still
  BY <1>2 DEF Still, fileVars
<1>3. CASE Ends
  BY <1>3, IdleType DEF Ends
<1>4. CASE Bootstrap \/ ExportAll \/ BuildBrain \/ Train
  <2>1. job'.at \notin {"exporting", "replace"}
    BY <1>4, Starts
  <2> QED
    BY <2>1
<1>5. CASE BootstrapExport \/ ExportModel
  <2>1. PICK shape \in {"square", "any"} : Export(shape)
    BY <1>5 DEF BootstrapExport, ExportModel
  <2> DEFINE engine == [model |-> Model, version |-> weights[Model], form |-> "prefixed",
                        shape |-> shape, cut |-> FALSE]
  <2>2. job' = [job EXCEPT !.made = engine, !.at = "exporting"]
    BY <2>1 DEF Export
  <2>3. engine.model = Model /\ ~engine.cut
    OBVIOUS
  <2> HIDE DEF engine
  <2>4. job'.at = "exporting" /\ job'.made = engine /\ job'.todo = job.todo
    BY <1>1, <2>2 DEF Jobs
  <2> QED
    BY <2>3, <2>4
<1>6. CASE Exported
  <2>1. job.at = "exporting" /\ Model \in ToSet(Models)
    BY <1>6, NameOfModel DEF Exported, At
  <2>2. CASE beside' = [beside EXCEPT ![Model] = job.made] /\ Goto("replace")
    BY <1>1, <2>1, <2>2, GotoKeeps DEF Stages, Same
  <2>3. CASE End(1)
    BY <1>1, <2>3, EndKeeps
  <2> QED
    BY <1>6, <2>2, <2>3 DEF Exported
<1>7. CASE Replace \/ ExportMissing \/ NextModel \/ Saved
  <2>1. job'.at \notin {"exporting", "replace"}
    BY <1>1, <1>7 DEF Replace, ExportMissing, NextModel, Saved, End, Jobs
  <2> QED
    BY <2>1
<1>8. CASE Describe \/ Described \/ CopyEngine \/ Copied \/ CopyMeta \/ MetaCopied \/ NoCopy \/ Compile
  <2>1. job'.at \notin {"exporting", "replace"}
    BY <1>1, <1>8 DEF Describe, Described, CopyEngine, Copied, CopyMeta, MetaCopied, NoCopy, Compile,
         Goto, End, Jobs
  <2> QED
    BY <2>1
<1>9. CASE TrainSteps
  <2>1. job'.at \notin {"exporting", "replace"}
    BY <1>1, <1>9 DEF TrainSteps, Merge, Pretrain, Pretrained, Finetune, Finetuned, Goto, End, Jobs
  <2> QED
    BY <2>1
<1> QED
  BY <1>2, <1>3, <1>4, <1>5, <1>6, <1>7, <1>8, <1>9, Moves DEF BootstrapSteps, ExportSteps, BrainSteps

\* An engine of weights is written by a rename alone: the networks' engines,
\* which are written in place, have other names.
LEMMA WholeStep ==
  ASSUME TypeInv, Made, EnginesWhole, [Next]_vars
  PROVE  EnginesWhole'
<1> USE DEF EnginesWhole
<1>1. engines \in [Names -> Files] /\ Stems \subseteq Names
  BY DEF TypeInv, TypeOK, Names
<1>2. CASE UNCHANGED engines
  BY <1>2
<1>3. CASE RemoveEngine
  BY <1>1, <1>3 DEF RemoveEngine, NoFile
<1>4. CASE Replace
  <2>1. ~beside[Model].cut
    BY <1>4 DEF Replace, At, Made
  <2> QED
    BY <1>1, <1>4, <2>1 DEF Replace
<1>5. CASE Compile \/ Saved
  <2>1. Name \in Networks /\ \A s \in Names \ {Name} : engines'[s] = engines[s]
    BY <1>1, <1>5, NameOfModel DEF Compile, Saved, At
  <2> QED
    BY <1>1, <2>1
<1> QED
  BY <1>2, <1>3, <1>4, <1>5 DEF Next, vars, fileVars, Bootstrap, BootstrapExport, Exported, Describe,
       Described, CopyEngine, Copied, CopyMeta, MetaCopied, NoCopy, ExportAll, ExportModel,
       ExportMissing, NextModel, BuildBrain, Train, Merge, Pretrain, Pretrained, Finetune,
       Finetuned, Kill, Deploy, NewDetector, DetectSynthetic, DetectPt, EngineMissing,
       EngineRefused, EngineFails, EngineAnswers

LEMMA BootstrapStep ==
  ASSUME TypeInv, Made, BootstrapInv, [Next]_vars
  PROVE  BootstrapInv'
<1> DEFINE s == Stem[Best]
<1>1. /\ job \in Jobs /\ s \in Names /\ engines \in [Names -> Files] /\ meta \in [Names -> Files]
      /\ copies \in [Names -> Files]
  BY ConstantTypes DEF TypeInv, TypeOK
<1>2. BootstrapSteps => Name = s /\ Model = Best
  BY ConstantTypes, <1>1 DEF BootstrapSteps, TypeInv, Todo, Name, Model
<1>3. CASE Still
  BY <1>3 DEF Still, fileVars, BootstrapInv, Ended
<1>4. CASE Ends \/ ExportAll \/ ExportSteps \/ BuildBrain \/ BrainSteps \/ Train \/ TrainSteps
  <2>1. job'.script # "bootstrap"
    BY <1>4, Scripts DEF None
  <2> QED
    BY <2>1 DEF BootstrapInv
<1>5. CASE Bootstrap
  <2>1. PICK codebase \in BOOLEAN :
          LET run == [Idle EXCEPT !.script = "bootstrap", !.todo = <<Best>>, !.codebase = codebase] IN
          \/ job' = [run EXCEPT !.at = "copy"] \/ job' = [run EXCEPT !.at = "export"]
          \/ job' = [run EXCEPT !.at = "done", !.exit = 1]
    BY <1>5 DEF Bootstrap
  <2>2. /\ job'.built = [m \in Names |-> NoFile]
        /\ job'.at \in {"copy", "export"} \/ (job'.exit = 1 /\ job'.at = "done")
    BY <2>1 DEF Idle
  <2>3. job'.built[s] = NoFile
    BY <1>1, <2>2
  <2> QED
    BY <2>2, <2>3 DEF BootstrapInv, Ended
<1> USE DEF BootstrapInv, Ended, At
<1>6. CASE BootstrapExport
  <2>1. job'.at = "exporting"
    BY <1>1, <1>6 DEF BootstrapExport, Export, Jobs
  <2> QED
    BY <2>1
<1>7. CASE job.script = "bootstrap" /\ Exported
  <2>1. job'.at = "replace" \/ (job'.at = "done" /\ job'.exit = 1)
    BY <1>1, <1>7, GotoKeeps, EndKeeps DEF Exported, Stages
  <2> QED
    BY <2>1
<1>8. CASE job.script = "bootstrap" /\ Replace
  <2>1. job'.at = "describe"
    BY <1>1, <1>8 DEF Replace, Jobs
  <2>2. job'.built[s] = job.made
    <3>1. job' = [job EXCEPT !.built = [job.built EXCEPT ![Name] = job.made], !.at = "describe"]
      BY <1>1, <1>8 DEF Replace, Jobs
    <3>2. job'.built = [job.built EXCEPT ![Name] = job.made]
      BY <1>1, <3>1 DEF Jobs
    <3> QED
      BY <1>1, <1>2, <1>8, <3>2 DEF BootstrapSteps, Jobs
  <2>3. engines'[s] = job.made
    BY <1>1, <1>2, <1>8 DEF Replace, Made, BootstrapSteps
  <2> QED
    BY <2>1, <2>2, <2>3
<1>9. CASE job.script = "bootstrap" /\ Describe
  <2>1. job'.at = "describing" /\ Same /\ engines' = engines
    BY <1>1, <1>9, GotoKeeps DEF Describe, Stages
  <2> QED
    BY <1>9, <2>1 DEF Same, Describe
<1>10. CASE job.script = "bootstrap" /\ Described
  <2>1. job'.at = "copy" /\ Same /\ engines' = engines
    BY <1>1, <1>10, GotoKeeps DEF Described, Stages
  <2>2. meta'[s] = engines[s]
    BY <1>1, <1>2, <1>10 DEF Described, BootstrapSteps
  <2> QED
    BY <1>10, <2>1, <2>2 DEF Same, Described
<1>11. CASE job.script = "bootstrap" /\ CopyEngine
  <2>1. job'.at = "copying" /\ Same /\ engines' = engines /\ meta' = meta
    BY <1>1, <1>11, GotoKeeps DEF CopyEngine, Stages
  <2> QED
    BY <1>11, <2>1 DEF Same, CopyEngine
<1>12. CASE job.script = "bootstrap" /\ Copied
  <2>1. job'.at = "copyMeta" /\ Same /\ engines' = engines /\ meta' = meta
    BY <1>1, <1>12, GotoKeeps DEF Copied, Stages
  <2>2. copies'[s] = engines[s]
    BY <1>1, <1>2, <1>12 DEF Copied, BootstrapSteps
  <2> QED
    BY <1>12, <2>1, <2>2 DEF Same, Copied
<1>13. CASE CopyMeta
  <2>1. job'.at = "copyingMeta" /\ Same /\ engines' = engines /\ meta' = meta /\ copies' = copies
    BY <1>1, <1>13, GotoKeeps DEF CopyMeta, Stages
  <2> QED
    BY <1>13, <2>1 DEF Same, CopyMeta
<1>14. CASE MetaCopied
  <2>1. job'.at = "done" /\ Same /\ engines' = engines /\ meta' = meta /\ copies' = copies
    BY <1>1, <1>14, EndKeeps DEF MetaCopied
  <2>2. metaCopy' = meta[s]
    BY <1>2, <1>14 DEF MetaCopied, BootstrapSteps
  <2> QED
    BY <1>14, <2>1, <2>2 DEF Same, MetaCopied
<1>15. CASE job.script = "bootstrap" /\ NoCopy
  <2>1. job'.at = "done" /\ Same /\ engines' = engines /\ meta' = meta /\ ~job.codebase
    BY <1>1, <1>15, EndKeeps DEF NoCopy, fileVars
  <2> QED
    BY <1>15, <2>1 DEF Same, NoCopy
<1> QED
  BY <1>3, <1>4, <1>5, <1>6, <1>7, <1>8, <1>9, <1>10, <1>11, <1>12, <1>13, <1>14, <1>15, Moves
     DEF BootstrapSteps

LEMMA ExportStep ==
  ASSUME TypeInv, Made, ExportInv, [Next]_vars
  PROVE  ExportInv'
<1>1. /\ job \in Jobs /\ engines \in [Names -> Files] /\ copies \in [Names -> Files]
      /\ \A m \in ToSet(Models) : Stem[m] \in Names
  BY ConstantTypes DEF TypeInv, TypeOK
<1>2. ExportSteps =>
        /\ job.at # "done" /\ job.todo \in Seq(ToSet(Models)) /\ job.todo # <<>>
        /\ ToSet(job.todo) \subseteq job.found /\ Model \in job.found /\ Model \in ToSet(job.todo)
        /\ Name = Stem[Model] /\ job.found \subseteq ToSet(Models)
        /\ \A m \in job.found : Stem[m] = Stem[Model] => m = Model
  <2>1. SUFFICES ASSUME ExportSteps PROVE <1>2!2
    OBVIOUS
  <2>2. job.at # "done" /\ job.script = "export"
    BY <2>1 DEF ExportSteps, ExportModel, ExportMissing, Exported, Replace, CopyEngine, Copied,
         NoCopy, NextModel, At
  <2>3. /\ job.todo \in Seq(ToSet(Models)) /\ job.todo # <<>> /\ ToSet(job.todo) \subseteq job.found
        /\ Name = Stem[Model] /\ job.found \subseteq ToSet(Models)
    BY <1>1, <2>2 DEF TypeInv, Todo, Name, Jobs
  <2>4. Model \in ToSet(job.todo)
    BY <2>3, Tails DEF Model
  <2> QED
    BY <2>2, <2>3, <2>4 DEF ExportInv
<1>3. CASE Still
  BY <1>3 DEF Still, fileVars, ExportInv, Ended, Shipped, Built, Model
<1>4. CASE Ends \/ Bootstrap \/ BootstrapSteps \/ BuildBrain \/ BrainSteps \/ Train \/ TrainSteps
  <2>1. job'.script # "export"
    BY <1>4, Scripts DEF None
  <2> QED
    BY <2>1 DEF ExportInv
<1>5. CASE ExportAll
  <2>1. PICK codebase \in BOOLEAN, files \in Listings :
          LET run == [Idle EXCEPT !.script = "export", !.todo = files, !.found = ToSet(files),
                                  !.codebase = codebase]
          IN  job' = IF files = <<>> \/ ~Resolvable(files)
                     THEN [run EXCEPT !.at = "done", !.exit = 1] ELSE [run EXCEPT !.at = "export"]
    BY <1>5 DEF ExportAll
  <2>2. CASE files = <<>> \/ ~Resolvable(files)
    <3>1. job'.at = "done" /\ job'.exit = 1
      BY <2>1, <2>2 DEF Idle
    <3> QED
      BY <3>1 DEF ExportInv, Ended
  <2>3. CASE Resolvable(files) /\ files # <<>>
    <3>1. job'.at = "export" /\ job'.found = ToSet(files) /\ job'.todo = files
      BY <2>1, <2>3 DEF Idle
    <3>2. \A m, n \in ToSet(files) : Stem[m] = Stem[n] => m = n
      BY <2>3 DEF Resolvable, ToSet
    <3> QED
      BY <3>1, <3>2 DEF ExportInv, Ended
  <2> QED
    BY <2>2, <2>3
\* The models that are done with keep their engines and their copies.
<1>6. ASSUME job.script = "export", ExportSteps, job'.at \notin {"done", "next", "copy", "copying"},
             UNCHANGED <<engines, copies>>, Same
      PROVE  ExportInv'
  BY <1>2, <1>6 DEF ExportInv, Ended, Shipped, Built, Same
<1> USE DEF At
<1>7. CASE ExportModel
  <2>1. PICK shape : Export(shape)
    BY <1>7 DEF ExportModel
  <2> DEFINE engine == [model |-> Model, version |-> weights[Model], form |-> "prefixed",
                        shape |-> shape, cut |-> FALSE]
  <2>2. job' = [job EXCEPT !.made = engine, !.at = "exporting"]
    BY <2>1 DEF Export
  <2> HIDE DEF engine
  <2>3. /\ job'.at = "exporting" /\ job'.todo = job.todo /\ job'.found = job.found
        /\ job'.built = job.built /\ job'.failures = job.failures /\ job'.codebase = job.codebase
    BY <1>1, <2>2 DEF Jobs
  <2>4. UNCHANGED <<engines, copies>> /\ job.script = "export" /\ job.at = "export"
    BY <1>7 DEF ExportModel
  <2> QED
    BY <1>2, <2>3, <2>4 DEF ExportInv, Ended, Shipped, Built
<1>8. CASE job.script = "export" /\ Exported
  <2>1. UNCHANGED <<engines, copies>> /\ ExportSteps
    BY <1>8 DEF Exported, ExportSteps
  <2>2. CASE Goto("replace")
    BY <1>1, <1>6, <1>8, <2>1, <2>2, GotoKeeps DEF Stages
  <2>3. CASE End(1)
    BY <1>1, <2>3, EndKeeps DEF ExportInv, Ended
  <2> QED
    BY <1>8, <2>2, <2>3 DEF Exported
<1>9. CASE job.script = "export" /\ Replace
  <2> DEFINE built == [job.built EXCEPT ![Name] = job.made]
  <2>1. job' = [job EXCEPT !.built = built, !.at = "copy"]
    BY <1>1, <1>9 DEF Replace, Jobs
  <2> HIDE DEF built
  <2>2. /\ job'.built = built /\ job'.at = "copy" /\ job'.todo = job.todo /\ job'.found = job.found
        /\ job'.failures = job.failures /\ job'.codebase = job.codebase
    BY <1>1, <2>1 DEF Jobs
  <2>3. ExportSteps /\ copies' = copies
    BY <1>9 DEF ExportSteps, Replace
  <2>4. Built(Model)'
    <3>1. engines'[Stem[Model]] = job.made /\ job.made.model = Model
      BY <1>1, <1>2, <1>9, <2>3 DEF Replace, Made
    <3>2. built[Stem[Model]] = job.made
      BY <1>1, <1>2, <2>3 DEF built, Jobs
    <3> QED
      BY <2>2, <3>1, <3>2 DEF Built, Model
  <2>5. \A m \in job.found \ ToSet(job.todo) : Shipped(m) => Shipped(m)'
    <3>1. TAKE m \in job.found \ ToSet(job.todo)
    <3>2. Stem[m] # Stem[Model] /\ Stem[m] \in Names
      BY <1>1, <1>2, <2>3
    <3>3. engines'[Stem[m]] = engines[Stem[m]]
      BY <1>1, <1>2, <1>9, <2>3, <3>2 DEF Replace
    <3>4. built[Stem[m]] = job.built[Stem[m]]
      BY <1>1, <1>2, <2>3, <3>2 DEF built, Jobs
    <3> QED
      BY <2>2, <2>3, <3>3, <3>4 DEF Shipped, Built
  <2> QED
    BY <1>2, <1>9, <2>2, <2>3, <2>4, <2>5 DEF ExportInv, Ended
<1>10. CASE job.script = "export" /\ CopyEngine
  <2>1. job'.at = "copying" /\ Same /\ engines' = engines /\ job.at = "copy" /\ ExportSteps
    BY <1>1, <1>10, GotoKeeps DEF CopyEngine, Stages, ExportSteps
  <2>2. \A m \in job.found \ ToSet(job.todo) : Shipped(m) => Shipped(m)'
    <3>1. TAKE m \in job.found \ ToSet(job.todo)
    <3>2. Stem[m] # Stem[Model] /\ Stem[m] \in Names
      BY <1>1, <1>2, <2>1
    <3>3. copies'[Stem[m]] = copies[Stem[m]]
      BY <1>1, <1>2, <1>10, <2>1, <3>2 DEF CopyEngine
    <3> QED
      BY <2>1, <3>3 DEF Shipped, Built, Same
  <2>3. Built(Model) => Built(Model)'
    BY <2>1 DEF Built, Same, Model
  <2> QED
    BY <1>2, <1>10, <2>1, <2>2, <2>3 DEF ExportInv, Ended, Same
<1>11. CASE job.script = "export" /\ Copied
  <2>1. job'.at = "next" /\ Same /\ engines' = engines /\ job.at = "copying" /\ ExportSteps
    BY <1>1, <1>11, GotoKeeps DEF Copied, Stages, ExportSteps
  <2>2. \A m \in job.found \ ToSet(job.todo) : Shipped(m) => Shipped(m)'
    <3>1. TAKE m \in job.found \ ToSet(job.todo)
    <3>2. Stem[m] # Stem[Model] /\ Stem[m] \in Names
      BY <1>1, <1>2, <2>1
    <3>3. copies'[Stem[m]] = copies[Stem[m]]
      BY <1>1, <1>2, <1>11, <2>1, <3>2 DEF Copied
    <3> QED
      BY <2>1, <3>3 DEF Shipped, Built, Same
  <2>3. Built(Model) => Shipped(Model)'
    <3>1. copies'[Stem[Model]] = engines[Stem[Model]]
      BY <1>1, <1>2, <1>11, <2>1 DEF Copied
    <3> QED
      BY <2>1, <3>1 DEF Shipped, Built, Same, Model
  <2> QED
    BY <1>2, <1>11, <2>1, <2>2, <2>3 DEF ExportInv, Ended, Same
<1>12. CASE job.script = "export" /\ NoCopy
  <2>1. /\ job'.at = "next" /\ Same /\ UNCHANGED <<engines, copies>> /\ job.at = "copy"
        /\ ExportSteps /\ ~job.codebase
    BY <1>1, <1>12, GotoKeeps DEF NoCopy, Stages, ExportSteps, fileVars
  <2> QED
    BY <1>2, <1>12, <2>1 DEF ExportInv, Ended, Same, Shipped, Built, Model
<1>13. CASE ExportMissing
  <2>1. job' = [job EXCEPT !.failures = job.failures + 1, !.at = "next"] /\ ExportSteps
    BY <1>13 DEF ExportMissing, ExportSteps
  <2>2. job'.at = "next" /\ job'.found = job.found /\ job'.failures = job.failures + 1 /\ job.failures \in Nat
    BY <1>1, <2>1 DEF Jobs
  <2>3. job'.failures # 0
    BY <2>2
  <2> QED
    BY <1>2, <1>13, <2>1, <2>2, <2>3 DEF ExportInv, Ended, ExportMissing
<1>14. CASE NextModel
  <2>1. ExportSteps /\ UNCHANGED <<engines, copies>> /\ job.at = "next" /\ job.script = "export"
    BY <1>14 DEF NextModel, ExportSteps, fileVars
  <2>2. /\ ToSet(job.todo) = {Model} \union ToSet(Tail(job.todo))
    BY <1>2, <2>1, Tails DEF Model
  <2>3. job.failures = 0 => \A m \in job.found \ ToSet(Tail(job.todo)) : Shipped(m)
    BY <1>2, <2>1, <2>2 DEF ExportInv
  <2>4. CASE Len(job.todo) > 1
    <3>1. job' = [job EXCEPT !.todo = Tail(job.todo), !.at = "export"]
      BY <1>14, <2>4 DEF NextModel
    <3>2. /\ job'.todo = Tail(job.todo) /\ job'.at = "export" /\ job'.found = job.found
          /\ job'.built = job.built /\ job'.failures = job.failures /\ job'.codebase = job.codebase
      BY <1>1, <3>1 DEF Jobs
    <3>3. \A m : Shipped(m) <=> Shipped(m)'
      BY <2>1, <3>2 DEF Shipped, Built
    <3> QED
      BY <2>1, <2>3, <3>2, <3>3 DEF ExportInv, Ended
  <2>5. CASE ~(Len(job.todo) > 1)
    <3>1. job'.at = "done" /\ Same /\ (job'.exit = 0 => job.failures = 0)
      BY <1>1, <1>14, <2>5, EndKeeps DEF NextModel
    <3>2. ToSet(Tail(job.todo)) = {}
      <4>1. Len(job.todo) = 1
        <5>1. job.todo \in Seq(ToSet(Models)) /\ job.todo # <<>>
          BY <1>2, <2>1
        <5>2. Len(job.todo) \in Nat \ {0}
          BY <5>1, EmptySeq
        <5> DEFINE n == Len(job.todo)
        <5>3. n \in Nat \ {0} /\ ~(n > 1)
          BY <2>5, <5>2
        <5> HIDE DEF n
        <5>4. n = 1
          BY <5>3
        <5> QED
          BY <5>4 DEF n
      <4> QED
        BY <1>2, <2>1, <4>1 DEF ToSet
    <3>3. \A m : Shipped(m) <=> Shipped(m)'
      BY <2>1, <3>1 DEF Shipped, Built, Same
    <3> QED
      BY <2>1, <2>3, <3>1, <3>2, <3>3 DEF ExportInv, Ended, Same
  <2> QED
    BY <2>4, <2>5
<1> QED
  BY <1>3, <1>4, <1>5, <1>7, <1>8, <1>9, <1>10, <1>11, <1>12, <1>13, <1>14, Moves DEF ExportSteps

LEMMA BrainStep ==
  ASSUME TypeInv, BrainInv, [Next]_vars
  PROVE  BrainInv'
<1>1. job \in Jobs /\ engines \in [Names -> Files] /\ meta \in [Names -> Files] /\ Networks \subseteq Names
  BY ConstantTypes DEF TypeInv, TypeOK
<1>2. BrainSteps =>
        /\ job.script = "brain" /\ job.at # "done" /\ job.todo \in Seq(Networks) /\ job.todo # <<>>
        /\ Model \in Networks /\ Model \in ToSet(job.todo) /\ Name = Model
  BY Tails DEF BrainSteps, Compile, Saved, Describe, Described, At, TypeInv, Todo, Name, Model
<1>3. CASE Still
  BY <1>3 DEF Still, fileVars, BrainInv, Ended, Documented, Compiled, Model
<1>4. CASE Ends \/ Bootstrap \/ BootstrapSteps \/ ExportAll \/ ExportSteps \/ Train \/ TrainSteps
  <2>1. job'.script # "brain"
    BY <1>4, Scripts DEF None
  <2> QED
    BY <2>1 DEF BrainInv
<1>5. CASE BuildBrain
  <2> DEFINE brain == SubSeq(BrainSpecs, 1, Brain)
  <2>1. job' = [Idle EXCEPT !.script = "brain", !.todo = brain, !.at = "compile"]
    BY <1>5 DEF BuildBrain
  <2>2. Networks = ToSet(brain)
    BY DEF Networks
  <2> HIDE DEF brain
  <2>3. job'.at = "compile" /\ job'.todo = brain
    BY <2>1 DEF Idle
  <2> QED
    BY <2>2, <2>3 DEF BrainInv, Ended
\* What concerns the other networks stays.
<1>6. ASSUME BrainSteps,
             \A n \in Networks \ {Model} : engines'[n] = engines[n] /\ meta'[n] = meta[n]
      PROVE  \A n \in Networks \ ToSet(job.todo) : Documented(n)'
  <2>1. TAKE n \in Networks \ ToSet(job.todo)
  <2>2. n # Model /\ Documented(n)
    BY <1>2, <1>6 DEF BrainInv
  <2> QED
    BY <1>6, <2>2 DEF Documented, Compiled
<1> USE DEF At
<1>7. CASE Compile
  <2>1. BrainSteps /\ meta' = meta
    BY <1>7 DEF Compile, BrainSteps
  <2>2. CASE End(1)
    BY <1>1, <2>2, EndKeeps DEF BrainInv, Ended
  <2> DEFINE engine == [NoFile EXCEPT !.model = Name, !.form = "torchscript", !.shape = "any", !.cut = TRUE]
  <2>3. CASE engines' = [engines EXCEPT ![Name] = engine] /\ Goto("save")
    <3>1. engine.model = Model
      BY <1>2, <2>1 DEF NoFile
    <3> HIDE DEF engine
    <3>2. job'.at = "save" /\ Same
      BY <1>1, <2>3, GotoKeeps DEF Stages
    <3>3. engines'[Model].model = Model
      BY <1>1, <1>2, <2>1, <2>3, <3>1
    <3>4. \A n \in Networks \ ToSet(job.todo) : Documented(n)'
      BY <1>1, <1>2, <1>6, <2>1, <2>3
    <3> QED
      BY <1>2, <2>1, <3>2, <3>3, <3>4 DEF BrainInv, Ended, Same, Model
  <2> QED
    BY <1>7, <2>2, <2>3 DEF Compile
<1>8. CASE Saved
  <2>1. BrainSteps /\ meta' = meta /\ job.at = "save"
    BY <1>8 DEF Saved, BrainSteps
  <2> DEFINE saved == [engines[Name] EXCEPT !.cut = FALSE]
  <2>2. job' = [job EXCEPT !.built = [job.built EXCEPT ![Name] = saved], !.at = "describe"]
    BY <1>1, <1>8 DEF Saved, Jobs
  <2>3. engines' = [engines EXCEPT ![Name] = saved]
    BY <1>1, <1>2, <1>8, <2>1 DEF Saved
  <2>4. saved.model = engines[Name].model /\ ~saved.cut
    BY <1>1, <1>2, <2>1 DEF Files
  <2> HIDE DEF saved
  <2>5. job'.at = "describe" /\ job'.todo = job.todo
    BY <1>1, <2>2 DEF Jobs
  <2>6. Compiled(Model)'
    BY <1>1, <1>2, <2>1, <2>3, <2>4, <2>5 DEF BrainInv, Compiled, Model
  <2>7. \A n \in Networks \ ToSet(job.todo) : Documented(n)'
    BY <1>1, <1>2, <1>6, <2>1, <2>3
  <2> QED
    BY <1>2, <2>1, <2>5, <2>6, <2>7 DEF BrainInv, Ended
<1>9. CASE job.script = "brain" /\ Describe
  <2>1. /\ BrainSteps /\ engines' = engines /\ job.at = "describe"
        /\ meta' = [meta EXCEPT ![Name] = Cut(engines[Name])]
    BY <1>9 DEF Describe, BrainSteps
  <2>2. job'.at = "describing" /\ Same
    BY <1>1, <1>9, GotoKeeps DEF Describe, Stages
  <2>3. \A n \in Networks \ ToSet(job.todo) : Documented(n)'
    BY <1>1, <1>2, <1>6, <2>1
  <2> QED
    BY <1>2, <2>1, <2>2, <2>3 DEF BrainInv, Ended, Same, Compiled, Model
<1>10. CASE job.script = "brain" /\ Described
  <2>1. /\ BrainSteps /\ engines' = engines /\ job.at = "describing"
        /\ meta' = [meta EXCEPT ![Name] = engines[Name]]
    BY <1>10 DEF Described, BrainSteps
  <2>2. \A n \in Networks \ ToSet(job.todo) : Documented(n)'
    BY <1>1, <1>2, <1>6, <2>1
  <2>3. engines'[Model].model = Model /\ ~engines'[Model].cut /\ meta'[Model] = engines'[Model]
    BY <1>1, <1>2, <2>1 DEF BrainInv, Compiled
  <2>4. ToSet(job.todo) = {Model} \union ToSet(Tail(job.todo))
    BY <1>2, <2>1, Tails DEF Model
  <2>5. \A n \in Networks \ ToSet(Tail(job.todo)) : Documented(n)'
    BY <2>2, <2>3, <2>4 DEF Documented, Compiled
  <2>6. CASE Len(job.todo) = 1
    <3>1. job'.at = "done"
      BY <1>1, <1>10, <2>6, EndKeeps DEF Described
    <3>2. ToSet(Tail(job.todo)) = {}
      BY <1>2, <2>1, <2>6 DEF ToSet
    <3> QED
      BY <2>5, <3>1, <3>2 DEF BrainInv
  <2>7. CASE Len(job.todo) # 1
    <3>1. job' = [job EXCEPT !.todo = Tail(job.todo), !.at = "compile"]
      BY <1>10, <2>7 DEF Described
    <3>2. job'.todo = Tail(job.todo) /\ job'.at = "compile"
      BY <1>1, <3>1 DEF Jobs
    <3> QED
      BY <2>5, <3>2 DEF BrainInv, Ended
  <2> QED
    BY <2>6, <2>7
<1> QED
  BY <1>3, <1>4, <1>5, <1>7, <1>8, <1>9, <1>10, Moves DEF BrainSteps

LEMMA TrainStep ==
  ASSUME TypeInv, TrainInv, [Next]_vars
  PROVE  TrainInv'
<1>1. job \in Jobs /\ version \in Nat /\ trained \in [pretrain : Seq(Runs), finetune : Seq(Runs)]
  BY DEF TypeInv, TypeOK
<1>2. CASE Still
  BY <1>2 DEF Still, trainVars, TrainInv, Ended
<1>3. CASE Ends \/ Bootstrap \/ BootstrapSteps \/ ExportAll \/ ExportSteps \/ BuildBrain \/ BrainSteps
  <2>1. job'.script # "train"
    BY <1>3, Scripts DEF None
  <2> QED
    BY <2>1 DEF TrainInv
<1>4. CASE Train
  <2>1. PICK custom \in Customs :
          LET run == [Idle EXCEPT !.script = "train", !.custom = custom,
                                  !.fresh = trained = [pretrain |-> <<>>, finetune |-> <<>>]]
          IN  \/ job' = [run EXCEPT !.at = "pretrain"] \/ job' = [run EXCEPT !.at = "merge"]
              \/ job' = [run EXCEPT !.at = "done", !.exit = 1]
    BY <1>4 DEF Train
  <2>2. /\ job'.fresh => trained = [pretrain |-> <<>>, finetune |-> <<>>]
        /\ job'.at \in {"pretrain", "merge"} \/ (job'.at = "done" /\ job'.exit = 1)
    <3> DEFINE first == trained = [pretrain |-> <<>>, finetune |-> <<>>]
    <3>1. \/ job' = [Idle EXCEPT !.script = "train", !.custom = custom, !.fresh = first, !.at = "pretrain"]
          \/ job' = [Idle EXCEPT !.script = "train", !.custom = custom, !.fresh = first, !.at = "merge"]
          \/ job' = [Idle EXCEPT !.script = "train", !.custom = custom, !.fresh = first,
                                 !.at = "done", !.exit = 1]
      BY <2>1
    <3> HIDE DEF first
    <3>2. /\ job'.fresh = first
          /\ job'.at \in {"pretrain", "merge"} \/ (job'.at = "done" /\ job'.exit = 1)
      BY <3>1 DEF Idle
    <3> QED
      BY <3>2 DEF first
  <2>3. trained' = trained
    BY <1>4 DEF Train
  <2> QED
    BY <2>2, <2>3 DEF TrainInv, Ended
<1> USE DEF At
<1>5. CASE Merge
  <2>1. job'.at = "pretrain" /\ Same /\ trained' = trained /\ job.at = "merge" /\ job.script = "train"
    BY <1>1, <1>5, GotoKeeps DEF Merge, Stages
  <2> QED
    BY <2>1 DEF TrainInv, Ended, Same
<1>6. CASE Pretrain
  <2>1. /\ job'.at = "pretraining" /\ Same /\ job.at = "pretrain" /\ job.script = "train"
        /\ trained' = [trained EXCEPT !["pretrain"] = Append(trained["pretrain"], NoWeights)]
    BY <1>1, <1>6, GotoKeeps DEF Pretrain, Open, Stages
  <2>2. job.fresh => trained' = [pretrain |-> <<NoWeights>>, finetune |-> <<>>]
    <3>1. SUFFICES ASSUME job.fresh PROVE trained' = [pretrain |-> <<NoWeights>>, finetune |-> <<>>]
      OBVIOUS
    <3>2. trained = [pretrain |-> <<>>, finetune |-> <<>>]
      BY <2>1, <3>1 DEF TrainInv
    <3>3. Append(<<>>, NoWeights) = <<NoWeights>>
      OBVIOUS
    <3>4. trained' = [trained EXCEPT !.pretrain = Append(trained.pretrain, NoWeights)]
      BY <2>1
    <3> QED
      BY <3>2, <3>3, <3>4
  <2> QED
    BY <2>1, <2>2 DEF TrainInv, Ended, Same
<1>7. CASE Pretrained
  <2>1. job.at = "pretraining" /\ job.script = "train" /\ version' = version + 1
    BY <1>7 DEF Pretrained, Fill
  <2>2. job.fresh => trained' = [pretrain |-> <<Run(version + 1, 0)>>, finetune |-> <<>>]
    <3>1. SUFFICES ASSUME job.fresh PROVE trained' = [pretrain |-> <<Run(version + 1, 0)>>, finetune |-> <<>>]
      OBVIOUS
    <3>2. trained = [pretrain |-> <<NoWeights>>, finetune |-> <<>>]
      BY <2>1, <3>1 DEF TrainInv
    <3>3. trained' = [trained EXCEPT !.pretrain =
                        [trained.pretrain EXCEPT ![Len(trained.pretrain)] = Run(version + 1, 0)]]
      BY <1>7 DEF Pretrained, Fill, Run
    <3>4. [<<NoWeights>> EXCEPT ![1] = Run(version + 1, 0)] = <<Run(version + 1, 0)>>
      OBVIOUS
    <3> QED
      BY <3>2, <3>3, <3>4
  <2>3. CASE job.custom = <<>>
    <3>1. job'.at = "done" /\ Same
      BY <1>1, <1>7, <2>3, EndKeeps DEF Pretrained
    <3> QED
      BY <2>3, <3>1 DEF TrainInv, Same
  <2>4. CASE job.custom # <<>>
    <3>1. job'.at = "finetune" /\ Same
      BY <1>1, <1>7, <2>4, GotoKeeps DEF Pretrained, Stages
    <3> QED
      BY <2>1, <2>2, <3>1 DEF TrainInv, Ended, Same
  <2> QED
    BY <2>3, <2>4
<1>8. CASE Finetune
  <2>1. job.at = "finetune" /\ job.script = "train" /\ version' = version
    BY <1>8 DEF Finetune
  <2>2. CASE End(1)
    <3>1. job'.at = "done" /\ job'.exit = 1
      BY <1>1, <2>2, EndKeeps
    <3> QED
      BY <3>1 DEF TrainInv, Ended
  <2>3. CASE /\ trained' = [trained EXCEPT !["finetune"] = Append(trained["finetune"], NoWeights)]
             /\ job' = [job EXCEPT !.at = "finetuning",
                                   !.made = [job.made EXCEPT !.version = Planned("pretrain").version]]
    <3>1. /\ job'.at = "finetuning" /\ job'.script = "train" /\ job'.fresh = job.fresh
          /\ job'.made.version = Planned("pretrain").version
      BY <1>1, <2>1, <2>3 DEF Jobs, Files
    <3>2. job.fresh => /\ trained' = [pretrain |-> <<Run(version, 0)>>, finetune |-> <<NoWeights>>]
                       /\ Planned("pretrain").version = version
      <4>1. SUFFICES ASSUME job.fresh
                     PROVE  /\ trained' = [pretrain |-> <<Run(version, 0)>>, finetune |-> <<NoWeights>>]
                            /\ Planned("pretrain").version = version
        OBVIOUS
      <4>2. trained = [pretrain |-> <<Run(version, 0)>>, finetune |-> <<>>]
        BY <2>1, <4>1 DEF TrainInv
      <4>3. Append(<<>>, NoWeights) = <<NoWeights>>
        OBVIOUS
      <4>4. trained' = [trained EXCEPT !.finetune = Append(trained.finetune, NoWeights)]
        BY <2>3
      <4>5. Planned("pretrain") = Run(version, 0)
        BY <4>2 DEF Planned
      <4> QED
        BY <4>2, <4>3, <4>4, <4>5 DEF Run
    <3> QED
      BY <2>1, <3>1, <3>2 DEF TrainInv, Ended
  <2> QED
    BY <1>1, <1>8, <2>2, <2>3 DEF Finetune, Open, Jobs
<1>9. CASE Finetuned
  <2>1. /\ job.at = "finetuning" /\ job.script = "train" /\ version' = version + 1
        /\ job'.at = "done" /\ Same
    BY <1>1, <1>9, EndKeeps DEF Finetuned, Fill
  <2>2. job.fresh => trained' = [pretrain |-> <<Run(version, 0)>>, finetune |-> <<Run(version + 1, version)>>]
    <3>1. SUFFICES ASSUME job.fresh
                   PROVE  trained' = [pretrain |-> <<Run(version, 0)>>,
                                      finetune |-> <<Run(version + 1, version)>>]
      OBVIOUS
    <3>2. /\ trained = [pretrain |-> <<Run(version, 0)>>, finetune |-> <<NoWeights>>]
          /\ job.made.version = version
      BY <2>1, <3>1 DEF TrainInv
    <3>3. trained' = [trained EXCEPT !.finetune =
                        [trained.finetune EXCEPT ![Len(trained.finetune)] = Run(version + 1, version)]]
      BY <1>9, <3>2 DEF Finetuned, Fill, Run
    <3>4. [<<NoWeights>> EXCEPT ![1] = Run(version + 1, version)] = <<Run(version + 1, version)>>
      OBVIOUS
    <3> QED
      BY <3>2, <3>3, <3>4
  <2>3. version' - 1 = version
    BY <1>1, <2>1
  <2> QED
    BY <2>1, <2>2, <2>3 DEF TrainInv, Same
<1> QED
  BY <1>2, <1>3, <1>4, <1>5, <1>6, <1>7, <1>8, <1>9, Moves DEF TrainSteps

--------------------------------------------------------------------------------
(* The merged dataset.                                                     *)

\* The merged dataset is made before a training that has custom datasets, and
\* no other script makes one beside it.
LEMMA MergedStep ==
  ASSUME TypeInv, MergedInv, [Next]_vars
  PROVE  MergedInv'
<1> USE DEF MergedInv
<1>1. job \in Jobs
  BY DEF TypeInv, TypeOK
<1>2. CASE Still
  BY <1>2 DEF Still, trainVars
<1>3. CASE Ends
  BY <1>3, IdleType DEF Ends
<1>4. CASE Bootstrap \/ ExportAll \/ BuildBrain
  <2>1. job'.at \notin {"pretrain", "pretraining", "finetune"}
    BY <1>4, Starts
  <2> QED
    BY <2>1
<1>5. CASE BootstrapSteps \/ ExportSteps \/ BrainSteps
  <2>1. BootstrapExport \/ ExportModel \/ Exported \/ Replace \/ ExportMissing
          => job'.at \notin {"pretrain", "pretraining", "finetune"}
    BY <1>1 DEF BootstrapExport, ExportModel, Export, Exported, Replace, ExportMissing, Goto, End, Jobs
  <2>2. Describe \/ Described \/ CopyEngine \/ Copied \/ CopyMeta \/ MetaCopied
          => job'.at \notin {"pretrain", "pretraining", "finetune"}
    BY <1>1 DEF Describe, Described, CopyEngine, Copied, CopyMeta, MetaCopied, Goto, End, Jobs
  <2>3. NoCopy \/ NextModel \/ Compile \/ Saved
          => job'.at \notin {"pretrain", "pretraining", "finetune"}
    BY <1>1 DEF NoCopy, NextModel, Compile, Saved, Goto, End, Jobs
  <2> QED
    BY <1>5, <2>1, <2>2, <2>3 DEF BootstrapSteps, ExportSteps, BrainSteps
<1>6. CASE Train
  <2>1. PICK custom \in Customs, fresh \in BOOLEAN :
          \/ /\ custom = <<>>
             /\ job' = [Idle EXCEPT !.script = "train", !.custom = custom, !.fresh = fresh, !.at = "pretrain"]
          \/ job' = [Idle EXCEPT !.script = "train", !.custom = custom, !.fresh = fresh, !.at = "merge"]
          \/ job' = [Idle EXCEPT !.script = "train", !.custom = custom, !.fresh = fresh,
                                 !.at = "done", !.exit = 1]
    BY <1>6 DEF Train
  <2>2. job'.at \in {"pretrain", "pretraining", "finetune"} => job'.custom = <<>>
    BY <2>1 DEF Idle
  <2> QED
    BY <2>2
<1> USE DEF At
<1>7. CASE Merge
  <2>1. merged' = Merged(job.custom) /\ Same
    BY <1>1, <1>7, GotoKeeps DEF Merge, Stages
  <2> QED
    BY <2>1 DEF Same
<1>8. CASE Pretrain \/ Pretrained
  <2>1. merged' = merged /\ job.at \in {"pretrain", "pretraining"}
    BY <1>8 DEF Pretrain, Pretrained
  <2>2. Same
    BY <1>1, <1>8, GotoKeeps, EndKeeps DEF Pretrain, Pretrained, Stages
  <2> QED
    BY <2>1, <2>2 DEF Same
<1>9. CASE Finetune \/ Finetuned
  <2>1. job'.at \in {"finetuning", "done"}
    BY <1>1, <1>9 DEF Finetune, Finetuned, End, Jobs
  <2> QED
    BY <2>1
<1> QED
  BY <1>2, <1>3, <1>4, <1>5, <1>6, <1>7, <1>8, <1>9, Moves DEF TrainSteps

\* Two names that make one file name begin alike.
LEMMA OnePrefix ==
  ASSUME NEW S, NEW a \in Seq(S), NEW b \in Seq(S), NEW f \in Seq(S), NEW g \in Seq(S),
         a \o f = b \o g, Len(a) <= Len(b)
  PROVE  IsPrefix(a, b)
<1>1. Len(a) \in Nat /\ Len(b) \in Nat
  OBVIOUS
<1>2. \A i \in 1 .. Len(a) : a[i] = b[i]
  <2>1. TAKE i \in 1 .. Len(a)
  <2>2. (a \o f)[i] = a[i] /\ (b \o g)[i] = b[i]
    BY <1>1
  <2> QED
    BY <2>2
<1>3. /\ SubSeq(a, 1, Len(a)) \in Seq(S) /\ Len(SubSeq(a, 1, Len(a))) = Len(a)
      /\ SubSeq(b, 1, Len(a)) \in Seq(S) /\ Len(SubSeq(b, 1, Len(a))) = Len(a)
      /\ \A i \in 1 .. Len(a) : SubSeq(a, 1, Len(a))[i] = a[i] /\ SubSeq(b, 1, Len(a))[i] = b[i]
  BY <1>1
<1>4. SubSeq(a, 1, Len(a)) = SubSeq(b, 1, Len(a))
  BY <1>1, <1>2, <1>3, SeqEqual
<1> QED
  BY <1>4 DEF IsPrefix

\* A file of a dataset that no other has a name for, and one that is merged
\* with its own contents.
Own(datasets, files, k, f) ==
  /\ DOMAIN datasets \subseteq Nat /\ k \in DOMAIN datasets /\ f \in files[k]
  /\ \A j \in DOMAIN datasets : \A g \in files[j] :
       datasets[k].name \o f = datasets[j].name \o g => j = k
Kept(datasets, files, k, f) ==
  LET file == datasets[k].name \o f IN
  /\ file \in DOMAIN MergedFiles(datasets, files)
  /\ MergedFiles(datasets, files)[file] = datasets[k].id

LEMMA OwnKept ==
  ASSUME NEW datasets, NEW files, NEW k, NEW f, Own(datasets, files, k, f)
  PROVE  Kept(datasets, files, k, f)
<1> DEFINE targets(j) == {datasets[j].name \o g : g \in files[j]}
           file == datasets[k].name \o f
           isLast(j) == file \in targets(j) /\ \A i \in DOMAIN datasets : file \in targets(i) => i <= j
           last == CHOOSE j \in DOMAIN datasets : isLast(j)
<1>1. k \in DOMAIN datasets /\ k \in Nat /\ file \in targets(k)
  BY DEF Own
<1>2. \A j \in DOMAIN datasets : file \in targets(j) => j = k
  BY DEF Own
<1>3. isLast(k)
  <2>1. k <= k
    BY <1>1
  <2> HIDE DEF targets, file
  <2> QED
    BY <1>1, <1>2, <2>1
<1>4. file \in UNION {targets(j) : j \in DOMAIN datasets}
  BY <1>1
<1>5. last \in DOMAIN datasets /\ isLast(last)
  <2> HIDE DEF isLast
  <2> QED
    BY <1>1, <1>3
<1>6. last = k
  BY <1>2, <1>5
<1> QED
  BY <1>4, <1>6 DEF MergedFiles, Kept

--------------------------------------------------------------------------------
(* The theorems.                                                           *)

LEMMA ArtifactsInductive ==
  /\ Init => ArtifactsInv
  /\ ArtifactsInv /\ [Next]_vars => ArtifactsInv'
<1>1. ASSUME Init PROVE ArtifactsInv
  <2>1. TypeInv
    BY <1>1, InitTypes
  <2>2. job.at = "idle" /\ job.script = None
    BY <1>1 DEF Init, Idle
  <2>3. EnginesWhole
    BY <1>1 DEF Init, EnginesWhole, NoFile, Names
  <2> QED
    BY <2>1, <2>2, <2>3 DEF ArtifactsInv, Made, BootstrapInv, ExportInv, BrainInv, TrainInv,
       MergedInv, None
<1>2. ASSUME ArtifactsInv, [Next]_vars PROVE ArtifactsInv'
  BY <1>2, TypesInductive, MadeStep, WholeStep, BootstrapStep, ExportStep, BrainStep, TrainStep,
     MergedStep DEF ArtifactsInv
<1> QED
  BY <1>1, <1>2

LEMMA Always == Spec => []ArtifactsInv
BY ArtifactsInductive, PTL DEF Spec

\* The detector never finds half an engine in its place, however many models
\* there are and whichever script is killed when: an engine is renamed to its
\* place when it is complete (ensure_engine and export_model).
THEOREM NoHalfEngine == Spec => []EnginesWhole
<1>1. ArtifactsInv => EnginesWhole
  BY DEF ArtifactsInv
<1> QED
  BY <1>1, Always, PTL

\* A bootstrap that returns leaves the engine directory and the codebase with
\* the same files, and what it built with its own description (ensure_engine).
THEOREM BootstrapLeavesFiles == Spec => []BootstrapDelivers
<1>1. ArtifactsInv => BootstrapDelivers
  BY DEF ArtifactsInv, BootstrapInv, BootstrapDelivers, At, Ended
<1> QED
  BY <1>1, Always, PTL

\* An exit code of 0 means what it says, for any models and networks: each
\* found model's engine is its own and copied, and each network's engine is
\* whole and described (main of export_engine.py, build_brain_engines).
THEOREM SuccessMeansBuilt == Spec => []ExitZeroMeansBuilt
<1>1. ArtifactsInv => ExitZeroMeansBuilt
  BY DEF ArtifactsInv, ExportInv, BrainInv, ExitZeroMeansBuilt, At, Ended, Shipped, Built,
         Documented, Compiled
<1> QED
  BY <1>1, Always, PTL

\* The first training in a directory reports its own weights, fine tuned from
\* those it pretrained (train_detector).
THEOREM FirstTrainingReported == Spec => []FreshRunReported
<1>1. ArtifactsInv => FreshRunReported
  BY DEF ArtifactsInv, TypeInv, TypeOK, TrainInv, FreshRunReported, At, Ended, Planned, Run
<1> QED
  BY <1>1, Always, PTL

\* No picture or label of a merged dataset is another dataset's, for any
\* datasets whose directories' names do not begin alike (build_merged_dataset).
THEOREM PairsStayPairs == Spec => []MergedPairs
<1>1. ASSUME ArtifactsInv PROVE MergedPairs
  <2> DEFINE custom == job.custom
             images == [k \in DOMAIN custom |-> custom[k].images]
             labels == [k \in DOMAIN custom |-> custom[k].labels]
  <2>1. SUFFICES ASSUME job.at \in {"pretrain", "pretraining", "finetune"}, custom # <<>>,
                        \A i, j \in DOMAIN custom : IsPrefix(custom[i].name, custom[j].name) => i = j,
                        NEW d \in ToSet(custom)
                 PROVE  /\ \A f \in d.images : /\ d.name \o f \in DOMAIN merged.images
                                               /\ merged.images[d.name \o f] = d.id
                        /\ \A f \in d.labels : /\ d.name \o f \in DOMAIN merged.labels
                                               /\ merged.labels[d.name \o f] = d.id
    BY DEF MergedPairs
  <2>2. custom \in Customs /\ merged = Merged(custom)
    BY <1>1, <2>1 DEF ArtifactsInv, TypeInv, TypeOK, Jobs, MergedInv
  <2>3. /\ DOMAIN custom \subseteq Nat
        /\ \A k \in DOMAIN custom :
             {custom[k].name} \union custom[k].images \union custom[k].labels \subseteq Seq(STRING)
    <3>1. custom \in Seq(ToSet(custom))
      BY <2>2, ArtifactsAssumption
    <3>2. DOMAIN custom \subseteq Nat
      BY <3>1
    <3>3. \A k \in DOMAIN custom : custom[k] \in ToSet(custom)
      BY DEF ToSet
    <3> QED
      BY <2>2, <3>2, <3>3, ArtifactsAssumption
  <2>4. PICK k \in DOMAIN custom : d = custom[k]
    BY DEF ToSet
  <2> HIDE DEF custom
  <2>5. ASSUME NEW files, \A j \in DOMAIN custom : files[j] \subseteq Seq(STRING), NEW f \in files[k]
        PROVE  /\ d.name \o f \in DOMAIN MergedFiles(custom, files)
               /\ MergedFiles(custom, files)[d.name \o f] = d.id
    <3>1. ASSUME NEW j \in DOMAIN custom, NEW g \in files[j], custom[k].name \o f = custom[j].name \o g
          PROVE  j = k
      <4>1. custom[k].name \in Seq(STRING) /\ custom[j].name \in Seq(STRING)
            /\ f \in Seq(STRING) /\ g \in Seq(STRING)
        BY <2>3, <2>5
      <4>2. Len(custom[k].name) <= Len(custom[j].name) \/ Len(custom[j].name) <= Len(custom[k].name)
        <5>1. Len(custom[k].name) \in Nat /\ Len(custom[j].name) \in Nat
          BY <4>1
        <5> QED
          BY <5>1
      <4>3. IsPrefix(custom[k].name, custom[j].name) \/ IsPrefix(custom[j].name, custom[k].name)
        BY <3>1, <4>1, <4>2, OnePrefix
      <4> QED
        BY <2>1, <4>3
    <3>2. \A j \in DOMAIN custom : \A g \in files[j] :
            custom[k].name \o f = custom[j].name \o g => j = k
      BY <3>1
    <3>3. Own(custom, files, k, f)
      BY <2>3, <2>5, <3>2 DEF Own
    <3>4. Kept(custom, files, k, f)
      BY <3>3, OwnKept
    <3> QED
      BY <2>4, <3>4 DEF Kept
  <2>6. /\ \A j \in DOMAIN custom : images[j] = custom[j].images /\ images[j] \subseteq Seq(STRING)
        /\ \A j \in DOMAIN custom : labels[j] = custom[j].labels /\ labels[j] \subseteq Seq(STRING)
    BY <2>3
  <2>7. merged.images = MergedFiles(custom, images) /\ merged.labels = MergedFiles(custom, labels)
    BY <2>2 DEF Merged
  <2> HIDE DEF images, labels
  <2>8. d.images = images[k] /\ d.labels = labels[k]
    BY <2>4, <2>6
  <2> QED
    BY <2>5, <2>6, <2>7, <2>8
<1>2. ArtifactsInv => MergedPairs
  BY <1>1
<1> QED
  BY <1>2, Always, PTL

--------------------------------------------------------------------------------
(* What the detector yields.                                               *)

\* Boxes of whole numbers, clipped or not.
Boxes == [x : Int, y : Int, w : Int, h : Int, conf : Int, class : Int]

\* What a value is moved to lies between the bounds.
LEMMA BetweenBounds ==
  ASSUME NEW v \in Int, NEW low \in Int, NEW high \in Int, low <= high
  PROVE  /\ Between(v, low, high) \in low .. high
         /\ v \in low .. high => Between(v, low, high) = v
BY DEF Between, Lesser, Greater

\* The pixels that are left when the frame is scaled and scaled back.
LEMMA ScaledBack ==
  ASSUME NEW n \in Nat
  PROVE  /\ n \div Divisor \in Nat
         /\ \A a \in Int : a <= n \div Divisor => a * Divisor <= n
         /\ \A a \in Nat : a * Divisor \in Nat
<1> DEFINE q == n \div Divisor
<1>1. Divisor \in Nat /\ Divisor > 0
  BY DetectorAssumption
<1>2. q \in Nat /\ q * Divisor <= n
  BY <1>1
<1> HIDE DEF q
<1>3. ASSUME NEW a \in Int, a <= q PROVE a * Divisor <= q * Divisor
  BY <1>1, <1>2, <1>3
<1>4. ASSUME NEW a \in Int, a <= q PROVE a * Divisor <= n
  <2>1. a * Divisor \in Int /\ q * Divisor \in Int
    BY <1>1, <1>2
  <2> QED
    BY <1>2, <1>3, <1>4, <2>1
<1>5. ASSUME NEW a \in Nat PROVE a * Divisor \in Nat
  BY <1>1
<1> QED
  BY <1>2, <1>4, <1>5 DEF q

\* A clipped box is in the scaled frame.
LEMMA ClippedInside ==
  ASSUME NEW d \in Boxes
  PROVE  LET c == Clipped(d) IN
         /\ c \in Boxes /\ c.conf = d.conf /\ c.class = d.class
         /\ c.x \in Nat /\ c.y \in Nat /\ c.w \in Nat /\ c.h \in Nat
         /\ c.x + c.w <= Width \div Divisor /\ c.y + c.h <= Height \div Divisor
<1> DEFINE width == Width \div Divisor
           height == Height \div Divisor
           x == Between(d.x, 0, width)
           y == Between(d.y, 0, height)
           w == Between(d.w, 0, width - x)
           h == Between(d.h, 0, height - y)
<1>1. width \in Nat /\ height \in Nat
  BY DetectorAssumption, ScaledBack
<1>2. d.x \in Int /\ d.y \in Int /\ d.w \in Int /\ d.h \in Int
  BY DEF Boxes
<1>3. Clipped(d) = [d EXCEPT !.x = x, !.y = y, !.w = w, !.h = h]
  BY DEF Clipped
<1> HIDE DEF width, height
<1>4. x \in 0 .. width /\ y \in 0 .. height
  <2>1. 0 \in Int /\ width \in Int /\ 0 <= width /\ height \in Int /\ 0 <= height
    BY <1>1
  <2>2. Between(d.x, 0, width) \in 0 .. width
    BY <1>2, <2>1, BetweenBounds
  <2>3. Between(d.y, 0, height) \in 0 .. height
    BY <1>2, <2>1, BetweenBounds
  <2> QED
    BY <2>2, <2>3
<1> HIDE DEF x, y
<1>5. width - x \in Nat /\ height - y \in Nat
  BY <1>1, <1>4
<1>6. w \in 0 .. width - x /\ h \in 0 .. height - y
  <2>1. /\ 0 \in Int /\ width - x \in Int /\ 0 <= width - x
        /\ height - y \in Int /\ 0 <= height - y
    BY <1>5
  <2>2. Between(d.w, 0, width - x) \in 0 .. width - x
    BY <1>2, <2>1, BetweenBounds
  <2>3. Between(d.h, 0, height - y) \in 0 .. height - y
    BY <1>2, <2>1, BetweenBounds
  <2> QED
    BY <2>2, <2>3
<1> HIDE DEF w, h
<1>7. x \in Nat /\ y \in Nat /\ w \in Nat /\ h \in Nat /\ x + w <= width /\ y + h <= height
  <2>1. x \in Nat /\ w \in Nat /\ x + w <= width
    BY <1>1, <1>4, <1>6
  <2>2. y \in Nat /\ h \in Nat /\ y + h <= height
    BY <1>1, <1>4, <1>6
  <2> QED
    BY <2>1, <2>2
<1> DEFINE c == Clipped(d)
<1>8. /\ c \in Boxes /\ c.conf = d.conf /\ c.class = d.class
      /\ c.x = x /\ c.y = y /\ c.w = w /\ c.h = h
  <2>1. c = [x |-> x, y |-> y, w |-> w, h |-> h, conf |-> d.conf, class |-> d.class]
    BY <1>3 DEF Boxes
  <2>2. x \in Int /\ y \in Int /\ w \in Int /\ h \in Int /\ d.conf \in Int /\ d.class \in Int
    BY <1>7 DEF Boxes
  <2> HIDE DEF c
  <2> QED
    BY <2>1, <2>2 DEF Boxes
<1> HIDE DEF c
<1>9. /\ c.x \in Nat /\ c.y \in Nat /\ c.w \in Nat /\ c.h \in Nat
      /\ c.x + c.w <= width /\ c.y + c.h <= height
  BY <1>7, <1>8
<1> QED
  BY <1>8, <1>9 DEF c, width, height

\* A person in the scaled frame.
Found(d) ==
  /\ d \in Boxes /\ d.class = Person /\ d.conf >= Threshold
  /\ d.x \in Nat /\ d.y \in Nat /\ d.w \in Nat /\ d.h \in Nat
  /\ d.x + d.w <= Width \div Divisor /\ d.y + d.h <= Height \div Divisor

\* A person the detector is confident of stays one when it is clipped.
LEMMA ClippedFound ==
  ASSUME NEW d \in Boxes, d.class = Person, d.conf >= Threshold
  PROVE  Found(Clipped(d))
<1> DEFINE c == Clipped(d)
<1>1. /\ c \in Boxes /\ c.conf = d.conf /\ c.class = d.class
      /\ c.x \in Nat /\ c.y \in Nat /\ c.w \in Nat /\ c.h \in Nat
      /\ c.x + c.w <= Width \div Divisor /\ c.y + c.h <= Height \div Divisor
  BY ClippedInside
<1> HIDE DEF c
<1>2. Found(c)
  BY <1>1 DEF Found
<1> QED
  BY <1>2 DEF c

\* Scaled back, it is in the frame.
LEMMA RescaledInside ==
  ASSUME NEW dets, \A d \in dets : Found(d), NEW e \in Rescaled(dets)
  PROVE  e.class = Person /\ e.conf >= Threshold /\ InFrame(e)
<1>1. PICK d \in dets : e = [d EXCEPT !.x = @ * Divisor, !.y = @ * Divisor,
                                     !.w = @ * Divisor, !.h = @ * Divisor]
  BY DEF Rescaled
<1>2. Found(d)
  OBVIOUS
<1>3. /\ e.class = d.class /\ e.conf = d.conf
      /\ e.x = d.x * Divisor /\ e.y = d.y * Divisor /\ e.w = d.w * Divisor /\ e.h = d.h * Divisor
  BY <1>1, <1>2 DEF Found, Boxes
<1>4. /\ d.x \in Nat /\ d.y \in Nat /\ d.w \in Nat /\ d.h \in Nat
      /\ d.x + d.w <= Width \div Divisor /\ d.y + d.h <= Height \div Divisor
  BY <1>2 DEF Found
<1>5. Divisor \in Nat /\ Width \in Nat /\ Height \in Nat
  BY DetectorAssumption
<1>6. /\ d.x * Divisor \in Nat /\ d.y * Divisor \in Nat
      /\ d.w * Divisor \in Nat /\ d.h * Divisor \in Nat
  BY <1>4, <1>5, ScaledBack
<1>7. d.x + d.w \in Int /\ d.y + d.h \in Int
  BY <1>4
<1>8. (d.x + d.w) * Divisor <= Width /\ (d.y + d.h) * Divisor <= Height
  BY <1>4, <1>5, <1>7, ScaledBack
<1>9. /\ (d.x + d.w) * Divisor = d.x * Divisor + d.w * Divisor
      /\ (d.y + d.h) * Divisor = d.y * Divisor + d.h * Divisor
  BY <1>4, <1>5
<1>10. InFrame(e)
  BY <1>3, <1>6, <1>8, <1>9 DEF InFrame
<1> QED
  BY <1>2, <1>3, <1>10 DEF Found

\* A matrix has rows of one length.
Matrix(m) ==
  /\ m \in Seq(Seq(Int))
  /\ \A i, j \in DOMAIN m : Len(m[i]) = Len(m[j])

\* Both layouts of an output are decoded to persons (_postprocess_nms_output,
\* _postprocess_yolo11_raw).
LEMMA NmsFound ==
  ASSUME NEW m, Matrix(m), m # <<>>, Len(m[1]) = 6, NEW d \in NmsDetections(m), d.class = Person
  PROVE  Found(d)
<1>1. PICK r \in ToSet(m) : r[5] >= Threshold /\ d = Clipped(BoxOfRow(r))
  BY DEF NmsDetections
<1>2. r \in Seq(Int) /\ Len(r) = 6
  <2>1. m \in Seq(Seq(Int)) /\ 1 \in DOMAIN m
    BY DEF Matrix
  <2>2. PICK i \in DOMAIN m : r = m[i]
    BY DEF ToSet
  <2> QED
    BY <2>1, <2>2 DEF Matrix
<1> DEFINE b == BoxOfRow(r)
<1>3. r[1] \in Int /\ r[2] \in Int /\ r[3] \in Int /\ r[4] \in Int /\ r[5] \in Int /\ r[6] \in Int
  <2>1. \A i \in 1 .. 6 : r[i] \in Int
    BY <1>2, ElementOfSeq
  <2> QED
    BY <2>1
<1>4. b \in Boxes /\ b.conf = r[5] /\ b.class = r[6]
  BY <1>3 DEF BoxOfRow, Det, Boxes
<1> HIDE DEF b
<1>5. d = Clipped(b) /\ d.class = b.class
  BY <1>1, <1>4, ClippedInside DEF b
<1> QED
  BY <1>1, <1>4, <1>5, ClippedFound

LEMMA SuppressedOf ==
  ASSUME NEW box, NEW d \in Suppressed(box)
  PROVE  \E i \in DOMAIN box : d = box[i]
BY DEF Suppressed

LEMMA RawFound ==
  ASSUME NEW m, Matrix(m), m # <<>> => Len(m[1]) >= 5, NEW d \in RawDetections(m)
  PROVE  Found(d)
<1> DEFINE person(r) == r[5] >= Threshold /\ \A c \in 5 .. Len(r) : r[c] <= r[5]
           of(r) == Det(r[1] - r[3] \div 2, r[2] - r[4] \div 2, r[3], r[4], r[5], Person)
           I == {i \in DOMAIN m : person(m[i])}
           box == [i \in I |-> Clipped(of(m[i]))]
<1>1. d \in Suppressed(box)
  BY DEF RawDetections
<1>2. PICK i \in I : d = Clipped(of(m[i]))
  <2> HIDE DEF box
  <2>1. PICK i \in DOMAIN box : d = box[i]
    BY <1>1, SuppressedOf
  <2> QED
    BY <2>1 DEF box
<1> DEFINE r == m[i]
<1>3. r \in Seq(Int) /\ Len(r) >= 5 /\ Len(r) \in Nat
  <2>1. m \in Seq(Seq(Int)) /\ i \in DOMAIN m /\ m # <<>> /\ 1 \in DOMAIN m
    BY DEF Matrix
  <2>2. Len(m[i]) = Len(m[1])
    BY <2>1 DEF Matrix
  <2> QED
    BY <2>1, <2>2
<1>4. r[5] >= Threshold
  OBVIOUS
<1> DEFINE b == of(r)
<1> HIDE DEF r
<1>5. r[1] \in Int /\ r[2] \in Int /\ r[3] \in Int /\ r[4] \in Int /\ r[5] \in Int
  BY <1>3
<1>6. b \in Boxes /\ b.conf = r[5] /\ b.class = Person
  <2>1. r[1] - r[3] \div 2 \in Int /\ r[2] - r[4] \div 2 \in Int /\ Person \in Int
    BY <1>5 DEF Person
  <2> QED
    BY <1>5, <2>1 DEF Det, Boxes
<1>7. d = Clipped(b)
  BY <1>2 DEF r
<1> HIDE DEF b
<1> QED
  BY <1>4, <1>6, <1>7, ClippedFound

\* A matrix that is turned is one.
LEMMA TurnedMatrix ==
  ASSUME NEW m, Matrix(m), m # <<>>
  PROVE  Matrix(Turned(m))
<1>1. m \in Seq(Seq(Int)) /\ 1 \in DOMAIN m /\ DOMAIN m = 1 .. Len(m) /\ Len(m) \in Nat
  BY DEF Matrix
<1> DEFINE t == Transposed(m)
           n == Len(m[1])
<1>2. m[1] \in Seq(Int) /\ n \in Nat /\ DOMAIN m[1] = 1 .. n
  BY <1>1
<1>3. t = [j \in 1 .. n |-> [i \in 1 .. Len(m) |-> m[i][j]]]
  BY <1>1, <1>2 DEF Transposed
<1>4. ASSUME NEW j \in 1 .. n PROVE [i \in 1 .. Len(m) |-> m[i][j]] \in Seq(Int)
                                  /\ Len([i \in 1 .. Len(m) |-> m[i][j]]) = Len(m)
  <2>1. ASSUME NEW i \in 1 .. Len(m) PROVE m[i][j] \in Int
    <3>1. m[i] \in Seq(Int)
      BY <1>1, ElementOfSeq
    <3>2. Len(m[i]) = n
      BY <1>1 DEF Matrix
    <3> QED
      BY <3>1, <3>2, ElementOfSeq
  <2>2. [i \in 1 .. Len(m) |-> m[i][j]] \in [1 .. Len(m) -> Int]
    BY <2>1
  <2> QED
    <3> DEFINE f == [i \in 1 .. Len(m) |-> m[i][j]]
               k == Len(m)
    <3> HIDE DEF f, k
    <3>1. f \in [1 .. k -> Int] /\ k \in Nat
      BY <1>1, <2>2 DEF f, k
    <3>2. f \in Seq(Int) /\ Len(f) = k
      BY <3>1
    <3> QED
      BY <3>2 DEF f, k
<1> HIDE DEF n
<1>5. t \in Seq(Seq(Int)) /\ DOMAIN t = 1 .. n /\ \A j \in 1 .. n : Len(t[j]) = Len(m)
  <2> HIDE DEF t
  <2>1. t \in [1 .. n -> Seq(Int)]
    BY <1>3, <1>4
  <2>2. \A j \in 1 .. n : Len(t[j]) = Len(m)
    BY <1>3, <1>4
  <2> QED
    BY <1>2, <2>1, <2>2 DEF n
<1> HIDE DEF t
<1>6. Matrix(t)
  BY <1>5 DEF Matrix
<1> QED
  BY <1>6 DEF Turned, t

\* So is whatever is not refused (_postprocess).
LEMMA PostprocessFound ==
  ASSUME NEW m, Matrix(m), ~Malformed(m), NEW d \in Postprocess(m)
  PROVE  Found(d)
<1>1. ~NoData(m) /\ m # <<>>
  BY DEF Postprocess, NoData
<1>2. CASE Len(m[1]) = 6
  BY <1>1, <1>2, NmsFound DEF Postprocess
<1>3. CASE Len(m[1]) # 6
  <2> DEFINE t == Turned(m)
  <2>1. Matrix(t) /\ d \in RawDetections(t) /\ ~(Len(t[1]) < 5)
    BY <1>1, <1>3, TurnedMatrix DEF Postprocess, Malformed
  <2> HIDE DEF t
  <2>2. t # <<>> => Len(t[1]) >= 5
    <3>1. t # <<>> => Len(t[1]) \in Nat
      BY <2>1 DEF Matrix
    <3> QED
      BY <2>1, <3>1
  <2> QED
    BY <2>1, <2>2, RawFound
<1> QED
  BY <1>2, <1>3

\* The objects of a scaled frame are objects.
LEMMA ShrunkObject ==
  ASSUME NEW o \in Objects
  PROVE  LET s == Shrunk(o) IN
         /\ s \in Objects /\ s \in Boxes /\ s.conf = o.conf /\ s.class = o.class
         /\ s.x = o.x \div Divisor /\ s.y = o.y \div Divisor
         /\ s.w = o.w \div Divisor /\ s.h = o.h \div Divisor
<1> DEFINE s == Shrunk(o)
<1>1. Divisor \in Nat \ {0}
  BY DetectorAssumption
<1>2. o.x \in Int /\ o.y \in Int /\ o.w \in Nat /\ o.h \in Nat /\ o.conf \in Int /\ o.class \in Nat
  BY DEF Objects
<1>3. /\ o.x \div Divisor \in Int /\ o.y \div Divisor \in Int
      /\ o.w \div Divisor \in Nat /\ o.h \div Divisor \in Nat
  BY <1>1, <1>2
<1>4. s = [x |-> o.x \div Divisor, y |-> o.y \div Divisor, w |-> o.w \div Divisor,
           h |-> o.h \div Divisor, conf |-> o.conf, class |-> o.class]
  <2> DEFINE part(v) == v \div Divisor
  <2>1. s = [o EXCEPT !.x = part(@), !.y = part(@), !.w = part(@), !.h = part(@)]
    BY DEF Shrunk
  <2> HIDE DEF part, s
  <2>2. s = [x |-> part(o.x), y |-> part(o.y), w |-> part(o.w), h |-> part(o.h),
             conf |-> o.conf, class |-> o.class]
    BY <2>1 DEF Objects
  <2> QED
    BY <2>2 DEF part, s
<1> HIDE DEF s
<1>5. s \in Objects
  BY <1>2, <1>3, <1>4 DEF Objects
<1>6. s \in Boxes
  BY <1>2, <1>3, <1>4 DEF Boxes
<1>7. /\ s.conf = o.conf /\ s.class = o.class
      /\ s.x = o.x \div Divisor /\ s.y = o.y \div Divisor
      /\ s.w = o.w \div Divisor /\ s.h = o.h \div Divisor
  BY <1>4
<1> QED
  BY <1>5, <1>6, <1>7 DEF s

\* The row of an object.
RowOf(o) == << o.x, o.y, o.x + o.w, o.y + o.h, o.conf, o.class >>

\* What an engine returns is a matrix.
LEMMA NmsMatrix ==
  ASSUME NEW scene \in Seq(Objects)
  PROVE  /\ Matrix(NmsOutput(scene))
         /\ DOMAIN NmsOutput(scene) = DOMAIN scene
         /\ NmsOutput(scene) # <<>> => Len(NmsOutput(scene)[1]) = 6
         /\ \A i \in DOMAIN scene : NmsOutput(scene)[i] = RowOf(Shrunk(scene[i]))
<1> DEFINE m == NmsOutput(scene)
           n == Len(scene)
<1>1. n \in Nat /\ DOMAIN scene = 1 .. n /\ \A i \in 1 .. n : scene[i] \in Objects
  BY ElementOfSeq
<1>2. m = [i \in 1 .. n |-> RowOf(Shrunk(scene[i]))]
  BY <1>1 DEF NmsOutput, RowOf
<1>3. ASSUME NEW s \in Objects PROVE RowOf(s) \in Seq(Int) /\ Len(RowOf(s)) = 6
  <2>1. s.x \in Int /\ s.y \in Int /\ s.w \in Int /\ s.h \in Int /\ s.conf \in Int /\ s.class \in Int
    BY DEF Objects
  <2>2. s.x + s.w \in Int /\ s.y + s.h \in Int
    BY <2>1
  <2> QED
    BY <2>1, <2>2 DEF RowOf
<1> HIDE DEF m, n
<1>4. \A i \in 1 .. n : m[i] \in Seq(Int) /\ Len(m[i]) = 6
  BY <1>1, <1>2, <1>3, ShrunkObject
<1>5. m \in [1 .. n -> Seq(Int)]
  BY <1>2, <1>4
<1>6. m \in Seq(Seq(Int)) /\ DOMAIN m = 1 .. n
  BY <1>1, <1>5
<1>7. Matrix(m)
  BY <1>4, <1>6 DEF Matrix
<1>8. m # <<>> => Len(m[1]) = 6
  <2>1. m # <<>> => Len(m) # 0 /\ Len(m) = n
    BY <1>1, <1>6, EmptySeq
  <2>2. m # <<>> => 1 \in 1 .. n
    BY <1>1, <2>1
  <2> QED
    BY <1>4, <2>2
<1> QED
  BY <1>1, <1>2, <1>6, <1>7, <1>8 DEF m

LEMMA RawMatrix ==
  ASSUME NEW scene \in Seq(Objects)
  PROVE  Matrix(RawOutput(scene))
<1> DEFINE n == Len(scene)
           k == Greater(Anchors, n)
           c4 == 4 + Classes
           cell(c, a) ==
             IF a \notin DOMAIN scene THEN 0
             ELSE LET o == Shrunk(scene[a]) IN
                  CASE c = 1 -> o.x + o.w \div 2 [] c = 2 -> o.y + o.h \div 2
                    [] c = 3 -> o.w [] c = 4 -> o.h
                    [] OTHER -> IF c - 5 = o.class THEN o.conf ELSE 0
           m == RawOutput(scene)
<1>1. n \in Nat /\ DOMAIN scene = 1 .. n /\ \A a \in DOMAIN scene : scene[a] \in Objects
  BY ElementOfSeq
<1>2. k \in Nat /\ c4 \in Nat
  BY <1>1, DetectorAssumption DEF Greater
<1>3. m = [c \in 1 .. c4 |-> [a \in 1 .. k |-> cell(c, a)]]
  BY DEF RawOutput
<1>4. ASSUME NEW c \in 1 .. c4, NEW a \in 1 .. k PROVE cell(c, a) \in Int
  <2>1. CASE a \notin DOMAIN scene
    BY <2>1
  <2>2. CASE a \in DOMAIN scene
    <3> DEFINE o == Shrunk(scene[a])
    <3>1. o \in Objects
      BY <1>1, <2>2, ShrunkObject
    <3> HIDE DEF o
    <3>2. o.x \in Int /\ o.y \in Int /\ o.w \in Int /\ o.h \in Int /\ o.conf \in Int
      BY <3>1 DEF Objects
    <3>3. o.x + o.w \div 2 \in Int /\ o.y + o.h \div 2 \in Int
      BY <3>2
    <3>4. cell(c, a) = CASE c = 1 -> o.x + o.w \div 2 [] c = 2 -> o.y + o.h \div 2
                         [] c = 3 -> o.w [] c = 4 -> o.h
                         [] OTHER -> IF c - 5 = o.class THEN o.conf ELSE 0
      BY <2>2 DEF o
    <3> HIDE DEF cell
    <3>5. CASE c \in {1, 2, 3, 4}
      BY <3>2, <3>3, <3>4, <3>5
    <3>6. CASE c \notin {1, 2, 3, 4}
      <4>1. cell(c, a) = IF c - 5 = o.class THEN o.conf ELSE 0
        BY <3>4, <3>6
      <4> QED
        BY <3>2, <4>1
    <3> QED
      BY <3>5, <3>6
  <2> QED
    BY <2>1, <2>2
<1> HIDE DEF n, k, c4, cell, m
<1>5. ASSUME NEW c \in 1 .. c4 PROVE m[c] \in Seq(Int) /\ Len(m[c]) = k
  <2>1. m[c] = [a \in 1 .. k |-> cell(c, a)]
    BY <1>3
  <2>2. m[c] \in [1 .. k -> Int]
    BY <1>4, <2>1
  <2> QED
    BY <1>2, <2>2
<1>6. m \in [1 .. c4 -> Seq(Int)]
  BY <1>3, <1>5
<1>7. m \in Seq(Seq(Int)) /\ DOMAIN m = 1 .. c4
  BY <1>2, <1>6
<1>8. Matrix(m)
  BY <1>5, <1>7 DEF Matrix
<1> QED
  BY <1>8 DEF m

\* What the weights yield.
LEMMA PtOf ==
  ASSUME NEW scene \in Seq(Objects), NEW d
  PROVE  d \in PtDetections(scene) <=>
           \E o \in ToSet(scene) : /\ o.conf >= Threshold /\ o.class = Person
                                   /\ d = Clipped(Shrunk(o))
<1>1. ASSUME NEW o \in ToSet(scene)
      PROVE  /\ o \in Objects /\ Shrunk(o) \in Boxes
             /\ Shrunk(o).conf = o.conf /\ Clipped(Shrunk(o)).class = o.class
  <2>1. o \in Objects
    BY ElementOfSeq DEF ToSet
  <2>2. Shrunk(o) \in Boxes /\ Shrunk(o).conf = o.conf /\ Shrunk(o).class = o.class
    BY <2>1, ShrunkObject
  <2>3. Clipped(Shrunk(o)).class = Shrunk(o).class
    BY <2>2, ClippedInside
  <2> QED
    BY <2>1, <2>2, <2>3
<1>2. d \in PtDetections(scene) <=>
        \E o \in ToSet(scene) : /\ Shrunk(o).conf >= Threshold /\ d = Clipped(Shrunk(o))
                                /\ d.class = Person
  BY DEF PtDetections
<1> QED
  BY <1>1, <1>2

LEMMA PtFound ==
  ASSUME NEW scene \in Seq(Objects), NEW d \in PtDetections(scene)
  PROVE  Found(d)
<1>1. PICK o \in ToSet(scene) : o.conf >= Threshold /\ o.class = Person /\ d = Clipped(Shrunk(o))
  BY PtOf
<1>2. o \in Objects
  BY ElementOfSeq DEF ToSet
<1>3. Shrunk(o) \in Boxes /\ Shrunk(o).conf = o.conf /\ Shrunk(o).class = o.class
  BY <1>2, ShrunkObject
<1> QED
  BY <1>1, <1>3, ClippedFound

\* What is made of an engine's output, or of the weights', are persons in the frame.
LEMMA ReturnedFound ==
  ASSUME NEW scene \in Scenes, NEW r \in Returned(scene), ~Malformed(r.output),
         NEW e \in Rescaled(Postprocess(r.output))
  PROVE  e.class = Person /\ e.conf >= Threshold /\ InFrame(e)
<1>1. Scenes \subseteq Seq(Objects)
  BY ArtifactsAssumption
<1>2. \E other \in Scenes : r.output \in {NmsOutput(other), RawOutput(other)}
  BY DEF Returned
<1>3. Matrix(r.output)
  BY <1>1, <1>2, NmsMatrix, RawMatrix
<1>4. \A d \in Postprocess(r.output) : Found(d)
  BY <1>3, PostprocessFound
<1> QED
  BY <1>4, RescaledInside

LEMMA PtInside ==
  ASSUME NEW scene \in Scenes, NEW e \in Rescaled(PtDetections(scene))
  PROVE  e.class = Person /\ e.conf >= Threshold /\ InFrame(e)
<1>1. scene \in Seq(Objects)
  BY ArtifactsAssumption
<1>2. \A d \in PtDetections(scene) : Found(d)
  BY <1>1, PtFound
<1> QED
  BY <1>2, RescaledInside

\* How the detector comes to an answer.
AnswersPt == \E scene \in Scenes : Answers("pt", Rescaled(PtDetections(scene)), scene)
Tells(scene, r) ==
  /\ backend = "engine" /\ ~Malformed(r.output)
  /\ answer' = [NoAnswer EXCEPT !.backend = backend, !.dets = Rescaled(Postprocess(r.output)),
                                !.scene = scene, !.sent = r.sent]
AnswersEngine == \E scene \in Scenes : \E r \in Returned(scene) : Tells(scene, r)

\* A step that tells of persons tells what the weights or the engine found.
LEMMA DetectorStep ==
  ASSUME [Next]_vars
  PROVE  \/ UNCHANGED answer
         \/ answer'.backend \notin {"pt", "engine"} /\ answer'.sent = None
         \/ AnswersPt \/ AnswersEngine
<1> DEFINE Silent == answer'.backend \notin {"pt", "engine"} /\ answer'.sent = None
<1>1. NoAnswer.backend = None /\ NoAnswer.sent = None
  BY DEF NoAnswer
<1>2. \A e : [NoAnswer EXCEPT !.raised = e].backend = None /\ [NoAnswer EXCEPT !.raised = e].sent = None
  BY DEF NoAnswer
<1>3. None \notin {"pt", "engine"}
  BY DEF None
<1>4. ASSUME NEW scene \in Scenes, FallBack(scene) PROVE Silent \/ AnswersPt
  <2>1. CASE Fallback = "pt" /\ PtLoaded # 0
    BY <1>4, <2>1 DEF FallBack, AnswersPt
  <2>2. CASE ~(Fallback = "pt" /\ PtLoaded # 0)
    <3>1. answer' = [NoAnswer EXCEPT !.raised = "Unavailable"]
      BY <1>4, <2>2 DEF FallBack
    <3> QED
      BY <1>2, <1>3, <3>1
  <2> QED
    BY <2>1, <2>2
<1>5. CASE UNCHANGED vars
  BY <1>5 DEF vars, detectorVars
<1>6. CASE Quiet \/ NewDetector
  <2>1. answer' = NoAnswer
    BY <1>6 DEF Quiet, NewDetector
  <2> QED
    BY <1>1, <1>3, <2>1
<1>7. CASE DetectSynthetic
  <2>1. PICK scene \in Scenes : Answers(backend, SyntheticDetections(scene), scene)
    BY <1>7 DEF DetectSynthetic
  <2>2. backend = "synthetic"
    BY <1>7 DEF DetectSynthetic
  <2>3. answer'.backend = "synthetic" /\ answer'.sent = None
    BY <2>1, <2>2 DEF Answers, NoAnswer
  <2> QED
    BY <2>3
<1>8. CASE DetectPt
  <2>1. CASE PtLoaded = 0
    <3>1. answer' = [NoAnswer EXCEPT !.raised = "FileNotFound"]
      BY <1>8, <2>1 DEF DetectPt
    <3> QED
      BY <1>2, <1>3, <3>1
  <2>2. CASE PtLoaded # 0
    BY <1>8, <2>2 DEF DetectPt, AnswersPt
  <2> QED
    BY <2>1, <2>2
<1>9. CASE EngineMissing
  <2>1. answer' = [NoAnswer EXCEPT !.raised = "FileNotFound"]
    BY <1>9 DEF EngineMissing
  <2> QED
    BY <1>2, <1>3, <2>1
<1>10. CASE EngineRefused \/ EngineFails
  <2>1. PICK scene \in Scenes : FallBack(scene)
    BY <1>10 DEF EngineRefused, EngineFails
  <2> QED
    BY <1>4, <2>1
<1>11. CASE EngineAnswers
  <2>1. PICK scene \in Scenes : \E r \in Returned(scene) :
          answer' = IF Malformed(r.output) THEN [NoAnswer EXCEPT !.raised = "ValueError"]
                    ELSE [NoAnswer EXCEPT !.backend = backend, !.dets = Rescaled(Postprocess(r.output)),
                                          !.scene = scene, !.sent = r.sent]
    BY <1>11 DEF EngineAnswers
  <2>2. PICK r \in Returned(scene) :
          answer' = IF Malformed(r.output) THEN [NoAnswer EXCEPT !.raised = "ValueError"]
                    ELSE [NoAnswer EXCEPT !.backend = backend, !.dets = Rescaled(Postprocess(r.output)),
                                          !.scene = scene, !.sent = r.sent]
    BY <2>1
  <2>3. CASE Malformed(r.output)
    BY <1>2, <1>3, <2>2, <2>3
  <2>4. CASE ~Malformed(r.output)
    BY <1>11, <2>2, <2>4 DEF EngineAnswers, AnswersEngine, Tells
  <2> QED
    BY <2>3, <2>4
<1>12. CASE Bootstrap \/ BootstrapExport \/ Exported \/ Replace \/ Describe \/ Described
            \/ CopyEngine \/ Copied \/ CopyMeta \/ MetaCopied \/ NoCopy
            \/ ExportAll \/ ExportModel \/ ExportMissing \/ NextModel
  <2>1. Quiet
    BY <1>12 DEF Bootstrap, BootstrapExport, Exported, Replace, Describe, Described,
                 CopyEngine, Copied, CopyMeta, MetaCopied, NoCopy, ExportAll, ExportModel,
                 ExportMissing, NextModel
  <2> QED
    BY <1>6, <2>1
<1>13. CASE BuildBrain \/ Compile \/ Saved \/ Train \/ Merge \/ Pretrain \/ Pretrained
            \/ Finetune \/ Finetuned \/ Kill \/ Deploy \/ RemoveEngine
  <2>1. Quiet
    BY <1>13 DEF BuildBrain, Compile, Saved, Train, Merge, Pretrain, Pretrained,
                 Finetune, Finetuned, Kill, Deploy, RemoveEngine
  <2> QED
    BY <1>6, <2>1
<1> QED
  BY <1>5, <1>6, <1>7, <1>8, <1>9, <1>10, <1>11, <1>12, <1>13 DEF Next

\* On every path of the detector, for any frames of whole numbers, what it
\* yields are persons it is confident of, inside the frame (detect).
THEOREM PersonsInsideFrame == Spec => []PersonsOnly
<1>1. Init => PersonsOnly
  BY DEF Init, PersonsOnly, NoAnswer, None
<1>2. ASSUME PersonsOnly, [Next]_vars PROVE PersonsOnly'
  <2>1. CASE UNCHANGED answer
    BY <1>2, <2>1 DEF PersonsOnly, InFrame
  <2>2. CASE answer'.backend \notin {"pt", "engine"}
    BY <2>2 DEF PersonsOnly
  <2>3. CASE AnswersPt
    <3>1. PICK scene \in Scenes : Answers("pt", Rescaled(PtDetections(scene)), scene)
      BY <2>3 DEF AnswersPt
    <3>2. answer'.dets = Rescaled(PtDetections(scene))
      BY <3>1 DEF Answers, NoAnswer
    <3>3. \A e \in answer'.dets : e.class = Person /\ e.conf >= Threshold /\ InFrame(e)
      BY <3>2, PtInside
    <3> QED
      BY <3>3 DEF PersonsOnly, InFrame
  <2>4. CASE AnswersEngine
    <3>1. PICK scene \in Scenes : \E r \in Returned(scene) : Tells(scene, r)
      BY <2>4 DEF AnswersEngine
    <3>2. PICK r \in Returned(scene) : Tells(scene, r)
      BY <3>1
    <3>3. ~Malformed(r.output) /\ answer'.dets = Rescaled(Postprocess(r.output))
      BY <3>2 DEF Tells, NoAnswer
    <3>4. \A e \in answer'.dets : e.class = Person /\ e.conf >= Threshold /\ InFrame(e)
      BY <3>3, ReturnedFound
    <3> QED
      BY <3>4 DEF PersonsOnly, InFrame
  <2> QED
    BY <1>2, <2>1, <2>2, <2>3, <2>4, DetectorStep
<1> QED
  BY <1>1, <1>2, PTL DEF Spec

\* The frame and the objects in it are whole numbers of scaled pixels, and every
\* object has a width and a height: scaling loses nothing, and no row of an
\* engine's output is taken for a corner and a size.
Exact ==
  /\ Width % Divisor = 0 /\ Height % Divisor = 0
  /\ \A scene \in Scenes : \A o \in ToSet(scene) :
       /\ o.x % Divisor = 0 /\ o.y % Divisor = 0 /\ o.w % Divisor = 0 /\ o.h % Divisor = 0
       /\ o.w > 0 /\ o.h > 0

\* A multiple is as it was when it is divided and multiplied again.
LEMMA Multiples ==
  ASSUME NEW v \in Int, v % Divisor = 0
  PROVE  /\ v \div Divisor \in Int /\ v = (v \div Divisor) * Divisor
         /\ v > 0 => v \div Divisor > 0
<1> DEFINE q == v \div Divisor
<1>1. Divisor \in Nat /\ Divisor > 0
  BY DetectorAssumption
<1>2. q \in Int /\ v = q * Divisor
  BY <1>1
<1> HIDE DEF q
<1>3. v > 0 => q > 0
  BY <1>1, <1>2
<1> QED
  BY <1>2, <1>3 DEF q

\* To multiply keeps the order and the differences.
LEMMA Times ==
  ASSUME NEW a \in Int, NEW b \in Int
  PROVE  /\ a * Divisor \in Int
         /\ a < b <=> a * Divisor < b * Divisor
         /\ (b - a) * Divisor = b * Divisor - a * Divisor
<1>1. Divisor \in Int /\ Divisor > 0
  BY DetectorAssumption
<1>2. a < b => a * Divisor < b * Divisor
  BY <1>1
<1>3. a >= b => a * Divisor >= b * Divisor
  BY <1>1
<1> QED
  BY <1>1, <1>2, <1>3

\* To move a value between bounds and to scale are the same in either order.
LEMMA BetweenScaled ==
  ASSUME NEW v \in Int, NEW high \in Int
  PROVE  Between(v, 0, high) * Divisor = Between(v * Divisor, 0, high * Divisor)
<1>1. 0 * Divisor = 0 /\ Divisor \in Int
  BY DetectorAssumption
<1> DEFINE V == v * Divisor
           H == high * Divisor
<1>2. V \in Int /\ H \in Int /\ 0 * Divisor = 0
  BY <1>1, Times
<1>3. /\ v < 0 <=> V < 0
      /\ high < 0 <=> H < 0
      /\ v < high <=> V < H
      /\ 0 < high <=> 0 < H
  BY <1>1, Times
<1> HIDE DEF V, H
<1>4. Between(V, 0, H) = IF V > 0 THEN (IF V < H THEN V ELSE H) ELSE (IF 0 < H THEN 0 ELSE H)
  BY <1>2 DEF Between, Lesser, Greater
<1>5. Between(v, 0, high) = IF v > 0 THEN (IF v < high THEN v ELSE high)
                            ELSE (IF 0 < high THEN 0 ELSE high)
  BY DEF Between, Lesser, Greater
<1>6. 0 < v <=> 0 < V
  BY <1>1, Times DEF V
<1> DEFINE b == Between(v, 0, high)
<1>7. b * Divisor = IF v > 0 THEN (IF v < high THEN V ELSE H) ELSE (IF 0 < high THEN 0 ELSE H)
  <2> HIDE DEF b
  <2>1. \/ b = v /\ v > 0 /\ v < high
        \/ b = high /\ v > 0 /\ ~(v < high)
        \/ b = 0 /\ ~(v > 0) /\ 0 < high
        \/ b = high /\ ~(v > 0) /\ ~(0 < high)
    BY <1>5 DEF b
  <2> QED
    BY <1>1, <2>1 DEF V, H
<1> QED
  BY <1>2, <1>3, <1>4, <1>6, <1>7 DEF V, H

\* A box that is scaled back, and what is in the frame of an object.
Back(d) == [d EXCEPT !.x = @ * Divisor, !.y = @ * Divisor, !.w = @ * Divisor, !.h = @ * Divisor]
Visible(o) ==
  LET x == Between(o.x, 0, Width) y == Between(o.y, 0, Height) IN
  [o EXCEPT !.x = x, !.y = y, !.w = Between(o.w, 0, Width - x), !.h = Between(o.h, 0, Height - y)]

\* An object that is scaled, clipped and scaled back is as much of it as is in the
\* frame.
LEMMA ScaledClippedBack ==
  ASSUME NEW o \in Objects, Width % Divisor = 0, Height % Divisor = 0,
         o.x % Divisor = 0, o.y % Divisor = 0, o.w % Divisor = 0, o.h % Divisor = 0
  PROVE  Back(Clipped(Shrunk(o))) = Visible(o)
<1> DEFINE s == Shrunk(o)
           W == Width \div Divisor
           H == Height \div Divisor
           sx == Between(s.x, 0, W)
           sy == Between(s.y, 0, H)
           sw == Between(s.w, 0, W - sx)
           sh == Between(s.h, 0, H - sy)
           x == Between(o.x, 0, Width)
           y == Between(o.y, 0, Height)
           w == Between(o.w, 0, Width - x)
           h == Between(o.h, 0, Height - y)
<1>1. o.x \in Int /\ o.y \in Int /\ o.w \in Int /\ o.h \in Int /\ Width \in Int /\ Height \in Int
      /\ Divisor \in Int
  BY DetectorAssumption DEF Objects
<1>2. /\ s \in Objects /\ s.conf = o.conf /\ s.class = o.class
      /\ s.x \in Int /\ s.y \in Int /\ s.w \in Int /\ s.h \in Int
      /\ o.x = s.x * Divisor /\ o.y = s.y * Divisor
      /\ o.w = s.w * Divisor /\ o.h = s.h * Divisor
  <2>1. /\ s \in Objects /\ s.conf = o.conf /\ s.class = o.class
        /\ s.x = o.x \div Divisor /\ s.y = o.y \div Divisor
        /\ s.w = o.w \div Divisor /\ s.h = o.h \div Divisor
    BY ShrunkObject
  <2> HIDE DEF s
  <2>2. s.x \in Int /\ o.x = s.x * Divisor
    BY <1>1, <2>1, Multiples
  <2>3. s.y \in Int /\ o.y = s.y * Divisor
    BY <1>1, <2>1, Multiples
  <2>4. s.w \in Int /\ o.w = s.w * Divisor
    BY <1>1, <2>1, Multiples
  <2>5. s.h \in Int /\ o.h = s.h * Divisor
    BY <1>1, <2>1, Multiples
  <2> QED
    BY <2>1, <2>2, <2>3, <2>4, <2>5
<1>3. W \in Int /\ H \in Int /\ Width = W * Divisor /\ Height = H * Divisor
  BY <1>1, Multiples
<1>4. Clipped(s) = [s EXCEPT !.x = sx, !.y = sy, !.w = sw, !.h = sh]
  <2> HIDE DEF s
  <2> QED
    BY DEF Clipped
<1>5. Visible(o) = [o EXCEPT !.x = x, !.y = y, !.w = w, !.h = h]
  BY DEF Visible
<1> HIDE DEF s, W, H
<1>6. sx \in Int /\ sy \in Int
  BY <1>2, <1>3 DEF Between, Lesser, Greater
<1>7. x = sx * Divisor /\ y = sy * Divisor
  BY <1>2, <1>3, BetweenScaled
<1> HIDE DEF x, y, sx, sy
<1>8. /\ W - sx \in Int /\ H - sy \in Int
      /\ Width - x = (W - sx) * Divisor /\ Height - y = (H - sy) * Divisor
  BY <1>3, <1>6, <1>7, Times
<1>9. w = sw * Divisor /\ h = sh * Divisor
  BY <1>2, <1>8, BetweenScaled
<1> HIDE DEF w, h, sw, sh
<1>10. Back(Clipped(s)) = [x |-> x, y |-> y, w |-> w, h |-> h, conf |-> o.conf, class |-> o.class]
  <2>1. Clipped(s) = [x |-> sx, y |-> sy, w |-> sw, h |-> sh, conf |-> o.conf, class |-> o.class]
    <3>1. s \in Objects /\ s.conf = o.conf /\ s.class = o.class
      BY <1>2
    <3>2. Clipped(s) = [x |-> sx, y |-> sy, w |-> sw, h |-> sh, conf |-> s.conf, class |-> s.class]
      BY <1>4, <3>1 DEF Objects
    <3> QED
      BY <3>1, <3>2
  <2> DEFINE m(v) == v * Divisor
             c == Clipped(s)
  <2>2. Back(c) = [c EXCEPT !.x = m(@), !.y = m(@), !.w = m(@), !.h = m(@)]
    BY DEF Back
  <2>3. c = [x |-> sx, y |-> sy, w |-> sw, h |-> sh, conf |-> o.conf, class |-> o.class]
    BY <2>1
  <2> HIDE DEF m, c
  <2>4. Back(c) = [x |-> m(sx), y |-> m(sy), w |-> m(sw), h |-> m(sh),
                   conf |-> o.conf, class |-> o.class]
    BY <2>2, <2>3
  <2>5. m(sx) = x /\ m(sy) = y /\ m(sw) = w /\ m(sh) = h
    BY <1>7, <1>9 DEF m
  <2> QED
    BY <2>4, <2>5 DEF c
<1>11. Visible(o) = [x |-> x, y |-> y, w |-> w, h |-> h, conf |-> o.conf, class |-> o.class]
  BY <1>5 DEF Objects
<1> QED
  BY <1>10, <1>11 DEF s

\* The row of an object with a width and a height is taken for its two corners.
LEMMA RowIsObject ==
  ASSUME NEW o \in Objects, o.w > 0, o.h > 0
  PROVE  BoxOfRow(RowOf(o)) = o
<1>1. /\ o.x \in Int /\ o.y \in Int /\ o.w \in Int /\ o.h \in Int
      /\ o = [x |-> o.x, y |-> o.y, w |-> o.w, h |-> o.h, conf |-> o.conf, class |-> o.class]
  BY DEF Objects
<1> DEFINE r == RowOf(o)
<1>2. /\ r[1] = o.x /\ r[2] = o.y /\ r[3] = o.x + o.w /\ r[4] = o.y + o.h
      /\ r[5] = o.conf /\ r[6] = o.class
  BY DEF RowOf
<1> HIDE DEF r
<1>3. r[3] > r[1] /\ r[4] > r[2] /\ r[3] - r[1] = o.w /\ r[4] - r[2] = o.h
  BY <1>1, <1>2
<1>4. BoxOfRow(r) = Det(r[1], r[2], r[3] - r[1], r[4] - r[2], r[5], r[6])
  BY <1>3 DEF BoxOfRow
<1>5. BoxOfRow(r) = [x |-> o.x, y |-> o.y, w |-> o.w, h |-> o.h, conf |-> o.conf, class |-> o.class]
  BY <1>2, <1>3, <1>4 DEF Det
<1> QED
  BY <1>1, <1>5 DEF r

\* What an engine yields that returns corners, each of an object.
LEMMA NmsOf ==
  ASSUME NEW scene \in Seq(Objects), NEW d,
         \A o \in ToSet(scene) : Shrunk(o).w > 0 /\ Shrunk(o).h > 0
  PROVE  d \in Postprocess(NmsOutput(scene)) <=>
           \E o \in ToSet(scene) : /\ o.conf >= Threshold /\ o.class = Person
                                   /\ d = Clipped(Shrunk(o))
<1> DEFINE m == NmsOutput(scene)
<1>1. /\ DOMAIN m = DOMAIN scene
      /\ m # <<>> => Len(m[1]) = 6
      /\ \A i \in DOMAIN scene : m[i] = RowOf(Shrunk(scene[i]))
  BY NmsMatrix
<1> HIDE DEF m
<1>2. ASSUME NEW o \in ToSet(scene)
      PROVE  LET r == RowOf(Shrunk(o)) IN
             /\ r[5] = o.conf /\ BoxOfRow(r) = Shrunk(o) /\ Clipped(Shrunk(o)).class = o.class
  <2>1. o \in Objects
    BY ElementOfSeq DEF ToSet
  <2> DEFINE s == Shrunk(o)
  <2>2. s \in Objects /\ s \in Boxes /\ s.conf = o.conf /\ s.class = o.class /\ s.w > 0 /\ s.h > 0
    BY <2>1, ShrunkObject
  <2> HIDE DEF s
  <2>3. Clipped(s).class = s.class
    BY <2>2, ClippedInside
  <2>4. BoxOfRow(RowOf(s)) = s
    BY <2>2, RowIsObject
  <2>5. RowOf(s)[5] = s.conf
    BY DEF RowOf
  <2> QED
    BY <2>2, <2>3, <2>4, <2>5 DEF s
<1>3. ToSet(m) = {RowOf(Shrunk(o)) : o \in ToSet(scene)}
  BY <1>1 DEF ToSet
<1>4. d \in NmsDetections(m) /\ d.class = Person <=>
        \E o \in ToSet(scene) : /\ o.conf >= Threshold /\ o.class = Person
                                /\ d = Clipped(Shrunk(o))
  <2>1. d \in NmsDetections(m) <=>
          \E r \in ToSet(m) : r[5] >= Threshold /\ d = Clipped(BoxOfRow(r))
    BY DEF NmsDetections
  <2>2. d \in NmsDetections(m) <=>
          \E o \in ToSet(scene) : RowOf(Shrunk(o))[5] >= Threshold
                                  /\ d = Clipped(BoxOfRow(RowOf(Shrunk(o))))
    BY <1>3, <2>1
  <2> QED
    BY <1>2, <2>2
<1>5. CASE m = <<>>
  <2>1. ToSet(scene) = {}
    BY <1>1, <1>5 DEF ToSet
  <2>2. Postprocess(m) = {}
    BY <1>5 DEF Postprocess, NoData
  <2> QED
    BY <2>1, <2>2 DEF m
<1>6. CASE m # <<>>
  <2>1. d \in Postprocess(m) <=> d \in NmsDetections(m) /\ d.class = Person
    <3>1. ~NoData(m)
      <4>1. m # <<>> /\ Len(m[1]) = 6
        BY <1>1, <1>6
      <4>2. Len(<<>>) = 0
        OBVIOUS
      <4>3. m[1] # <<>>
        BY <4>1, <4>2
      <4> QED
        BY <4>1, <4>3 DEF NoData
    <3> QED
      BY <1>1, <1>6, <3>1 DEF Postprocess
  <2> QED
    BY <1>4, <2>1 DEF m
<1> QED
  BY <1>5, <1>6

\* Scaled back, those are the persons of the frame.
LEMMA PersonsBack ==
  ASSUME Exact, NEW scene \in Scenes, NEW dets,
         \A d : d \in dets <=>
           \E o \in ToSet(scene) : /\ o.conf >= Threshold /\ o.class = Person
                                   /\ d = Clipped(Shrunk(o))
  PROVE  Rescaled(dets) = PersonsOf(scene)
<1> DEFINE persons == {o \in ToSet(scene) : o.class = Person /\ o.conf >= Threshold}
<1>1. Rescaled(dets) = {Back(d) : d \in dets}
  BY DEF Rescaled, Back
<1>2. PersonsOf(scene) = {Visible(o) : o \in persons}
  BY DEF PersonsOf, Visible
<1>3. \A o \in ToSet(scene) : Back(Clipped(Shrunk(o))) = Visible(o)
  <2> SUFFICES ASSUME NEW o \in ToSet(scene) PROVE Back(Clipped(Shrunk(o))) = Visible(o)
    OBVIOUS
  <2>1. scene \in Seq(Objects)
    BY ArtifactsAssumption
  <2>2. o \in Objects
    BY <2>1, ElementOfSeq DEF ToSet
  <2> QED
    BY <2>2, ScaledClippedBack DEF Exact
<1>4. dets = {Clipped(Shrunk(o)) : o \in persons}
  OBVIOUS
<1>5. \A o \in persons : Back(Clipped(Shrunk(o))) = Visible(o)
  BY <1>3
<1> HIDE DEF persons
<1>6. {Back(d) : d \in dets} = {Visible(o) : o \in persons}
  BY <1>4, <1>5
<1> QED
  BY <1>1, <1>2, <1>6

\* Where scaling loses nothing, the weights and an engine that returns boxes by
\* their corners yield the persons of the frame, each as far as it is in the
\* frame, and no other (detect, _infer_pt, _postprocess_nms_output).
THEOREM EveryPersonFound == Exact => (Spec => []PersonsFound)
<1> SUFFICES ASSUME Exact PROVE Spec => []PersonsFound
  OBVIOUS
<1>1. Init => PersonsAll
  BY DEF Init, PersonsAll, NoAnswer, None
<1>2. ASSUME PersonsAll, [Next]_vars PROVE PersonsAll'
  <2>1. CASE UNCHANGED answer
    BY <1>2, <2>1 DEF PersonsAll
  <2>2. CASE answer'.backend \notin {"pt", "engine"} /\ answer'.sent = None
    BY <2>2 DEF PersonsAll, None
  <2>3. CASE AnswersPt
    <3>1. PICK scene \in Scenes : Answers("pt", Rescaled(PtDetections(scene)), scene)
      BY <2>3 DEF AnswersPt
    <3>2. answer'.dets = Rescaled(PtDetections(scene)) /\ answer'.scene = scene
      BY <3>1 DEF Answers, NoAnswer
    <3>3. scene \in Seq(Objects)
      BY ArtifactsAssumption
    <3>4. Rescaled(PtDetections(scene)) = PersonsOf(scene)
      BY <3>3, PtOf, PersonsBack
    <3> QED
      BY <3>2, <3>4 DEF PersonsAll
  <2>4. CASE AnswersEngine
    <3>1. PICK scene \in Scenes : \E r \in Returned(scene) : Tells(scene, r)
      BY <2>4 DEF AnswersEngine
    <3>2. PICK r \in Returned(scene) : Tells(scene, r)
      BY <3>1
    <3>3. /\ answer'.dets = Rescaled(Postprocess(r.output)) /\ answer'.scene = scene
          /\ answer'.sent = r.sent /\ answer'.backend = "engine"
      BY <3>2 DEF Tells, NoAnswer
    <3>4. ASSUME r.sent = "nms" PROVE r.output = NmsOutput(scene)
      BY <3>4 DEF Returned
    <3>5. ASSUME r.sent = "nms" PROVE Rescaled(Postprocess(r.output)) = PersonsOf(scene)
      <4>1. scene \in Seq(Objects)
        BY ArtifactsAssumption
      <4>2. ASSUME NEW o \in ToSet(scene) PROVE Shrunk(o).w > 0 /\ Shrunk(o).h > 0
        <5>1. o \in Objects
          BY <4>1, ElementOfSeq DEF ToSet
        <5>2. /\ o.w \in Int /\ o.h \in Int /\ o.w > 0 /\ o.h > 0
              /\ o.w % Divisor = 0 /\ o.h % Divisor = 0
          BY <5>1 DEF Exact, Objects
        <5>3. o.w \div Divisor > 0 /\ o.h \div Divisor > 0
          BY <5>2, Multiples
        <5> QED
          BY <5>1, <5>3, ShrunkObject
      <4> QED
        BY <3>4, <3>5, <4>1, <4>2, NmsOf, PersonsBack
    <3> QED
      BY <3>3, <3>5 DEF PersonsAll
  <2> QED
    BY <1>2, <2>1, <2>2, <2>3, <2>4, DetectorStep
<1>3. Spec => []PersonsAll
  BY <1>1, <1>2, PTL DEF Spec
<1>4. PersonsOnly /\ PersonsAll => PersonsFound
  BY DEF PersonsFound
<1> QED
  BY <1>3, <1>4, PersonsInsideFrame, PTL
================================================================================
