----------------------------- MODULE EngineArtifacts -----------------------------
(***************************************************************************)
(* How the detector's model reaches the detector: train_detector.py trains *)
(* weights, bootstrap_engine.py or export_engine.py builds an engine from  *)
(* them, build_brain_engines.py builds the engines of the other networks,  *)
(* and the running PersonDetector loads the engine or falls back to the    *)
(* weights.  The scripts share a directory of files and nothing else.  One *)
(* script runs at a time; it may be killed between any two changes of the  *)
(* file system, and the detector runs all the while.                       *)
(***************************************************************************)
EXTENDS Detector

CONSTANTS
  Models,      \* the .pt files under the model root, in the order they are found
  Stem,        \* the stem of each of them
  Present,     \* which of them may be there at first
  Best,        \* CTX_PT_MODEL_PATH
  Customs,     \* the configurations of custom datasets
  Scenes,      \* the frames of the camera: sequences of objects
  Formats,     \* what the exported engine returns: "nms", "raw"
  Backends,    \* the backends a detector is configured with
  Fallback,    \* CTX_ENGINE_FALLBACK_BACKEND: "pt" or none
  Brain,       \* how many of the networks are built, in the order of BrainSpecs
  MaxJobs,     \* bound: scripts started
  MaxChanges  \* bound: weights and engines the operator puts or removes

None == "none"
Stems == {Stem[m] : m \in ToSet(Models)}

\* The networks of build_engine_specs, in its order.
BrainSpecs == << "estimator", "gru_pathway", "tcn_pathway", "attention_pathway",
                 "gnn_pathway", "gated_fusion", "rl_policy" >>
Networks == ToSet(SubSeq(BrainSpecs, 1, Brain))
Names == Stems \union Networks

Objects == [x : Int, y : Int, w : Nat, h : Nat, conf : Int, class : Nat]

\* The weights the detector and the bootstrap use are under the model root.
ASSUME ArtifactsAssumption ==
  Models \in Seq(ToSet(Models)) /\ Best \in ToSet(Models) /\ Brain \in 1 .. Len(BrainSpecs)
  /\ <<>> \in Customs /\ Scenes \subseteq Seq(Objects)
  /\ \A custom \in Customs :
       /\ custom \in Seq(ToSet(custom))
       /\ \A d \in ToSet(custom) : {d.name} \union d.images \union d.labels \subseteq Seq(STRING)

VARIABLES
  weights,    \* the .pt files: the version of each, 0 when there is none
  engines,    \* models/engines/*.engine
  meta,       \* models/engines/*.json: the engine it describes
  copies,     \* the engines in the codebase
  metaCopy,   \* best.json in the codebase
  beside,     \* the engine Ultralytics writes beside a .pt file
  onnx,       \* the .pt files with an .onnx side product
  trained,    \* weights/best.pt of the numbered run directories of each stage
  merged,     \* merged_custom_dataset
  version,    \* the versions of weights trained so far
  job,        \* the script that runs, or the last one
  jobs, changes,   \* bounds: the scripts started, the changes made so far
  backend,    \* the backend of the running detector
  runtime, ptModel, \* what it has loaded
  answer      \* the detector's result, when the last step was a detection

fileVars == <<engines, meta, copies, metaCopy, beside, onnx>>
trainVars == <<trained, merged, version>>
detectorVars == <<backend, runtime, ptModel, answer>>
vars == <<weights, fileVars, trainVars, job, jobs, changes, detectorVars>>

NoFile == [model |-> None, version |-> 0, form |-> None, shape |-> None, cut |-> FALSE]
Cut(file) == [file EXCEPT !.cut = TRUE]
Exists(file) == file.form # None

NoAnswer == [backend |-> None, raised |-> None, dets |-> {}, scene |-> <<>>, sent |-> None]
\* A step of anyone else: the detector has no new result.
Quiet == UNCHANGED <<backend, runtime, ptModel>> /\ answer' = NoAnswer

Idle == [script |-> None, at |-> "idle", todo |-> <<>>, made |-> NoFile, found |-> {},
         built |-> [m \in Names |-> NoFile], failures |-> 0, codebase |-> TRUE,
         fresh |-> FALSE, custom |-> <<>>, exit |-> 0]

Init ==
  /\ weights \in {[m \in ToSet(Models) |-> IF m \in there THEN 1 ELSE 0] : there \in Present}
  /\ version = 1
  /\ engines = [n \in Names |-> NoFile] /\ meta = engines /\ copies = engines
  /\ metaCopy = NoFile /\ beside = [m \in ToSet(Models) |-> NoFile] /\ onnx = {}
  /\ trained = [pretrain |-> <<>>, finetune |-> <<>>] /\ merged = <<>>
  /\ job = Idle /\ jobs = 0 /\ changes = 0
  /\ backend = "engine" /\ runtime = NoFile /\ ptModel = 0 /\ answer = NoAnswer

--------------------------------------------------------------------------------
(* Steps the scripts share.                                                *)

Start == job.at \in {"idle", "done"} /\ jobs < MaxJobs /\ jobs' = jobs + 1

At(scripts, at) == job.script \in scripts /\ job.at = at
Goto(at) == job' = [job EXCEPT !.at = at]
End(code) == job' = [job EXCEPT !.at = "done", !.exit = code]
Model == Head(job.todo)
Name == IF job.script = "brain" THEN Model ELSE Stem[Model]

Kill ==
  /\ job.at \notin {"idle", "done"}
  /\ job' = Idle
  /\ UNCHANGED <<weights, fileVars, trainVars, jobs, changes>> /\ Quiet

\* YOLO(pt) and model.export: the weights are read, the side product and the
\* engine beside the .pt file are written.
Export(shape) ==
  LET engine == [model |-> Model, version |-> weights[Model], form |-> "prefixed",
                 shape |-> shape, cut |-> FALSE]
  IN  /\ weights[Model] # 0
      /\ beside' = [beside EXCEPT ![Model] = Cut(engine)] /\ onnx' = onnx \union {Model}
      /\ job' = [job EXCEPT !.made = engine, !.at = "exporting"]

\* The export ends or raises; the side product is removed in both cases.
Exported ==
  /\ At({"bootstrap", "export"}, "exporting")
  /\ \/ beside' = [beside EXCEPT ![Model] = job.made] /\ Goto("replace")
     \/ UNCHANGED beside /\ End(1)
  /\ onnx' = onnx \ {Model}
  /\ UNCHANGED <<weights, engines, meta, copies, metaCopy, trainVars, jobs, changes>> /\ Quiet

\* Mutant: the exported file is copied to its place, not renamed.
Replace_Copy ==
  /\ At({"bootstrap", "export"}, "replace")
  /\ IF engines[Name].cut
     THEN /\ engines' = [engines EXCEPT ![Name] = beside[Model]]
          /\ beside' = [beside EXCEPT ![Model] = NoFile]
          /\ job' = [job EXCEPT !.built[Name] = job.made,
                                !.at = IF job.script = "bootstrap" THEN "describe" ELSE "copy"]
     ELSE engines' = [engines EXCEPT ![Name] = Cut(beside[Model])] /\ UNCHANGED <<beside, job>>
  /\ UNCHANGED <<weights, meta, copies, metaCopy, onnx, trainVars, jobs, changes>> /\ Quiet

\* exported.replace(engine_path) renames.
Replace ==
  /\ At({"bootstrap", "export"}, "replace")
  /\ engines' = [engines EXCEPT ![Name] = beside[Model]]
  /\ beside' = [beside EXCEPT ![Model] = NoFile]
  /\ job' = [job EXCEPT !.built[Name] = job.made,
                        !.at = IF job.script = "bootstrap" THEN "describe" ELSE "copy"]
  /\ UNCHANGED <<weights, meta, copies, metaCopy, onnx, trainVars, jobs, changes>> /\ Quiet

\* The metadata is written over the file that is there.
Describe ==
  /\ At({"bootstrap", "brain"}, "describe")
  /\ meta' = [meta EXCEPT ![Name] = Cut(engines[Name])] /\ Goto("describing")
  /\ UNCHANGED <<weights, engines, copies, metaCopy, beside, onnx, trainVars, jobs, changes>> /\ Quiet

Described ==
  /\ At({"bootstrap", "brain"}, "describing")
  /\ meta' = [meta EXCEPT ![Name] = engines[Name]]
  /\ IF job.script = "bootstrap" THEN Goto("copy")
     ELSE IF Len(job.todo) = 1 THEN End(0)
     ELSE job' = [job EXCEPT !.todo = Tail(@), !.at = "compile"]
  /\ UNCHANGED <<weights, engines, copies, metaCopy, beside, onnx, trainVars, jobs, changes>> /\ Quiet

\* _copy_artifact and _copy_engine_artifact: the copy is written in place.
CopyEngine ==
  /\ At({"bootstrap", "export"}, "copy") /\ job.codebase
  /\ copies' = [copies EXCEPT ![Name] = Cut(engines[Name])] /\ Goto("copying")
  /\ UNCHANGED <<weights, engines, meta, metaCopy, beside, onnx, trainVars, jobs, changes>> /\ Quiet

Copied ==
  /\ At({"bootstrap", "export"}, "copying")
  /\ copies' = [copies EXCEPT ![Name] = engines[Name]]
  /\ Goto(IF job.script = "bootstrap" THEN "copyMeta" ELSE "next")
  /\ UNCHANGED <<weights, engines, meta, metaCopy, beside, onnx, trainVars, jobs, changes>> /\ Quiet

CopyMeta ==
  /\ At({"bootstrap"}, "copyMeta")
  /\ metaCopy' = Cut(meta[Name]) /\ Goto("copyingMeta")
  /\ UNCHANGED <<weights, engines, meta, copies, beside, onnx, trainVars, jobs, changes>> /\ Quiet

MetaCopied ==
  /\ At({"bootstrap"}, "copyingMeta")
  /\ metaCopy' = meta[Name] /\ End(0)
  /\ UNCHANGED <<weights, engines, meta, copies, beside, onnx, trainVars, jobs, changes>> /\ Quiet

\* No codebase directory is configured.
NoCopy ==
  /\ At({"bootstrap", "export"}, "copy") /\ ~job.codebase
  /\ IF job.script = "bootstrap" THEN End(0) ELSE Goto("next")
  /\ UNCHANGED <<weights, fileVars, trainVars, jobs, changes>> /\ Quiet

--------------------------------------------------------------------------------
(* bootstrap_engine.py.                                                    *)

\* Mutant: an engine that is there is returned without a copy.
Bootstrap_NoCopy ==
  /\ Start
  /\ \E codebase \in BOOLEAN :
       LET run == [Idle EXCEPT !.script = "bootstrap", !.todo = <<Best>>, !.codebase = codebase] IN
       job' = IF Exists(engines[Stem[Best]]) /\ Exists(meta[Stem[Best]])
              THEN [run EXCEPT !.at = "done"]
              ELSE IF weights[Best] = 0 THEN [run EXCEPT !.at = "done", !.exit = 1]
              ELSE [run EXCEPT !.at = "export"]
  /\ UNCHANGED <<weights, fileVars, trainVars, changes>> /\ Quiet

\* ensure_engine: an engine and a metadata file that exist are accepted as
\* they are.
Bootstrap ==
  /\ Start
  /\ \E codebase \in BOOLEAN :
       LET run == [Idle EXCEPT !.script = "bootstrap", !.todo = <<Best>>, !.codebase = codebase] IN
       job' = IF Exists(engines[Stem[Best]]) /\ Exists(meta[Stem[Best]])
              THEN [run EXCEPT !.at = "copy"]
              ELSE IF weights[Best] = 0 THEN [run EXCEPT !.at = "done", !.exit = 1]
              ELSE [run EXCEPT !.at = "export"]
  /\ UNCHANGED <<weights, fileVars, trainVars, changes>> /\ Quiet

\* imgsz = 640, half: a square engine of a fixed size.
BootstrapExport ==
  /\ At({"bootstrap"}, "export") /\ Export("square")
  /\ UNCHANGED <<weights, engines, meta, copies, metaCopy, trainVars, jobs, changes>> /\ Quiet

--------------------------------------------------------------------------------
(* export_engine.py.                                                       *)

Before(m, n) == \E i, j \in DOMAIN Models : i < j /\ Models[i] = m /\ Models[j] = n

\* What _iter_pt_files returns: the files that are there, in their order.
Listings ==
  {files \in SeqOf(ToSet(Models), Len(Models)) :
     /\ ToSet(files) = {m \in ToSet(Models) : weights[m] # 0}
     /\ \A i, j \in DOMAIN files : i < j => Before(files[i], files[j])}

\* Mutant: two models may have one engine file.
Resolvable_Any(models) == TRUE

\* _resolve_outputs: no two models have the same stem.
Resolvable(models) == \A i, j \in DOMAIN models : Stem[models[i]] = Stem[models[j]] => i = j

\* main, up to its loop.
ExportAll ==
  /\ Start
  /\ \E codebase \in BOOLEAN, files \in Listings :
       LET run == [Idle EXCEPT !.script = "export", !.todo = files, !.found = ToSet(files),
                               !.codebase = codebase]
       IN  job' = IF files = <<>> \/ ~Resolvable(files)
                  THEN [run EXCEPT !.at = "done", !.exit = 1] ELSE [run EXCEPT !.at = "export"]
  /\ UNCHANGED <<weights, fileVars, trainVars, changes>> /\ Quiet

\* export_model of a file that is there: 480 by 640, dynamic.
ExportModel ==
  /\ At({"export"}, "export") /\ Export("any")
  /\ UNCHANGED <<weights, engines, meta, copies, metaCopy, trainVars, jobs, changes>> /\ Quiet

\* export_model of a file that was removed meanwhile.
ExportMissing ==
  /\ At({"export"}, "export") /\ weights[Model] = 0
  /\ job' = [job EXCEPT !.failures = @ + 1, !.at = "next"]
  /\ UNCHANGED <<weights, fileVars, trainVars, jobs, changes>> /\ Quiet

NextModel ==
  /\ At({"export"}, "next")
  /\ IF Len(job.todo) > 1 THEN job' = [job EXCEPT !.todo = Tail(@), !.at = "export"]
     ELSE End(IF job.failures = 0 THEN 0 ELSE 1)
  /\ UNCHANGED <<weights, fileVars, trainVars, jobs, changes>> /\ Quiet

--------------------------------------------------------------------------------
(* build_brain_engines.py.                                                 *)

BuildBrain ==
  /\ Start
  /\ job' = [Idle EXCEPT !.script = "brain", !.todo = SubSeq(BrainSpecs, 1, Brain), !.at = "compile"]
  /\ UNCHANGED <<weights, fileVars, trainVars, changes>> /\ Quiet

\* The shape check and the compilation: torch_tensorrt may be missing or fail.
Compile ==
  /\ At({"brain"}, "compile")
  /\ \/ End(1) /\ UNCHANGED engines
     \/ /\ engines' = [engines EXCEPT ![Name] = [NoFile EXCEPT !.model = Name,
                          !.form = "torchscript", !.shape = "any", !.cut = TRUE]]
        /\ Goto("save")
  /\ UNCHANGED <<weights, meta, copies, metaCopy, beside, onnx, trainVars, jobs, changes>> /\ Quiet

\* torch.jit.save, in place.
Saved ==
  /\ At({"brain"}, "save")
  /\ engines' = [engines EXCEPT ![Name].cut = FALSE]
  /\ job' = [job EXCEPT !.built[Name] = [engines[Name] EXCEPT !.cut = FALSE], !.at = "describe"]
  /\ UNCHANGED <<weights, meta, copies, metaCopy, beside, onnx, trainVars, jobs, changes>> /\ Quiet

--------------------------------------------------------------------------------
(* train_detector.py.                                                      *)

\* The images, or the labels, of the k-th dataset are files[k].  Names are the
\* words between their hyphens: a file of the merged dataset has the words of
\* its dataset's directory before its own.  A later file overwrites.
MergedFiles(datasets, files) ==
  LET targets(k) == {datasets[k].name \o f : f \in files[k]}
      last(name) == CHOOSE k \in DOMAIN datasets :
                      /\ name \in targets(k)
                      /\ \A j \in DOMAIN datasets : name \in targets(j) => j <= k
  IN  [name \in UNION {targets(k) : k \in DOMAIN datasets} |-> datasets[last(name)].id]

\* Mutant: the files keep their names.
Merged_NoPrefix(datasets) ==
  LET bare == [k \in DOMAIN datasets |-> [datasets[k] EXCEPT !.name = <<>>]]
  IN  [images |-> MergedFiles(bare, [k \in DOMAIN bare |-> bare[k].images]),
       labels |-> MergedFiles(bare, [k \in DOMAIN bare |-> bare[k].labels])]

\* The dataset each file of build_merged_dataset comes from.
Merged(datasets) ==
  [images |-> MergedFiles(datasets, [k \in DOMAIN datasets |-> datasets[k].images]),
   labels |-> MergedFiles(datasets, [k \in DOMAIN datasets |-> datasets[k].labels])]

\* plan_detector_training; the merged dataset is removed before the class
\* names are compared.
Train ==
  /\ Start
  /\ \E custom \in Customs :
       LET run == [Idle EXCEPT !.script = "train", !.custom = custom,
                               !.fresh = trained = [pretrain |-> <<>>, finetune |-> <<>>]]
       IN  /\ merged' = IF custom = <<>> THEN merged ELSE <<>>
           /\ job' = IF custom = <<>> THEN [run EXCEPT !.at = "pretrain"]
                     ELSE IF \E d \in ToSet(custom) : d.classes # custom[1].classes
                     THEN [run EXCEPT !.at = "done", !.exit = 1]
                     ELSE [run EXCEPT !.at = "merge"]
  /\ UNCHANGED <<weights, fileVars, trained, version, changes>> /\ Quiet

Merge ==
  /\ At({"train"}, "merge")
  /\ merged' = Merged(job.custom) /\ Goto("pretrain")
  /\ UNCHANGED <<weights, fileVars, trained, version, jobs, changes>> /\ Quiet

NoWeights == [version |-> 0, base |-> 0]

\* Ultralytics makes a new numbered directory for a run whose name is taken,
\* and has weights in it when the training ends.
Open(stage) == trained' = [trained EXCEPT ![stage] = Append(@, NoWeights)]
Fill(stage, base) ==
  /\ version' = version + 1
  /\ trained' = [trained EXCEPT ![stage][Len(trained[stage])] = [version |-> version + 1, base |-> base]]

Pretrain ==
  /\ At({"train"}, "pretrain")
  /\ Open("pretrain") /\ Goto("pretraining")
  /\ UNCHANGED <<weights, fileVars, merged, version, jobs, changes>> /\ Quiet

Pretrained ==
  /\ At({"train"}, "pretraining")
  /\ Fill("pretrain", 0)
  /\ IF job.custom = <<>> THEN End(0) ELSE Goto("finetune")
  /\ UNCHANGED <<weights, fileVars, merged, jobs, changes>> /\ Quiet

\* The weights at the path of the plan: those of the first directory.
Planned(stage) == trained[stage][1]

\* Mutant: the fine tuning starts from the base model.
Finetune_Base ==
  /\ At({"train"}, "finetune")
  /\ Open("finetune") /\ Goto("finetuning")
  /\ UNCHANGED <<weights, fileVars, merged, version, jobs, changes>> /\ Quiet

\* YOLO(plan.pretrain_weights) raises when there are none.
Finetune ==
  /\ At({"train"}, "finetune")
  /\ IF Planned("pretrain") = NoWeights THEN End(1) /\ UNCHANGED trained
     ELSE Open("finetune") /\ job' = [job EXCEPT !.at = "finetuning", !.made.version = Planned("pretrain").version]
  /\ UNCHANGED <<weights, fileVars, merged, version, jobs, changes>> /\ Quiet

Finetuned ==
  /\ At({"train"}, "finetuning")
  /\ Fill("finetune", job.made.version) /\ End(0)
  /\ UNCHANGED <<weights, fileVars, merged, jobs, changes>> /\ Quiet

--------------------------------------------------------------------------------
(* The operator.                                                           *)

\* The weights a training reported are put in their place, or are removed.
Deploy ==
  /\ \E v \in {0} \union {Planned(stage).version : stage \in {s \in DOMAIN trained : trained[s] # <<>>}} :
       v # weights[Best] /\ weights' = [weights EXCEPT ![Best] = v]
  /\ changes < MaxChanges /\ changes' = changes + 1
  /\ UNCHANGED <<fileVars, trainVars, job, jobs>> /\ Quiet

\* The engine is removed to have it built anew.
RemoveEngine ==
  /\ job.at \in {"idle", "done"} /\ changes < MaxChanges
  /\ changes' = changes + 1 /\ job' = Idle
  /\ engines' = [engines EXCEPT ![Stem[Best]] = NoFile]
  /\ UNCHANGED <<weights, meta, copies, metaCopy, beside, onnx, trainVars, jobs>> /\ Quiet

--------------------------------------------------------------------------------
(* The running detector.                                                   *)

NewDetector ==
  /\ backend' \in Backends /\ runtime' = NoFile /\ ptModel' = 0 /\ answer' = NoAnswer
  /\ UNCHANGED <<weights, fileVars, trainVars, job, jobs, changes>>

Answers(by, dets, scene) ==
  answer' = [NoAnswer EXCEPT !.backend = by, !.dets = dets, !.scene = scene]

\* _get_pt_model: the weights are loaded once.
PtLoaded == IF ptModel # 0 THEN ptModel ELSE weights[Best]

\* Mutant: the fallback forgets that the frame was scaled.
FallBack_Scaled(scene) ==
  IF Fallback = "pt" /\ PtLoaded # 0
  THEN ptModel' = PtLoaded /\ Answers("pt", PtDetections(scene), scene)
  ELSE UNCHANGED ptModel /\ answer' = [NoAnswer EXCEPT !.raised = "Unavailable"]

\* Any error of the engine but a missing file: the weights answer, if they
\* can.
FallBack(scene) ==
  IF Fallback = "pt" /\ PtLoaded # 0
  THEN ptModel' = PtLoaded /\ Answers("pt", Rescaled(PtDetections(scene)), scene)
  ELSE UNCHANGED ptModel /\ answer' = [NoAnswer EXCEPT !.raised = "Unavailable"]

DetectSynthetic ==
  /\ backend = "synthetic"
  /\ \E scene \in Scenes : Answers(backend, SyntheticDetections(scene), scene)
  /\ UNCHANGED <<weights, fileVars, trainVars, job, jobs, changes, backend, runtime, ptModel>>

DetectPt ==
  /\ backend = "pt"
  /\ IF PtLoaded = 0
     THEN answer' = [NoAnswer EXCEPT !.raised = "FileNotFound"] /\ UNCHANGED ptModel
     ELSE /\ ptModel' = PtLoaded
          /\ \E scene \in Scenes : Answers(backend, Rescaled(PtDetections(scene)), scene)
  /\ UNCHANGED <<weights, fileVars, trainVars, job, jobs, changes, backend, runtime>>

\* The engine of _get_runtime: it is loaded once.
Engine == IF Exists(runtime) THEN runtime ELSE engines[Stem[Best]]

EngineMissing ==
  /\ backend = "engine" /\ ~Exists(Engine)
  /\ answer' = [NoAnswer EXCEPT !.raised = "FileNotFound"]
  /\ UNCHANGED <<weights, fileVars, trainVars, job, jobs, changes, backend, runtime, ptModel>>

\* The file is there and no runner takes it.
EngineRefused ==
  /\ backend = "engine" /\ ~Exists(runtime) /\ Exists(Engine)
  /\ \E tensorRt \in BOOLEAN, scene \in Scenes :
       RunnerFor(Engine, tensorRt) = "none" /\ FallBack(scene)
  /\ UNCHANGED <<weights, fileVars, trainVars, job, jobs, changes, backend, runtime>>

\* A call of the run fails, or a cudaFree after it.
EngineFails ==
  /\ backend = "engine" /\ Exists(Engine) /\ RunnerFor(Engine, TRUE) # "none"
  /\ runtime' = Engine
  /\ \E scene \in Scenes : FallBack(scene)
  /\ UNCHANGED <<weights, fileVars, trainVars, job, jobs, changes, backend>>

\* What the engine returns.  set_input_shape is not checked: a square engine
\* reads past the frame, and returns the boxes of any picture.
Returned(scene) ==
  IF Engine.shape = "any"
  THEN {[sent |-> format, output |-> IF format = "nms" THEN NmsOutput(scene) ELSE RawOutput(scene)]
          : format \in Formats}
  ELSE {[sent |-> "garbled", output |-> NmsOutput(other)] : other \in Scenes}

EngineAnswers ==
  /\ backend = "engine" /\ Exists(Engine) /\ RunnerFor(Engine, TRUE) # "none"
  /\ runtime' = Engine
  /\ \E scene \in Scenes : \E r \in Returned(scene) :
       answer' = IF Malformed(r.output) THEN [NoAnswer EXCEPT !.raised = "ValueError"]
                 ELSE [NoAnswer EXCEPT !.backend = backend, !.dets = Rescaled(Postprocess(r.output)),
                                       !.scene = scene, !.sent = r.sent]
  /\ UNCHANGED <<weights, fileVars, trainVars, job, jobs, changes, backend, ptModel>>

--------------------------------------------------------------------------------
Next ==
  \/ Bootstrap \/ BootstrapExport \/ Exported \/ Replace \/ Describe \/ Described
  \/ CopyEngine \/ Copied \/ CopyMeta \/ MetaCopied \/ NoCopy
  \/ ExportAll \/ ExportModel \/ ExportMissing \/ NextModel
  \/ BuildBrain \/ Compile \/ Saved
  \/ Train \/ Merge \/ Pretrain \/ Pretrained \/ Finetune \/ Finetuned
  \/ Kill \/ Deploy \/ RemoveEngine \/ NewDetector
  \/ DetectSynthetic \/ DetectPt \/ EngineMissing \/ EngineRefused \/ EngineFails \/ EngineAnswers

Spec == Init /\ [][Next]_vars

--------------------------------------------------------------------------------
(* Properties.                                                             *)

Files == [model : Names \union ToSet(Models) \union {None}, version : Nat,
          form : {None, "prefixed", "torchscript"}, shape : {None, "square", "any"}, cut : BOOLEAN]
Runs == [version : Nat, base : Nat]
Stages == {"idle", "export", "exporting", "replace", "describe", "describing", "copy", "copying",
           "copyMeta", "copyingMeta", "next", "compile", "save", "merge", "pretrain", "pretraining",
           "finetune", "finetuning", "done"}
Jobs == [script : {None, "bootstrap", "export", "brain", "train"},
         at : Stages,
         todo : Seq(ToSet(Models) \union Networks), made : Files, found : SUBSET ToSet(Models),
         built : [Names -> Files], failures : Nat, codebase : BOOLEAN, fresh : BOOLEAN,
         custom : Customs, exit : {0, 1}]

\* The variables have their types, and a script that is at an engine has a
\* model for it.
TypeOK ==
  /\ weights \in [ToSet(Models) -> Nat] /\ version \in Nat
  /\ engines \in [Names -> Files] /\ meta \in [Names -> Files] /\ copies \in [Names -> Files]
  /\ metaCopy \in Files /\ beside \in [ToSet(Models) -> Files] /\ onnx \subseteq ToSet(Models)
  /\ trained \in [pretrain : Seq(Runs), finetune : Seq(Runs)]
  /\ job \in Jobs
  /\ job.at \notin {"idle", "done"} /\ job.script \in {"bootstrap", "export"}
       => job.todo # <<>> /\ Model \in ToSet(Models)
  /\ backend \in Backends \union {"engine"} /\ runtime \in Files /\ ptModel \in Nat

\* The detector never finds half an engine in its place: the file is renamed
\* there when it is complete, whatever kills a script (ensure_engine and
\* export_model).  The engines of the networks are written in place, and weights
\* with the name of one have no such promise.
EnginesWhole == \A s \in Stems \ Networks : ~engines[s].cut

\* A bootstrap that returns leaves the codebase with the files of the engine
\* directory, and one that built the engine leaves metadata that describes it
\* (ensure_engine).
BootstrapDelivers ==
  At({"bootstrap"}, "done") /\ job.exit = 0 =>
    LET s == Stem[Best] IN
    /\ job.built[s] # NoFile => engines[s] = job.built[s] /\ meta[s] = engines[s]
    /\ job.codebase => copies[s] = engines[s] /\ metaCopy = meta[s]

\* An export that exits with 0 has built the engine of every model it found,
\* from that model, and copied it; a build of the other networks that ends
\* leaves every engine whole and described (main of export_engine.py,
\* build_brain_engines).
ExitZeroMeansBuilt ==
  /\ At({"export"}, "done") /\ job.exit = 0 =>
       \A m \in job.found :
         /\ engines[Stem[m]] = job.built[Stem[m]] /\ engines[Stem[m]].model = m
         /\ job.codebase => copies[Stem[m]] = engines[Stem[m]]
  /\ At({"brain"}, "done") /\ job.exit = 0 =>
       \A n \in Networks : engines[n].model = n /\ ~engines[n].cut /\ meta[n] = engines[n]

\* In a directory with no earlier training, the weights a training reports
\* are its own, fine tuned from the weights it pretrained (train_detector).
FreshRunReported ==
  At({"train"}, "done") /\ job.exit = 0 /\ job.fresh /\ job.custom # <<>> =>
    /\ Planned("finetune") = [version |-> version, base |-> version - 1]
    /\ Planned("pretrain").version = version - 1

\* Every picture of the merged dataset has its own labels and none is lost, if
\* no dataset's directory has a name with which another's begins, word for word
\* (build_merged_dataset): "hall" and "hall-2" may overwrite each other's files.
MergedPairs ==
  LET apart == \A i, j \in DOMAIN job.custom :
                 IsPrefix(job.custom[i].name, job.custom[j].name) => i = j
  IN  job.at \in {"pretrain", "pretraining", "finetune"} /\ job.custom # <<>> /\ apart =>
        \A d \in ToSet(job.custom) :
          /\ \A f \in d.images :
               d.name \o f \in DOMAIN merged.images /\ merged.images[d.name \o f] = d.id
          /\ \A f \in d.labels :
               d.name \o f \in DOMAIN merged.labels /\ merged.labels[d.name \o f] = d.id

InFrame(d) == d.x >= 0 /\ d.y >= 0 /\ d.x + d.w <= Width /\ d.y + d.h <= Height

\* The persons of a scene, as far as they are in the frame.
PersonsOf(scene) ==
  {LET x == Between(o.x, 0, Width) y == Between(o.y, 0, Height) IN
     [o EXCEPT !.x = x, !.y = y, !.w = Between(o.w, 0, Width - x), !.h = Between(o.h, 0, Height - y)]
   : o \in {o \in ToSet(scene) : o.class = Person /\ o.conf >= Threshold}}

\* On every path, fallback and scaling included, what a camera frame yields
\* are persons of the confidence asked for, inside the frame (detect).
PersonsOnly ==
  answer.backend \in {"pt", "engine"} =>
    \A d \in answer.dets : d.class = Person /\ d.conf >= Threshold /\ InFrame(d)

\* They are those of the frame when the weights answer, or an engine that
\* returns boxes by their corners (_infer_pt, _postprocess_nms_output).
PersonsAll ==
  answer.backend = "pt" \/ answer.sent = "nms" => answer.dets = PersonsOf(answer.scene)

\* Both together.
PersonsFound == PersonsOnly /\ PersonsAll

\* The raw output of a model, one row for each channel, is decoded to the
\* persons of the frame (the layout tests/unit/test_detector.py:80 names).
RawDecoded == answer.sent = "raw" => answer.dets = PersonsOf(answer.scene)
================================================================================
