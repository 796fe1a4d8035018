------------------------------ MODULE DecisionChain ------------------------------
(***************************************************************************)
(* From the people in a frame to a command for the robot:                  *)
(* AdaptiveBrainPipeline.run (src/src/reasoning/brain_pipeline.py) routes  *)
(* the frame to some reasoning pathways, runs and fuses them;              *)
(* BehaviorDecisionPipeline.run (src/src/decision/behavior_pipeline.py)    *)
(* predicts intents, scores anomalies and computes the command.            *)
(*                                                                         *)
(* The networks are their outputs: any estimate of the complexity, any row *)
(* of the unified output.  What the code itself decides is kept: the       *)
(* route, the engines it loads on first use, the batch sizes, the weights  *)
(* and the thresholds.  Distances are in quarter metres, scores in 2000ths *)
(* and risks in 40000ths, so that the code's constants are integers.       *)
(***************************************************************************)
EXTENDS Integers, Sequences

CONSTANTS
  People,    \* [distance, predicted]: how far a person is, and is predicted to be
  MaxPeople, \* bound: people in a frame
  Rows,      \* [statistical, learned, temporal, activity]: a row's scores, in quarters
  Readings,  \* [ram, temp, util] of the Jetson; temp and util may be NotReported
  Shipped    \* the engines deployed at first

Pathways == <<"gru", "tcn", "attention", "gnn">>
Engines == {"gru", "tcn", "attention", "gnn", "fusion"}
NotReported == -1
Activities == {"falling", "fighting", "loitering", "running", "other"}

ASSUME DecisionAssumption ==
  /\ People \subseteq [distance : Nat, predicted : Nat]
  /\ MaxPeople \in Nat \ {0}
  /\ Rows \subseteq [statistical : 0 .. 4, learned : 0 .. 4, temporal : 0 .. 4,
                     activity : Activities]
  /\ Shipped \subseteq Engines

VARIABLES
  files,    \* engine files on the disk
  loaded,   \* engines whose _runtime is loaded
  scene,    \* the entities of the frame in hand
  unified,  \* the batch size of its unified output, 0 for none
  previous, \* the batch size of the last frame's unified output, 0 for none
  frame     \* history: what the last call was given and what came of it

vars == <<files, loaded, scene, unified, previous, frame>>

Scenes == UNION {[1 .. n -> People] : n \in 0 .. MaxPeople}
Batches == 1 .. MaxPeople

--------------------------------------------------------------------------------
(* Routing.                                                                *)

\* A metric's budget, 1 when healthy and 0 when critical, is one half or more.
HalfLeft(value, healthyAt, criticalAt) ==
  value = NotReported \/ 2 * (value - healthyAt) <= criticalAt - healthyAt

\* The least of the three budgets reaches SOH_DOWNGRADE_THRESHOLD.
Healthy(reading) ==
  /\ HalfLeft(reading.ram, 70, 95)
  /\ HalfLeft(reading.temp, 65, 85)
  /\ HalfLeft(reading.util, 75, 99)

\* Levels: LOW 0, MED 1, HIGH 2, CRITICAL 3.
Effective(level, healthy) == IF healthy \/ level = 0 THEN level ELSE level - 1

Routed(level) == {Pathways[i] : i \in 1 .. level + 1}

--------------------------------------------------------------------------------
(* Running the pathways and the fusion.                                    *)

\* GRU and TCN read the sequences, attention and GNN the entities.
PerEntity == {"attention", "gnn"}

\* What stops a pathway: its input is checked before its engine is loaded.  The GNN
\* wants an adjacency of as many entities as there are features of.
NoEntity(p, people) == p = "attention" /\ people = 0
NotAdjacent(p, fitting) == p = "gnn" /\ ~fitting
Refuses(p, people, fitting) == NoEntity(p, people) \/ NotAdjacent(p, fitting)

\* Mutant: the engine is looked for when the pathway is made, not at its first use.
NoEngine_AtStart(p) == p \notin loaded \union Shipped

NoEngine(p) == p \notin loaded \union files

\* Mutant: a missing engine does not stop a pathway.
Stops_Refused(routed, people, fitting) == {p \in routed : Refuses(p, people, fitting)}

Stops(routed, people, fitting) == {p \in routed : Refuses(p, people, fitting) \/ NoEngine(p)}

Before(p, q) == \E i, j \in 1 .. 4 : i < j /\ Pathways[i] = p /\ Pathways[j] = q

\* The fusion wants one batch size from all pathways.
BatchesDiffer(routed, sequences, entities) ==
  sequences # entities /\ routed \intersect PerEntity # {}

Raises(routed, people, fitting, sequences, entities) ==
  \/ Stops(routed, people, fitting) # {}
  \/ BatchesDiffer(routed, sequences, entities)
  \/ NoEngine("fusion")

\* The pathways that run do so before the first that stops.
Loads(routed, people, fitting, raises) ==
  {p \in routed : \A q \in Stops(routed, people, fitting) : Before(p, q)}
    \union IF raises THEN {} ELSE {"fusion"}

\* AdaptiveBrainPipeline.run on a new frame.  The batch sizes of the features and the
\* adjacency are those of the caller.
BrainRun ==
  /\ unified = 0
  /\ scene' \in Scenes
  /\ \E level \in 0 .. 3, reading \in Readings, sequences, entities \in Batches, fitting \in BOOLEAN :
       LET people == Len(scene')
           routed == Routed(Effective(level, Healthy(reading)))
           raises == Raises(routed, people, fitting, sequences, entities)
       IN /\ loaded' = loaded \union Loads(routed, people, fitting, raises)
          /\ unified' = IF raises THEN 0 ELSE sequences
          /\ frame' = [did |-> IF raises THEN "no output" ELSE "output",
                       even |-> sequences = entities /\ fitting]
  /\ UNCHANGED <<files, previous>>

--------------------------------------------------------------------------------
(* Anomalies and the command.                                              *)

\* One row per person: a single row is repeated; 0 when neither fits.
Expanded(batch, people) ==
  CASE people = 0 \/ batch = people -> batch
    [] people # 0 /\ batch # people /\ batch = 1 -> people
    [] OTHER -> 0

Prior(activity) ==
  CASE activity \in {"falling", "fighting"} -> 190
    [] activity = "loitering" -> 140
    [] activity = "running" -> 90
    [] activity = "other" -> 10

\* Mutant: without a previous output the change counts as full.
Score_FullChange(row, given) ==
  175 * row.statistical + 175 * row.learned
    + (IF given THEN 100 * row.temporal ELSE 400) + Prior(row.activity)

\* The change since the previous output counts only if that is given.
Score(row, given) ==
  175 * row.statistical + 175 * row.learned
    + (IF given THEN 100 * row.temporal ELSE 0) + Prior(row.activity)

Scores == 0 .. 2000
Critical(score) == score >= 1700
IsAnomaly(score) == score >= 1100

AtLeast(x, y) == IF x >= y THEN x ELSE y

CollisionRisk(person, score) ==
  IF person.predicted > 5 /\ score < 1000 THEN 0
  ELSE 5200 * AtLeast(5 - person.predicted, 0)
         + 800 * AtLeast(10 - person.distance, 0) + 3 * score

\* Mutant: who is within the collision distance is passed over.
Risk_PassesNear(person, score) ==
  IF person.distance <= 5 THEN 0
  ELSE AtLeast(CollisionRisk(person, score),
               IF IsAnomaly(score) /\ person.distance <= 5 THEN 18000 ELSE 0)

\* Somebody at distance 0 is passed over.
Risk(person, score) ==
  IF person.distance = 0 THEN 0
  ELSE AtLeast(CollisionRisk(person, score),
               IF IsAnomaly(score) /\ person.distance <= 5 THEN 18000 ELSE 0)

Mode(people, score) ==
  IF \E i \in DOMAIN people : Critical(score[i]) THEN "hold"
  ELSE IF \E i \in DOMAIN people : Risk(people[i], score[i]) >= 18000 THEN "avoid"
  ELSE "proceed"

\* The checks of the lengths: the output and, if it is given, the previous one have
\* a row for each person.  Nobody is no exception.
Fits(people, given) ==
  /\ people # 0 /\ Expanded(unified, people) = people
  /\ given => Expanded(previous, people) = people

\* The row of the output that person i got.
RowOf(rows, i) == rows[IF unified = 1 THEN 1 ELSE i]

Command(given, rows) ==
  LET score == [i \in DOMAIN scene |-> Score(RowOf(rows, i), given)]
  IN [did |-> "command", given |-> given, score |-> score, mode |-> Mode(scene, score)]

\* BehaviorDecisionPipeline.run on the output.  The caller may give the previous one.
BehaviorRun ==
  /\ unified # 0
  /\ \E given \in BOOLEAN :
       /\ given => previous # 0
       /\ IF Fits(Len(scene), given)
          THEN \E rows \in [1 .. unified -> Rows] : frame' = Command(given, rows)
          ELSE frame' = [did |-> "no command"]
  /\ previous' = unified
  /\ unified' = 0
  /\ UNCHANGED <<files, loaded, scene>>

\* The missing engines are built and deployed.
Deploy ==
  /\ files # Engines
  /\ files' = Engines
  /\ UNCHANGED <<loaded, scene, unified, previous, frame>>

Init ==
  /\ files = Shipped
  /\ loaded = {}
  /\ scene = <<>>
  /\ unified = 0
  /\ previous = 0
  /\ frame = [did |-> "nothing"]

Next == BrainRun \/ BehaviorRun \/ Deploy

Spec == Init /\ [][Next]_vars

--------------------------------------------------------------------------------
(* Properties.                                                             *)

DecisionTypeOK ==
  /\ files \subseteq Engines
  /\ loaded \subseteq files
  /\ scene \in Scenes
  /\ unified \in 0 .. MaxPeople
  /\ previous \in 0 .. MaxPeople
  /\ frame.did \in {"nothing", "output", "no output", "command", "no command"}
  /\ unified # 0 <=> frame.did = "output"
  /\ frame.did = "command" =>
       /\ frame.given \in BOOLEAN
       /\ frame.score \in [DOMAIN scene -> Scores]
       /\ frame.mode \in {"proceed", "avoid", "hold"}

\* The robot is held only if the previous output was given: without the change since
\* then even a fall that everything else is certain of scores 0.795, below the 0.85 of
\* a critical anomaly (anomaly_detector.py:73-76, nav_commander.py:39).
HoldNeedsPrevious == frame.did = "command" /\ frame.mode = "hold" => frame.given

\* Once all engines are deployed there is an output for every frame with people and
\* features that fit each other, whatever failed before (reasoning/runtime.py:71-74).
OutputOnceDeployed ==
  [][frame'.did = "no output" /\ files = Engines => scene' = <<>> \/ ~frame'.even]_vars

\* The command is as careful for somebody who is closer, and is predicted to be, unless
\* exactly where the robot is (nav_commander.py:71-83, 112-119).
Closer(p, q) == q.distance # 0 /\ q.distance <= p.distance /\ q.predicted <= p.predicted

CarefulWhenCloser ==
  frame.did = "command" /\ frame.mode = "avoid" =>
    \A i \in DOMAIN scene, q \in People :
      Closer(scene[i], q) => Mode([scene EXCEPT ![i] = q], frame.score) = "avoid"

================================================================================
