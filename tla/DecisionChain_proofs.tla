--------------------------- MODULE DecisionChain_proofs ---------------------------
(***************************************************************************)
(* Theorems about DecisionChain, for any people, rows, readings and number *)
(* of people: its types, when the robot is held, that nearer people are    *)
(* never taken more lightly, and which frames are left without output once *)
(* all engines are deployed.                                               *)
(***************************************************************************)
EXTENDS DecisionChain, TLAPS

\* Everything a person can be.
Person == [distance : Nat, predicted : Nat]

\* What a score is the sum of, and its bounds without and with the change since the
\* previous output.
Sum(s, l, change, prior) == 175 * s + 175 * l + change + prior
Quarters == 0 .. 4
Changes == 0 .. 400
Priors == 0 .. 190
LowScores == 0 .. 1590

\* A score is bounded, and lower without the change (anomaly_detector.py:70-80).
LEMMA SumBounds ==
  ASSUME NEW s \in Quarters, NEW l \in Quarters, NEW prior \in Priors
  PROVE  /\ \A change \in Changes : Sum(s, l, change, prior) \in Scores
         /\ Sum(s, l, 0, prior) \in LowScores
<1>1. ASSUME NEW change \in Changes PROVE Sum(s, l, change, prior) \in Scores
  BY DEF Sum, Quarters, Changes, Priors, Scores
<1>2. Sum(s, l, 0, prior) \in LowScores
  BY DEF Sum, Quarters, Priors, LowScores
<1> QED
  BY <1>1, <1>2

\* A row's score is between 0 and 2000, and at most 1590 if no previous output is
\* given (anomaly_detector.py:70-80).
LEMMA ScoreBounds ==
  ASSUME NEW row \in Rows, NEW given \in BOOLEAN
  PROVE  /\ Score(row, given) \in Scores
         /\ ~given => Score(row, given) \in LowScores
<1>1. /\ row.statistical \in Quarters /\ row.learned \in Quarters
      /\ row.temporal \in Quarters /\ row.activity \in Activities
  BY DecisionAssumption DEF Quarters
<1>2. Prior(row.activity) \in Priors
  BY <1>1 DEF Prior, Activities, Priors
<1>3. 100 * row.temporal \in Changes
  BY <1>1 DEF Changes, Quarters
<1>4. Score(row, given) = Sum(row.statistical, row.learned,
                              IF given THEN 100 * row.temporal ELSE 0,
                              Prior(row.activity))
  BY DEF Score, Sum
<1>5. CASE given
  <2>1. Sum(row.statistical, row.learned, 100 * row.temporal, Prior(row.activity))
          \in Scores
    BY <1>1, <1>2, <1>3, SumBounds
  <2> QED
    BY <1>4, <1>5, <2>1
<1>6. CASE ~given
  <2>1. Sum(row.statistical, row.learned, 0, Prior(row.activity)) \in LowScores
    BY <1>1, <1>2, SumBounds
  <2>2. Score(row, given) \in LowScores
    BY <1>4, <1>6, <2>1
  <2> QED
    BY <2>2 DEF Scores, LowScores
<1> QED
  BY <1>5, <1>6

\* The risk of a person does not fall below the threshold when the person is closer
\* and predicted to be closer (nav_commander.py:71-83, 112-119).
LEMMA CloserRisk ==
  ASSUME NEW p \in Person, NEW q \in Person, NEW score \in Nat,
         Closer(p, q), Risk(p, score) >= 18000
  PROVE  Risk(q, score) >= 18000
<1>1. /\ p.distance \in Nat /\ p.predicted \in Nat
      /\ q.distance \in Nat /\ q.predicted \in Nat
  BY DEF Person
<1>2. q.distance # 0 /\ q.distance <= p.distance /\ q.predicted <= p.predicted
  BY DEF Closer
<1>3. CASE IsAnomaly(score) /\ p.distance <= 5
  BY <1>1, <1>2, <1>3 DEF Risk, CollisionRisk, AtLeast, IsAnomaly
<1>4. CASE ~(IsAnomaly(score) /\ p.distance <= 5)
  <2>1. CollisionRisk(p, score) >= 18000
    BY <1>1, <1>2, <1>4 DEF Risk, CollisionRisk, AtLeast
  <2>2. CollisionRisk(q, score) >= CollisionRisk(p, score)
    BY <1>1, <1>2 DEF CollisionRisk, AtLeast
  <2> QED
    BY <1>1, <1>2, <2>1, <2>2 DEF Risk, CollisionRisk, AtLeast
<1> QED
  BY <1>3, <1>4

--------------------------------------------------------------------------------

\* A scene is a sequence of people.
LEMMA SceneShape ==
  ASSUME NEW s \in Scenes
  PROVE  /\ Len(s) \in Nat /\ Len(s) \in 0 .. MaxPeople
         /\ DOMAIN s = 1 .. Len(s)
         /\ \A i \in DOMAIN s : s[i] \in People
         /\ Len(s) = 0 => s = <<>>
<1>1. PICK n \in 0 .. MaxPeople : s \in [1 .. n -> People]
  BY DEF Scenes
<1>2. n \in Nat
  BY DecisionAssumption
<1>3. s \in Seq(People) /\ Len(s) = n
  BY <1>1, <1>2
<1> QED
  BY <1>1, <1>2, <1>3

\* Every person gets a row of the output when the lengths fit.
LEMMA RowsFit ==
  ASSUME DecisionTypeOK, NEW given \in BOOLEAN, Fits(Len(scene), given),
         NEW rows \in [1 .. unified -> Rows], NEW i \in DOMAIN scene
  PROVE  RowOf(rows, i) \in Rows
<1>1. DOMAIN scene = 1 .. Len(scene) /\ Len(scene) \in Nat
  <2>1. scene \in Scenes
    BY DEF DecisionTypeOK
  <2> QED
    BY <2>1, SceneShape
<1>2. unified = Len(scene) \/ unified = 1
  BY <1>1 DEF Fits, Expanded
<1> QED
  BY <1>1, <1>2 DEF RowOf

\* The command that is computed when the lengths fit: its scores are bounded, and
\* without the previous output none is critical.
LEMMA CommandScores ==
  ASSUME DecisionTypeOK, NEW given \in BOOLEAN, Fits(Len(scene), given),
         NEW rows \in [1 .. unified -> Rows]
  PROVE  /\ Command(given, rows).did = "command"
         /\ Command(given, rows).given = given
         /\ Command(given, rows).score \in [DOMAIN scene -> Scores]
         /\ Command(given, rows).mode = Mode(scene, Command(given, rows).score)
         /\ Command(given, rows).mode = "hold" => given
<1> DEFINE score == [i \in DOMAIN scene |-> Score(RowOf(rows, i), given)]
<1>1. Command(given, rows) = [did |-> "command", given |-> given, score |-> score,
                              mode |-> Mode(scene, score)]
  BY DEF Command
<1>2. \A i \in DOMAIN scene : /\ Score(RowOf(rows, i), given) \in Scores
                              /\ ~given => Score(RowOf(rows, i), given) \in LowScores
  BY RowsFit, ScoreBounds
<1>3. score \in [DOMAIN scene -> Scores]
  BY <1>2
<1>4. ASSUME ~given PROVE Mode(scene, score) # "hold"
  <2>1. \A i \in DOMAIN scene : score[i] \in LowScores
    BY <1>2, <1>4
  <2>2. \A x \in LowScores : ~Critical(x)
    BY DEF LowScores, Critical
  <2> HIDE DEF score
  <2> QED
    BY <2>1, <2>2 DEF Mode
<1> HIDE DEF score
<1> QED
  BY <1>1, <1>3, <1>4

--------------------------------------------------------------------------------

\* What a command promises, beyond its type: the mode is that of the people in the
\* scene and their scores, and it is not to hold without the previous output.
CommandMade ==
  frame.did = "command" =>
    /\ frame.mode = Mode(scene, frame.score)
    /\ frame.mode = "hold" => frame.given

\* The inductive invariant.
ChainInv == DecisionTypeOK /\ CommandMade

\* The chain starts with the shipped engines, none of them loaded, and no frame.
LEMMA Initially == Init => ChainInv
<1> SUFFICES ASSUME Init PROVE ChainInv
  OBVIOUS
<1>1. <<>> \in Scenes
  <2>1. <<>> \in [1 .. 0 -> People]
    OBVIOUS
  <2>2. 0 \in 0 .. MaxPeople
    BY DecisionAssumption
  <2> QED
    BY <2>1, <2>2 DEF Scenes
<1>2. DecisionTypeOK
  BY <1>1, DecisionAssumption DEF Init, DecisionTypeOK
<1> QED
  BY <1>2 DEF Init, ChainInv, CommandMade

\* The brain pipeline loads only engines that are deployed, and a frame without output
\* leaves none behind.
LEMMA BrainStep == ChainInv /\ BrainRun => ChainInv'
<1> SUFFICES ASSUME ChainInv, BrainRun PROVE ChainInv'
  OBVIOUS
<1>1. PICK level \in 0 .. 3, reading \in Readings, sequences \in Batches,
           entities \in Batches, fitting \in BOOLEAN :
        LET people == Len(scene')
            routed == Routed(Effective(level, Healthy(reading)))
            raises == Raises(routed, people, fitting, sequences, entities)
        IN /\ loaded' = loaded \union Loads(routed, people, fitting, raises)
           /\ unified' = IF raises THEN 0 ELSE sequences
           /\ frame' = [did |-> IF raises THEN "no output" ELSE "output",
                        even |-> sequences = entities /\ fitting]
  BY DEF BrainRun
<1> DEFINE people == Len(scene')
           routed == Routed(Effective(level, Healthy(reading)))
           raises == Raises(routed, people, fitting, sequences, entities)
<1>2. Loads(routed, people, fitting, raises) \subseteq files
  <2>1. ASSUME NEW p \in routed,
               \A q \in Stops(routed, people, fitting) : Before(p, q)
        PROVE  p \in loaded \union files
    <3>1. p \in Stops(routed, people, fitting) => Before(p, p)
      BY <2>1
    <3>2. ~Before(p, p)
      BY DEF Before, Pathways
    <3> QED
      BY <3>1, <3>2 DEF Stops, NoEngine
  <2>2. ~raises => "fusion" \in loaded \union files
    BY DEF Raises, NoEngine
  <2>3. loaded \subseteq files
    BY DEF ChainInv, DecisionTypeOK
  <2> QED
    BY <2>1, <2>2, <2>3 DEF Loads
<1>3. sequences \in 1 .. MaxPeople /\ 1 .. MaxPeople \subseteq 0 .. MaxPeople
  BY DEF Batches
<1>4. /\ frame'.did \in {"output", "no output"}
      /\ unified' \in 0 .. MaxPeople
      /\ unified' # 0 <=> frame'.did = "output"
  <2>1. CASE raises
    <3>1. unified' = 0 /\ frame'.did = "no output"
      BY <1>1, <2>1, Zenon
    <3>2. 0 \in 0 .. MaxPeople
      BY DecisionAssumption
    <3> QED
      BY <3>1, <3>2
  <2>2. CASE ~raises
    <3>1. unified' = sequences /\ frame'.did = "output"
      BY <1>1, <2>2, Zenon
    <3>2. sequences # 0
      BY <1>3
    <3> QED
      BY <1>3, <3>1, <3>2
  <2> QED
    BY <2>1, <2>2
<1>5. scene' \in Scenes /\ files' = files /\ previous' = previous
  BY DEF BrainRun
<1>6. loaded' \subseteq files'
  <2>1. loaded' = loaded \union Loads(routed, people, fitting, raises)
    BY <1>1, Zenon
  <2> HIDE DEF routed, people, raises
  <2> QED
    BY <1>2, <1>5, <2>1 DEF ChainInv, DecisionTypeOK
<1>7. DecisionTypeOK'
  BY <1>4, <1>5, <1>6 DEF ChainInv, DecisionTypeOK
<1> QED
  BY <1>4, <1>7 DEF ChainInv, CommandMade

\* The decision pipeline consumes the output and makes a command when the lengths fit.
LEMMA BehaviorStep == ChainInv /\ BehaviorRun => ChainInv'
<1> SUFFICES ASSUME ChainInv, BehaviorRun PROVE ChainInv'
  OBVIOUS
<1> USE DEF ChainInv
<1>1. DecisionTypeOK
  OBVIOUS
<1>2. /\ files' = files /\ loaded' = loaded /\ scene' = scene
      /\ unified' = 0 /\ previous' = unified
  BY DEF BehaviorRun
<1>3. unified' \in 0 .. MaxPeople /\ previous' \in 0 .. MaxPeople
  <2>1. 0 \in 0 .. MaxPeople
    BY DecisionAssumption
  <2> QED
    BY <1>1, <1>2, <2>1 DEF DecisionTypeOK
<1>4. PICK given \in BOOLEAN :
        IF Fits(Len(scene), given)
        THEN \E rows \in [1 .. unified -> Rows] : frame' = Command(given, rows)
        ELSE frame' = [did |-> "no command"]
  BY DEF BehaviorRun
<1>5. CASE Fits(Len(scene), given)
  <2>1. PICK rows \in [1 .. unified -> Rows] : frame' = Command(given, rows)
    BY <1>4, <1>5
  <2>2. /\ frame'.did = "command"
        /\ frame'.given = given
        /\ frame'.score \in [DOMAIN scene -> Scores]
        /\ frame'.mode = Mode(scene, frame'.score)
        /\ frame'.mode = "hold" => given
    BY <1>1, <1>5, <2>1, CommandScores
  <2>3. frame'.mode \in {"proceed", "avoid", "hold"}
    BY <2>2 DEF Mode
  <2>4. DecisionTypeOK'
    BY <1>1, <1>2, <1>3, <2>2, <2>3 DEF DecisionTypeOK
  <2>5. CommandMade'
    BY <1>2, <2>2 DEF CommandMade
  <2> QED
    BY <2>4, <2>5
<1>6. CASE ~Fits(Len(scene), given)
  <2>1. frame' = [did |-> "no command"]
    BY <1>4, <1>6
  <2>2. DecisionTypeOK'
    BY <1>1, <1>2, <1>3, <2>1 DEF DecisionTypeOK
  <2> QED
    BY <2>1, <2>2 DEF CommandMade
<1> QED
  BY <1>5, <1>6

\* The invariant is inductive; new engine files only help.
LEMMA Inductive == ChainInv /\ [Next]_vars => ChainInv'
<1> SUFFICES ASSUME ChainInv, [Next]_vars PROVE ChainInv'
  OBVIOUS
<1>1. CASE BrainRun
  BY <1>1, BrainStep
<1>2. CASE BehaviorRun
  BY <1>2, BehaviorStep
<1>3. CASE Deploy
  <2>1. files' = Engines /\ UNCHANGED <<loaded, scene, unified, previous, frame>>
    BY <1>3 DEF Deploy
  <2> QED
    BY <2>1 DEF ChainInv, DecisionTypeOK, CommandMade
<1>4. CASE UNCHANGED vars
  BY <1>4 DEF vars, ChainInv, DecisionTypeOK, CommandMade
<1> QED
  BY <1>1, <1>2, <1>3, <1>4 DEF Next

--------------------------------------------------------------------------------

\* Whatever frames come, the invariant holds.
THEOREM ChainInvariance == Spec => []ChainInv
BY Initially, Inductive, PTL DEF Spec

\* The chain's state keeps its types: an output is in hand exactly when the brain
\* pipeline has made one, and loaded engines are deployed ones.
THEOREM DecisionTypeCorrect == Spec => []DecisionTypeOK
<1>1. ChainInv => DecisionTypeOK
  BY DEF ChainInv
<1> QED
  BY <1>1, ChainInvariance, PTL

\* The robot is never held for an anomaly score made without the previous output, for
\* any rows the networks give (anomaly_detector.py:73-76, nav_commander.py:39).
THEOREM HoldsWithPrevious == Spec => []HoldNeedsPrevious
<1>1. ChainInv => HoldNeedsPrevious
  BY DEF ChainInv, CommandMade, HoldNeedsPrevious
<1> QED
  BY <1>1, ChainInvariance, PTL

\* If the robot avoids somebody it also does so when one of the people is closer and
\* predicted to be: the modes follow from the risks alone (nav_commander.py:58-85).
LEMMA CloserAvoided ==
  ASSUME ChainInv, frame.did = "command", frame.mode = "avoid",
         NEW i \in DOMAIN scene, NEW q \in People, Closer(scene[i], q)
  PROVE  Mode([scene EXCEPT ![i] = q], frame.score) = "avoid"
<1> DEFINE moved == [scene EXCEPT ![i] = q]
<1>1. /\ scene \in Scenes
      /\ frame.score \in [DOMAIN scene -> Scores]
      /\ Mode(scene, frame.score) = "avoid"
  BY DEF ChainInv, DecisionTypeOK, CommandMade
<1>2. \A j \in DOMAIN scene : scene[j] \in Person
  BY <1>1, SceneShape, DecisionAssumption DEF Person
<1>3. q \in Person
  BY DecisionAssumption DEF Person
<1>4. \A j \in DOMAIN scene : frame.score[j] \in Nat
  <2>1. \A x \in Scores : x \in Nat
    BY DEF Scores
  <2> QED
    BY <1>1, <2>1
<1>5. /\ ~ \E j \in DOMAIN scene : Critical(frame.score[j])
      /\ \E j \in DOMAIN scene : Risk(scene[j], frame.score[j]) >= 18000
  BY <1>1 DEF Mode
<1>6. PICK j \in DOMAIN scene : Risk(scene[j], frame.score[j]) >= 18000
  BY <1>5
<1>7. DOMAIN moved = DOMAIN scene
  OBVIOUS
<1>8. Risk(moved[j], frame.score[j]) >= 18000
  <2>1. CASE j = i
    <3>1. moved[j] = q
      BY <2>1, <1>1, SceneShape
    <3> QED
      BY <1>2, <1>3, <1>4, <1>6, <2>1, <3>1, CloserRisk
  <2>2. CASE j # i
    <3>1. moved[j] = scene[j]
      BY <2>2
    <3> QED
      BY <1>6, <3>1
  <2> QED
    BY <2>1, <2>2
<1> HIDE DEF moved
<1>9. Mode(moved, frame.score) = "avoid"
  BY <1>5, <1>6, <1>7, <1>8 DEF Mode
<1> QED
  BY <1>9 DEF moved

\* The command never becomes less careful because somebody is closer, for any people
\* and rows (nav_commander.py:71-85).
THEOREM CarefulCommands == Spec => []CarefulWhenCloser
<1>1. ChainInv => CarefulWhenCloser
  BY CloserAvoided DEF CarefulWhenCloser
<1> QED
  BY <1>1, ChainInvariance, PTL

\* What a frame of the brain does on a route.
FrameOf(level, reading, sequences, entities, fitting, raises) ==
  LET routed == Routed(Effective(level, Healthy(reading))) IN
  /\ loaded' = loaded \union Loads(routed, Len(scene'), fitting, raises)
  /\ frame'.even = (sequences = entities /\ fitting)
  /\ frame'.did = "no output" => Raises(routed, Len(scene'), fitting, sequences, entities)

\* What a frame loads, and why it is left without output (brain_pipeline.py:75-107).
LEMMA Routes ==
  ASSUME BrainRun
  PROVE  \E level \in 0 .. 3, reading \in Readings, sequences, entities \in Batches,
            fitting, raises \in BOOLEAN :
           FrameOf(level, reading, sequences, entities, fitting, raises)
<1>1. PICK level \in 0 .. 3, reading \in Readings, sequences \in Batches,
           entities \in Batches, fitting \in BOOLEAN :
        LET people == Len(scene')
            routed == Routed(Effective(level, Healthy(reading)))
            raises == Raises(routed, people, fitting, sequences, entities)
        IN /\ loaded' = loaded \union Loads(routed, people, fitting, raises)
           /\ unified' = IF raises THEN 0 ELSE sequences
           /\ frame' = [did |-> IF raises THEN "no output" ELSE "output",
                        even |-> sequences = entities /\ fitting]
  BY DEF BrainRun
<1> DEFINE routed == Routed(Effective(level, Healthy(reading)))
           raises == Raises(routed, Len(scene'), fitting, sequences, entities)
<1>2. loaded' = loaded \union Loads(routed, Len(scene'), fitting, raises)
  BY <1>1, Zenon
<1>3. frame' = [did |-> IF raises THEN "no output" ELSE "output",
                even |-> sequences = entities /\ fitting]
  BY <1>1, Zenon
<1>4. frame'.even = (sequences = entities /\ fitting)
  BY <1>3, Zenon
<1>5. frame'.did = "no output" => raises
  BY <1>3
<1>6. raises \in BOOLEAN
  BY DEF Raises
<1> QED
  BY <1>2, <1>4, <1>5, <1>6, Zenon DEF FrameOf

\* The decision pipeline makes a command or none, never an output.
LEMMA BehaviorFrame == BehaviorRun => frame'.did \in {"command", "no command"}
<1> SUFFICES ASSUME BehaviorRun PROVE frame'.did \in {"command", "no command"}
  OBVIOUS
<1>1. PICK given \in BOOLEAN :
        IF Fits(Len(scene), given)
        THEN \E rows \in [1 .. unified -> Rows] : frame' = Command(given, rows)
        ELSE frame' = [did |-> "no command"]
  BY DEF BehaviorRun
<1>2. \A rows : Command(given, rows).did = "command"
  BY DEF Command
<1>3. CASE Fits(Len(scene), given)
  <2>1. PICK rows \in [1 .. unified -> Rows] : frame' = Command(given, rows)
    BY <1>1, <1>3
  <2> QED
    BY <1>2, <2>1
<1>4. CASE ~Fits(Len(scene), given)
  <2>1. frame' = [did |-> "no command"]
    BY <1>1, <1>4
  <2> QED
    BY <2>1
<1> QED
  BY <1>3, <1>4

\* A route is a set of engines (adaptive_router.py:42-52).
LEMMA RoutesAreEngines ==
  ASSUME NEW level \in 0 .. 3, NEW healthy \in BOOLEAN
  PROVE  Routed(Effective(level, healthy)) \subseteq Engines
<1>1. Effective(level, healthy) \in 0 .. 3
  BY DEF Effective
<1>2. \A i \in 1 .. Effective(level, healthy) + 1 : i \in {1, 2, 3, 4}
  BY <1>1
<1>3. ASSUME NEW i \in {1, 2, 3, 4} PROVE Pathways[i] \in Engines
  BY DEF Pathways, Engines
<1> QED
  BY <1>2, <1>3 DEF Routed

\* Once all engines are deployed only an empty scene or features that do not fit
\* each other leave a frame without output, whatever failed before (reasoning/runtime.py:71-74).
THEOREM OutputsOnceDeployed == Spec => OutputOnceDeployed
<1> DEFINE Step == frame'.did = "no output" /\ files = Engines
                     => scene' = <<>> \/ ~frame'.even
<1>1. [Next]_vars => [Step]_vars
  <2> SUFFICES ASSUME BrainRun, frame'.did = "no output", files = Engines, frame'.even
               PROVE  scene' = <<>>
    BY BehaviorFrame DEF Next, Deploy, vars
  <2>1. PICK level \in 0 .. 3, reading \in Readings, sequences, entities \in Batches,
             fitting, raises \in BOOLEAN :
          FrameOf(level, reading, sequences, entities, fitting, raises)
    BY Routes
  <2> DEFINE routed == Routed(Effective(level, Healthy(reading)))
  <2>2. /\ Raises(routed, Len(scene'), fitting, sequences, entities)
        /\ sequences = entities /\ fitting
    BY <2>1 DEF FrameOf
  <2>3. ~BatchesDiffer(routed, sequences, entities) /\ ~NoEngine("fusion")
    BY <2>2 DEF BatchesDiffer, NoEngine, Engines
  <2>4. Stops(routed, Len(scene'), fitting) # {}
    BY <2>2, <2>3 DEF Raises
  <2>5. routed \subseteq Engines
    <3>1. Healthy(reading) \in BOOLEAN
      BY DEF Healthy
    <3> QED
      BY <3>1, RoutesAreEngines
  <2>6. Len(scene') = 0
    BY <2>2, <2>4, <2>5 DEF Stops, Refuses, NoEntity, NotAdjacent, NoEngine
  <2>7. scene' \in Scenes
    BY DEF BrainRun
  <2> QED
    BY <2>6, <2>7, SceneShape
<1> QED
  BY <1>1, PTL DEF Spec, OutputOnceDeployed

================================================================================
