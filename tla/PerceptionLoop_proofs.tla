-------------------------- MODULE PerceptionLoop_proofs --------------------------
(***************************************************************************)
(* Theorems about PerceptionLoop, for any pictures, tracker parameters and *)
(* bounds: frames are published in order, with any cadence from 2 on the   *)
(* detections in use are of bounded age, and what is published confirms    *)
(* each of them once.                                                      *)
(***************************************************************************)
EXTENDS PerceptionLoop, Tracker_proofs

Message == [life : Nat, seq : Nat]

\* A frame is in work.
Working == at \in {"decode", "detect", "track", "publish"}

\* The types the order needs.
Numbers ==
  /\ latest.seq \in Nat /\ frame.seq \in Nat /\ lastFrame \in Nat /\ life \in Nat
  /\ published \in Seq(Message)

\* What was published is known to the frame source, and what this loop published is
\* not newer than the last frame it remembers.
Remembered ==
  \A i \in DOMAIN published :
    /\ published[i].seq <= latest.seq
    /\ published[i].life <= life
    /\ published[i].life = life => published[i].seq <= lastFrame

\* The frame in work is newer than the last one of this loop and not older than any
\* that was published; a frame that failed is neither remembered nor published.
NewFrame ==
  Working => /\ lastFrame < frame.seq /\ frame.seq <= latest.seq
             /\ \A i \in DOMAIN published : published[i].seq <= frame.seq

OrderInv ==
  /\ Numbers
  /\ lastFrame <= latest.seq
  /\ Remembered
  /\ NewFrame
  /\ FramesInOrder

\* What was published has a loop and a number.
LEMMA MessageFields ==
  ASSUME Numbers, NEW i \in DOMAIN published
  PROVE  published[i].life \in Nat /\ published[i].seq \in Nat
<1>1. published[i] \in Message
  BY DEF Numbers
<1> QED
  BY <1>1 DEF Message

\* The steps of a loop that neither take a frame nor publish one.
Between ==
  /\ UNCHANGED <<latest, frame, lastFrame, life, published>>
  /\ Working' => Working

\* They change nothing the order depends on.
LEMMA BetweenStep ==
  ASSUME OrderInv, Between
  PROVE  OrderInv'
BY DEF OrderInv, Between, Numbers, Remembered, NewFrame, FramesInOrder

\* Decoding, detecting and tracking a frame, and giving up on it, are such steps
\* (perception_loop.py:111-143, 163-169).
LEMMA WorkIsBetween ==
  ASSUME Exit \/ Decode \/ Detect \/ Track \/ PublishRaises \/ Stop
  PROVE  Between
<1>1. CASE Exit
  BY <1>1 DEF Exit, Between, Working, pipelineVars, historyVars
<1>2. CASE Decode
  BY <1>2 DEF Decode, Raise, GoTo, Between, Working, historyVars
<1>3. CASE Detect
  BY <1>3 DEF Detect, DetectFrame, DetectorRaises, SkipFrame, Raise, GoTo, Between, Working
<1>4. CASE Track
  BY <1>4 DEF Track, Raise, GoTo, Between, Working, historyVars
<1>5. CASE PublishRaises
  BY <1>5 DEF PublishRaises, Raise, Between, Working
<1>6. CASE Stop
  BY <1>6 DEF Stop, Between, Working, loopVars, historyVars
<1> QED
  BY <1>1, <1>2, <1>3, <1>4, <1>5, <1>6

\* Publishing the frame in work keeps the order (perception_loop.py:144-145).
LEMMA PublishStep ==
  ASSUME OrderInv, Publish
  PROVE  OrderInv'
<1> DEFINE m == [life |-> life, seq |-> frame.seq]
<1>1. /\ at = "publish" /\ at' = "poll"
      /\ published' = Append(published, m) /\ lastFrame' = frame.seq
      /\ UNCHANGED <<latest, frame, life>>
  BY DEF Publish
<1>2. /\ Numbers /\ Remembered /\ FramesInOrder
      /\ lastFrame < frame.seq /\ frame.seq <= latest.seq
      /\ \A i \in DOMAIN published : published[i].seq <= frame.seq
  BY <1>1 DEF OrderInv, NewFrame, Working
<1>3. m \in Message /\ m.seq = frame.seq /\ m.life = life
  BY <1>2 DEF Numbers, Message
<1>4. \A i \in DOMAIN published : published[i].life \in Nat /\ published[i].seq \in Nat
  BY <1>2, MessageFields
<1>5. /\ published' \in Seq(Message)
      /\ DOMAIN published' = DOMAIN published \union {Len(published) + 1}
      /\ DOMAIN published = 1 .. Len(published) /\ Len(published) \in Nat
      /\ \A i \in DOMAIN published : published'[i] = published[i]
      /\ published'[Len(published) + 1] = m
  BY <1>1, <1>2, <1>3 DEF Numbers
<1> HIDE DEF m
<1>6. Numbers'
  BY <1>1, <1>2, <1>5 DEF Numbers
<1>7. Remembered'
  BY <1>1, <1>2, <1>3, <1>4, <1>5 DEF Remembered, Numbers
<1>8. FramesInOrder'
  <2> SUFFICES ASSUME NEW i \in DOMAIN published', NEW j \in DOMAIN published', i < j
               PROVE  \/ published'[i].seq < published'[j].seq
                      \/ /\ published'[i].seq = published'[j].seq
                         /\ published'[i].life < published'[j].life
    BY DEF FramesInOrder
  <2>1. i \in DOMAIN published
    BY <1>5
  <2>2. CASE j \in DOMAIN published
    BY <1>2, <1>5, <2>1, <2>2 DEF FramesInOrder
  <2>3. CASE j = Len(published) + 1
    <3>1. /\ published[i].seq <= frame.seq /\ published[i].life <= life
          /\ published[i].life = life => published[i].seq <= lastFrame
      BY <1>2, <2>1 DEF Remembered
    <3>2. published[i].seq \in Nat /\ published[i].life \in Nat
      BY <1>2, <2>1, MessageFields
    <3> QED
      BY <1>2, <1>3, <1>5, <2>1, <2>3, <3>1, <3>2 DEF Numbers
  <2> QED
    BY <1>5, <2>2, <2>3
<1>9. lastFrame' <= latest'.seq /\ NewFrame'
  BY <1>1, <1>2 DEF NewFrame, Working
<1> QED
  BY <1>6, <1>7, <1>8, <1>9 DEF OrderInv

\* The frame a loop takes is new to it, as its number differs from the remembered one,
\* and none that was published is newer (perception_loop.py:158-161).
LEMMA PollStep ==
  ASSUME OrderInv, Poll
  PROVE  OrderInv'
<1>1. /\ latest.seq # lastFrame /\ frame' = latest
      /\ UNCHANGED <<latest, lastFrame, life, published>>
  BY DEF Poll, IsNew, historyVars
<1>2. Numbers' /\ Remembered' /\ FramesInOrder' /\ lastFrame' <= latest'.seq
  BY <1>1 DEF OrderInv, Numbers, Remembered, FramesInOrder
<1>3. NewFrame'
  BY <1>1 DEF OrderInv, Numbers, Remembered, NewFrame
<1> QED
  BY <1>2, <1>3 DEF OrderInv

\* A new frame is newer than all that was published or is in work
\* (frame_source.py:225-233).
LEMMA CaptureStep ==
  ASSUME OrderInv, Capture
  PROVE  OrderInv'
<1>1. /\ latest'.seq = latest.seq + 1
      /\ UNCHANGED <<at, frame, lastFrame, life, published>>
  BY DEF Capture, loopVars, historyVars
<1>2. latest.seq \in Nat /\ frame.seq \in Nat /\ lastFrame \in Nat
      /\ \A i \in DOMAIN published : published[i].seq \in Nat
  BY MessageFields DEF OrderInv, Numbers
<1>3. Numbers' /\ FramesInOrder' /\ lastFrame' <= latest'.seq
  BY <1>1, <1>2 DEF OrderInv, Numbers, FramesInOrder
<1>4. Remembered'
  BY <1>1, <1>2 DEF OrderInv, Remembered
<1>5. NewFrame'
  BY <1>1, <1>2 DEF OrderInv, NewFrame, Working
<1> QED
  BY <1>3, <1>4, <1>5 DEF OrderInv

\* A new loop remembers nothing and has published nothing (controller.py:341-355).
LEMMA RestartStep ==
  ASSUME OrderInv, Restart
  PROVE  OrderInv'
<1>1. /\ life' = life + 1 /\ lastFrame' = 0 /\ frame'.seq = 0 /\ at' = "poll"
      /\ UNCHANGED <<latest, published>>
  BY DEF Restart, NoFrame
<1>2. /\ latest.seq \in Nat /\ life \in Nat
      /\ \A i \in DOMAIN published : published[i].life \in Nat
  BY MessageFields DEF OrderInv, Numbers
<1>3. Numbers' /\ FramesInOrder' /\ lastFrame' <= latest'.seq
  BY <1>1, <1>2 DEF OrderInv, Numbers, FramesInOrder
<1>4. Remembered'
  BY <1>1, <1>2 DEF OrderInv, Remembered
<1>5. NewFrame'
  BY <1>1 DEF NewFrame, Working
<1> QED
  BY <1>3, <1>4, <1>5 DEF OrderInv

\* Every step of the loop, the frame source and the controller keeps the order.
LEMMA OrderStep ==
  ASSUME OrderInv, [Next]_vars
  PROVE  OrderInv'
<1>1. CASE Capture
  BY <1>1, CaptureStep
<1>2. CASE Restart
  BY <1>2, RestartStep
<1>3. CASE Poll
  BY <1>3, PollStep
<1>4. CASE Publish
  BY <1>4, PublishStep
<1>5. CASE Exit \/ Decode \/ Detect \/ Track \/ PublishRaises \/ Stop
  BY <1>5, WorkIsBetween, BetweenStep
<1>6. CASE UNCHANGED vars
  <2>1. Between
    BY <1>6 DEF vars, loopVars, historyVars, Between, Working
  <2> QED
    BY <2>1, BetweenStep
<1> QED
  BY <1>1, <1>2, <1>3, <1>4, <1>5, <1>6 DEF Next, LoopStep

\* The first loop starts with no frame and nothing published.
LEMMA OrderAtFirst == Init => OrderInv
BY DEF Init, OrderInv, Numbers, Remembered, NewFrame, FramesInOrder, Working, NoFrame, Message

\* For any pictures, cadence, tracker and bounds, no frame is published after a newer
\* one, none twice by one loop, and across restarts none but the one the frame source
\* kept (perception_loop.py:144-145, 157-169, frame_source.py:188-190).
THEOREM PublishedInOrder == Spec => []FramesInOrder
<1>1. OrderInv => FramesInOrder
  BY DEF OrderInv
<1> QED
  BY <1>1, OrderAtFirst, OrderStep, PTL DEF Spec

--------------------------------------------------------------------------------
(* The age of the detections.                                              *)

N == DetectEveryN

\* How the count of frames, the count at the last detection (0 before the first) and
\* the failures since then relate: each turn of N frames has one detection frame.
InCadence(count, detected, failed) ==
  \/ detected = 0 /\ count <= N * failed
  \/ \E q \in Nat : detected = N * q + 1 /\ count <= N * (q + failed + 1)

\* The frames after a whole number of turns are detection frames (pipeline.py:178).
LEMMA TurnStarts ==
  ASSUME N > 1, NEW q \in Nat
  PROVE  IsDetectionFrame(N * q + 1)
<1> DEFINE x == N * q + 1
           t == x \div N
           r == x % N
<1>1. N \in Nat
  BY LoopAssumption DEF N
<1>2. x \in Nat
  BY <1>1
<1> HIDE DEF x
<1>3. x = N * t + r /\ t \in Nat /\ r \in 0 .. N - 1
  BY <1>1, <1>2
<1> HIDE DEF t, r
<1>4. N * q + 1 = N * t + r
  BY <1>3 DEF x
<1>5. q - t >= 1 => N * (q - t) >= N
  BY <1>1, <1>3
<1>6. t - q >= 1 => N * (t - q) >= N
  BY <1>1, <1>3
<1>7. N * (q - t) = N * q - N * t /\ N * (t - q) = N * t - N * q
  BY <1>1, <1>3
<1>8. N * q \in Nat /\ N * t \in Nat
  BY <1>1, <1>3
<1>9. q = t
  BY <1>1, <1>3, <1>4, <1>5, <1>6, <1>7, <1>8
<1>10. r = 1
  BY <1>3, <1>4, <1>8, <1>9
<1> QED
  BY <1>10 DEF IsDetectionFrame, N, x, r

\* A detection frame is one after a whole number of turns.
LEMMA TurnOf ==
  ASSUME N > 1, NEW count \in Nat, IsDetectionFrame(count)
  PROVE  \E q \in Nat : count = N * q + 1
<1>1. N \in Nat /\ count % N = 1
  BY LoopAssumption DEF N, IsDetectionFrame
<1> QED
  BY <1>1

\* The cadence holds after a frame that is skipped, one whose detection fails and one
\* that is detected in (pipeline.py:177-184).
LEMMA CadenceSteps ==
  ASSUME N > 1, NEW count \in Nat, NEW detected \in Nat, NEW failed \in Nat,
         InCadence(count, detected, failed)
  PROVE  /\ ~IsDetectionFrame(count + 1) => InCadence(count + 1, detected, failed)
         /\ InCadence(count + 1, detected, failed + 1)
         /\ IsDetectionFrame(count + 1) => InCadence(count + 1, count + 1, 0)
<1>1. N \in Nat
  BY LoopAssumption DEF N
<1>2. \A a \in Nat : N * a \in Nat /\ N * (a + 1) = N * a + N
  BY <1>1
<1>3. IsDetectionFrame(count + 1) => InCadence(count + 1, count + 1, 0)
  <2> SUFFICES ASSUME IsDetectionFrame(count + 1)
               PROVE  InCadence(count + 1, count + 1, 0)
    OBVIOUS
  <2>1. PICK q \in Nat : count + 1 = N * q + 1
    BY TurnOf
  <2>2. count + 1 <= N * (q + 0 + 1)
    BY <1>1, <1>2, <2>1
  <2> QED
    BY <2>1, <2>2 DEF InCadence
<1>4. CASE detected = 0 /\ count <= N * failed
  <2>1. ~IsDetectionFrame(count + 1) => count # N * failed
    BY TurnStarts
  <2>2. count + 1 <= N * (failed + 1)
    BY <1>1, <1>2, <1>4
  <2>3. ~IsDetectionFrame(count + 1) => count + 1 <= N * failed
    BY <1>2, <1>4, <2>1
  <2> QED
    BY <1>3, <1>4, <2>2, <2>3 DEF InCadence
<1>5. ASSUME NEW q \in Nat, detected = N * q + 1, count <= N * (q + failed + 1)
      PROVE  /\ ~IsDetectionFrame(count + 1) => InCadence(count + 1, detected, failed)
             /\ InCadence(count + 1, detected, failed + 1)
  <2>1. ~IsDetectionFrame(count + 1) => count # N * (q + failed + 1)
    BY TurnStarts
  <2>2. N * (q + (failed + 1) + 1) = N * (q + failed + 1) + N
    BY <1>1
  <2>3. N * (q + failed + 1) \in Nat
    BY <1>1
  <2>4. count + 1 <= N * (q + (failed + 1) + 1)
    BY <1>1, <1>5, <2>2, <2>3
  <2>5. ~IsDetectionFrame(count + 1) => count + 1 <= N * (q + failed + 1)
    BY <1>5, <2>1, <2>3
  <2> QED
    BY <1>5, <2>4, <2>5 DEF InCadence
<1> QED
  BY <1>3, <1>4, <1>5 DEF InCadence

\* In cadence, the detections are younger than one turn and one for each failure.
LEMMA CadenceBound ==
  ASSUME N > 1, NEW count \in Nat, NEW detected \in Nat, NEW failed \in Nat,
         InCadence(count, detected, failed)
  PROVE  count - detected < N * (failed + 1)
<1>1. N \in Nat
  BY LoopAssumption DEF N
<1>2. N * (failed + 1) = N * failed + N /\ N * failed \in Nat
  BY <1>1
<1>3. ASSUME NEW q \in Nat, detected = N * q + 1, count <= N * (q + failed + 1)
      PROVE  count - detected < N * (failed + 1)
  <2> DEFINE turns == N * q
             age   == N * (failed + 1)
  <2>1. N * (q + failed + 1) = turns + age /\ turns \in Nat /\ age \in Nat
    BY <1>1
  <2> HIDE DEF turns, age
  <2>2. count <= turns + age /\ detected = turns + 1
    BY <1>3, <2>1 DEF turns
  <2>3. count - detected < age
    BY <2>1, <2>2
  <2> QED
    BY <2>3 DEF age
<1> QED
  BY <1>1, <1>2, <1>3 DEF InCadence

\* The pipeline's counter and its last detection are in cadence.
StaleInv ==
  /\ frameCount \in Nat /\ detectedAt \in Nat /\ detectFailures \in Nat
  /\ InCadence(frameCount, detectedAt, detectFailures)

\* A detection or a skipped frame keeps the cadence, a new pipeline begins one, and
\* nothing else counts frames (pipeline.py:177-184).
LEMMA StaleStep ==
  ASSUME N > 1, StaleInv, [Next]_vars
  PROVE  StaleInv'
<1>1. CASE Detect
  <2>1. frameCount' = frameCount + 1
    BY <1>1 DEF Detect
  <2>2. /\ ~IsDetectionFrame(frameCount + 1)
             => InCadence(frameCount + 1, detectedAt, detectFailures)
        /\ InCadence(frameCount + 1, detectedAt, detectFailures + 1)
        /\ IsDetectionFrame(frameCount + 1) => InCadence(frameCount + 1, frameCount + 1, 0)
    BY CadenceSteps DEF StaleInv
  <2>3. CASE DetectFrame
    BY <2>1, <2>2, <2>3 DEF DetectFrame, StaleInv
  <2>4. CASE DetectorRaises
    BY <2>1, <2>2, <2>4 DEF DetectorRaises, StaleInv
  <2>5. CASE SkipFrame
    BY <2>1, <2>2, <2>5 DEF SkipFrame, StaleInv
  <2> QED
    BY <1>1, <2>3, <2>4, <2>5 DEF Detect
<1>2. CASE Restart
  <2>1. InCadence(0, 0, 0)
    BY LoopAssumption DEF InCadence, N
  <2> QED
    BY <1>2, <2>1 DEF Restart, StaleInv
<1>3. CASE UNCHANGED <<frameCount, detectedAt, detectFailures>>
  BY <1>3 DEF StaleInv
<1>4. CASE Capture \/ Stop \/ Poll \/ Exit \/ Decode \/ Track \/ Publish \/ PublishRaises
           \/ UNCHANGED vars
  <2>1. UNCHANGED <<frameCount, detectedAt, detectFailures>>
    BY <1>4 DEF Capture, Stop, Poll, Exit, Decode, Track, Publish, PublishRaises, vars,
                pipelineVars, historyVars
  <2> QED
    BY <1>3, <2>1
<1> QED
  BY <1>1, <1>2, <1>4 DEF Next, LoopStep

\* With any cadence from 2 on, the detections a frame is tracked with are less than one
\* turn old, and one more for each detection that failed since; a cadence of 1 has no
\* detection frames (pipeline.py:177-184).
THEOREM DetectionsAge == DetectEveryN > 1 => (Spec => []BoundedStaleness)
<1> SUFFICES ASSUME DetectEveryN > 1
             PROVE  Spec => []BoundedStaleness
  OBVIOUS
<1>1. N > 1
  BY DEF N
<1>2. Init => StaleInv
  BY LoopAssumption DEF Init, StaleInv, InCadence, N
<1>3. StaleInv /\ [Next]_vars => StaleInv'
  BY <1>1, StaleStep
<1>4. StaleInv => BoundedStaleness
  BY <1>1, CadenceBound DEF StaleInv, BoundedStaleness, N
<1> QED
  BY <1>2, <1>3, <1>4, PTL DEF Spec

--------------------------------------------------------------------------------
(* The tracks of the loop.                                                 *)

Shown == Pictures \union {Garbled}

\* What is tracked with is a sequence of boxes, as a frame that does not decode ends
\* before the detector sees it; and what is published confirms it.
TrackInv ==
  /\ latest.picture \in Shown /\ frame.picture \in Shown
  /\ at = "detect" => frame.picture # Garbled
  /\ lastDetections \in Seq(Boxes) /\ tracks \in Seq(TrackRecord) /\ nextId \in Nat \ {0}
  /\ ConfirmedAsDetected

\* The steps that leave the tracks alone.
LEMMA TracksAlone ==
  ASSUME TrackInv, UNCHANGED <<lastDetections, tracks, nextId>>,
         latest'.picture \in Shown, frame'.picture \in Shown,
         at' = "detect" => frame'.picture # Garbled,
         at' = "publish" => at = "publish"
  PROVE  TrackInv'
BY DEF TrackInv, ConfirmedAsDetected

\* Every step keeps the tracks in agreement with the detections.
LEMMA TracksStep ==
  ASSUME TrackInv, [Next]_vars
  PROVE  TrackInv'
<1>1. CASE Capture
  <2>1. latest'.picture \in Shown
    BY <1>1 DEF Capture, Shown
  <2> QED
    BY <1>1, <2>1, TracksAlone DEF Capture, loopVars, pipelineVars, TrackInv
<1>2. CASE Restart
  BY <1>2 DEF Restart, NoFrame, TrackInv, ConfirmedAsDetected, Shown
<1>3. CASE Poll
  BY <1>3, TracksAlone DEF Poll, pipelineVars, TrackInv
<1>4. CASE Decode
  BY <1>4, TracksAlone DEF Decode, Raise, GoTo, pipelineVars, TrackInv
<1>5. CASE Detect
  <2>1. UNCHANGED <<latest, frame, tracks, nextId>> /\ at' \in {"poll", "track"}
    BY <1>5 DEF Detect, DetectFrame, DetectorRaises, SkipFrame, Raise, GoTo
  <2>2. frame.picture \in Seq(Boxes)
    BY <1>5, LoopAssumption DEF Detect, TrackInv, Shown
  <2>3. lastDetections' \in Seq(Boxes)
    BY <1>5, <2>2 DEF Detect, DetectFrame, DetectorRaises, SkipFrame, TrackInv
  <2> QED
    BY <2>1, <2>3 DEF TrackInv, ConfirmedAsDetected
<1>6. CASE Track
  <2>1. UNCHANGED <<latest, frame, lastDetections>>
    BY <1>6 DEF Track, Raise, GoTo
  <2>2. CASE CountsDiffer(lastDetections)
    BY <1>6, <2>1, <2>2, TracksAlone DEF Track, Raise, TrackInv
  <2>3. CASE ~CountsDiffer(lastDetections)
    <3> DEFINE tracker == [tracks |-> tracks, nextId |-> nextId]
               new == Update(Configuration, tracker, lastDetections)
    <3>1. tracks' = new.tracks /\ nextId' = new.nextId /\ at' = "publish"
      BY <1>6, <2>3 DEF Track, GoTo
    <3>2. /\ lastDetections \in Seq(Boxes) /\ tracker.tracks \in Seq(TrackRecord)
          /\ tracker.nextId \in Nat \ {0} /\ Configuration.missed \in Nat
      BY LoopAssumption DEF TrackInv, Configuration
    <3> HIDE DEF tracker
    <3>3. Follows(new, Configuration, tracker, lastDetections)
      BY <3>2, UpdateFollows
    <3> HIDE DEF new
    <3>4. /\ tracks' \in Seq(TrackRecord) /\ nextId' \in Nat \ {0}
          /\ AsMany(tracks', lastDetections)
      BY <3>1, <3>2, <3>3 DEF Follows
    <3>5. ConfirmedAsDetected'
      BY <2>1, <3>4 DEF AsMany, ConfirmedAsDetected
    <3> QED
      BY <2>1, <3>1, <3>4, <3>5 DEF TrackInv
  <2> QED
    BY <2>2, <2>3
<1>7. CASE Publish \/ PublishRaises \/ Exit \/ Stop \/ UNCHANGED vars
  <2>1. /\ UNCHANGED <<latest, frame, lastDetections, tracks, nextId>>
        /\ UNCHANGED at \/ at' \in {"poll", "ended"}
    BY <1>7 DEF Publish, PublishRaises, Raise, Exit, Stop, vars, loopVars, pipelineVars
  <2> QED
    BY <2>1, TracksAlone DEF TrackInv
<1> QED
  BY <1>1, <1>2, <1>3, <1>4, <1>5, <1>6, <1>7 DEF Next, LoopStep

\* For any boxes, overlaps, threshold, scenes and failures, a published result confirms
\* each detection in use by exactly one track (tracker.py:43-76, 81-113).
THEOREM DetectionsConfirmed == Spec => []ConfirmedAsDetected
<1>1. Init => TrackInv
  BY DEF Init, NoFrame, TrackInv, ConfirmedAsDetected, Shown
<1>2. TrackInv /\ [Next]_vars => TrackInv'
  BY TracksStep
<1>3. TrackInv => ConfirmedAsDetected
  BY DEF TrackInv
<1> QED
  BY <1>1, <1>2, <1>3, PTL DEF Spec
================================================================================
