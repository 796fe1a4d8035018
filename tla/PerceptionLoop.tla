----------------------------- MODULE PerceptionLoop -----------------------------
(***************************************************************************)
(* The thread of RuntimePerceptionLoop (src/src/runtime/perception_loop.py)*)
(* with the PerceptionPipeline (src/src/perception/pipeline.py) it runs on *)
(* each frame and the frame source it polls, which keeps only the latest   *)
(* frame and replaces it at any time.  A stopped runtime that is started   *)
(* again makes a new loop and pipeline beside the same frame source; that  *)
(* the old thread outlasts its join is left to RuntimeController.          *)
(*                                                                         *)
(* A frame is its sequence number and what the detector would report in    *)
(* it, or Garbled when the JPEG does not decode.  Positions, velocities,   *)
(* timings and the fusion with IMU and LiDAR are not represented.          *)
(***************************************************************************)
EXTENDS Tracker

CONSTANTS
  IouThreshold,  \* iou_threshold
  MaxMissed,     \* max_missed_frames
  Pictures,      \* what the detector may report in a frame: sequences of boxes
  Garbled,       \* a frame that does not decode
  DetectEveryN,  \* detect_every_n
  MaxFrames,     \* bound: frames captured in a behaviour
  MaxAttempts,   \* bound: calls of PerceptionPipeline.process
  MaxFailures,   \* bound: exceptions raised by the detector or the publisher
  MaxLives       \* bound: loops made by the controller

ASSUME LoopAssumption ==
  /\ IouThreshold \in Nat /\ MaxMissed \in Nat
  /\ Pictures \subseteq Seq(Boxes)
  /\ Garbled \notin Pictures
  /\ DetectEveryN \in Nat
  /\ MaxFrames \in Nat /\ MaxAttempts \in Nat /\ MaxFailures \in Nat
  /\ MaxLives \in Nat \ {0}

Configuration == [iou |-> IouThreshold, missed |-> MaxMissed]

VARIABLES
  latest,          \* the frame source's _latest; sequence 0 stands for None
  at,              \* where the loop is in process_once
  frame,           \* the frame it processes
  lastFrame,       \* _last_frame_sequence, 0 for None
  lastError,       \* _last_error is not None
  frameCount,      \* PerceptionPipeline._frame_count
  lastDetections,  \* PerceptionPipeline._last_detections
  tracks,          \* MultiObjectTracker._tracks
  nextId,          \* MultiObjectTracker._next_track_id
  stopping,        \* _stop_event
  failures,        \* bound: exceptions so far
  life,            \* history and bound: the loops made so far
  detectedAt,      \* history: frameCount when lastDetections was computed
  detectFailures,  \* history: detector exceptions since then
  published        \* history: the messages published, by which loop and of which frame

loopVars == <<at, frame, lastFrame, lastError>>
pipelineVars == <<frameCount, lastDetections, tracks, nextId>>
historyVars == <<failures, life, detectedAt, detectFailures, published>>
vars == <<latest, loopVars, pipelineVars, stopping, historyVars>>

Frame == [seq : 0 .. MaxFrames, picture : Pictures \union {Garbled}]
NoFrame == [seq |-> 0, picture |-> Garbled]

TypeOK ==
  /\ latest \in Frame
  /\ at \in {"poll", "decode", "detect", "track", "publish", "ended"}
  /\ frame \in Frame
  /\ lastFrame \in 0 .. MaxFrames
  /\ lastError \in BOOLEAN
  /\ frameCount \in 0 .. MaxAttempts
  /\ lastDetections \in Seq(Boxes)
  /\ tracks \in Seq(TrackType(Configuration))
  /\ nextId \in Nat \ {0}
  /\ stopping \in BOOLEAN
  /\ failures \in 0 .. MaxFailures
  /\ detectedAt \in 0 .. MaxAttempts
  /\ detectFailures \in 0 .. MaxFailures
  /\ life \in 1 .. MaxLives
  /\ published \in Seq([life : 1 .. MaxLives, seq : 1 .. MaxFrames])

Init ==
  /\ latest = NoFrame
  /\ at = "poll"
  /\ frame = NoFrame
  /\ lastFrame = 0
  /\ lastError = FALSE
  /\ frameCount = 0
  /\ lastDetections = <<>>
  /\ tracks = <<>>
  /\ nextId = 1
  /\ stopping = FALSE
  /\ failures = 0
  /\ life = 1
  /\ detectedAt = 0
  /\ detectFailures = 0
  /\ published = <<>>

--------------------------------------------------------------------------------
(* The frame source and stop().                                            *)

Capture ==
  /\ latest.seq < MaxFrames
  /\ \E p \in Pictures \union {Garbled} :
       latest' = [seq |-> latest.seq + 1, picture |-> p]
  /\ UNCHANGED <<loopVars, pipelineVars, stopping, historyVars>>

Stop ==
  /\ ~stopping
  /\ stopping' = TRUE
  /\ UNCHANGED <<latest, loopVars, pipelineVars, historyVars>>

\* The runtime is started again: the new loop has processed no frame, its pipeline has
\* no tracks, and the frame source still has its last frame.
Restart ==
  /\ at = "ended" /\ life < MaxLives
  /\ life' = life + 1
  /\ at' = "poll" /\ frame' = NoFrame /\ lastFrame' = 0 /\ lastError' = FALSE
  /\ frameCount' = 0 /\ lastDetections' = <<>> /\ tracks' = <<>> /\ nextId' = 1
  /\ detectedAt' = 0 /\ detectFailures' = 0
  /\ stopping' = FALSE
  /\ UNCHANGED <<latest, failures, published>>

--------------------------------------------------------------------------------
(* _run and process_once.                                                  *)

\* Mutant: every poll with a frame processes it.
IsNew_Always == latest.seq # 0

IsNew == latest.seq # 0 /\ latest.seq # lastFrame

\* With no new frame the loop sleeps and polls again, which changes nothing.
Poll ==
  /\ at = "poll"
  /\ ~stopping
  /\ IsNew
  /\ frameCount < MaxAttempts
  /\ frame' = latest
  /\ at' = "decode"
  /\ UNCHANGED <<latest, lastFrame, lastError, pipelineVars, stopping, historyVars>>

Exit ==
  /\ at = "poll"
  /\ stopping
  /\ at' = "ended"
  /\ UNCHANGED <<latest, frame, lastFrame, lastError, pipelineVars, stopping,
                 historyVars>>

\* Mutant: a frame that failed is not tried again.
Raise_GivesUp ==
  /\ at' = "poll"
  /\ lastError' = TRUE
  /\ lastFrame' = frame.seq
  /\ UNCHANGED frame

\* The exception handler of _run: _last_frame_sequence is not updated, so that
\* the next poll takes the same frame again unless a newer one has arrived.
Raise ==
  /\ at' = "poll"
  /\ lastError' = TRUE
  /\ UNCHANGED <<frame, lastFrame>>

GoTo(point) ==
  /\ at' = point
  /\ UNCHANGED <<frame, lastFrame, lastError>>

\* An exception no frame determines: a bounded number of times.
Unforeseen ==
  /\ failures < MaxFailures
  /\ failures' = failures + 1

Decode ==
  /\ at = "decode"
  /\ IF frame.picture = Garbled THEN Raise ELSE GoTo("detect")
  /\ UNCHANGED <<latest, pipelineVars, stopping, historyVars>>

\* Mutant: DetectEveryN frames are skipped between two detections.
IsDetectionFrame_Off(count) == count % (DetectEveryN + 1) = 1

IsDetectionFrame(count) ==
  count % (IF DetectEveryN > 1 THEN DetectEveryN ELSE 1) = 1

DetectFrame ==
  /\ IsDetectionFrame(frameCount')
  /\ lastDetections' = frame.picture
  /\ detectedAt' = frameCount'
  /\ detectFailures' = 0
  /\ GoTo("track")
  /\ UNCHANGED failures

DetectorRaises ==
  /\ IsDetectionFrame(frameCount')
  /\ Unforeseen
  /\ detectFailures' = detectFailures + 1
  /\ Raise
  /\ UNCHANGED <<lastDetections, detectedAt>>

SkipFrame ==
  /\ ~IsDetectionFrame(frameCount')
  /\ GoTo("track")
  /\ UNCHANGED <<lastDetections, failures, detectedAt, detectFailures>>

Detect ==
  /\ at = "detect"
  /\ frameCount' = frameCount + 1
  /\ DetectFrame \/ DetectorRaises \/ SkipFrame
  /\ UNCHANGED <<latest, tracks, nextId, stopping, life, published>>

Track ==
  /\ at = "track"
  /\ IF CountsDiffer(lastDetections)
       THEN Raise /\ UNCHANGED <<tracks, nextId>>
       ELSE LET tracker == Update(Configuration, [tracks |-> tracks, nextId |-> nextId],
                                  lastDetections)
            IN  tracks' = tracker.tracks /\ nextId' = tracker.nextId /\ GoTo("publish")
  /\ UNCHANGED <<latest, frameCount, lastDetections, stopping, historyVars>>

Publish ==
  /\ at = "publish"
  /\ published' = Append(published, [life |-> life, seq |-> frame.seq])
  /\ lastFrame' = frame.seq
  /\ lastError' = FALSE
  /\ at' = "poll"
  /\ UNCHANGED <<latest, frame, pipelineVars, stopping, failures, life, detectedAt,
                 detectFailures>>

\* The publisher is closed or its queue is full.
PublishRaises ==
  /\ at = "publish"
  /\ Unforeseen
  /\ Raise
  /\ UNCHANGED <<latest, pipelineVars, stopping, life, detectedAt, detectFailures,
                 published>>

LoopStep == Poll \/ Exit \/ Decode \/ Detect \/ Track \/ Publish \/ PublishRaises

Next == Capture \/ Stop \/ Restart \/ LoopStep

Spec == Init /\ [][Next]_vars

\* The loop's thread runs; nobody is obliged to capture a frame, to stop it
\* or to start it again.
FairSpec == Spec /\ WF_vars(LoopStep)

--------------------------------------------------------------------------------
(* Properties                                                              *)

\* No frame is published after a newer one, and none twice by one loop, whatever
\* failed and was tried again in between; a loop that is started again may publish the
\* frame its frame source has kept once more (perception_loop.py:144-145, 157-169,
\* frame_source.py:188-190).
FramesInOrder ==
  \A i, j \in DOMAIN published : i < j =>
    \/ published[i].seq < published[j].seq
    \/ published[i].seq = published[j].seq /\ published[i].life < published[j].life

\* A published result confirms each detection in use by exactly one track: of every
\* box there are as many confirmed tracks as detections, so that the greedy
\* association is one to one and loses none (tracker.py:43-76, 81-113).
ConfirmedAsDetected ==
  at = "publish" => \A b \in Boxes :
    Cardinality({i \in DOMAIN tracks : tracks[i].missed = 0 /\ tracks[i].box = b})
      = Cardinality({i \in DOMAIN lastDetections : lastDetections[i] = b})

\* The detections a frame is tracked with are less than DetectEveryN frames old,
\* and DetectEveryN more for each detection that failed since: the frame after a
\* failed detection is a skip frame (pipeline.py:177-184).
BoundedStaleness ==
  at \in {"track", "publish"} =>
    frameCount - detectedAt < DetectEveryN * (detectFailures + 1)

Usable(picture) == picture # Garbled /\ ~CountsDiffer(picture)

\* A frame that decodes and whose detections have depth is published if it stays
\* the latest, though the loop is stuck on detections without depth or the detector
\* or the publisher raised: retries reach the next detection frame
\* (perception_loop.py:155-169).
EventuallyPublished ==
  \A n \in 1 .. MaxFrames :
    latest.seq = n /\ Usable(latest.picture)
      ~> \/ \E i \in DOMAIN published : published[i].seq = n
         \/ latest.seq # n
         \/ stopping
         \/ frameCount = MaxAttempts

================================================================================
