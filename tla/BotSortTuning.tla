----------------------------- MODULE BotSortTuning -----------------------------
(***************************************************************************)
(* tune_botsort (src/pipelines/train_tracker_botsort.py) as operators: the *)
(* score of each candidate configuration of the tracker on sequences with  *)
(* known ground truth.  Overlaps and thresholds are in tenths; every box   *)
(* is at the same depth (_fake_depth_boxes), so the depth gate separates   *)
(* nothing and is left out.                                                *)
(***************************************************************************)
EXTENDS Integers, Tracker

CONSTANTS
  Mot20,      \* the folders of MOT20 in order: [files, frames]; a frame is [no, dets, truth]
  Hallway,    \* the sequences named in hallway_rgbdt: [files, frames]; a frame is [no, truth]
  MaxTuned,   \* max_mot20_sequences, max_hallway_sequences
  MaxScored   \* max_frames_per_sequence

Truth == Seq([id : Nat, box : Boxes])
Folder(frame) == [files : SUBSET STRING, frames : SUBSET frame]

\* The frames of a folder are known by their numbers.
ASSUME TuningAssumption ==
  /\ Mot20 \in Seq(Folder([no : Nat, dets : Seq(Boxes), truth : Truth]))
  /\ Hallway \in Seq(Folder([no : Nat, truth : Truth]))
  /\ \A folders \in {Mot20, Hallway} : \A i \in DOMAIN folders :
       /\ IsFiniteSet(folders[i].frames)
       /\ \A f, g \in folders[i].frames : f.no = g.no => f = g
  /\ MaxTuned \in Nat /\ MaxScored \in Nat

\* The sequences a tuning uses: the first of those whose files are all there.
Taken(folders, files) ==
  LET complete == Picked(folders, {i \in DOMAIN folders : files \subseteq folders[i].files})
  IN  SubSeq(complete, 1, IF Len(complete) < MaxTuned THEN Len(complete) ELSE MaxTuned)

\* iter_mot20_sequences
Mot20Sequences == Taken(Mot20, {"det", "gt", "seqinfo"})

\* iter_hallway_sequences
HallwaySequences == Taken(Hallway, {"ground_truth", "images"})

\* The configurations that are tried.
Candidates == << [iou |-> 2, missed |-> 2],
                 [iou |-> 3, missed |-> 3],
                 [iou |-> 4, missed |-> 4] >>

DefaultTracker == [iou |-> 3, missed |-> 3]

NewTracker == [tracks |-> <<>>, nextId |-> 1]

--------------------------------------------------------------------------------
(* Scoring.                                                                *)

\* The overlap of a track with a box of the ground truth.
Fit(track, box) == Iou[track.box, box]

\* The first of the available tracks that overlaps the box most.
BestTrack(tracks, available, box) ==
  LET best == {i \in available : \A j \in available : Fit(tracks[i], box) >= Fit(tracks[j], box)}
  IN  CHOOSE i \in best : \A j \in best : i <= j

\* The person takes the best of the tracks that are left.  acc holds the matches, the
\* stable ones, the tracks left and the last track of every person.
Score1(tracks, acc, person) ==
  LET best == BestTrack(tracks, acc.left, person.box) IN
  IF acc.left = {} \/ Fit(tracks[best], person.box) < 3 THEN acc
  ELSE LET id == tracks[best].id IN
       [hits   |-> acc.hits + 1,
        stable |-> acc.stable + (IF <<person.id, id>> \in acc.seen THEN 1 ELSE 0),
        left   |-> acc.left \ {best},
        seen   |-> {s \in acc.seen : s[1] # person.id} \union {<<person.id, id>>}]

\* _score_frame: the persons of the ground truth one after the other.
ScoreFrame(tracks, truth, seen) ==
  LET after[k \in 0 .. Len(truth)] ==
        IF k = 0 THEN [hits |-> 0, stable |-> 0, left |-> DOMAIN tracks, seen |-> seen]
                 ELSE Score1(tracks, after[k - 1], truth[k])
  IN  after[Len(truth)]

\* The frames that are scored, in the order of their numbers.
Scored(frames) ==
  LET ordered == InOrder(frames, {p \in frames \X frames : p[1].no < p[2].no})
  IN  SubSeq(ordered, 1, IF Len(ordered) < MaxScored THEN Len(ordered) ELSE MaxScored)

\* One frame with the configuration c.
EvaluateFrame(c, acc, f) ==
  LET tracker == Update(c, acc.tracker, f.dets)
      score   == ScoreFrame(tracker.tracks, f.truth, acc.seen)
  IN  [tracker |-> tracker, seen |-> score.seen,
       total  |-> acc.total + Len(f.truth),
       hits   |-> acc.hits + score.hits,
       stable |-> acc.stable + score.stable]

\* Seven tenths for the matches and three for the stable ones, in hundredths.
Ratio(end) == IF end.total = 0 THEN 0 ELSE (70 * end.hits + 30 * end.stable) \div end.total

\* evaluate_tracker_on_mot20_sequence and _on_hallway_sequence; on a hallway
\* sequence the detections are the ground truth.
Evaluate(frames, c) ==
  LET scored == Scored(frames)
      after[k \in 0 .. Len(scored)] ==
        IF k = 0 THEN [tracker |-> NewTracker, seen |-> {}, total |-> 0, hits |-> 0, stable |-> 0]
                 ELSE EvaluateFrame(c, after[k - 1], scored[k])
  IN  Ratio(after[Len(scored)])

\* A MOT20 frame counts when the ground truth has rows for it.
Mot20Frames(frames) == {f \in frames : f.truth # <<>>}

HallwayFrames(frames) ==
  {[no |-> f.no, truth |-> f.truth, dets |-> [i \in DOMAIN f.truth |-> f.truth[i].box]]
     : f \in frames}

Sum(scores) ==
  LET total[k \in 0 .. Len(scores)] == IF k = 0 THEN 0 ELSE total[k - 1] + scores[k]
  IN  total[Len(scores)]

\* Seven tenths of the mean on MOT20 and three of the mean on hallway, times
\* the numbers of sequences.
Score(c) ==
    7 * Len(HallwaySequences) * Sum([i \in DOMAIN Mot20Sequences |->
                                       Evaluate(Mot20Frames(Mot20Sequences[i].frames), c)])
  + 3 * Len(Mot20Sequences) * Sum([i \in DOMAIN HallwaySequences |->
                                     Evaluate(HallwayFrames(HallwaySequences[i].frames), c)])

\* max: the first of the best.
FirstBest(scores) ==
  LET best == {i \in DOMAIN scores : \A j \in DOMAIN scores : scores[i] >= scores[j]}
  IN  CHOOSE i \in best : \A j \in best : i <= j

\* The candidate that is written.
Tuned == Candidates[FirstBest([i \in DOMAIN Candidates |-> Score(Candidates[i])])]
================================================================================
