-------------------------------- MODULE Tracker --------------------------------
(***************************************************************************)
(* MultiObjectTracker (src/src/perception/tracker.py) as operators on its  *)
(* state: the list of tracks and the next track id.  A box is an element   *)
(* of a small set; Iou gives the overlap of two boxes.  Boxes whose region *)
(* of the depth map holds no pixel (DepthProcessor.detections_to_3d) are   *)
(* Empty.  The runtime never passes a depth map, so every box is at the    *)
(* depth of the flat plane and the depth gate lets every pair through.     *)
(*                                                                         *)
(* A configuration c of a tracker is its iou_threshold, c.iou in the units *)
(* of Iou, and its max_missed_frames, c.missed.                            *)
(***************************************************************************)
EXTENDS Naturals, Sequences, FiniteSets, SequencesExt

CONSTANTS
  Boxes,         \* bounding boxes
  Empty,         \* boxes that round to no pixel
  Iou            \* overlap of two boxes

ASSUME TrackerAssumption ==
  /\ Empty \subseteq Boxes
  /\ Iou \in [Boxes \X Boxes -> Nat]

\* The elements of a finite set in the strict order R, and those of the sequence s
\* at the places I.
InOrder(S, R) ==
  [k \in 1 .. Cardinality(S) |-> CHOOSE x \in S : Cardinality({y \in S : <<y, x>> \in R}) = k - 1]
Picked(s, I) ==
  LET place == InOrder(I, {p \in I \X I : p[1] < p[2]}) IN [k \in DOMAIN place |-> s[place[k]]]

TrackType(c) == [id : Nat \ {0}, box : Boxes, missed : 0 .. c.missed]

\* detections_to_3d: one box per detection that covers a pixel of the depth map.
DepthBoxes(detections) == {i \in DOMAIN detections : detections[i] \notin Empty}

\* update raises when a detection lost its depth box.
CountsDiffer(detections) == Len(detections) # Cardinality(DepthBoxes(detections))

--------------------------------------------------------------------------------
(* _associate: pairs of a track and a detection, best overlap first.       *)

Overlap(tracks, detections, p) == Iou[tracks[p[1]].box, detections[p[2]]]

\* The pairs that overlap enough.
CandidatePairs(c, tracks, detections) ==
  {p \in (DOMAIN tracks) \X (DOMAIN detections) : Overlap(tracks, detections, p) >= c.iou}

\* The descending sort is stable: equal overlaps stay in the order they were
\* built, track by track.
Precedes(tracks, detections, p, q) ==
  LET a == Overlap(tracks, detections, p)
      b == Overlap(tracks, detections, q)
  IN  a > b \/ (a = b /\ (p[1] < q[1] \/ (p[1] = q[1] /\ p[2] < q[2])))

Ranked(c, tracks, detections) ==
  LET pairs == CandidatePairs(c, tracks, detections) IN
  InOrder(pairs, {pq \in pairs \X pairs : Precedes(tracks, detections, pq[1], pq[2])})

\* Mutant: a matched detection may be matched again.
Associate_Reuse(c, tracks, detections) ==
  LET ranked == Ranked(c, tracks, detections)
      add == [p \in Nat \X Nat |-> [chosen \in SUBSET (Nat \X Nat) |->
               IF \E m \in chosen : m[1] = p[1] THEN chosen ELSE chosen \union {p}]]
      after[k \in 0 .. Len(ranked)] == IF k = 0 THEN {} ELSE add[ranked[k]][after[k - 1]]
  IN  after[Len(ranked)]

\* The first k pairs lead to the matches after[k].
Associate(c, tracks, detections) ==
  LET ranked == Ranked(c, tracks, detections)
      add == [p \in Nat \X Nat |-> [chosen \in SUBSET (Nat \X Nat) |->
               IF \E m \in chosen : m[1] = p[1] \/ m[2] = p[2] THEN chosen ELSE chosen \union {p}]]
      after[k \in 0 .. Len(ranked)] == IF k = 0 THEN {} ELSE add[ranked[k]][after[k - 1]]
  IN  after[Len(ranked)]

--------------------------------------------------------------------------------
(* update.                                                                 *)

\* The detections that start a track.
Unmatched(detections, matches) == {d \in DOMAIN detections : \A m \in matches : m[2] # d}

Carried(tracks, detections, matches) ==
  [t \in DOMAIN tracks |->
     IF \E m \in matches : m[1] = t
       THEN [tracks[t] EXCEPT
               !.box = detections[(CHOOSE m \in matches : m[1] = t)[2]],
               !.missed = 0]
       ELSE [tracks[t] EXCEPT !.missed = @ + 1]]

\* They do so in the order of the list.
Started(nextId, detections, matches) ==
  LET boxes == Picked(detections, Unmatched(detections, matches)) IN
  [i \in DOMAIN boxes |-> [id |-> nextId + i - 1, box |-> boxes[i], missed |-> 0]]

Kept(c) ==
  [tracks \in Seq([id : Nat, box : Boxes, missed : Nat]) |->
     Picked(tracks, {t \in DOMAIN tracks : tracks[t].missed <= c.missed})]

\* tracker holds the tracks and the next track id; updated is a function of what
\* _associate returns.
Update(c, tracker, detections) ==
  LET updated[matches \in SUBSET (Nat \X Nat)] ==
        [tracks |-> Kept(c)[Carried(tracker.tracks, detections, matches)
                              \o Started(tracker.nextId, detections, matches)],
         nextId |-> tracker.nextId + Cardinality(Unmatched(detections, matches))]
  IN  updated[Associate(c, tracker.tracks, detections)]
================================================================================
