------------------------- MODULE SyntheticDataset_proofs -------------------------
(***************************************************************************)
(* Theorems about SyntheticDataset, for any sources, configurations,       *)
(* ground truth and number of runs: what is annotated is about the frames  *)
(* of the source, what a run reports is there, and no file is overwritten  *)
(* that was not to be.                                                     *)
(***************************************************************************)
EXTENDS SyntheticDataset, Tracker_proofs

--------------------------------------------------------------------------------
(* What a run reads, and what is detected in it.                           *)

\* A limit cuts the end of a sequence off.
LEMMA AtMostOf ==
  ASSUME NEW S, NEW s \in Seq(S), NEW n \in Nat \union {NoLimit}
  PROVE  /\ AtMost(s, n) \in Seq(S) /\ Len(AtMost(s, n)) \in Nat
         /\ Len(AtMost(s, n)) <= Len(s)
         /\ DOMAIN AtMost(s, n) = 1 .. Len(AtMost(s, n))
         /\ \A k \in 1 .. Len(AtMost(s, n)) : AtMost(s, n)[k] = s[k]
<1>1. Len(s) \in Nat /\ DOMAIN s = 1 .. Len(s)
  OBVIOUS
<1>2. CASE n = NoLimit \/ n > Len(s)
  BY <1>1, <1>2 DEF AtMost
<1>3. CASE ~(n = NoLimit \/ n > Len(s))
  <2>1. n \in Nat /\ n <= Len(s) /\ AtMost(s, n) = SubSeq(s, 1, n)
    BY <1>1, <1>3 DEF AtMost, NoLimit
  <2>2. /\ SubSeq(s, 1, n) \in Seq(S) /\ Len(SubSeq(s, 1, n)) = n
        /\ \A k \in 1 .. n : SubSeq(s, 1, n)[k] = s[k]
    BY <1>1, <2>1
  <2> QED
    BY <2>1, <2>2
<1> QED
  BY <1>2, <1>3

\* A source whose people are drawn by the generator.
IsDrawn(s) == s.kind \in {"images", "videos"}

\* Its frames are sorted by their times.
Numbered(s) ==
  s.kind = "images" => \A a, b \in s.images : a.id # NoId /\ (a.id = b.id => a = b)

\* What is known of the frames fs of the source s.
FramesKnown(fs, s) ==
  /\ Len(fs) \in Nat /\ DOMAIN fs = 1 .. Len(fs)
  /\ \A k \in 1 .. Len(fs) : fs[k].picture \in Picture /\ fs[k].id \in Int
  /\ Numbered(s) =>
       /\ \A k \in 1 .. Len(fs) : fs[k].id \in Nat
       /\ \A j, k \in 1 .. Len(fs) : j < k => fs[j].id < fs[k].id

\* The frames of a clip are ordered by number, then by path
\* (generate_synthetic_h5.py:345-348).
LEMMA ClipFramesKnown ==
  ASSUME NEW s, s.kind = "images", IsFiniteSet(s.images), s.images \subseteq ClipImage,
         \A a, b \in s.images : a.path = b.path => a = b
  PROVE  /\ ClipFrames(s.images) \in Seq(ClipImage)
         /\ FramesKnown(ClipFrames(s.images), s)
<1> DEFINE I == s.images
           fs == ClipFrames(s.images)
           number(f) == IF f.id = NoId THEN 0 ELSE f.id
           class(f) == IF f.id = NoId THEN 1 ELSE 0
           key(f) == << class(f), number(f), f.path >>
           before(a, b) == \E i \in 1 .. 3 : a[i] < b[i] /\ \A j \in 1 .. i - 1 : a[j] = b[j]
           R == {p \in I \X I : before(key(p[1]), key(p[2]))}
<1>1. fs = InOrder(I, R)
  BY DEF ClipFrames
<1>2. \A f \in I : f.path \in Nat /\ f.id \in Nat \union {NoId} /\ f.picture \in Picture
                   /\ f \in ClipImage
  BY DEF ClipImage
<1>3. \A f \in I : number(f) \in Nat /\ class(f) \in Nat /\ f.path \in Nat
  BY <1>2
<1>4. ASSUME NEW a \in I, NEW b \in I
      PROVE  <<a, b>> \in R <=>
               \/ class(a) < class(b)
               \/ class(a) = class(b) /\ number(a) < number(b)
               \/ class(a) = class(b) /\ number(a) = number(b) /\ a.path < b.path
  <2>1. 1 .. 3 = {1, 2, 3} /\ 1 .. 0 = {} /\ 1 .. 1 = {1} /\ 1 .. 2 = {1, 2}
    OBVIOUS
  <2>2. <<a, b>> \in R <=> before(key(a), key(b))
    OBVIOUS
  <2>3. key(a)[1] = class(a) /\ key(a)[2] = number(a) /\ key(a)[3] = a.path
    OBVIOUS
  <2>4. key(b)[1] = class(b) /\ key(b)[2] = number(b) /\ key(b)[3] = b.path
    OBVIOUS
  <2> HIDE DEF key, class, number, R
  <2>5. before(key(a), key(b)) <=>
               \/ class(a) < class(b)
               \/ class(a) = class(b) /\ number(a) < number(b)
               \/ class(a) = class(b) /\ number(a) = number(b) /\ a.path < b.path
    BY <2>1, <2>3, <2>4
  <2> QED
    BY <2>2, <2>5
<1> HIDE DEF key, R, before
<1>5. StrictOrder(I, R)
  <2> HIDE DEF class, number
  <2>1. ASSUME NEW a \in I PROVE <<a, a>> \notin R
    BY <1>3, <1>4
  <2>2. ASSUME NEW a \in I, NEW b \in I, NEW d \in I, <<a, b>> \in R, <<b, d>> \in R
        PROVE  <<a, d>> \in R
    BY <1>3, <1>4, <2>2
  <2>3. ASSUME NEW a \in I, NEW b \in I
        PROVE  a = b \/ <<a, b>> \in R \/ <<b, a>> \in R
    <3>1. \/ <<a, b>> \in R \/ <<b, a>> \in R \/ a.path = b.path
      BY <1>3, <1>4
    <3> QED
      BY <3>1
  <2> QED
    BY <2>1, <2>2, <2>3 DEF StrictOrder
<1> HIDE DEF fs, I
<1>6. /\ fs \in Seq(I) /\ Len(fs) \in Nat /\ DOMAIN fs = 1 .. Len(fs)
      /\ \A k, m \in DOMAIN fs : k < m => <<fs[k], fs[m]>> \in R
  <2>1. IsFiniteSet(I)
    BY DEF I
  <2>2. /\ fs \in Seq(I)
        /\ \A k, m \in DOMAIN fs : k < m => <<fs[k], fs[m]>> \in R
    BY <1>1, <1>5, <2>1, InOrderOf
  <2> QED
    BY <2>2
<1>7. \A k \in 1 .. Len(fs) : fs[k] \in I
  BY <1>6
<1>8. fs \in Seq(ClipImage)
  BY <1>2, <1>6, <1>7
<1>9. \A k \in 1 .. Len(fs) : fs[k].picture \in Picture /\ fs[k].id \in Int
  BY <1>2, <1>7 DEF NoId
<1>10. ASSUME Numbered(s)
       PROVE  /\ \A k \in 1 .. Len(fs) : fs[k].id \in Nat
              /\ \A j, k \in 1 .. Len(fs) : j < k => fs[j].id < fs[k].id
  <2>1. \A a, b \in I : a.id # NoId /\ (a.id = b.id => a = b)
    BY <1>10 DEF Numbered, I
  <2>2. ASSUME NEW j \in 1 .. Len(fs), NEW k \in 1 .. Len(fs), j < k
        PROVE  fs[j].id < fs[k].id
    <3> DEFINE a == fs[j]
               b == fs[k]
    <3>1. a \in I /\ b \in I /\ <<a, b>> \in R
      BY <1>6, <1>7, <2>2
    <3> HIDE DEF a, b
    <3>2. class(a) = 0 /\ class(b) = 0 /\ number(a) = a.id /\ number(b) = b.id
          /\ a.id \in Nat /\ b.id \in Nat
      BY <1>2, <2>1, <3>1
    <3> HIDE DEF class, number
    <3>3. a.id < b.id \/ (a.id = b.id /\ a.path < b.path)
      BY <1>4, <3>1, <3>2
    <3>4. a.id = b.id => a.path = b.path /\ a.path \in Nat
      BY <1>2, <2>1, <3>1
    <3>5. a.id < b.id
      BY <3>3, <3>4
    <3> QED
      BY <3>5 DEF a, b
  <2>3. \A k \in 1 .. Len(fs) : fs[k].id \in Nat
    BY <1>2, <1>7, <2>1
  <2> QED
    BY <2>2, <2>3
<1> QED
  BY <1>6, <1>8, <1>9, <1>10 DEF FramesKnown, fs

\* Every stride-th frame of a video is there and has a later number
\* (_iter_video_frames).
LEMMA VideoFramesKnown ==
  ASSUME NEW s, s.kind = "videos", s.pictures \in Seq(Picture), NEW c \in Configs
  PROVE  FramesKnown(VideoFrames(s.pictures, c), s)
<1> DEFINE P == s.pictures
           d == c.stride
           m == (Len(P) + d - 1) \div d
           all == [i \in 1 .. m |-> [id |-> (i - 1) * d, picture |-> P[(i - 1) * d + 1]]]
           limit == IF c.maxFrames = 0 THEN 1 ELSE c.maxFrames
           fs == AtMost(all, limit)
           F == [id : Nat, picture : Picture]
<1>1. d \in Nat \ {0} /\ limit \in Nat \union {NoLimit}
  BY DatasetAssumption
<1>2. Len(P) \in Nat /\ \A i \in 1 .. Len(P) : P[i] \in Picture
  OBVIOUS
<1>3. VideoFrames(P, c) = fs
  BY DEF VideoFrames
<1> HIDE DEF d, P, limit
<1>4. m \in Nat
  BY <1>1, <1>2
<1>5. ASSUME NEW i \in 1 .. m PROVE (i - 1) * d + 1 \in 1 .. Len(P) /\ (i - 1) * d \in Nat
  BY <1>1, <1>2
<1> HIDE DEF m
<1>6. ASSUME NEW i \in 1 .. m
      PROVE all[i] \in F /\ all[i].id = (i - 1) * d /\ all[i].picture \in Picture
  <2>1. all[i] = [id |-> (i - 1) * d, picture |-> P[(i - 1) * d + 1]]
    OBVIOUS
  <2>2. (i - 1) * d \in Nat /\ P[(i - 1) * d + 1] \in Picture
    BY <1>2, <1>5
  <2> HIDE DEF all
  <2> QED
    BY <2>1, <2>2
<1>7. all \in Seq(F) /\ Len(all) = m
  <2>1. all \in [1 .. m -> F]
    BY <1>6
  <2> HIDE DEF all, F
  <2> QED
    BY <1>4, <2>1
<1> HIDE DEF all, F
<1>8. /\ Len(fs) \in Nat /\ Len(fs) <= m /\ DOMAIN fs = 1 .. Len(fs)
      /\ \A k \in 1 .. Len(fs) : fs[k] = all[k]
  BY <1>1, <1>7, AtMostOf
<1> HIDE DEF fs
<1>9. ASSUME NEW k \in 1 .. Len(fs)
      PROVE  fs[k].id = (k - 1) * d /\ fs[k].id \in Nat /\ fs[k].picture \in Picture
  <2>1. k \in 1 .. m
    BY <1>4, <1>8
  <2> QED
    BY <1>5, <1>6, <1>8, <2>1
<1>10. ASSUME NEW j \in 1 .. Len(fs), NEW k \in 1 .. Len(fs), j < k
       PROVE  fs[j].id < fs[k].id
  <2>1. fs[j].id = (j - 1) * d /\ fs[k].id = (k - 1) * d
    BY <1>9
  <2>2. (j - 1) * d < (k - 1) * d
    BY <1>1, <1>8, <1>10
  <2> QED
    BY <2>1, <2>2
<1>11. \A k \in 1 .. Len(fs) : fs[k].picture \in Picture /\ fs[k].id \in Int /\ fs[k].id \in Nat
  BY <1>9
<1>12. FramesKnown(fs, s)
  BY <1>8, <1>10, <1>11 DEF FramesKnown
<1> QED
  BY <1>3, <1>12 DEF P

\* The frames of every source that is drawn.
LEMMA FramesOf ==
  ASSUME NEW i \in DOMAIN Raw, IsDrawn(Raw[i]), NEW c \in Configs
  PROVE  FramesKnown(Frames(Raw[i], c), Raw[i])
<1> DEFINE s == Raw[i]
<1>1. CASE s.kind = "images"
  <2> DEFINE all == ClipFrames(s.images)
             fs == AtMost(all, c.maxFrames)
  <2>1. all \in Seq(ClipImage) /\ FramesKnown(all, s)
    BY <1>1, DatasetAssumption, ClipFramesKnown
  <2>2. c.maxFrames \in Nat \union {NoLimit}
    BY DatasetAssumption
  <2>3. Frames(s, c) = fs
    BY <1>1 DEF Frames
  <2> HIDE DEF all
  <2>4. /\ Len(fs) \in Nat /\ Len(fs) <= Len(all) /\ DOMAIN fs = 1 .. Len(fs)
        /\ \A k \in 1 .. Len(fs) : fs[k] = all[k]
    BY <2>1, <2>2, AtMostOf
  <2>5. Len(all) \in Nat
    BY <2>1 DEF FramesKnown
  <2> HIDE DEF fs
  <2>6. \A k \in 1 .. Len(fs) : k \in 1 .. Len(all) /\ fs[k] = all[k]
    BY <2>4, <2>5
  <2>7. FramesKnown(fs, s)
    BY <2>1, <2>4, <2>6 DEF FramesKnown
  <2> QED
    BY <2>3, <2>7
<1>2. CASE s.kind = "videos"
  <2>1. FramesKnown(VideoFrames(s.pictures, c), s)
    BY <1>2, DatasetAssumption, VideoFramesKnown
  <2>2. Frames(s, c) = VideoFrames(s.pictures, c)
    BY <1>2 DEF Frames
  <2> QED
    BY <2>1, <2>2
<1> QED
  BY <1>1, <1>2 DEF IsDrawn

\* A sequence of boxes, one for each element of s.
LEMMA BoxesOf ==
  ASSUME NEW S, NEW s \in Seq(S), NEW b, b = [i \in DOMAIN s |-> b[i]],
         \A i \in DOMAIN s : b[i] \in Boxes
  PROVE  b \in Seq(Boxes)
<1>1. Len(s) \in Nat /\ DOMAIN s = 1 .. Len(s)
  OBVIOUS
<1>2. b \in [1 .. Len(s) -> Boxes]
  BY <1>1
<1> QED
  BY <1>1, <1>2

LabelRow == [class : Nat, numbers : Nat, box : Boxes]
SeenBox == [class : Nat, box : Boxes]

\* What is detected in a picture is a sequence of boxes (_detect_for_frame).
LEMMA DetectionsOf ==
  ASSUME NEW s, NEW picture \in Picture, NEW c
  PROVE  Detections(s, picture, c) \in Seq(Boxes)
<1>1. picture.labels \in Seq(LabelRow) /\ picture.seen \in Seq(SeenBox)
  BY DEF Picture, LabelRow, SeenBox
<1>2. \A b \in Boxes : Clip[b] \in Boxes
  BY DatasetAssumption
<1>3. LabelBoxes(s, picture) \in Seq(Boxes)
  <2> DEFINE I == {i \in DOMAIN picture.labels :
                     /\ picture.labels[i].class = PersonClass(s.classes)
                     /\ \/ picture.labels[i].numbers = 4
                        \/ (picture.labels[i].numbers >= 6 /\ picture.labels[i].numbers % 2 = 0)}
             rows == Picked(picture.labels, I)
             b == [i \in DOMAIN rows |-> rows[i].box]
  <2>1. LabelBoxes(s, picture) = b
    BY DEF LabelBoxes
  <2>2. I \in SUBSET (DOMAIN picture.labels)
    OBVIOUS
  <2> HIDE DEF I
  <2>3. rows \in Seq(LabelRow)
    BY <1>1, <2>2, PickedOf DEF PickedFrom
  <2> HIDE DEF rows
  <2>4. \A i \in DOMAIN rows : rows[i] \in LabelRow
    BY <2>3
  <2>5. \A i \in DOMAIN rows : b[i] \in Boxes
    BY <2>4 DEF LabelRow
  <2>6. b = [i \in DOMAIN rows |-> b[i]]
    OBVIOUS
  <2> HIDE DEF b
  <2> QED
    BY <2>1, <2>3, <2>5, <2>6, BoxesOf
<1>4. Seen(picture) \in Seq(Boxes)
  <2> DEFINE I == {i \in DOMAIN picture.seen : picture.seen[i].class = PersonClass(ModelNames)}
             found == Picked(picture.seen, I)
             b == [i \in DOMAIN found |-> Clip[found[i].box]]
  <2>1. Seen(picture) = b
    BY DEF Seen
  <2>2. I \in SUBSET (DOMAIN picture.seen)
    OBVIOUS
  <2> HIDE DEF I
  <2>3. found \in Seq(SeenBox)
    BY <1>1, <2>2, PickedOf DEF PickedFrom
  <2> HIDE DEF found
  <2>4. \A i \in DOMAIN found : found[i] \in SeenBox
    BY <2>3
  <2>5. \A i \in DOMAIN found : b[i] \in Boxes
    BY <1>2, <2>4 DEF SeenBox
  <2>6. b = [i \in DOMAIN found |-> b[i]]
    OBVIOUS
  <2> HIDE DEF b
  <2> QED
    BY <2>1, <2>3, <2>5, <2>6, BoxesOf
<1>5. ASSUME NEW boxes \in Seq(Boxes) PROVE Valid(boxes) \in Seq(Boxes)
  <2> DEFINE I == {i \in DOMAIN boxes : boxes[i] \notin Thin}
             wide == Picked(boxes, I)
             b == [i \in DOMAIN wide |-> Clip[wide[i]]]
  <2>1. Valid(boxes) = b
    BY DEF Valid
  <2>2. I \in SUBSET (DOMAIN boxes)
    OBVIOUS
  <2> HIDE DEF I
  <2>3. wide \in Seq(Boxes)
    BY <2>2, PickedOf DEF PickedFrom
  <2> HIDE DEF wide
  <2>4. \A i \in DOMAIN wide : wide[i] \in Boxes
    BY <2>3
  <2>5. \A i \in DOMAIN wide : b[i] \in Boxes
    BY <1>2, <2>4
  <2>6. b = [i \in DOMAIN wide |-> b[i]]
    OBVIOUS
  <2> HIDE DEF b
  <2> QED
    BY <2>1, <2>3, <2>5, <2>6, BoxesOf
<1>6. \/ Detections(s, picture, c) = Valid(LabelBoxes(s, picture))
      \/ Detections(s, picture, c) = Valid(<<>>)
      \/ Detections(s, picture, c) = Valid(Seen(picture))
  BY DEF Detections
<1>7. <<>> \in Seq(Boxes)
  OBVIOUS
<1> QED
  BY <1>3, <1>4, <1>5, <1>6, <1>7

\* Those that are tracked are among them (generate_synthetic_h5.py:456).
LEMMA TrackedOf ==
  ASSUME NEW ds \in Seq(Boxes)
  PROVE  /\ Tracked(ds) \in Seq(Boxes)
         /\ \A i \in DOMAIN Tracked(ds) : Tracked(ds)[i] \in ToSet(ds)
<1> DEFINE D == DepthBoxes(ds)
           n == Cardinality(D)
<1>1. Len(ds) \in Nat /\ DOMAIN ds = 1 .. Len(ds)
  OBVIOUS
<1>2. n \in Nat /\ n <= Len(ds)
  <2>1. D \in SUBSET (1 .. Len(ds))
    BY <1>1 DEF DepthBoxes
  <2>2. IsFiniteSet(1 .. Len(ds)) /\ Cardinality(1 .. Len(ds)) = Len(ds)
    BY <1>1, FS_Interval
  <2> HIDE DEF D
  <2>3. IsFiniteSet(D) /\ Cardinality(D) <= Len(ds)
    BY <2>1, <2>2, FS_Subset
  <2> QED
    BY <2>3, FS_CardinalityType
<1>3. Tracked(ds) = SubSeq(ds, 1, n)
  BY DEF Tracked
<1> HIDE DEF n
<1>4. /\ SubSeq(ds, 1, n) \in Seq(Boxes) /\ DOMAIN SubSeq(ds, 1, n) = 1 .. n
      /\ \A i \in 1 .. n : SubSeq(ds, 1, n)[i] = ds[i] /\ i \in DOMAIN ds
  BY <1>1, <1>2
<1> QED
  BY <1>3, <1>4 DEF ToSet

--------------------------------------------------------------------------------
(* Annotations.                                                            *)

\* The matched tracks, each once.
LEMMA CurrentOf ==
  ASSUME NEW tracks \in Seq(TrackRecord), NEW next, Apart(tracks, next),
         NEW cur, cur = Current(tracks)
  PROVE  /\ cur \in Seq(TrackRecord)
         /\ \A i \in DOMAIN cur : \E t \in DOMAIN tracks :
              cur[i] = tracks[t] /\ tracks[t].missed = 0
         /\ \A i, j \in DOMAIN cur : cur[i].id = cur[j].id => i = j
<1> DEFINE I == {t \in DOMAIN tracks : tracks[t].missed = 0}
           o == Places(I)
<1>1. cur = Picked(tracks, I) /\ I \in SUBSET (DOMAIN tracks)
  BY DEF Current
<1>2. \A t \in I : t \in DOMAIN tracks /\ tracks[t].missed = 0
  OBVIOUS
<1> HIDE DEF I
<1>3. PickedFrom(cur, tracks, TrackRecord, I)
  BY <1>1, PickedOf
<1>4. /\ IsFiniteSet(I) /\ I \subseteq Nat
      /\ cur \in Seq(TrackRecord) /\ DOMAIN cur = DOMAIN o
      /\ \A k \in DOMAIN o : o[k] \in I /\ cur[k] = tracks[o[k]]
  BY <1>3 DEF PickedFrom
<1>5. GoesThrough(o, I)
  BY <1>4, PlacesOf
<1>6. \A k, m \in DOMAIN o : o[k] = o[m] => k = m
  BY <1>5 DEF GoesThrough
<1> HIDE DEF o
<1>7. ASSUME NEW i \in DOMAIN cur, NEW j \in DOMAIN cur, cur[i].id = cur[j].id
      PROVE  i = j
  <2>1. o[i] \in DOMAIN tracks /\ o[j] \in DOMAIN tracks /\ tracks[o[i]].id = tracks[o[j]].id
    BY <1>2, <1>4, <1>7
  <2>2. o[i] = o[j]
    BY <2>1 DEF Apart
  <2> QED
    BY <1>4, <1>6, <2>2
<1>8. ASSUME NEW i \in DOMAIN cur
      PROVE  \E t \in DOMAIN tracks : cur[i] = tracks[t] /\ tracks[t].missed = 0
  BY <1>2, <1>4
<1> QED
  BY <1>4, <1>7, <1>8

\* The note on a frame, and the memory after it, when before and after are the memory
\* and tracks is what the tracker holds (_build_frame_annotation).
NoteTrue(note, before, after) ==
  /\ DOMAIN note.persons = 1 .. Len(note.persons) /\ Len(note.persons) \in Nat
  /\ \A i, j \in DOMAIN note.persons : note.persons[i].id = note.persons[j].id => i = j
  /\ \A p \in ToSet(note.persons) :
       /\ p.box \in Boxes
       /\ p.activity = Activity(IF p.id \in DOMAIN before THEN before[p.id] ELSE Center[p.box],
                                Center[p.box])
       /\ p.id \in DOMAIN after /\ after[p.id] = Center[p.box]
  /\ \A id : (\A p \in ToSet(note.persons) : p.id # id) =>
       /\ id \in DOMAIN after <=> id \in DOMAIN before
       /\ id \in DOMAIN before => after[id] = before[id]

\* The note is of the frame k at stamp, and of the tracks matched in it.
NoteMade(note, k, stamp, tracks) ==
  /\ note.frame = k /\ note.stamp = stamp
  /\ \A i \in DOMAIN note.persons : \E t \in DOMAIN tracks :
       tracks[t].missed = 0 /\ note.persons[i].box = tracks[t].box

LEMMA NoteOf ==
  ASSUME NEW tracks \in Seq(TrackRecord), NEW next, Apart(tracks, next),
         NEW k, NEW stamp, NEW memory,
         NEW note, note = Annotation(k, stamp, tracks, memory),
         NEW new, new = Remember(memory, tracks)
  PROVE  NoteTrue(note, memory, new) /\ NoteMade(note, k, stamp, tracks)
<1> DEFINE cur == Current(tracks)
           ids == {t.id : t \in ToSet(cur)}
           last(id) == Center[(CHOOSE t \in ToSet(tracks) : t.id = id).box]
           after == [id \in ids \union DOMAIN memory |->
                       IF id \in ids THEN last(id) ELSE memory[id]]
           person(t) == LET c == Center[t.box] IN
             [id |-> t.id, box |-> t.box,
              activity |-> Activity(IF t.id \in DOMAIN memory THEN memory[t.id] ELSE c, c)]
           persons == [i \in DOMAIN cur |-> person(cur[i])]
<1>1. note = [frame |-> k, stamp |-> stamp, persons |-> persons]
  BY DEF Annotation
<1>2. Remember(memory, tracks) = after
  BY DEF Remember
<1>3. /\ cur \in Seq(TrackRecord)
      /\ \A i \in DOMAIN cur : \E t \in DOMAIN tracks :
           cur[i] = tracks[t] /\ tracks[t].missed = 0
      /\ \A i, j \in DOMAIN cur : cur[i].id = cur[j].id => i = j
  <2> DEFINE s == cur
  <2>1. s = Current(tracks)
    OBVIOUS
  <2> HIDE DEF s
  <2>2. /\ s \in Seq(TrackRecord)
        /\ \A i \in DOMAIN s : \E t \in DOMAIN tracks :
             s[i] = tracks[t] /\ tracks[t].missed = 0
        /\ \A i, j \in DOMAIN s : s[i].id = s[j].id => i = j
    BY <2>1, CurrentOf
  <2> QED
    BY <2>2 DEF s
<1> HIDE DEF cur, after
<1>4. DOMAIN cur = 1 .. Len(cur) /\ Len(cur) \in Nat /\ \A i \in DOMAIN cur : cur[i] \in TrackRecord
  BY <1>3
<1>5. DOMAIN persons = 1 .. Len(cur) /\ Len(persons) = Len(cur)
  BY <1>4
<1>6. \A i \in DOMAIN cur :
        /\ persons[i].id = cur[i].id /\ persons[i].box = cur[i].box
        /\ persons[i].activity =
             Activity(IF cur[i].id \in DOMAIN memory THEN memory[cur[i].id]
                      ELSE Center[cur[i].box], Center[cur[i].box])
  OBVIOUS
<1>7. note.frame = k /\ note.stamp = stamp /\ note.persons = persons
  BY <1>1
<1> HIDE DEF persons
<1>8. \A p \in ToSet(persons) : \E i \in DOMAIN cur : p = persons[i]
  BY <1>4, <1>5 DEF ToSet
<1>9. /\ \A i \in DOMAIN cur : cur[i] \in ToSet(cur)
      /\ \A t \in ToSet(cur) : \E i \in DOMAIN cur : t = cur[i]
      /\ \A i \in DOMAIN cur : persons[i] \in ToSet(persons)
  BY <1>4, <1>5 DEF ToSet
<1>10. ASSUME NEW i \in DOMAIN cur
       PROVE  cur[i].id \in ids /\ last(cur[i].id) = Center[cur[i].box]
  <2>1. cur[i].id \in ids
    BY <1>9
  <2>2. PICK t \in DOMAIN tracks : cur[i] = tracks[t]
    BY <1>3
  <2>3. tracks[t] \in ToSet(tracks)
    BY DEF ToSet
  <2>4. \A x \in ToSet(tracks) : x.id = cur[i].id => x = cur[i]
    <3>1. ASSUME NEW x \in ToSet(tracks), x.id = cur[i].id PROVE x = cur[i]
      <4>1. PICK u \in DOMAIN tracks : x = tracks[u]
        BY DEF ToSet
      <4>2. u = t
        BY <2>2, <3>1, <4>1 DEF Apart
      <4> QED
        BY <2>2, <4>1, <4>2
    <3> QED
      BY <3>1
  <2>5. (CHOOSE x \in ToSet(tracks) : x.id = cur[i].id) = cur[i]
    BY <2>2, <2>3, <2>4
  <2>6. last(cur[i].id) = Center[(CHOOSE x \in ToSet(tracks) : x.id = cur[i].id).box]
    BY <2>1
  <2> QED
    BY <2>1, <2>5, <2>6
<1>11. \A id \in ids : id \in ids \union DOMAIN memory
  OBVIOUS
<1>12. /\ DOMAIN after = ids \union DOMAIN memory
       /\ \A id \in ids : after[id] = last(id)
       /\ \A id \in DOMAIN memory : id \notin ids => after[id] = memory[id]
  <2> HIDE DEF last, ids
  <2> QED
    BY <1>11 DEF after
<1> HIDE DEF last
<1>13. \A id \in ids : \E i \in DOMAIN cur : cur[i].id = id
  BY <1>9
<1> HIDE DEF ids
<1>14. ASSUME NEW p \in ToSet(persons)
       PROVE  /\ p.box \in Boxes
              /\ p.activity = Activity(IF p.id \in DOMAIN memory THEN memory[p.id]
                                       ELSE Center[p.box], Center[p.box])
              /\ p.id \in DOMAIN after /\ after[p.id] = Center[p.box]
  <2>1. PICK i \in DOMAIN cur : p = persons[i]
    BY <1>8
  <2>2. p.id = cur[i].id /\ p.box = cur[i].box
    BY <1>6, <2>1
  <2>3. p.box \in Boxes
    BY <1>4, <2>2 DEF TrackRecord
  <2>4. p.activity = Activity(IF p.id \in DOMAIN memory THEN memory[p.id]
                              ELSE Center[p.box], Center[p.box])
    BY <1>6, <2>1, <2>2
  <2>5. p.id \in DOMAIN after /\ after[p.id] = Center[p.box]
    BY <1>10, <1>12, <2>2
  <2> QED
    BY <2>3, <2>4, <2>5
<1>15. ASSUME NEW id, \A p \in ToSet(persons) : p.id # id
       PROVE  /\ id \in DOMAIN after <=> id \in DOMAIN memory
              /\ id \in DOMAIN memory => after[id] = memory[id]
  <2>1. id \notin ids
    BY <1>6, <1>9, <1>13, <1>15
  <2> QED
    BY <1>12, <2>1
<1>16. \A i, j \in DOMAIN persons : persons[i].id = persons[j].id => i = j
  BY <1>3, <1>4, <1>5, <1>6
<1>17. NoteTrue(note, memory, after)
  BY <1>4, <1>5, <1>7, <1>14, <1>15, <1>16 DEF NoteTrue
<1>18. ASSUME NEW i \in DOMAIN persons
       PROVE  \E t \in DOMAIN tracks : tracks[t].missed = 0 /\ persons[i].box = tracks[t].box
  <2>1. i \in DOMAIN cur
    BY <1>4, <1>5
  <2>2. PICK t \in DOMAIN tracks : cur[i] = tracks[t] /\ tracks[t].missed = 0
    BY <1>3, <2>1
  <2>3. persons[i].box = tracks[t].box
    BY <1>6, <2>1, <2>2
  <2> QED
    BY <2>2, <2>3
<1> QED
  BY <1>2, <1>7, <1>17, <1>18 DEF NoteMade

\* The persons of the k-th note that are on the track id.
Shows(notes, k, id) == {p \in ToSet(notes[k].persons) : p.id = id}

\* The memory holds the tracks the notes show, each where it was shown last.
MemoryTrue(memory, notes) ==
  /\ \A id : id \in DOMAIN memory <=> \E j \in DOMAIN notes : Shows(notes, j, id) # {}
  /\ \A j \in DOMAIN notes : \A q \in ToSet(notes[j].persons) :
       (\A i \in DOMAIN notes : i > j => Shows(notes, i, q.id) = {})
         => memory[q.id] = Center[q.box]

\* The activity of p in the k-th note is what ActivitySinceLastSeen says of it.
ActivityTrue(notes, k, p) ==
  LET before == {j \in 1 .. k - 1 : Shows(notes, j, p.id) # {}} IN
  IF before = {} THEN p.activity = "STANDING"
  ELSE \A q \in Shows(notes, CHOOSE j \in before : \A i \in before : i <= j, p.id) :
         p.activity = Activity(Center[q.box], Center[p.box])

ActivitiesTrue(notes) ==
  \A k \in DOMAIN notes : \A p \in ToSet(notes[k].persons) : ActivityTrue(notes, k, p)

\* Finitely many numbers have a greatest.
LEMMA GreatestNumber ==
  ASSUME NEW n \in Nat, NEW T, T \subseteq 1 .. n, T # {}
  PROVE  \E j \in T : \A i \in T : i <= j
<1> DEFINE D == {n - j : j \in T}
<1>0. \A j \in T : j \in 1 .. n /\ n - j \in Nat
  OBVIOUS
<1>1. D \subseteq Nat /\ D # {}
  <2>1. D # {}
    OBVIOUS
  <2>2. ASSUME NEW d \in D PROVE d \in Nat
    BY <1>0
  <2> QED
    BY <2>1, <2>2
<1>2. \A d \in D : \E j \in T : d = n - j
  OBVIOUS
<1>3. \A j \in T : n - j \in D
  OBVIOUS
<1> HIDE DEF D
<1>4. PICK d \in D : \A e \in D : d <= e
  BY <1>1, LeastNumber
<1>5. PICK j \in T : d = n - j
  BY <1>2
<1>6. ASSUME NEW i \in T PROVE i <= j
  <2>1. n - j <= n - i
    BY <1>3, <1>4, <1>5
  <2>2. i \in Int /\ j \in Int
    OBVIOUS
  <2> QED
    BY <2>1, <2>2
<1> QED
  BY <1>6

\* Who does not move stands.
LEMMA Stands ==
  ASSUME NEW b \in Boxes
  PROVE  Activity(Center[b], Center[b]) = "STANDING"
<1>1. Center[b][1] \in Int /\ Center[b][2] \in Int
  BY DatasetAssumption
<1>2. Center[b][1] - Center[b][1] = 0 /\ Center[b][2] - Center[b][2] = 0
  BY <1>1
<1> QED
  BY <1>2 DEF Activity

\* A note of a new frame has true activities, and the memory stays true of the notes
\* (_build_frame_annotation, _activity_from_speed).
LEMMA NoteAppended ==
  ASSUME NEW S, NEW notes \in Seq(S), NEW note \in S, NEW before, NEW after,
         MemoryTrue(before, notes), ActivitiesTrue(notes), NoteTrue(note, before, after),
         NEW all, all = Append(notes, note)
  PROVE  MemoryTrue(after, all) /\ ActivitiesTrue(all)
<1> DEFINE n == Len(notes)
<1>1. n \in Nat /\ DOMAIN notes = 1 .. n
  OBVIOUS
<1>2. /\ DOMAIN all = 1 .. n + 1 /\ all[n + 1] = note
      /\ \A k \in 1 .. n : all[k] = notes[k]
  OBVIOUS
<1> HIDE DEF n
<1>3. /\ \A k \in 1 .. n : \A id : Shows(all, k, id) = Shows(notes, k, id)
      /\ \A id : Shows(all, n + 1, id) = {p \in ToSet(note.persons) : p.id = id}
  BY <1>2 DEF Shows
<1>4. \A k : k \in 1 .. n + 1 <=> k \in 1 .. n \/ k = n + 1
  BY <1>1
<1>5. MemoryTrue(after, all)
  <2>1. ASSUME NEW id
        PROVE  id \in DOMAIN after <=> \E j \in DOMAIN all : Shows(all, j, id) # {}
    <3>1. CASE \E p \in ToSet(note.persons) : p.id = id
      <4>1. Shows(all, n + 1, id) # {} /\ n + 1 \in DOMAIN all
        BY <1>1, <1>2, <1>3, <3>1
      <4>2. id \in DOMAIN after
        BY <3>1 DEF NoteTrue
      <4> QED
        BY <4>1, <4>2
    <3>2. CASE \A p \in ToSet(note.persons) : p.id # id
      <4>1. Shows(all, n + 1, id) = {}
        BY <1>3, <3>2
      <4>2. id \in DOMAIN after <=> id \in DOMAIN before
        BY <3>2 DEF NoteTrue
      <4>3. id \in DOMAIN before <=> \E j \in 1 .. n : Shows(notes, j, id) # {}
        BY <1>1 DEF MemoryTrue
      <4>4. (\E j \in DOMAIN all : Shows(all, j, id) # {})
              <=> \E j \in 1 .. n : Shows(notes, j, id) # {}
        BY <1>2, <1>3, <1>4, <4>1
      <4> QED
        BY <4>2, <4>3, <4>4
    <3> QED
      BY <3>1, <3>2
  <2>2. ASSUME NEW j \in DOMAIN all, NEW q \in ToSet(all[j].persons),
               \A i \in DOMAIN all : i > j => Shows(all, i, q.id) = {}
        PROVE  after[q.id] = Center[q.box]
    <3>1. CASE j = n + 1
      BY <1>2, <3>1 DEF NoteTrue
    <3>2. CASE j \in 1 .. n
      <4>1. q \in ToSet(notes[j].persons)
        BY <1>2, <3>2
      <4>2. n + 1 > j /\ n + 1 \in DOMAIN all
        BY <1>1, <1>2, <3>2
      <4>3. Shows(all, n + 1, q.id) = {}
        BY <2>2, <4>2
      <4>4. \A p \in ToSet(note.persons) : p.id # q.id
        BY <1>3, <4>3
      <4>5. \A i \in 1 .. n : i > j => Shows(notes, i, q.id) = {}
        BY <1>2, <1>3, <1>4, <2>2
      <4>6. before[q.id] = Center[q.box]
        BY <1>1, <3>2, <4>1, <4>5 DEF MemoryTrue
      <4>7. q.id \in DOMAIN before
        <5>1. Shows(notes, j, q.id) # {}
          BY <4>1 DEF Shows
        <5> QED
          BY <1>1, <3>2, <5>1 DEF MemoryTrue
      <4> QED
        BY <4>4, <4>6, <4>7 DEF NoteTrue
    <3> QED
      BY <1>2, <1>4, <3>1, <3>2
  <2> QED
    BY <2>1, <2>2 DEF MemoryTrue
<1>6. ASSUME NEW k \in DOMAIN all, NEW p \in ToSet(all[k].persons)
      PROVE  ActivityTrue(all, k, p)
  <2>1. CASE k \in 1 .. n
    <3>1. p \in ToSet(notes[k].persons)
      BY <1>2, <2>1
    <3>2. ActivityTrue(notes, k, p)
      BY <1>1, <2>1, <3>1 DEF ActivitiesTrue
    <3>3. \A j \in 1 .. k - 1 : j \in 1 .. n
      BY <1>1, <2>1
    <3> DEFINE was == {j \in 1 .. k - 1 : Shows(notes, j, p.id) # {}}
               is == {j \in 1 .. k - 1 : Shows(all, j, p.id) # {}}
               last == CHOOSE j \in was : \A i \in was : i <= j
    <3>4. was = is
      BY <1>3, <3>3
    <3>5. was # {} => Shows(all, last, p.id) = Shows(notes, last, p.id)
      <4>1. SUFFICES ASSUME was # {} PROVE last \in 1 .. n
        BY <1>3
      <4>2. was \subseteq 1 .. n
        BY <3>3
      <4> HIDE DEF was
      <4>3. \E j \in was : \A i \in was : i <= j
        BY <1>1, <4>1, <4>2, GreatestNumber
      <4> QED
        BY <4>2, <4>3
    <3>6. IF was = {} THEN p.activity = "STANDING"
          ELSE \A q \in Shows(notes, last, p.id) :
                 p.activity = Activity(Center[q.box], Center[p.box])
      BY <3>2 DEF ActivityTrue
    <3>7. IF is = {} THEN p.activity = "STANDING"
          ELSE \A q \in Shows(all, CHOOSE j \in is : \A i \in is : i <= j, p.id) :
                 p.activity = Activity(Center[q.box], Center[p.box])
      <4> HIDE DEF was, is
      <4> QED
        BY <3>4, <3>5, <3>6
    <3> QED
      BY <3>7 DEF ActivityTrue
  <2>2. CASE k = n + 1
    <3> DEFINE is == {j \in 1 .. n : Shows(all, j, p.id) # {}}
               last == CHOOSE j \in is : \A i \in is : i <= j
    <3>1. p \in ToSet(note.persons)
      BY <1>2, <2>2
    <3>2. /\ p.box \in Boxes
          /\ p.activity = Activity(IF p.id \in DOMAIN before THEN before[p.id]
                                   ELSE Center[p.box], Center[p.box])
      BY <3>1 DEF NoteTrue
    <3>3. p.id \in DOMAIN before <=> is # {}
      BY <1>1, <1>3 DEF MemoryTrue
    <3>5. ASSUME is # {}, NEW q \in Shows(all, last, p.id)
          PROVE  p.activity = Activity(Center[q.box], Center[p.box])
      <4>1. \A j : j \in is <=> j \in 1 .. n /\ Shows(notes, j, p.id) # {}
        BY <1>3
      <4> HIDE DEF is
      <4>2. \E j \in is : \A i \in is : i <= j
        BY <1>1, <3>5, <4>1, GreatestNumber
      <4>3. last \in is /\ \A i \in is : i <= last
        BY <4>2
      <4> HIDE DEF last
      <4>4. last \in 1 .. n /\ q \in ToSet(notes[last].persons) /\ q.id = p.id
        <5>1. last \in 1 .. n
          BY <4>1, <4>3
        <5>2. q \in Shows(notes, last, p.id)
          BY <1>3, <3>5, <5>1
        <5> QED
          BY <5>1, <5>2 DEF Shows
      <4>5. \A i \in 1 .. n : i > last => Shows(notes, i, q.id) = {}
        <5>1. ASSUME NEW i \in 1 .. n, i > last PROVE i \notin is
          BY <1>1, <4>3, <4>4, <5>1
        <5> QED
          BY <4>1, <4>4, <5>1
      <4>6. before[p.id] = Center[q.box]
        BY <1>1, <4>4, <4>5 DEF MemoryTrue
      <4> QED
        BY <3>2, <3>3, <3>5, <4>6
    <3>6. IF is = {} THEN p.activity = "STANDING"
          ELSE \A q \in Shows(all, last, p.id) :
                 p.activity = Activity(Center[q.box], Center[p.box])
      <4>1. is = {} => p.activity = "STANDING"
        BY <3>2, <3>3, Stands
      <4> HIDE DEF is, last
      <4> QED
        BY <3>5, <4>1
    <3>7. k - 1 = n
      BY <1>1, <2>2
    <3> QED
      BY <3>6, <3>7 DEF ActivityTrue
  <2> QED
    BY <1>2, <1>4, <2>1, <2>2
<1> QED
  BY <1>5, <1>6 DEF ActivitiesTrue

--------------------------------------------------------------------------------
(* The reader.                                                             *)

\* The samples that the reader may move to from j, and the one it moves to.
Passed(f, j, stamp) == {m \in j .. Len(f.imuStamps) : \A x \in j + 1 .. m : f.imuStamps[x] <= stamp}
Moved(f, j, stamp) == CHOOSE m \in Passed(f, j, stamp) \union {j} :
                        \A x \in Passed(f, j, stamp) : x <= m

\* It moves to the last of them.
LEMMA MovesToLast ==
  ASSUME NEW f, NEW N \in Nat, Len(f.imuStamps) \in Nat, Len(f.imuStamps) <= N,
         NEW j \in 1 .. N, NEW stamp
  PROVE  /\ Moved(f, j, stamp) \in Passed(f, j, stamp) \union {j}
         /\ \A x \in Passed(f, j, stamp) : x <= Moved(f, j, stamp)
         /\ Moved(f, j, stamp) \in 1 .. N
<1> DEFINE P == Passed(f, j, stamp)
           T == P \union {j}
<1>1. T \subseteq 1 .. N /\ T # {}
  <2>1. ASSUME NEW m \in P PROVE m \in 1 .. N
    BY DEF Passed
  <2> QED
    BY <2>1
<1>2. \A x \in P : x \in T
  OBVIOUS
<1>3. Moved(f, j, stamp) = CHOOSE m \in T : \A x \in P : x <= m
  BY DEF Moved
<1> HIDE DEF T, P
<1>4. \E m \in T : \A x \in T : x <= m
  BY <1>1, GreatestNumber
<1>5. \E m \in T : \A x \in P : x <= m
  BY <1>2, <1>4
<1>6. Moved(f, j, stamp) \in T /\ \A x \in P : x <= Moved(f, j, stamp)
  BY <1>3, <1>5
<1>7. Moved(f, j, stamp) \in 1 .. N
  BY <1>1, <1>6
<1> QED
  BY <1>6, <1>7 DEF T, P

\* The turns of the reader: the sample of every frame is there (HDF5Reader.iter_batches).
ImuTurns(g, f, n) ==
  /\ g[0] = 1
  /\ \A k \in 1 .. n : g[k] = Moved(f, g[k - 1], f.stamps[k])
  /\ \A k \in 1 .. n : g[k] \in 1 .. n

LEMMA ImuIndexTurns ==
  ASSUME NEW f, NEW n \in Nat, DOMAIN f.stamps = 1 .. n, Len(f.stamps) = n,
         Len(f.imuStamps) = n
  PROVE  \E g : ImuTurns(g, f, n) /\ ImuIndex(f) = [k \in 1 .. n |-> g[k]]
<1> DEFINE N == IF n = 0 THEN 1 ELSE n
           S == 1 .. N
           AreTurns(g) == g = [k \in 0 .. n |-> IF k = 0 THEN 1 ELSE Moved(f, g[k - 1], f.stamps[k])]
<1>1. ImuIndex(f) = [k \in 1 .. n |-> (CHOOSE g : AreTurns(g))[k]]
  BY DEF ImuIndex, Moved, Passed
<1>2. N \in Nat /\ 1 \in S /\ Len(f.imuStamps) <= N /\ (n # 0 => N = n)
  OBVIOUS
<1> HIDE DEF N
<1>3. \A j \in S : \A stamp : Moved(f, j, stamp) \in S
  BY <1>2, MovesToLast
<1> HIDE DEF S
<1>4. PICK g : AreTurns(g) /\ ImuIndex(f) = [k \in 1 .. n |-> g[k]]
  <2> DEFINE step == [k \in 1 .. n |-> [j \in S |-> Moved(f, j, f.stamps[k])]]
  <2>1. step \in [1 .. n -> [S -> S]]
    BY <1>3
  <2>2. \A k \in 1 .. n : \A j \in S : step[k][j] = Moved(f, j, f.stamps[k])
    OBVIOUS
  <2> HIDE DEF step, AreTurns
  <2>3. PICK g : IsRun(g, n, S, 1, step)
    BY <1>2, <2>1, Turns
  <2> USE DEF AreTurns, IsRun
  <2>4. ASSUME NEW k \in 0 .. n
        PROVE  g[k] = IF k = 0 THEN 1 ELSE Moved(f, g[k - 1], f.stamps[k])
    <3>1. CASE k = 0
      BY <2>3, <3>1
    <3>2. CASE k # 0
      <4>1. k \in 1 .. n /\ k - 1 \in 0 .. n
        BY <3>2
      <4> QED
        BY <2>2, <2>3, <3>2, <4>1
    <3> QED
      BY <3>1, <3>2
  <2>5. AreTurns(g)
    BY <2>3, <2>4
  <2> HIDE DEF AreTurns
  <2> QED
    BY <1>1, <2>5
<1>5. g[0] = 1 /\ \A k \in 1 .. n : g[k] = Moved(f, g[k - 1], f.stamps[k])
  <2>1. \A k \in 0 .. n : g[k] = IF k = 0 THEN 1 ELSE Moved(f, g[k - 1], f.stamps[k])
    BY <1>4
  <2>2. 0 \in 0 .. n /\ \A k \in 1 .. n : k \in 0 .. n /\ k # 0
    OBVIOUS
  <2> QED
    BY <2>1, <2>2
<1> HIDE DEF AreTurns
<1>6. \A k \in 1 .. n : g[k - 1] \in S => g[k] \in S
  BY <1>3, <1>5
<1>7. \A k \in 0 .. n : g[k] \in S
  BY <1>2, <1>5, <1>6, TurnsKeep
<1>8. ASSUME NEW k \in 1 .. n PROVE g[k] \in 1 .. n
  <2>1. n # 0 /\ k \in 0 .. n
    OBVIOUS
  <2> QED
    BY <1>2, <1>7, <2>1 DEF S
<1>9. ImuTurns(g, f, n)
  BY <1>5, <1>8 DEF ImuTurns
<1> QED
  BY <1>4, <1>9

\* Frames in time are paired with their own samples.
LEMMA ImuInTime ==
  ASSUME NEW f, f.stamps \in Seq(Int), f.imuStamps = f.stamps,
         \A i, j \in 1 .. Len(f.stamps) : i < j => f.stamps[i] < f.stamps[j]
  PROVE  ImuIndex(f) = [i \in DOMAIN f.stamps |-> i]
<1> DEFINE n == Len(f.stamps)
           t == f.stamps
<1>1. n \in Nat /\ DOMAIN t = 1 .. n /\ Len(f.imuStamps) = n /\ \A i \in 1 .. n : t[i] \in Int
  OBVIOUS
<1>2. \A i, j \in 1 .. n : i < j => t[i] < t[j]
  OBVIOUS
<1>3. ASSUME NEW j, NEW stamp
      PROVE  Passed(f, j, stamp) = {m \in j .. n : \A x \in j + 1 .. m : t[x] <= stamp}
  BY DEF Passed
<1> HIDE DEF n, t
<1>4. PICK g : ImuTurns(g, f, n) /\ ImuIndex(f) = [k \in 1 .. n |-> g[k]]
  BY <1>1, ImuIndexTurns DEF n, t
<1> DEFINE T == {k \in Nat : k <= n => g[k] = IF k = 0 THEN 1 ELSE k}
<1>5. 0 \in T
  BY <1>4 DEF ImuTurns
<1>6. ASSUME NEW k \in Nat, k \in T PROVE k + 1 \in T
  <2>1. SUFFICES ASSUME k + 1 <= n PROVE g[k + 1] = k + 1
    OBVIOUS
  <2> DEFINE j == IF k = 0 THEN 1 ELSE k
             stamp == t[k + 1]
             m == Moved(f, j, stamp)
  <2>2. g[k + 1] = m /\ j \in 1 .. n /\ k + 1 \in 1 .. n
    <3>1. g[k] = j /\ k + 1 \in 1 .. n /\ (k + 1) - 1 = k /\ j \in 1 .. n
      BY <1>1, <1>6, <2>1
    <3>2. g[k + 1] = Moved(f, g[k], f.stamps[k + 1])
      BY <1>4, <3>1 DEF ImuTurns
    <3> QED
      BY <3>1, <3>2 DEF t
  <2>3. /\ m \in Passed(f, j, stamp) \union {j}
        /\ \A x \in Passed(f, j, stamp) : x <= m
        /\ m \in 1 .. n
    <3>1. n \in Nat /\ Len(f.imuStamps) \in Nat /\ Len(f.imuStamps) <= n /\ j \in 1 .. n
      BY <1>1, <2>2
    <3> HIDE DEF j, stamp
    <3> QED
      BY <3>1, MovesToLast
  <2> HIDE DEF m
  <2>4. k + 1 \in Passed(f, j, stamp)
    <3>1. ASSUME NEW x \in j + 1 .. k + 1 PROVE t[x] <= stamp
      <4>1. x = k + 1 /\ t[k + 1] \in Int
        BY <1>1, <2>2
      <4> QED
        BY <4>1
    <3>2. k + 1 \in j .. n
      BY <1>1, <2>2
    <3> HIDE DEF j, stamp
    <3> QED
      BY <1>3, <3>1, <3>2
  <2>5. ASSUME m > k + 1 PROVE FALSE
    <3>1. m # j
      BY <1>1, <2>2, <2>5
    <3>2. m \in Passed(f, j, stamp)
      BY <2>3, <3>1
    <3>3. \A x \in j + 1 .. m : t[x] <= stamp
      <4> HIDE DEF j, stamp
      <4> QED
        BY <1>3, <3>2
    <3>4. k + 2 \in j + 1 .. m /\ k + 2 \in 1 .. n
      BY <1>1, <2>2, <2>3, <2>5
    <3>5. t[k + 2] <= t[k + 1] /\ t[k + 1] < t[k + 2] /\ t[k + 1] \in Int /\ t[k + 2] \in Int
      BY <1>1, <1>2, <2>2, <3>3, <3>4
    <3> QED
      BY <3>5
  <2>6. m = k + 1
    BY <1>1, <2>3, <2>4, <2>5
  <2> QED
    BY <2>2, <2>6
<1> HIDE DEF T
<1>7. Nat \subseteq T
  BY <1>5, <1>6, EveryTurn
<1>8. \A k \in 1 .. n : g[k] = k
  BY <1>1, <1>7 DEF T
<1>9. ImuIndex(f) = [k \in 1 .. n |-> k]
  BY <1>4, <1>8
<1> QED
  BY <1>1, <1>9 DEF t

--------------------------------------------------------------------------------
(* The tuner.                                                              *)

\* Counts of a score.
Counted(acc) == acc.hits \in Nat /\ acc.stable \in Nat

LEMMA PersonCounted ==
  ASSUME NEW tracks, NEW acc, Counted(acc), NEW person
  PROVE  Counted(Score1(tracks, acc, person))
BY DEF Counted, Score1

\* The score of a frame are two numbers, whatever the tracks (_score_frame).
LEMMA FrameCounted ==
  ASSUME NEW tracks, NEW truth, Len(truth) \in Nat, NEW seen
  PROVE  Counted(ScoreFrame(tracks, truth, seen))
<1> DEFINE z == [hits |-> 0, stable |-> 0, left |-> DOMAIN tracks, seen |-> seen]
           n == Len(truth)
           AreTurns(g, m) == g = [k \in 0 .. m |-> IF k = 0 THEN z
                                                   ELSE Score1(tracks, g[k - 1], truth[k])]
           T == {m \in Nat : \E g : AreTurns(g, m)}
<1>1. ScoreFrame(tracks, truth, seen) = (CHOOSE g : AreTurns(g, n))[n]
  BY DEF ScoreFrame
<1>2. Counted(z)
  BY DEF Counted
<1> HIDE DEF z, n
<1>3. 0 \in T
  <2>1. AreTurns([k \in 0 .. 0 |-> z], 0)
    OBVIOUS
  <2> QED
    BY <2>1
<1>4. ASSUME NEW m \in Nat, m \in T PROVE m + 1 \in T
  <2>1. PICK g : AreTurns(g, m)
    BY <1>4
  <2> DEFINE h == [k \in 0 .. m + 1 |->
                     IF k = m + 1 THEN Score1(tracks, g[m], truth[m + 1]) ELSE g[k]]
  <2>2. ASSUME NEW k \in 0 .. m + 1
        PROVE  h[k] = IF k = 0 THEN z ELSE Score1(tracks, h[k - 1], truth[k])
    <3>1. CASE k = 0
      BY <2>1, <3>1
    <3>2. CASE k = m + 1
      <4>1. k # 0 /\ k - 1 = m /\ m \in 0 .. m + 1 /\ m # m + 1
        BY <3>2
      <4>2. h[m] = g[m] /\ h[k] = Score1(tracks, g[m], truth[m + 1])
        BY <3>2, <4>1
      <4> QED
        BY <3>2, <4>1, <4>2
    <3>3. CASE k # 0 /\ k # m + 1
      <4>1. k \in 0 .. m /\ k - 1 \in 0 .. m + 1 /\ k - 1 # m + 1
        BY <3>3
      <4>2. h[k] = g[k] /\ h[k - 1] = g[k - 1]
        BY <3>3, <4>1
      <4>3. g[k] = Score1(tracks, g[k - 1], truth[k])
        BY <2>1, <3>3, <4>1
      <4> QED
        BY <3>3, <4>2, <4>3
    <3> QED
      BY <3>1, <3>2, <3>3
  <2>3. AreTurns(h, m + 1)
    BY <2>2
  <2> HIDE DEF AreTurns, h
  <2>4. \E x : AreTurns(x, m + 1)
    BY <2>3
  <2> QED
    BY <2>4
<1> HIDE DEF T
<1>5. Nat \subseteq T
  BY <1>3, <1>4, EveryTurn
<1>6. PICK g : AreTurns(g, n) /\ ScoreFrame(tracks, truth, seen) = g[n]
  <2>1. n \in Nat
    BY DEF n
  <2> HIDE DEF AreTurns
  <2>2. \E g : AreTurns(g, n)
    BY <1>5, <2>1 DEF T
  <2> QED
    BY <1>1, <2>2
<1> DEFINE C == {k \in Nat : k <= n => Counted(g[k])}
<1>7. 0 \in C
  BY <1>2, <1>6 DEF n
<1>8. ASSUME NEW k \in Nat, k \in C PROVE k + 1 \in C
  <2>1. SUFFICES ASSUME k + 1 <= n PROVE Counted(g[k + 1])
    OBVIOUS
  <2>2. k + 1 \in 0 .. n /\ k + 1 # 0 /\ (k + 1) - 1 = k /\ k <= n
    BY <2>1 DEF n
  <2>3. g[k + 1] = Score1(tracks, g[k], truth[k + 1])
    BY <1>6, <2>2
  <2>4. Counted(g[k])
    BY <1>8, <2>2
  <2> QED
    BY <2>3, <2>4, PersonCounted
<1> HIDE DEF C
<1>9. Nat \subseteq C
  BY <1>7, <1>8, EveryTurn
<1>10. Counted(g[n])
  BY <1>9 DEF C, n
<1> QED
  BY <1>6, <1>10

\* Counts of an evaluation.
Totalled(acc) == acc.total \in Nat /\ acc.hits \in Nat /\ acc.stable \in Nat

LEMMA FrameTotalled ==
  ASSUME NEW c, NEW acc, Totalled(acc), NEW f, Len(f.truth) \in Nat
  PROVE  Totalled(EvaluateFrame(c, acc, f))
<1> DEFINE tracker == Update(c, acc.tracker, f.dets)
           score == ScoreFrame(tracker.tracks, f.truth, acc.seen)
           new == [tracker |-> tracker, seen |-> score.seen, total |-> acc.total + Len(f.truth),
                   hits |-> acc.hits + score.hits, stable |-> acc.stable + score.stable]
<1>1. EvaluateFrame(c, acc, f) = new
  BY DEF EvaluateFrame
<1>2. score.hits \in Nat /\ score.stable \in Nat
  BY FrameCounted DEF Counted
<1> HIDE DEF score, tracker
<1>3. Totalled(new)
  BY <1>2 DEF Totalled
<1> QED
  BY <1>1, <1>3

\* The frames of a sequence that are scored.
Counting(frames) ==
  /\ IsFiniteSet(frames)
  /\ \A f \in frames : f.no \in Nat /\ Len(f.truth) \in Nat
  /\ \A f, g \in frames : f.no = g.no => f = g

LEMMA ScoredFrames ==
  ASSUME NEW frames, Counting(frames)
  PROVE  /\ Len(Scored(frames)) \in Nat
         /\ \A k \in 1 .. Len(Scored(frames)) : Len(Scored(frames)[k].truth) \in Nat
<1> DEFINE R == {p \in frames \X frames : p[1].no < p[2].no}
           o == InOrder(frames, R)
           m == IF Len(o) < MaxScored THEN Len(o) ELSE MaxScored
<1>1. Scored(frames) = SubSeq(o, 1, m)
  BY DEF Scored
<1>2. \A a, b \in frames : <<a, b>> \in R <=> a.no < b.no
  OBVIOUS
<1> HIDE DEF R
<1>3. StrictOrder(frames, R)
  BY <1>2 DEF StrictOrder, Counting
<1>4. o \in Seq(frames)
  BY <1>3, InOrderOf DEF Counting
<1> HIDE DEF o
<1>5. m \in Nat /\ m <= Len(o) /\ Len(o) \in Nat
  BY <1>4, TuningAssumption
<1> HIDE DEF m
<1>6. /\ Len(SubSeq(o, 1, m)) = m /\ \A k \in 1 .. m : SubSeq(o, 1, m)[k] = o[k] /\ o[k] \in frames
  BY <1>4, <1>5
<1> QED
  BY <1>1, <1>5, <1>6 DEF Counting

\* An evaluation is a number (evaluate_tracker_on_mot20_sequence).
LEMMA Evaluated ==
  ASSUME NEW frames, Counting(frames), NEW c
  PROVE  Evaluate(frames, c) \in Int
<1> DEFINE z == [tracker |-> NewTracker, seen |-> {}, total |-> 0, hits |-> 0, stable |-> 0]
           s == Scored(frames)
           n == Len(s)
           AreTurns(g, m) == g = [k \in 0 .. m |-> IF k = 0 THEN z
                                                   ELSE EvaluateFrame(c, g[k - 1], s[k])]
           T == {m \in Nat : \E g : AreTurns(g, m)}
           end == (CHOOSE g : AreTurns(g, n))[n]
<1>1. Evaluate(frames, c)
        = IF end.total = 0 THEN 0 ELSE (70 * end.hits + 30 * end.stable) \div end.total
  BY DEF Evaluate, Ratio
<1>2. Totalled(z)
  BY DEF Totalled
<1>3. n \in Nat /\ \A k \in 1 .. n : Len(s[k].truth) \in Nat
  BY ScoredFrames
<1> HIDE DEF z, n, s
<1>4. 0 \in T
  <2>1. AreTurns([k \in 0 .. 0 |-> z], 0)
    OBVIOUS
  <2> QED
    BY <2>1
<1>5. ASSUME NEW m \in Nat, m \in T PROVE m + 1 \in T
  <2>1. PICK g : AreTurns(g, m)
    BY <1>5
  <2> DEFINE h == [k \in 0 .. m + 1 |->
                     IF k = m + 1 THEN EvaluateFrame(c, g[m], s[m + 1]) ELSE g[k]]
  <2>2. ASSUME NEW k \in 0 .. m + 1
        PROVE  h[k] = IF k = 0 THEN z ELSE EvaluateFrame(c, h[k - 1], s[k])
    <3>1. CASE k = 0
      BY <2>1, <3>1
    <3>2. CASE k = m + 1
      <4>1. k # 0 /\ k - 1 = m /\ m \in 0 .. m + 1 /\ m # m + 1
        BY <3>2
      <4>2. h[m] = g[m] /\ h[k] = EvaluateFrame(c, g[m], s[m + 1])
        BY <3>2, <4>1
      <4> QED
        BY <3>2, <4>1, <4>2
    <3>3. CASE k # 0 /\ k # m + 1
      <4>1. k \in 0 .. m /\ k - 1 \in 0 .. m + 1 /\ k - 1 # m + 1
        BY <3>3
      <4>2. h[k] = g[k] /\ h[k - 1] = g[k - 1]
        BY <3>3, <4>1
      <4>3. g[k] = EvaluateFrame(c, g[k - 1], s[k])
        BY <2>1, <3>3, <4>1
      <4> QED
        BY <3>3, <4>2, <4>3
    <3> QED
      BY <3>1, <3>2, <3>3
  <2>3. AreTurns(h, m + 1)
    BY <2>2
  <2> HIDE DEF AreTurns, h
  <2>4. \E x : AreTurns(x, m + 1)
    BY <2>3
  <2> QED
    BY <2>4
<1> HIDE DEF T
<1>6. Nat \subseteq T
  BY <1>4, <1>5, EveryTurn
<1>7. PICK g : AreTurns(g, n) /\ end = g[n]
  <2> HIDE DEF AreTurns
  <2>1. \E g : AreTurns(g, n)
    BY <1>3, <1>6 DEF T
  <2> QED
    BY <2>1
<1> DEFINE C == {k \in Nat : k <= n => Totalled(g[k])}
<1>8. 0 \in C
  BY <1>2, <1>3, <1>7
<1>9. ASSUME NEW k \in Nat, k \in C PROVE k + 1 \in C
  <2>1. SUFFICES ASSUME k + 1 <= n PROVE Totalled(g[k + 1])
    OBVIOUS
  <2>2. k + 1 \in 0 .. n /\ k + 1 \in 1 .. n /\ k + 1 # 0 /\ (k + 1) - 1 = k /\ k <= n
    BY <1>3, <2>1
  <2>3. g[k + 1] = EvaluateFrame(c, g[k], s[k + 1])
    BY <1>7, <2>2
  <2>4. Totalled(g[k])
    BY <1>9, <2>2
  <2> QED
    BY <1>3, <2>2, <2>3, <2>4, FrameTotalled
<1> HIDE DEF C
<1>10. Nat \subseteq C
  BY <1>8, <1>9, EveryTurn
<1> HIDE DEF end
<1>11. end.total \in Nat /\ end.hits \in Nat /\ end.stable \in Nat
  BY <1>3, <1>7, <1>10 DEF C, Totalled
<1>12. end.total # 0 => (70 * end.hits + 30 * end.stable) \div end.total \in Int
  BY <1>11
<1> QED
  BY <1>1, <1>12

\* The sequences of a tuning are folders there are (iter_mot20_sequences).
LEMMA TakenFolders ==
  ASSUME NEW folders, NEW F, folders \in Seq(F), NEW files
  PROVE  /\ Taken(folders, files) \in Seq(F)
         /\ \A i \in 1 .. Len(Taken(folders, files)) :
              \E j \in DOMAIN folders : Taken(folders, files)[i] = folders[j]
<1> DEFINE I == {i \in DOMAIN folders : files \subseteq folders[i].files}
           s == Picked(folders, I)
           m == IF Len(s) < MaxTuned THEN Len(s) ELSE MaxTuned
<1>1. Taken(folders, files) = SubSeq(s, 1, m)
  BY DEF Taken
<1>2. I \in SUBSET (DOMAIN folders)
  OBVIOUS
<1> HIDE DEF I
<1>3. PickedFrom(s, folders, F, I)
  BY <1>2, PickedOf
<1>4. s \in Seq(F) /\ \A k \in DOMAIN s : \E j \in DOMAIN folders : s[k] = folders[j]
  BY <1>2, <1>3 DEF PickedFrom
<1> HIDE DEF s
<1>5. m \in Nat /\ m <= Len(s) /\ Len(s) \in Nat /\ DOMAIN s = 1 .. Len(s)
  BY <1>4, TuningAssumption
<1> HIDE DEF m
<1>6. /\ SubSeq(s, 1, m) \in Seq(F) /\ Len(SubSeq(s, 1, m)) = m
      /\ \A k \in 1 .. m : SubSeq(s, 1, m)[k] = s[k] /\ k \in DOMAIN s
  BY <1>4, <1>5
<1> QED
  BY <1>1, <1>4, <1>6

LEMMA Summed ==
  ASSUME NEW n \in Nat, NEW x, x \in [1 .. n -> Int]
  PROVE  Sum(x) \in Int
<1> DEFINE AreTurns(g) == g = [k \in 0 .. n |-> IF k = 0 THEN 0 ELSE g[k - 1] + x[k]]
           step == [k \in 1 .. n |-> [y \in Int |-> y + x[k]]]
<1>1. Len(x) = n
  OBVIOUS
<1>2. Sum(x) = (CHOOSE g : AreTurns(g))[n]
  BY <1>1 DEF Sum
<1>3. step \in [1 .. n -> [Int -> Int]]
  OBVIOUS
<1>4. \A k \in 1 .. n : \A y \in Int : step[k][y] = y + x[k]
  OBVIOUS
<1> HIDE DEF step, AreTurns
<1>5. PICK g : IsRun(g, n, Int, 0, step)
  <2> DEFINE Z == Int
  <2>1. step \in [1 .. n -> [Z -> Z]] /\ 0 \in Z
    BY <1>3
  <2> HIDE DEF Z
  <2>2. \E g : IsRun(g, n, Z, 0, step)
    BY <2>1, Turns
  <2> QED
    BY <2>2 DEF Z
<1>6. AreTurns(g)
  <2>1. ASSUME NEW k \in 0 .. n PROVE g[k] = IF k = 0 THEN 0 ELSE g[k - 1] + x[k]
    <3>1. CASE k = 0
      BY <1>5, <3>1 DEF IsRun
    <3>2. CASE k # 0
      <4>1. k \in 1 .. n /\ k - 1 \in 0 .. n
        BY <3>2
      <4>2. g[k] = step[k][g[k - 1]] /\ g[k - 1] \in Int
        BY <1>5, <4>1 DEF IsRun
      <4> QED
        BY <1>4, <3>2, <4>1, <4>2
    <3> QED
      BY <3>1, <3>2
  <2>2. g = [k \in 0 .. n |-> g[k]]
    BY <1>5 DEF IsRun
  <2> QED
    BY <2>1, <2>2 DEF AreTurns
<1>7. PICK h : AreTurns(h) /\ Sum(x) = h[n]
  BY <1>2, <1>6
<1>8. h[0] \in Int /\ \A k \in 1 .. n : h[k - 1] \in Int => h[k] \in Int
  <2>1. \A k \in 0 .. n : h[k] = IF k = 0 THEN 0 ELSE h[k - 1] + x[k]
    BY <1>7 DEF AreTurns
  <2>2. 0 \in 0 .. n /\ \A k \in 1 .. n : k \in 0 .. n /\ k # 0 /\ x[k] \in Int
    OBVIOUS
  <2> QED
    BY <2>1, <2>2
<1>9. \A k \in 0 .. n : h[k] \in Int
  BY <1>8, TurnsKeep
<1> QED
  BY <1>7, <1>9

\* The score of a configuration is a number (tune_botsort).
LEMMA ScoreIsNumber ==
  ASSUME NEW c
  PROVE  Score(c) \in Int
<1> DEFINE M == Mot20Sequences
           H == HallwaySequences
           x == [i \in DOMAIN M |-> Evaluate(Mot20Frames(M[i].frames), c)]
           y == [i \in DOMAIN H |-> Evaluate(HallwayFrames(H[i].frames), c)]
           MFrame == [no : Nat, dets : Seq(Boxes), truth : Truth]
           HFrame == [no : Nat, truth : Truth]
<1>1. /\ M \in Seq(Folder(MFrame))
      /\ \A i \in 1 .. Len(M) : \E j \in DOMAIN Mot20 : M[i] = Mot20[j]
  BY TakenFolders, TuningAssumption DEF Mot20Sequences
<1>2. /\ H \in Seq(Folder(HFrame))
      /\ \A i \in 1 .. Len(H) : \E j \in DOMAIN Hallway : H[i] = Hallway[j]
  BY TakenFolders, TuningAssumption DEF HallwaySequences
<1>3. DOMAIN M = 1 .. Len(M) /\ Len(M) \in Nat /\ DOMAIN H = 1 .. Len(H) /\ Len(H) \in Nat
  BY <1>1, <1>2
<1>4. Score(c) = 7 * Len(H) * Sum(x) + 3 * Len(M) * Sum(y)
  BY DEF Score
<1> HIDE DEF M, H, MFrame, HFrame
<1>5. ASSUME NEW i \in DOMAIN M PROVE Evaluate(Mot20Frames(M[i].frames), c) \in Int
  <2> DEFINE F == M[i].frames
             G == Mot20Frames(F)
  <2>1. IsFiniteSet(F) /\ \A f, g \in F : f.no = g.no => f = g
    BY <1>1, <1>3, TuningAssumption
  <2>2. F \subseteq MFrame
    <3>1. M[i] \in Folder(MFrame)
      BY <1>1, <1>3
    <3> QED
      BY <3>1 DEF Folder
  <2> HIDE DEF F
  <2>3. \A f \in F : f.no \in Nat /\ Len(f.truth) \in Nat
    BY <2>2 DEF MFrame, Truth
  <2>4. G \in SUBSET F
    BY DEF Mot20Frames
  <2> HIDE DEF G
  <2>5. IsFiniteSet(G)
    BY <2>1, <2>4, FS_Subset
  <2>6. Counting(G)
    BY <2>1, <2>3, <2>4, <2>5 DEF Counting
  <2> QED
    BY <2>6, Evaluated DEF G, F
<1>6. ASSUME NEW i \in DOMAIN H PROVE Evaluate(HallwayFrames(H[i].frames), c) \in Int
  <2> DEFINE F == H[i].frames
             G == HallwayFrames(F)
             of(f) == [no |-> f.no, truth |-> f.truth,
                       dets |-> [k \in DOMAIN f.truth |-> f.truth[k].box]]
             h == [f \in F |-> of(f)]
  <2>1. IsFiniteSet(F) /\ \A f, g \in F : f.no = g.no => f = g
    BY <1>2, <1>3, TuningAssumption
  <2>2. F \subseteq HFrame
    <3>1. H[i] \in Folder(HFrame)
      BY <1>2, <1>3
    <3> QED
      BY <3>1 DEF Folder
  <2> HIDE DEF F
  <2>3. \A f \in F : f.no \in Nat /\ Len(f.truth) \in Nat
    BY <2>2 DEF HFrame, Truth
  <2>4. G = {of(f) : f \in F}
    BY DEF HallwayFrames
  <2>5. \A f : of(f).no = f.no /\ of(f).truth = f.truth
    OBVIOUS
  <2> HIDE DEF of, G
  <2>6. h \in Surjection(F, G)
    BY <2>4 DEF Surjection
  <2>7. IsFiniteSet(G)
    BY <2>1, <2>6, FS_Surjection
  <2>8. Counting(G)
    BY <2>1, <2>3, <2>4, <2>5, <2>7 DEF Counting
  <2> QED
    BY <2>8, Evaluated DEF G, F
<1>7. x \in [1 .. Len(M) -> Int] /\ y \in [1 .. Len(H) -> Int]
  BY <1>3, <1>5, <1>6
<1> HIDE DEF x, y
<1>8. Sum(x) \in Int /\ Sum(y) \in Int
  BY <1>3, <1>7, Summed
<1> QED
  BY <1>3, <1>4, <1>8

\* No candidate beats the one that is chosen, so the default does not.
LEMMA TunedIsBest == Score(Tuned) >= Score(DefaultTracker)
<1> DEFINE a == Score(Candidates[1])
           b == Score(Candidates[2])
           d == Score(Candidates[3])
           scores == [i \in DOMAIN Candidates |-> Score(Candidates[i])]
           best == {i \in DOMAIN scores : \A j \in DOMAIN scores : scores[i] >= scores[j]}
           first == CHOOSE i \in best : \A j \in best : i <= j
<1>1. a \in Int /\ b \in Int /\ d \in Int
  BY ScoreIsNumber
<1>2. DOMAIN Candidates = {1, 2, 3} /\ Candidates[2] = DefaultTracker
  BY DEF Candidates, DefaultTracker
<1>3. Tuned = Candidates[first]
  BY DEF Tuned, FirstBest
<1>4. \A i : i \in best <=>
        /\ i \in {1, 2, 3}
        /\ \A j \in {1, 2, 3} : Score(Candidates[i]) >= Score(Candidates[j])
  BY <1>2
<1>5. best # {}
  <2>1. \/ a >= b /\ a >= d
        \/ b >= a /\ b >= d
        \/ d >= a /\ d >= b
    BY <1>1
  <2>2. a >= a /\ b >= b /\ d >= d
    BY <1>1
  <2> QED
    BY <1>4, <2>1, <2>2
<1>6. best \subseteq Nat
  BY <1>2
<1> HIDE DEF best
<1>7. first \in best
  BY <1>5, <1>6, LeastNumber
<1>8. Score(Candidates[first]) >= Score(Candidates[2])
  BY <1>4, <1>7
<1> QED
  BY <1>2, <1>3, <1>8

--------------------------------------------------------------------------------
(* The files that are kept.                                                *)

\* Without overwrite, a finished or torn file stays what it is in this step.
Keeps ==
  ~config'.overwrite =>
    \A n \in Names : disk[n].state \in {"closed", "torn"} => disk'[n] = disk[n]

Writing == at \in {"frames", "record"}

\* The files are records, and the one that is written is open.  Of a source nothing is
\* used but that it may have one of Names.
Files == DOMAIN disk = Names /\ \A n \in Names : "state" \in DOMAIN disk[n]
Held == Files /\ (Writing /\ source.name \in Names => file.state = "open")

\* A file that is stored is stored under the name of the source, and no other changes.
LEMMA StoreChangesOne ==
  ASSUME NEW f, Files, Store(f), source.name \in Names => "state" \in DOMAIN f
  PROVE  /\ Files'
         /\ \A n \in Names \ {source.name} : disk'[n] = disk[n]
         /\ source.name \in Names => disk'[source.name] = f
BY DEF Files, Store, Names

\* A step that leaves the files alone and does not begin to write.
LEMMA QuietStep ==
  ASSUME Held, UNCHANGED disk, ~Writing' \/ UNCHANGED runVars
  PROVE  Held' /\ Keeps
BY DEF Held, Files, Keeps, Writing, runVars, source, file, Names

\* A step that stores an open file, where there was none or it may be overwritten
\* (StreamingHDF5Writer.__init__, HDF5Recorder.__init__).
LEMMA OpeningStep ==
  ASSUME NEW f, Held, Store(f), MayWrite, "state" \in DOMAIN f, f.state = "open",
         UNCHANGED <<config, todo, pos>>
  PROVE  Held' /\ Keeps
<1>1. /\ Files'
      /\ \A n \in Names \ {source.name} : disk'[n] = disk[n]
      /\ source.name \in Names => disk'[source.name] = f
  BY StoreChangesOne DEF Held
<1>2. source' = source
  BY DEF source
<1>3. Held'
  BY <1>1, <1>2 DEF Held, file, Names
<1>4. Keeps
  BY <1>1 DEF Keeps, MayWrite, file
<1> QED
  BY <1>3, <1>4

\* A step that stores the file that is written: it stays open, or the writing ends.
LEMMA WritingStep ==
  ASSUME NEW f, Held, Writing, Store(f),
         source.name \in Names => "state" \in DOMAIN f,
         \/ ~Writing'
         \/ /\ UNCHANGED <<todo, pos>>
            /\ source.name \in Names => f.state = file.state
  PROVE  Held' /\ Keeps
<1>1. /\ Files'
      /\ \A n \in Names \ {source.name} : disk'[n] = disk[n]
      /\ source.name \in Names => disk'[source.name] = f
  BY StoreChangesOne DEF Held
<1>2. Held'
  <2>1. CASE ~Writing'
    BY <1>1, <2>1 DEF Held
  <2>2. CASE /\ UNCHANGED <<todo, pos>>
             /\ source.name \in Names => f.state = file.state
    <3>1. source' = source
      BY <2>2 DEF source
    <3> QED
      BY <1>1, <2>2, <3>1 DEF Held, file, Names
  <2> QED
    BY <2>1, <2>2
<1>3. source.name \in Names => file.state = "open"
  BY DEF Held
<1>4. Keeps
  BY <1>1, <1>3 DEF Keeps, file
<1> QED
  BY <1>2, <1>4

\* Whatever a run does, and whenever it is killed, Held remains and the files are kept.
LEMMA EveryStep ==
  ASSUME Held, [Next]_vars
  PROVE  Held' /\ Keeps
<1>1. ASSUME NEW c \in Configs, Start(c) PROVE Held' /\ Keeps
  BY <1>1, QuietStep DEF Start, Writing
<1>2. CASE Refuse
  BY <1>2, QuietStep DEF Refuse, Raise, Writing
<1>3. CASE OpenSequence
  <2> DEFINE f == [NoFile EXCEPT !.state = "open", !.source = todo[pos],
                                 !.len = [c \in ColumnSet |-> 0],
                                 !.tracker = tuned.config, !.config = config]
  <2>1. Store(f) /\ MayWrite /\ UNCHANGED <<config, todo, pos>>
    BY <1>3 DEF OpenSequence
  <2>2. "state" \in DOMAIN f /\ f.state = "open"
    BY DEF NoFile
  <2> QED
    BY <2>1, <2>2, OpeningStep
<1>4. CASE WriteFrame
  <2> DEFINE stamp == Stamp(Frames(source, config)[Len(file.stamps) + 1].id, Len(file.stamps))
             f == [file EXCEPT !.len = [c \in ColumnSet |-> Len(file.stamps) + 1],
                               !.stamps = Append(@, stamp), !.imuStamps = Append(@, stamp)]
  <2>1. Writing /\ Store(f) /\ UNCHANGED <<todo, pos>>
    BY <1>4 DEF WriteFrame, Writing
  <2>2. source.name \in Names => "state" \in DOMAIN file
    BY DEF Held, Files, file
  <2>3. source.name \in Names => "state" \in DOMAIN f /\ f.state = file.state
    BY <2>2
  <2> QED
    BY <2>1, <2>3, WritingStep
<1>5. ASSUME NEW n \in 0 .. Len(Columns) - 1, FrameFails(n) PROVE Held' /\ Keeps
  <2> DEFINE k == Len(file.stamps)
             f == [file EXCEPT !.state = "closed",
                     !.len = [c \in ColumnSet |->
                                IF \E i \in 1 .. n : Columns[i] = c THEN k + 1 ELSE k]]
  <2>1. Writing /\ Store(f) /\ ~Writing'
    BY <1>5 DEF FrameFails, Raise, Writing
  <2>2. source.name \in Names => "state" \in DOMAIN f
    BY DEF Held, Files, file
  <2> QED
    BY <2>1, <2>2, WritingStep
<1>6. CASE Finalize
  <2> DEFINE f == [file EXCEPT !.state = "closed", !.annotated = TRUE, !.notes = progress.notes]
  <2>1. Writing /\ Store(f) /\ ~Writing'
    BY <1>6 DEF Finalize, Writing
  <2>2. source.name \in Names => "state" \in DOMAIN f
    BY DEF Held, Files, file
  <2> QED
    BY <2>1, <2>2, WritingStep
<1>7. CASE Summarize
  BY <1>7, QuietStep DEF Summarize, Summarized, Writing
<1>8. CASE Finish
  BY <1>8, QuietStep DEF Finish, Writing
<1>9. CASE OpenRecording
  <2> DEFINE f == [NoFile EXCEPT !.state = "open", !.source = todo[pos]]
  <2>1. Store(f) /\ MayWrite /\ UNCHANGED <<config, todo, pos>>
    BY <1>9 DEF OpenRecording
  <2>2. "state" \in DOMAIN f /\ f.state = "open"
    BY DEF NoFile
  <2> QED
    BY <2>1, <2>2, OpeningStep
<1>10. CASE Record
  <2> DEFINE len  == Filled(source)
             bad  == {i \in DOMAIN Columns : \/ Columns[i] \in Chunked /\ len[Columns[i]] = 0
                                             \/ Columns[i] = "rgb" /\ ~source.fits}
             done == [file EXCEPT !.state = "closed", !.annotated = TRUE, !.len = len,
                        !.stamps = RgbStamps(source), !.notes = RecordedNotes(source),
                        !.imuStamps = IF source.len["imuTs"] # Missing
                                      THEN source.imuStamps ELSE RgbStamps(source)]
             cut  == [file EXCEPT !.state = "closed",
                        !.len = [c \in ColumnSet |->
                                   IF \E i \in DOMAIN Columns :
                                        Columns[i] = c /\ \A b \in bad : i < b
                                   THEN len[c] ELSE Missing]]
  <2>1. /\ at = "record"
        /\ \/ Store(done) /\ Summarized(done)
           \/ Store(cut) /\ Raise
    BY <1>10 DEF Record
  <2>2. DOMAIN done = DOMAIN file /\ DOMAIN cut = DOMAIN file
    OBVIOUS
  <2>3. source.name \in Names => "state" \in DOMAIN done /\ "state" \in DOMAIN cut
    BY <2>2 DEF Held, Files, file
  <2>4. Store(done) \/ Store(cut)
    BY <2>1
  <2>5. Writing /\ ~Writing'
    BY <2>1 DEF Summarized, Raise, Writing
  <2> HIDE DEF done, cut
  <2> QED
    BY <2>3, <2>4, <2>5, WritingStep
<1>11. CASE Kill
  <2>1. ~Writing'
    BY <1>11 DEF Kill, Raise, Writing
  <2>2. CASE Writing
    <3> DEFINE f == [file EXCEPT !.state = "torn"]
    <3>1. Store(f)
      BY <1>11, <2>2 DEF Kill, Writing
    <3>2. source.name \in Names => "state" \in DOMAIN f
      BY DEF Held, Files, file
    <3> QED
      BY <2>1, <2>2, <3>1, <3>2, WritingStep
  <2>3. CASE ~Writing
    BY <1>11, <2>1, <2>3, QuietStep DEF Kill, Writing
  <2> QED
    BY <2>2, <2>3
<1>12. CASE TuneOpen
  BY <1>12, QuietStep DEF TuneOpen
<1>13. CASE TuneWrite
  BY <1>13, QuietStep DEF TuneWrite
<1>14. CASE UNCHANGED vars
  BY <1>14, QuietStep DEF vars
<1> QED
  BY <1>1, <1>2, <1>3, <1>4, <1>5, <1>6, <1>7, <1>8, <1>9, <1>10, <1>11, <1>12, <1>13, <1>14
  DEF Next

\* At first there are no files and none is written.
LEMMA HeldAtFirst == Init => Held
BY DEF Init, Held, Files, Writing, NoFile, Names

--------------------------------------------------------------------------------
(* What a file holds of its source.                                        *)

\* The k-th note is about the k-th frame, and every person in it was detected there.
FitsFrame(f, note, k) ==
  LET frame == Frames(Raw[f.source], f.config)[k] IN
  /\ note.frame = k - 1 /\ note.stamp = f.stamps[k] /\ f.stamps[k] = Stamp(frame.id, k - 1)
  /\ \A i, j \in DOMAIN note.persons : note.persons[i].id = note.persons[j].id => i = j
  /\ \A i \in DOMAIN note.persons :
       note.persons[i].box \in ToSet(Detections(Raw[f.source], frame.picture, f.config))

\* The columns of f and the notes are about the first frames of its source.
Aligned(f, notes) ==
  /\ \E S : notes \in Seq(S)
  /\ f.stamps \in Seq(Int) /\ f.imuStamps = f.stamps /\ Len(f.stamps) = Len(notes)
  /\ Len(notes) <= Len(Frames(Raw[f.source], f.config))
  /\ \A c \in ColumnSet : f.len[c] = Len(notes)
  /\ \A k \in DOMAIN notes : FitsFrame(f, notes[k], k)
  /\ ActivitiesTrue(notes)

\* What is known of the tracker and the memory while the notes are taken.
Watching(p) ==
  /\ p.tracker.tracks \in Seq(TrackRecord) /\ p.tracker.nextId \in Nat \ {0}
  /\ Apart(p.tracker.tracks, p.tracker.nextId)
  /\ MemoryTrue(p.memory, p.notes)

\* A sequence that gets one more element.
Longer(t, s, x) ==
  /\ \E S : s \in Seq(S) /\ t \in Seq(S) /\ x \in S
  /\ Len(s) \in Nat /\ DOMAIN s = 1 .. Len(s)
  /\ Len(t) = Len(s) + 1 /\ DOMAIN t = 1 .. Len(s) + 1
  /\ t[Len(s) + 1] = x /\ \A j \in 1 .. Len(s) : t[j] = s[j]

LEMMA Appended ==
  ASSUME NEW S, NEW s \in Seq(S), NEW x, NEW t, t = Append(s, x)
  PROVE  Longer(t, s, x)
<1> DEFINE W == S \union {x}
           n == Len(s)
<1>1. n \in Nat /\ s = [i \in 1 .. n |-> s[i]] /\ \A i \in 1 .. n : s[i] \in S
  OBVIOUS
<1>2. x \in W /\ \A i \in 1 .. n : s[i] \in W
  BY <1>1
<1> HIDE DEF W, n
<1>3. s \in [1 .. n -> W]
  BY <1>1, <1>2
<1>4. s \in Seq(W)
  BY <1>1, <1>3
<1>5. t \in Seq(W)
  BY <1>2, <1>4
<1>6. /\ Len(t) = n + 1 /\ DOMAIN t = 1 .. n + 1 /\ DOMAIN s = 1 .. n
      /\ t[n + 1] = x /\ \A j \in 1 .. n : t[j] = s[j]
  BY <1>1, <1>4, <1>2 DEF n
<1> QED
  BY <1>1, <1>2, <1>4, <1>5, <1>6 DEF n, Longer

\* The note is of the frame k at stamp, and of persons among ds.
Noted(note, k, stamp, ds) ==
  /\ note.frame = k /\ note.stamp = stamp
  /\ \A i, j \in DOMAIN note.persons : note.persons[i].id = note.persons[j].id => i = j
  /\ \A i \in DOMAIN note.persons : note.persons[i].box \in ToSet(ds)

\* A note is taken, and p becomes q (_write_sequence, _build_frame_annotation).
Takes(p, q, note, c, ds, k, stamp) ==
  /\ q.tracker = Update(c, p.tracker, ds)
  /\ note = Annotation(k, stamp, q.tracker.tracks, p.memory)
  /\ q.memory = Remember(p.memory, q.tracker.tracks)
  /\ q.notes = Append(p.notes, note)

LEMMA NoteTaken ==
  ASSUME NEW p, Watching(p), NEW S, p.notes \in Seq(S), ActivitiesTrue(p.notes),
         NEW c, NEW ds \in Seq(Boxes), NEW k, NEW stamp, NEW note, NEW q,
         Takes(p, q, note, c, ds, k, stamp)
  PROVE  Watching(q) /\ ActivitiesTrue(q.notes) /\ Noted(note, k, stamp, ds)
<1> DEFINE after == q.tracker
           ts == after.tracks
           next == after.nextId
           old == p.memory
           new == q.memory
           notes == p.notes
           all == q.notes
<1>1. Follows(after, c, p.tracker, ds)
  BY UpdateFollows DEF Watching, Takes
<1>2. /\ ts \in Seq(TrackRecord) /\ next \in Nat \ {0} /\ Apart(ts, next)
      /\ \A t \in DOMAIN ts : ts[t].missed = 0 => \E d \in DOMAIN ds : ds[d] = ts[t].box
  BY <1>1 DEF Follows, Watching
<1>3. note = Annotation(k, stamp, ts, old) /\ new = Remember(old, ts)
      /\ all = Append(notes, note) /\ notes \in Seq(S)
  BY DEF Takes
<1>4. MemoryTrue(old, notes) /\ ActivitiesTrue(notes)
  BY DEF Watching
<1> HIDE DEF after, ts, next, old, new, notes, all
<1>5. NoteTrue(note, old, new) /\ NoteMade(note, k, stamp, ts)
  BY <1>2, <1>3, NoteOf
<1>6. /\ note.frame = k /\ note.stamp = stamp
      /\ \A i \in DOMAIN note.persons : \E t \in DOMAIN ts :
           ts[t].missed = 0 /\ note.persons[i].box = ts[t].box
  BY <1>5 DEF NoteMade
<1>7. PICK W : notes \in Seq(W) /\ note \in W
  BY <1>3, Appended DEF Longer
<1>8. MemoryTrue(new, all) /\ ActivitiesTrue(all)
  BY <1>3, <1>4, <1>5, <1>7, NoteAppended
<1>9. ASSUME NEW i \in DOMAIN note.persons PROVE note.persons[i].box \in ToSet(ds)
  <2>1. PICK t \in DOMAIN ts : ts[t].missed = 0 /\ note.persons[i].box = ts[t].box
    BY <1>6
  <2>2. PICK d \in DOMAIN ds : ds[d] = ts[t].box
    BY <1>2, <2>1
  <2> QED
    BY <2>1, <2>2 DEF ToSet
<1>10. Watching(q)
  BY <1>2, <1>8 DEF Watching, after, ts, next, new, all
<1>11. ActivitiesTrue(q.notes)
  BY <1>8 DEF all
<1> QED
  BY <1>5, <1>6, <1>9, <1>10, <1>11 DEF NoteTrue, Noted

\* The frame after the first k: f becomes g and p becomes q (_write_sequence, append).
Writes(f, p, g, q, note, k) ==
  LET fs    == Frames(Raw[f.source], f.config)
      ds    == Detections(Raw[f.source], fs[k + 1].picture, f.config)
      stamp == Stamp(fs[k + 1].id, k)
  IN  /\ k = Len(f.stamps) /\ k < Len(fs)
      /\ Takes(p, q, note, f.tracker, Tracked(ds), k, stamp)
      /\ g.source = f.source /\ g.config = f.config /\ g.len = [c \in ColumnSet |-> k + 1]
      /\ g.stamps = Append(f.stamps, stamp) /\ g.imuStamps = Append(f.imuStamps, stamp)

LEMMA FrameWritten ==
  ASSUME NEW f, f.source \in DOMAIN Raw, IsDrawn(Raw[f.source]), f.config \in Configs,
         NEW p, Aligned(f, p.notes), Watching(p),
         NEW g, NEW q, NEW note, NEW k, Writes(f, p, g, q, note, k)
  PROVE  Aligned(g, q.notes) /\ Watching(q)
<1> DEFINE fs == Frames(Raw[f.source], f.config)
           frame == fs[k + 1]
           ds == Detections(Raw[f.source], frame.picture, f.config)
           stamp == Stamp(frame.id, k)
           notes == p.notes
           all == q.notes
<1>0. /\ k = Len(f.stamps) /\ k < Len(fs)
      /\ Takes(p, q, note, f.tracker, Tracked(ds), k, stamp)
      /\ g.source = f.source /\ g.config = f.config /\ g.len = [c \in ColumnSet |-> k + 1]
      /\ g.stamps = Append(f.stamps, stamp) /\ g.imuStamps = Append(f.imuStamps, stamp)
      /\ all = Append(notes, note)
  BY DEF Writes, Takes
<1>1. /\ Len(fs) \in Nat /\ \A j \in 1 .. Len(fs) : fs[j].picture \in Picture /\ fs[j].id \in Int
  BY FramesOf DEF FramesKnown
<1>2. /\ f.stamps \in Seq(Int) /\ f.imuStamps = f.stamps /\ Len(notes) = k
      /\ \A j \in DOMAIN notes : FitsFrame(f, notes[j], j)
      /\ ActivitiesTrue(notes)
  BY <1>0 DEF Aligned
<1>3. k \in Nat /\ k + 1 \in 1 .. Len(fs) /\ k + 1 <= Len(fs)
  BY <1>0, <1>1, <1>2
<1>4. ds \in Seq(Boxes)
  BY <1>1, <1>3, DetectionsOf
<1>5. /\ Tracked(ds) \in Seq(Boxes)
      /\ \A b \in ToSet(Tracked(ds)) : b \in ToSet(ds)
  BY <1>4, TrackedOf DEF ToSet
<1>6. PICK S : notes \in Seq(S)
  BY DEF Aligned
<1>7. Watching(q) /\ ActivitiesTrue(all) /\ Noted(note, k, stamp, Tracked(ds))
  <2> DEFINE tracked == Tracked(ds)
  <2>1. tracked \in Seq(Boxes) /\ Takes(p, q, note, f.tracker, tracked, k, stamp)
    BY <1>0, <1>5
  <2> HIDE DEF tracked
  <2>2. Watching(q) /\ ActivitiesTrue(q.notes) /\ Noted(note, k, stamp, tracked)
    BY <1>2, <1>6, <2>1, NoteTaken
  <2> QED
    BY <2>2 DEF tracked
<1>8. stamp \in Int
  <2>1. frame.id \in Int
    BY <1>1, <1>3
  <2> QED
    BY <1>3, <2>1 DEF Stamp
<1>9. /\ \E T : all \in Seq(T)
      /\ Len(all) = k + 1 /\ DOMAIN all = 1 .. k + 1 /\ DOMAIN notes = 1 .. k
      /\ all[k + 1] = note /\ \A j \in 1 .. k : all[j] = notes[j]
  <2>1. notes \in Seq(S) /\ all = Append(notes, note) /\ Len(notes) = k
    BY <1>0, <1>2, <1>6
  <2> HIDE DEF notes, all
  <2>2. Longer(all, notes, note)
    BY <2>1, Appended
  <2> QED
    BY <2>1, <2>2 DEF Longer
<1>10. /\ g.stamps \in Seq(Int) /\ g.imuStamps = g.stamps /\ Len(g.stamps) = k + 1
       /\ g.stamps[k + 1] = stamp /\ \A j \in 1 .. k : g.stamps[j] = f.stamps[j]
  <2>1. g.imuStamps = g.stamps
    BY <1>0, <1>2
  <2>2. /\ Len(g.stamps) = k + 1
        /\ g.stamps[k + 1] = stamp /\ \A j \in 1 .. k : g.stamps[j] = f.stamps[j]
    <3>1. f.stamps \in Seq(Int) /\ g.stamps = Append(f.stamps, stamp)
      BY <1>0, <1>2
    <3> HIDE DEF stamp
    <3>2. Longer(g.stamps, f.stamps, stamp)
      BY <3>1, Appended
    <3> QED
      BY <1>0, <3>2 DEF Longer
  <2>3. g.stamps \in Seq(Int)
    BY <1>0, <1>2, <1>8
  <2> QED
    BY <2>1, <2>2, <2>3
<1> HIDE DEF fs, notes, all
<1>11. ASSUME NEW j \in 1 .. k PROVE FitsFrame(g, all[j], j)
  <2>1. FitsFrame(f, notes[j], j)
    BY <1>2, <1>9
  <2>2. all[j] = notes[j] /\ g.stamps[j] = f.stamps[j]
    BY <1>9, <1>10
  <2>3. g.source = f.source /\ g.config = f.config
    BY <1>0
  <2> QED
    BY <2>1, <2>2, <2>3 DEF FitsFrame
<1>12. FitsFrame(g, note, k + 1)
  <2>1. (k + 1) - 1 = k
    BY <1>3
  <2>2. \A i \in DOMAIN note.persons : note.persons[i].box \in ToSet(ds)
    BY <1>5, <1>7 DEF Noted
  <2> QED
    BY <1>0, <1>7, <1>10, <2>1, <2>2 DEF FitsFrame, Noted, fs
<1>13. \A j \in DOMAIN all : FitsFrame(g, all[j], j)
  <2>1. \A j \in 1 .. k + 1 : j \in 1 .. k \/ j = k + 1
    BY <1>3
  <2> QED
    BY <1>9, <1>11, <1>12, <2>1
<1>14. \A x \in ColumnSet : g.len[x] = k + 1
  BY <1>0
<1>15. Aligned(g, all)
  BY <1>0, <1>3, <1>7, <1>9, <1>10, <1>13, <1>14 DEF Aligned, fs
<1> QED
  BY <1>7, <1>15 DEF all

--------------------------------------------------------------------------------
(* The generator.                                                          *)

\* A run goes through sources there are.
LEMMA DiscoveredSources ==
  ASSUME NEW c \in Configs
  PROVE  Discovered(c) \in Seq(DOMAIN Raw)
<1> DEFINE D == DOMAIN Raw
           known == [i \in D |-> i]
           at1(kind) == {i \in D : i \in c.raw /\ Raw[i].kind = kind}
           of(kind) == IF c.kind \in {"all", kind} THEN Picked(known, at1(kind)) ELSE <<>>
           all == of("images") \o of("videos") \o of("h5")
<1>1. known \in Seq(D) /\ DOMAIN known = D
  <2>1. D = 1 .. Len(Raw) /\ Len(Raw) \in Nat
    BY DatasetAssumption
  <2>2. known \in [1 .. Len(Raw) -> D]
    BY <2>1
  <2> QED
    BY <2>1, <2>2
<1>2. Discovered(c) = AtMost(all, c.maxSequences)
  BY DEF Discovered
<1> HIDE DEF known, D
<1>3. ASSUME NEW kind PROVE of(kind) \in Seq(D)
  <2> DEFINE I == at1(kind)
  <2>1. I \in SUBSET (DOMAIN known)
    BY <1>1
  <2> HIDE DEF I
  <2>2. Picked(known, I) \in Seq(D)
    BY <1>1, <2>1, PickedOf DEF PickedFrom
  <2> QED
    BY <2>2 DEF I
<1> HIDE DEF of
<1>4. all \in Seq(D)
  BY <1>3
<1> HIDE DEF all
<1>5. c.maxSequences \in Nat \union {NoLimit}
  BY DatasetAssumption
<1>6. AtMost(all, c.maxSequences) \in Seq(D)
  BY <1>4, <1>5, AtMostOf
<1> QED
  BY <1>2, <1>6 DEF D

\* The fields of a file, and the tracker it was written with.
Fields == DOMAIN NoFile
KnownTrackers == {DefaultTracker, Tuned}
IsFile(f) == DOMAIN f = Fields /\ f.tracker \in KnownTrackers

\* An annotated file of a source that is drawn is about that source.
FileTrue(f) ==
  Drawn(f) /\ f.annotated =>
    f.source \in DOMAIN Raw /\ f.config \in Configs /\ Aligned(f, f.notes)

OnDisk == DOMAIN disk = Names /\ \A n \in Names : IsFile(disk[n]) /\ FileTrue(disk[n])
Placed == config \in Configs /\ todo \in Seq(DOMAIN Raw) /\ pos \in Nat \ {0}
Tuning == DOMAIN tuned = {"state", "config"} /\ tuned.config \in KnownTrackers

\* What at says of the file of the source.
Busy == at \in {"frames", "record", "duration"} =>
          pos <= Len(todo) /\ file.source = todo[pos] /\ file.state # "absent"
Drawing == at = "frames" =>
             /\ IsDrawn(source) /\ file.annotated = FALSE /\ file.config = config
             /\ Aligned(file, progress.notes) /\ Watching(progress)
Recording == at = "record" => source.kind = "h5" /\ file.annotated = FALSE
Ended == at = "duration" => IsDrawn(source) /\ file.state = "closed" /\ file.annotated

DataInv == OnDisk /\ Placed /\ Tuning /\ Busy /\ Drawing /\ Recording /\ Ended

\* The source is one of Raw and its file one of Names.
LEMMA SourceKnown ==
  ASSUME Placed, pos <= Len(todo)
  PROVE  todo[pos] \in DOMAIN Raw /\ source = Raw[todo[pos]] /\ source.name \in Names
<1>1. pos \in 1 .. Len(todo)
  BY DEF Placed
<1>2. todo[pos] \in DOMAIN Raw
  BY <1>1 DEF Placed
<1> QED
  BY <1>2 DEF source, Names

\* Storing the file of the source leaves the others alone.
LEMMA StoredFile ==
  ASSUME OnDisk, NEW f, Store(f), source.name \in Names, IsFile(f), FileTrue(f)
  PROVE  OnDisk' /\ disk'[source.name] = f
BY DEF OnDisk, Store

\* NoFile is a file, and the record that takes its place when it is opened.
LEMMA NoFileIsFile ==
  /\ IsFile(NoFile) /\ NoFile.annotated = FALSE /\ NoFile.notes = <<>>
  /\ NoFile.stamps = <<>> /\ NoFile.imuStamps = <<>>
  /\ NoFile.state = "absent" /\ NoFile.tracker = DefaultTracker
  /\ Fields = {"state", "source", "len", "stamps", "imuStamps", "annotated", "notes",
               "tracker", "config"}
BY DEF NoFile, IsFile, Fields, KnownTrackers

LEMMA DataInvAtFirst == Init => DataInv
<1> SUFFICES ASSUME Init PROVE DataInv
  OBVIOUS
<1>1. OnDisk
  BY NoFileIsFile DEF Init, OnDisk, FileTrue
<1>2. Placed /\ Tuning
  BY DEF Init, Placed, Tuning, KnownTrackers
<1> QED
  BY <1>1, <1>2 DEF Init, DataInv, Busy, Drawing, Recording, Ended

\* Steps that leave the files alone and wait, or go on to the next source.
LEMMA IdleStep ==
  ASSUME DataInv, UNCHANGED disk, at' \in {"idle", "next"}, Placed', Tuning'
  PROVE  DataInv'
BY DEF DataInv, OnDisk, Busy, Drawing, Recording, Ended

\* Steps that store a last version of the file.
LEMMA LastStep ==
  ASSUME DataInv, NEW f, Store(f), source.name \in Names, IsFile(f), FileTrue(f),
         at' \in {"idle", "next"}, Placed', Tuning'
  PROVE  DataInv'
<1>1. OnDisk'
  BY StoredFile DEF DataInv
<1> QED
  BY <1>1 DEF DataInv, Busy, Drawing, Recording, Ended

LEMMA Start_Inv ==
  ASSUME DataInv, NEW c \in Configs, Start(c)
  PROVE  DataInv'
<1>1. Placed'
  BY DiscoveredSources DEF Start, Placed
<1>2. Tuning'
  BY DEF Start, Tuning, DataInv
<1> QED
  BY <1>1, <1>2, IdleStep DEF Start

LEMMA Refuse_Inv == ASSUME DataInv, Refuse PROVE DataInv'
<1>1. Placed' /\ Tuning'
  BY DEF Refuse, Raise, DataInv, Placed, Tuning
<1> QED
  BY <1>1, IdleStep DEF Refuse, Raise

\* A file that is opened for a source to be drawn (StreamingHDF5Writer.__enter__).
LEMMA OpenSequence_Inv == ASSUME DataInv, OpenSequence PROVE DataInv'
<1> DEFINE f == [NoFile EXCEPT !.state = "open", !.source = todo[pos],
                               !.len = [c \in ColumnSet |-> 0],
                               !.tracker = tuned.config, !.config = config]
<1>1. /\ pos <= Len(todo) /\ source.kind \in {"images", "videos"} /\ Store(f)
      /\ at' = "frames" /\ progress' = NoProgress
      /\ UNCHANGED <<tuned, config, todo, pos>>
  BY DEF OpenSequence, AtSource
<1>2. todo[pos] \in DOMAIN Raw /\ source = Raw[todo[pos]] /\ source.name \in Names
  BY <1>1, SourceKnown DEF DataInv
<1>3. /\ f.state = "open" /\ f.source = todo[pos] /\ f.len = [c \in ColumnSet |-> 0]
      /\ f.tracker = tuned.config /\ f.config = config /\ f.annotated = FALSE
      /\ f.stamps = <<>> /\ f.imuStamps = <<>> /\ DOMAIN f = Fields
  BY NoFileIsFile DEF IsFile
<1> HIDE DEF f
<1>4. IsFile(f) /\ FileTrue(f)
  BY <1>3 DEF IsFile, FileTrue, DataInv, Tuning
<1>5. OnDisk' /\ disk'[source.name] = f
  BY <1>1, <1>2, <1>4, StoredFile DEF DataInv
<1>6. source' = source /\ file' = f
  <2>1. source' = source
    BY <1>1 DEF source
  <2> QED
    BY <1>5, <2>1 DEF file
<1>7. Placed' /\ Tuning'
  BY <1>1 DEF DataInv, Placed, Tuning
<1>8. Aligned(f, <<>>)
  <2>1. /\ Len(Frames(Raw[f.source], f.config)) \in Nat
    <3>1. IsDrawn(Raw[f.source]) /\ f.source \in DOMAIN Raw /\ f.config \in Configs
      BY <1>1, <1>2, <1>3 DEF IsDrawn, DataInv, Placed
    <3> QED
      BY <3>1, FramesOf DEF FramesKnown
  <2>2. <<>> \in Seq(Int) /\ Len(<<>>) = 0 /\ DOMAIN <<>> = {}
    OBVIOUS
  <2>3. \A c \in ColumnSet : f.len[c] = 0
    BY <1>3
  <2>4. ActivitiesTrue(<<>>)
    BY <2>2 DEF ActivitiesTrue
  <2> QED
    BY <1>3, <2>1, <2>2, <2>3, <2>4 DEF Aligned
<1>9. Watching(NoProgress) /\ NoProgress.notes = <<>>
  <2> DEFINE e == <<>>
  <2>1. e \in Seq(TrackRecord) /\ DOMAIN e = {}
    OBVIOUS
  <2>2. /\ NoProgress.tracker.tracks = e /\ NoProgress.tracker.nextId = 1
        /\ NoProgress.memory = e /\ NoProgress.notes = e
    BY DEF NoProgress, NewTracker
  <2> HIDE DEF e
  <2>3. Apart(e, 1) /\ MemoryTrue(e, e)
    BY <2>1 DEF Apart, MemoryTrue
  <2>4. Watching(NoProgress)
    BY <2>1, <2>2, <2>3 DEF Watching
  <2> QED
    BY <2>2, <2>4 DEF e
<1>10. Drawing'
  <2>1. IsDrawn(source)
    BY <1>1 DEF IsDrawn
  <2> QED
    BY <1>1, <1>3, <1>6, <1>8, <1>9, <2>1 DEF Drawing
<1>11. Busy'
  BY <1>1, <1>3, <1>6 DEF Busy
<1> QED
  BY <1>1, <1>5, <1>7, <1>10, <1>11 DEF DataInv, Recording, Ended

LEMMA WriteFrame_Inv == ASSUME DataInv, WriteFrame PROVE DataInv'
<1> DEFINE fs    == Frames(source, config)
           k     == Len(file.stamps)
           ds    == Detections(source, fs[k + 1].picture, config)
           after == Update(file.tracker, progress.tracker, Tracked(ds))
           stamp == Stamp(fs[k + 1].id, k)
           note  == Annotation(k, stamp, after.tracks, progress.memory)
           q     == progress'
           g     == [file EXCEPT !.len = [c \in ColumnSet |-> k + 1],
                       !.stamps = Append(@, stamp), !.imuStamps = Append(@, stamp)]
<1>1. /\ at = "frames" /\ k < Len(fs) /\ Store(g)
      /\ q = [tracker |-> after, memory |-> Remember(progress.memory, after.tracks),
              notes |-> Append(progress.notes, note)]
      /\ UNCHANGED <<tuned, at, config, todo, pos>>
  BY DEF WriteFrame
<1>2. q.tracker = after /\ q.memory = Remember(progress.memory, after.tracks)
      /\ q.notes = Append(progress.notes, note)
  BY <1>1
<1>3. todo[pos] \in DOMAIN Raw /\ source = Raw[todo[pos]] /\ source.name \in Names
  BY <1>1, SourceKnown DEF DataInv, Busy
<1>4. /\ file.source = todo[pos] /\ file.config = config /\ file.annotated = FALSE
      /\ file.state # "absent" /\ IsDrawn(source) /\ config \in Configs
      /\ Aligned(file, progress.notes) /\ Watching(progress)
  BY <1>1 DEF DataInv, Busy, Drawing, Placed
<1>5. DOMAIN file = Fields /\ file.tracker \in KnownTrackers
  BY <1>3 DEF DataInv, OnDisk, IsFile, file
<1>6. file.imuStamps = file.stamps
  BY <1>4 DEF Aligned
<1>7. /\ g.source = file.source /\ g.config = file.config /\ g.annotated = file.annotated
      /\ g.state = file.state /\ g.tracker = file.tracker /\ DOMAIN g = Fields
      /\ g.len = [c \in ColumnSet |-> k + 1] /\ g.stamps = Append(file.stamps, stamp)
      /\ g.imuStamps = Append(file.imuStamps, stamp)
  <2> HIDE DEF k, stamp
  <2> QED
    BY <1>5, NoFileIsFile
<1> HIDE DEF q, g
<1>8. IsFile(g) /\ FileTrue(g)
  BY <1>4, <1>5, <1>7 DEF IsFile, FileTrue
<1>9. OnDisk' /\ disk'[source.name] = g
  BY <1>1, <1>3, <1>8, StoredFile DEF DataInv
<1>10. source' = source /\ file' = g
  <2>1. source' = source
    BY <1>1 DEF source
  <2> QED
    BY <1>9, <2>1 DEF file
<1>11. Aligned(g, q.notes) /\ Watching(q)
  <2> DEFINE f == file
             p == progress
  <2>1. /\ f.source \in DOMAIN Raw /\ IsDrawn(Raw[f.source]) /\ f.config \in Configs
        /\ Aligned(f, p.notes) /\ Watching(p)
    BY <1>3, <1>4
  <2>2. Raw[f.source] = source /\ f.config = config
    BY <1>3, <1>4
  <2>3. Takes(p, q, note, file.tracker, Tracked(ds), k, stamp)
    BY <1>2 DEF Takes
  <2>4. Writes(f, p, g, q, note, k)
    <3> HIDE DEF note
    <3> QED
      BY <1>1, <1>7, <2>2, <2>3 DEF Writes
  <2> HIDE DEF f, p, k, note
  <2> QED
    BY <2>1, <2>4, FrameWritten
<1>12. Placed' /\ Tuning'
  BY <1>1 DEF DataInv, Placed, Tuning
<1>13. Busy'
  BY <1>1, <1>4, <1>7, <1>10 DEF DataInv, Busy
<1>14. Drawing'
  BY <1>1, <1>4, <1>7, <1>10, <1>11 DEF Drawing, q
<1> QED
  BY <1>1, <1>9, <1>12, <1>13, <1>14 DEF DataInv, Recording, Ended

LEMMA FrameFails_Inv == ASSUME DataInv, NEW n \in 0 .. Len(Columns) - 1, FrameFails(n) PROVE DataInv'
<1> DEFINE k == Len(file.stamps)
           len == [c \in ColumnSet |-> IF \E i \in 1 .. n : Columns[i] = c THEN k + 1 ELSE k]
           f == [file EXCEPT !.state = "closed", !.len = len]
<1>1. at = "frames" /\ Store(f) /\ Raise
  BY DEF FrameFails
<1> HIDE DEF len
<1>2. pos <= Len(todo) /\ source.name \in Names /\ file.annotated = FALSE
  BY <1>1, SourceKnown DEF DataInv, Busy, Drawing
<1>3. IsFile(file)
  BY <1>2 DEF DataInv, OnDisk, file
<1>4. DOMAIN f = Fields /\ f.annotated = FALSE /\ f.tracker = file.tracker
  BY <1>2, <1>3, NoFileIsFile DEF IsFile
<1> HIDE DEF f
<1>5. IsFile(f) /\ FileTrue(f)
  BY <1>3, <1>4 DEF IsFile, FileTrue
<1>6. Placed' /\ Tuning' /\ at' = "idle"
  BY <1>1 DEF Raise, DataInv, Placed, Tuning
<1> QED
  BY <1>1, <1>2, <1>5, <1>6, LastStep

LEMMA Finalize_Inv == ASSUME DataInv, Finalize PROVE DataInv'
<1> DEFINE f == [file EXCEPT !.state = "closed", !.annotated = TRUE, !.notes = progress.notes]
<1>1. at = "frames" /\ Store(f) /\ at' = "duration" /\ UNCHANGED <<tuned, config, todo, pos>>
  BY DEF Finalize
<1>2. /\ pos <= Len(todo) /\ todo[pos] \in DOMAIN Raw /\ source = Raw[todo[pos]]
      /\ source.name \in Names
  BY <1>1, SourceKnown DEF DataInv, Busy
<1>3. /\ file.source = todo[pos] /\ file.config = config /\ config \in Configs
      /\ IsDrawn(source) /\ Aligned(file, progress.notes) /\ IsFile(file)
  BY <1>1, <1>2 DEF DataInv, Busy, Drawing, OnDisk, Placed, file
<1>4. /\ DOMAIN f = Fields /\ f.state = "closed" /\ f.annotated = TRUE /\ f.notes = progress.notes
      /\ f.tracker = file.tracker /\ f.source = file.source /\ f.config = file.config
      /\ f.stamps = file.stamps /\ f.imuStamps = file.imuStamps /\ f.len = file.len
  BY <1>3, NoFileIsFile DEF IsFile
<1> HIDE DEF f
<1>5. Aligned(f, f.notes)
  BY <1>3, <1>4 DEF Aligned, FitsFrame
<1>6. IsFile(f) /\ FileTrue(f)
  BY <1>2, <1>3, <1>4, <1>5 DEF IsFile, FileTrue
<1>7. OnDisk' /\ disk'[source.name] = f
  BY <1>1, <1>2, <1>6, StoredFile DEF DataInv
<1>8. source' = source /\ file' = f
  <2>1. source' = source
    BY <1>1 DEF source
  <2> QED
    BY <1>7, <2>1 DEF file
<1>9. Placed' /\ Tuning'
  BY <1>1 DEF DataInv, Placed, Tuning
<1>10. Busy' /\ Ended'
  BY <1>1, <1>2, <1>3, <1>4, <1>8 DEF Busy, Ended
<1> QED
  BY <1>1, <1>7, <1>9, <1>10 DEF DataInv, Drawing, Recording

LEMMA Summarize_Inv == ASSUME DataInv, Summarize \/ Finish PROVE DataInv'
<1>1. Placed' /\ Tuning' /\ UNCHANGED disk /\ at' \in {"idle", "next"}
  BY DEF Summarize, Summarized, Finish, DataInv, Placed, Tuning
<1> QED
  BY <1>1, IdleStep

LEMMA OpenRecording_Inv == ASSUME DataInv, OpenRecording PROVE DataInv'
<1> DEFINE f == [NoFile EXCEPT !.state = "open", !.source = todo[pos]]
<1>1. /\ pos <= Len(todo) /\ source.kind = "h5" /\ Store(f) /\ at' = "record"
      /\ UNCHANGED <<tuned, config, todo, pos>>
  BY DEF OpenRecording, AtSource
<1>2. todo[pos] \in DOMAIN Raw /\ source = Raw[todo[pos]] /\ source.name \in Names
  BY <1>1, SourceKnown DEF DataInv
<1>3. /\ f.state = "open" /\ f.source = todo[pos] /\ f.annotated = FALSE
      /\ f.tracker = DefaultTracker /\ DOMAIN f = Fields
  BY NoFileIsFile DEF IsFile
<1> HIDE DEF f
<1>4. IsFile(f) /\ FileTrue(f)
  BY <1>3 DEF IsFile, FileTrue, KnownTrackers
<1>5. OnDisk' /\ disk'[source.name] = f
  BY <1>1, <1>2, <1>4, StoredFile DEF DataInv
<1>6. source' = source /\ file' = f
  <2>1. source' = source
    BY <1>1 DEF source
  <2> QED
    BY <1>5, <2>1 DEF file
<1>7. Placed' /\ Tuning'
  BY <1>1 DEF DataInv, Placed, Tuning
<1>8. Busy' /\ Recording'
  BY <1>1, <1>3, <1>6 DEF Busy, Recording
<1> QED
  BY <1>1, <1>5, <1>7, <1>8 DEF DataInv, Drawing, Ended

\* The lengths of the columns of a recording are numbers (_read_partial_h5).
LEMMA FilledLengths ==
  ASSUME NEW i \in DOMAIN Raw, Raw[i].kind = "h5"
  PROVE  Filled(Raw[i]) \in [ColumnSet -> Int]
<1> DEFINE s == Raw[i]
<1>1. s.len \in [ColumnSet -> Nat \union {Missing}] /\ Missing \in Int
  BY DatasetAssumption DEF Missing
<1>2. {"rgb", "rgbTs", "lidar"} \subseteq ColumnSet
  BY DEF ColumnSet, Columns, ToSet
<1> HIDE DEF s
<1>3. \A c \in ColumnSet : s.len[c] \in Int
  BY <1>1
<1>4. Filled(s) \in [ColumnSet -> Int]
  BY <1>2, <1>3 DEF Filled
<1> QED
  BY <1>4 DEF s

\* The two ways a recording ends.
Recorded(f) ==
  /\ f.state = "closed" /\ f.source = todo[pos] /\ f.len \in [ColumnSet -> Int]
  /\ IsFile(f) /\ FileTrue(f) /\ Store(f)
  /\ UNCHANGED <<tuned, config, todo>>
  /\ \/ f.annotated /\ Summarized(f)
     \/ Raise

LEMMA RecordEnds ==
  ASSUME DataInv, Record
  PROVE  at = "record" /\ source.name \in Names /\ \E f : Recorded(f)
<1> DEFINE len  == Filled(source)
           bad  == {i \in DOMAIN Columns : \/ Columns[i] \in Chunked /\ len[Columns[i]] = 0
                                           \/ Columns[i] = "rgb" /\ ~source.fits}
           imu  == IF source.len["imuTs"] # Missing THEN source.imuStamps ELSE RgbStamps(source)
           part == [c \in ColumnSet |-> IF \E i \in DOMAIN Columns :
                                             Columns[i] = c /\ \A b \in bad : i < b
                                        THEN len[c] ELSE Missing]
           done == [file EXCEPT !.state = "closed", !.annotated = TRUE, !.len = len,
                      !.stamps = RgbStamps(source), !.notes = RecordedNotes(source),
                      !.imuStamps = imu]
           cut  == [file EXCEPT !.state = "closed", !.len = part]
<1>1. /\ at = "record"
      /\ \/ Store(done) /\ Summarized(done)
         \/ Store(cut) /\ Raise
  BY DEF Record
<1>2. /\ pos <= Len(todo) /\ source.name \in Names /\ source = Raw[todo[pos]]
      /\ file.source = todo[pos] /\ source.kind = "h5"
  BY <1>1, SourceKnown DEF DataInv, Busy, Recording
<1>3. IsFile(file)
  BY <1>2 DEF DataInv, OnDisk, file
<1>0. len \in [ColumnSet -> Int] /\ part \in [ColumnSet -> Int]
  <2>1. len \in [ColumnSet -> Int]
    BY <1>1, <1>2, FilledLengths, SourceKnown DEF DataInv, Busy
  <2> HIDE DEF len, bad
  <2> QED
    BY <2>1 DEF Missing
<1> HIDE DEF len, part, imu
<1>4. /\ done.state = "closed" /\ done.annotated = TRUE /\ done.source = file.source
      /\ DOMAIN done = Fields /\ done.tracker = file.tracker /\ done.len = len
  BY <1>3, NoFileIsFile DEF IsFile
<1>5. /\ cut.state = "closed" /\ cut.source = file.source
      /\ DOMAIN cut = Fields /\ cut.tracker = file.tracker /\ cut.len = part
  BY <1>3, NoFileIsFile DEF IsFile
<1> HIDE DEF done, cut
<1>6. /\ IsFile(done) /\ FileTrue(done) /\ IsFile(cut) /\ FileTrue(cut)
  BY <1>2, <1>3, <1>4, <1>5 DEF IsFile, FileTrue, Drawn
<1>7. CASE Store(done) /\ Summarized(done)
  <2>1. Recorded(done)
    BY <1>0, <1>2, <1>4, <1>6, <1>7 DEF Recorded, Summarized
  <2> QED
    BY <1>1, <1>2, <2>1
<1>8. CASE Store(cut) /\ Raise
  <2>1. Recorded(cut)
    BY <1>0, <1>2, <1>5, <1>6, <1>8 DEF Recorded, Raise
  <2> QED
    BY <1>1, <1>2, <2>1
<1> QED
  BY <1>1, <1>7, <1>8

LEMMA Record_Inv == ASSUME DataInv, Record PROVE DataInv'
<1>1. source.name \in Names
  BY RecordEnds
<1>2. PICK f : Recorded(f)
  BY RecordEnds
<1>3. Placed' /\ Tuning' /\ at' \in {"idle", "next"}
  BY <1>2 DEF Recorded, Summarized, Raise, DataInv, Placed, Tuning
<1>4. Store(f) /\ IsFile(f) /\ FileTrue(f)
  BY <1>2 DEF Recorded
<1> QED
  BY <1>1, <1>3, <1>4, LastStep

LEMMA Kill_Inv == ASSUME DataInv, Kill PROVE DataInv'
<1>1. Placed' /\ Tuning' /\ at' = "idle"
  BY DEF Kill, Raise, DataInv, Placed, Tuning
<1>2. CASE at \in {"frames", "record"}
  <2> DEFINE f == [file EXCEPT !.state = "torn"]
  <2>1. Store(f)
    BY <1>2 DEF Kill
  <2>2. source.name \in Names /\ file.annotated = FALSE
    BY <1>2, SourceKnown DEF DataInv, Busy, Drawing, Recording
  <2>3. IsFile(file)
    BY <2>2 DEF DataInv, OnDisk, file
  <2>4. DOMAIN f = Fields /\ f.annotated = FALSE /\ f.tracker = file.tracker
    BY <2>2, <2>3, NoFileIsFile DEF IsFile
  <2> HIDE DEF f
  <2>5. IsFile(f) /\ FileTrue(f)
    BY <2>3, <2>4 DEF IsFile, FileTrue
  <2> QED
    BY <1>1, <2>1, <2>2, <2>5, LastStep
<1>3. CASE at \notin {"frames", "record"}
  BY <1>1, <1>3, IdleStep DEF Kill
<1> QED
  BY <1>2, <1>3

LEMMA Tune_Inv == ASSUME DataInv, TuneOpen \/ TuneWrite PROVE DataInv'
<1>1. UNCHANGED <<disk, at, config, todo, pos, progress>>
  BY DEF TuneOpen, TuneWrite, runVars
<1>2. Tuning'
  BY DEF TuneOpen, TuneWrite, Tuning, DataInv, KnownTrackers
<1>3. source' = source /\ file' = file
  BY <1>1 DEF source, file
<1> QED
  BY <1>1, <1>2, <1>3 DEF DataInv, OnDisk, Placed, Busy, Drawing, Recording, Ended

\* Every step keeps it.
LEMMA DataInvStep == DataInv /\ [Next]_vars => DataInv'
<1> SUFFICES ASSUME DataInv, [Next]_vars PROVE DataInv'
  OBVIOUS
<1>1. CASE UNCHANGED vars
  <2>1. UNCHANGED <<disk, tuned, at, config, todo, pos, progress>>
    BY <1>1 DEF vars, runVars
  <2>2. source' = source /\ file' = file
    BY <2>1 DEF source, file
  <2> QED
    BY <2>1, <2>2 DEF DataInv, OnDisk, Placed, Tuning, Busy, Drawing, Recording, Ended
<1>2. CASE Next
  BY <1>2, Start_Inv, Refuse_Inv, OpenSequence_Inv, WriteFrame_Inv, FrameFails_Inv,
     Finalize_Inv, Summarize_Inv, OpenRecording_Inv, Record_Inv, Kill_Inv, Tune_Inv
  DEF Next
<1> QED
  BY <1>1, <1>2

LEMMA DataInvHolds == Spec => []DataInv
BY DataInvAtFirst, DataInvStep, PTL DEF Spec

\* The timestamps of numbered frames are their numbers.
LEMMA StampsRise ==
  ASSUME NEW f, f.source \in DOMAIN Raw, f.config \in Configs, IsDrawn(Raw[f.source]),
         Numbered(Raw[f.source]), Aligned(f, f.notes)
  PROVE  /\ f.stamps \in Seq(Int) /\ f.imuStamps = f.stamps
         /\ \A i, j \in 1 .. Len(f.stamps) : i < j => f.stamps[i] < f.stamps[j]
<1> DEFINE fs == Frames(Raw[f.source], f.config)
           n == Len(f.stamps)
<1>1. /\ Len(fs) \in Nat /\ \A k \in 1 .. Len(fs) : fs[k].id \in Nat
      /\ \A j, k \in 1 .. Len(fs) : j < k => fs[j].id < fs[k].id
  BY FramesOf DEF FramesKnown
<1>2. /\ f.stamps \in Seq(Int) /\ f.imuStamps = f.stamps /\ n = Len(f.notes)
      /\ DOMAIN f.notes = 1 .. n /\ n \in Nat /\ n <= Len(fs)
      /\ \A k \in DOMAIN f.notes : f.stamps[k] = Stamp(fs[k].id, k - 1)
  BY DEF Aligned, FitsFrame
<1> HIDE DEF fs, n
<1>3. ASSUME NEW k \in 1 .. n PROVE f.stamps[k] = fs[k].id /\ k \in 1 .. Len(fs)
  <2>1. k \in 1 .. Len(fs) /\ fs[k].id \in Nat
    BY <1>1, <1>2
  <2>2. fs[k].id = 0 => k = 1
    <3>1. ASSUME fs[k].id = 0, k # 1 PROVE FALSE
      <4>1. 1 \in 1 .. Len(fs) /\ 1 < k
        BY <1>1, <2>1, <3>1
      <4>2. fs[1].id < fs[k].id /\ fs[1].id \in Nat
        BY <1>1, <2>1, <4>1
      <4> QED
        BY <3>1, <4>2
    <3> QED
      BY <3>1
  <2>3. f.stamps[k] = Stamp(fs[k].id, k - 1)
    BY <1>2
  <2>4. fs[k].id # NoId /\ (fs[k].id = 0 => k - 1 = 0)
    BY <2>1, <2>2 DEF NoId
  <2>5. Stamp(fs[k].id, k - 1) = fs[k].id
    BY <2>4 DEF Stamp
  <2> QED
    BY <2>1, <2>3, <2>5
<1>4. \A i, j \in 1 .. n : i < j => f.stamps[i] < f.stamps[j]
  BY <1>1, <1>3
<1> QED
  BY <1>2, <1>4 DEF n

--------------------------------------------------------------------------------
(* What a run reports.                                                     *)

\* The file that a summary is about is there.
Present(s) ==
  /\ s.name \in Names
  /\ disk[s.name].state = "closed" /\ disk[s.name].annotated
  /\ disk[s.name].source = s.source /\ disk[s.name].len["rgb"] = s.frames

SumInv ==
  /\ \E S : summaries \in Seq(S)
  /\ ~config.overwrite => \A s \in ToSet(summaries) \union ToSet(reported) : Present(s)

\* Summaries that were there before remain true when nothing closed is changed.
LEMMA SummariesKept ==
  ASSUME SumInv, Keeps, config' = config, \E S : summaries' \in Seq(S),
         \A s \in ToSet(summaries)' \union ToSet(reported)' :
           s \in ToSet(summaries) \union ToSet(reported) \/ Present(s)'
  PROVE  SumInv'
<1>1. ASSUME ~config.overwrite, NEW s \in ToSet(summaries)' \union ToSet(reported)'
      PROVE  Present(s)'
  <2>1. CASE Present(s)'
    BY <2>1
  <2>2. CASE s \in ToSet(summaries) \union ToSet(reported)
    <3>1. Present(s)
      BY <1>1, <2>2 DEF SumInv
    <3>2. disk'[s.name] = disk[s.name]
      BY <1>1, <3>1 DEF Keeps, Present
    <3> QED
      BY <3>1, <3>2 DEF Present
  <2> QED
    BY <2>1, <2>2
<1> QED
  BY <1>1 DEF SumInv

\* A summary is appended for the file f of the source.
LEMMA SummaryAdded ==
  ASSUME SumInv, Keeps, NEW f, Summarized(f), source.name \in Names,
         disk'[source.name] = f, f.state = "closed", f.annotated, f.source = todo[pos]
  PROVE  SumInv'
<1>1. PICK s : /\ summaries' = Append(summaries, s)
               /\ s.name = source.name /\ s.source = todo[pos] /\ s.frames = f.len["rgb"]
  BY DEF Summarized
<1>2. UNCHANGED <<config, reported>>
  BY DEF Summarized
<1>3. Present(s)'
  BY <1>1 DEF Present
<1>4. Longer(summaries', summaries, s)
  BY <1>1, Appended DEF SumInv
<1>5. ASSUME NEW t \in ToSet(summaries') PROVE t \in ToSet(summaries) \/ t = s
  <2>1. PICK j \in DOMAIN summaries' : t = summaries'[j]
    BY DEF ToSet
  <2>2. j = Len(summaries) + 1 \/ j \in 1 .. Len(summaries)
    BY <1>4, <2>1 DEF Longer
  <2> QED
    BY <1>4, <2>1, <2>2 DEF Longer, ToSet
<1>6. \E S : summaries' \in Seq(S)
  BY <1>4 DEF Longer
<1>7. \A t \in ToSet(summaries)' \union ToSet(reported)' :
        t \in ToSet(summaries) \union ToSet(reported) \/ Present(t)'
  BY <1>2, <1>3, <1>5
<1> QED
  BY <1>2, <1>6, <1>7, SummariesKept

\* Every step keeps them (main, generate_synthetic_h5_dataset).
LEMMA SumInvStep == DataInv /\ Held /\ SumInv /\ [Next]_vars => SumInv'
<1> SUFFICES ASSUME DataInv, Held, SumInv, [Next]_vars PROVE SumInv'
  OBVIOUS
<1>1. Keeps
  BY EveryStep
<1>2. ToSet(<<>>) = {} /\ \A S : <<>> \in Seq(S)
  BY DEF ToSet
<1>3. ASSUME UNCHANGED <<config, summaries, reported>> PROVE SumInv'
  <2>1. ToSet(summaries)' = ToSet(summaries) /\ ToSet(reported)' = ToSet(reported)
    BY <1>3
  <2>2. \E S : summaries' \in Seq(S)
    BY <1>3 DEF SumInv
  <2> QED
    BY <1>1, <1>3, <2>1, <2>2, SummariesKept
<1>4. ASSUME Raise PROVE SumInv'
  <2>1. summaries' = <<>> /\ UNCHANGED <<config, reported>>
    BY <1>4 DEF Raise
  <2>2. ToSet(summaries)' = {} /\ ToSet(reported)' = ToSet(reported)
    BY <1>2, <2>1
  <2>3. \E S : summaries' \in Seq(S)
    BY <1>2, <2>1
  <2> QED
    BY <1>1, <2>1, <2>2, <2>3, SummariesKept
<1>5. ASSUME NEW c \in Configs, Start(c) PROVE SumInv'
  <2>1. summaries' = <<>> /\ reported' = <<>>
    BY <1>5 DEF Start
  <2> QED
    BY <1>2, <2>1 DEF SumInv
<1>6. CASE Summarize
  <2>1. at = "duration" /\ Summarized(file) /\ UNCHANGED disk
    BY <1>6 DEF Summarize
  <2>2. source.name \in Names /\ file.state = "closed" /\ file.annotated
        /\ file.source = todo[pos]
    BY <2>1, SourceKnown DEF DataInv, Busy, Ended
  <2>3. disk'[source.name] = file
    BY <2>1 DEF file
  <2> QED
    BY <1>1, <2>1, <2>2, <2>3, SummaryAdded
<1>7. CASE Finish
  <2>1. reported' = summaries /\ UNCHANGED <<config, summaries>>
    BY <1>7 DEF Finish
  <2>2. ToSet(summaries)' = ToSet(summaries) /\ ToSet(reported)' = ToSet(summaries)
    BY <2>1
  <2>3. \E S : summaries' \in Seq(S)
    BY <2>1 DEF SumInv
  <2> QED
    BY <1>1, <2>1, <2>2, <2>3, SummariesKept
<1>8. CASE Record
  <2>1. source.name \in Names
    BY <1>8, RecordEnds
  <2>2. PICK f : Recorded(f)
    BY <1>8, RecordEnds
  <2>3. CASE Raise
    BY <1>4, <2>3
  <2>4. CASE f.annotated /\ Summarized(f)
    <3>1. disk'[source.name] = f /\ f.state = "closed" /\ f.source = todo[pos]
      BY <2>1, <2>2, StoredFile DEF Recorded, DataInv
    <3> QED
      BY <1>1, <2>1, <2>4, <3>1, SummaryAdded
  <2> QED
    BY <2>2, <2>3, <2>4 DEF Recorded
<1>9. CASE UNCHANGED vars
  BY <1>3, <1>9 DEF vars, runVars
<1>10. CASE OpenSequence \/ WriteFrame \/ Finalize \/ OpenRecording
  BY <1>3, <1>10 DEF OpenSequence, WriteFrame, Finalize, OpenRecording
<1>11. CASE TuneOpen \/ TuneWrite
  BY <1>3, <1>11 DEF TuneOpen, TuneWrite, runVars
<1>12. CASE Refuse \/ Kill \/ \E n \in 0 .. Len(Columns) - 1 : FrameFails(n)
  BY <1>4, <1>12 DEF Refuse, Kill, FrameFails
<1> QED
  BY <1>5, <1>6, <1>7, <1>8, <1>9, <1>10, <1>11, <1>12 DEF Next

\* A complete file of a drawn source is one the reader accepts (HDF5Reader).
LEMMA Replayed ==
  ASSUME NEW f, f.state = "closed", Aligned(f, f.notes)
  PROVE  Replays(f) /\ Len(f.notes) = f.len["rgb"]
<1> DEFINE n == Len(f.notes)
<1>1. /\ n \in Nat /\ DOMAIN f.stamps = 1 .. n /\ Len(f.stamps) = n /\ Len(f.imuStamps) = n
      /\ \A c \in ColumnSet : f.len[c] = n
  BY DEF Aligned
<1>2. ColumnSet = {"rgb", "rgbTs", "depth", "depthTs", "lidar", "lidarPoints", "lidarTs",
                   "accel", "gyro", "quat", "imuTs"}
      /\ \A i \in 1 .. 7 : Columns[i] \in ColumnSet
  BY DEF ColumnSet, Columns, ToSet
<1> HIDE DEF n
<1>3. PICK g : ImuTurns(g, f, n) /\ ImuIndex(f) = [k \in 1 .. n |-> g[k]]
  BY <1>1, ImuIndexTurns
<1>4. \A i \in DOMAIN ImuIndex(f) : ImuIndex(f)[i] \in 1 .. n
  BY <1>3 DEF ImuTurns
<1>5. \A c \in ColumnSet : f.len[c] # Missing
  BY <1>1 DEF Missing
<1>6. \A i \in 1 .. 7 : f.len[Columns[i]] = f.len["rgb"]
  BY <1>1, <1>2
<1>7. \A i \in DOMAIN ImuIndex(f) :
        \A c \in {"accel", "gyro", "quat", "imuTs"} : ImuIndex(f)[i] <= f.len[c]
  BY <1>1, <1>2, <1>4
<1>8. n = f.len["rgb"]
  BY <1>1, <1>2
<1> QED
  BY <1>5, <1>6, <1>7, <1>8 DEF Replays, n

--------------------------------------------------------------------------------
(* The types.                                                              *)

\* The part of TypeOK that is not about the files.
Counters ==
  /\ tuned.state \in {"absent", "partial", "written"}
  /\ at \in {"idle", "next", "frames", "duration", "record"}
  /\ pos \in 1 .. Len(todo) + 1
  /\ runs \in 0 .. MaxRuns

\* Steps that leave the files alone.
LEMMA TypeQuiet ==
  ASSUME TypeOK, DataInv', Counters', UNCHANGED disk,
         (~Writing /\ ~Writing') \/ UNCHANGED <<at, todo, pos>>
  PROVE  TypeOK'
<1>1. CASE ~Writing /\ ~Writing'
  BY <1>1 DEF TypeOK, Counters, Writing, DataInv, Placed
<1>2. CASE UNCHANGED <<at, todo, pos>>
  <2>1. source' = source
    BY <1>2 DEF source
  <2> QED
    BY <1>2, <2>1 DEF TypeOK, Counters, DataInv, Placed
<1> QED
  BY <1>1, <1>2

\* Steps that store the file of the source.
LEMMA TypeStored ==
  ASSUME TypeOK, DataInv, DataInv', Counters', pos <= Len(todo), NEW f, Store(f),
         f.state \in {"open", "closed", "torn"}, f.source = todo[pos],
         f.len \in [ColumnSet -> Int], f.state = "open" <=> Writing',
         Writing' => UNCHANGED <<todo, pos>>
  PROVE  TypeOK'
<1>1. todo[pos] \in DOMAIN Raw /\ source = Raw[todo[pos]] /\ source.name \in Names
  BY SourceKnown DEF DataInv
<1>2. /\ disk'[source.name] = f
      /\ \A n \in Names : n # source.name => disk'[n] = disk[n]
  BY <1>1 DEF Store, DataInv, OnDisk
<1>3. Writing' => source' = source
  BY DEF source
<1>4. ASSUME NEW n \in Names
      PROVE  /\ disk'[n].state \in {"absent", "open", "closed", "torn"}
             /\ disk'[n].state # "absent" =>
                  disk'[n].source \in DOMAIN Raw /\ Raw[disk'[n].source].name = n
             /\ disk'[n].len \in [ColumnSet -> Int]
             /\ disk'[n].state = "open" <=> Writing' /\ source'.name = n
  <2>1. CASE n = source.name
    BY <1>1, <1>2, <1>3, <2>1
  <2>2. CASE n # source.name
    BY <1>2, <1>3, <2>2 DEF TypeOK
  <2> QED
    BY <2>1, <2>2
<1> QED
  BY <1>4 DEF TypeOK, Counters, Writing, DataInv, Placed

LEMMA TypeStep == TypeOK /\ DataInv /\ [Next]_vars => TypeOK'
<1> SUFFICES ASSUME TypeOK, DataInv, [Next]_vars PROVE TypeOK'
  OBVIOUS
<1>1. DataInv'
  BY DataInvStep
<1>2. Counters
  BY DEF TypeOK, Counters
<1>3. /\ pos \in Nat /\ Len(todo) \in Nat /\ runs \in Nat /\ MaxRuns \in Nat
      /\ todo \in Seq(DOMAIN Raw)
  BY DatasetAssumption DEF TypeOK
<1>4. Raise => Counters' /\ ~Writing'
  BY <1>2 DEF Raise, Counters, Writing
<1>5. Writing => /\ pos <= Len(todo) /\ source.name \in Names /\ file.source = todo[pos]
                 /\ file.state = "open" /\ DOMAIN file = Fields
                 /\ file.len \in [ColumnSet -> Int]
  BY SourceKnown DEF TypeOK, DataInv, Busy, Writing, file, OnDisk, IsFile
<1>6. ASSUME NEW c \in Configs, Start(c) PROVE TypeOK'
  <2>1. Len(Discovered(c)) \in Nat
    BY DiscoveredSources
  <2>2. /\ at = "idle" /\ at' = "next" /\ todo' = Discovered(c) /\ pos' = 1
        /\ runs < MaxRuns /\ runs' = runs + 1 /\ UNCHANGED <<disk, tuned>>
    BY <1>6 DEF Start
  <2>3. Counters'
    BY <1>2, <1>3, <2>1, <2>2 DEF Counters
  <2> QED
    BY <1>1, <2>2, <2>3, TypeQuiet DEF Writing
<1>7. CASE Refuse
  BY <1>1, <1>4, <1>7, TypeQuiet DEF Refuse, AtSource, Writing
<1>8. CASE OpenSequence
  <2> DEFINE f == [NoFile EXCEPT !.state = "open", !.source = todo[pos],
                                 !.len = [c \in ColumnSet |-> 0],
                                 !.tracker = tuned.config, !.config = config]
  <2>1. /\ pos <= Len(todo) /\ Store(f) /\ at' = "frames"
        /\ UNCHANGED <<tuned, todo, pos, runs>>
    BY <1>8 DEF OpenSequence, AtSource
  <2>2. f.state = "open" /\ f.source = todo[pos] /\ f.len = [c \in ColumnSet |-> 0]
    BY NoFileIsFile
  <2> HIDE DEF f
  <2>3. f.len \in [ColumnSet -> Int] /\ Counters' /\ Writing'
    BY <1>2, <2>1, <2>2 DEF Counters, Writing
  <2> QED
    BY <1>1, <2>1, <2>2, <2>3, TypeStored
<1>9. CASE WriteFrame
  <2> DEFINE k == Len(file.stamps)
             stamp == Stamp(Frames(source, config)[k + 1].id, k)
             len == [c \in ColumnSet |-> k + 1]
             f == [file EXCEPT !.len = len, !.stamps = Append(@, stamp),
                               !.imuStamps = Append(@, stamp)]
  <2>1. /\ at = "frames" /\ Store(f) /\ at' = at /\ UNCHANGED <<tuned, todo, pos, runs>>
    BY <1>9 DEF WriteFrame
  <2>2. Writing /\ Writing'
    BY <2>1 DEF Writing
  <2>3. len \in [ColumnSet -> Int]
    BY <2>1 DEF DataInv, Drawing, Aligned
  <2> HIDE DEF len, stamp
  <2>4. f.state = "open" /\ f.source = todo[pos] /\ f.len = len
    BY <1>5, <2>2, NoFileIsFile
  <2> HIDE DEF f
  <2>5. Counters'
    BY <1>2, <2>1 DEF Counters
  <2> QED
    BY <1>1, <1>5, <2>1, <2>2, <2>3, <2>4, <2>5, TypeStored
<1>10. ASSUME NEW n \in 0 .. Len(Columns) - 1, FrameFails(n) PROVE TypeOK'
  <2> DEFINE k == Len(file.stamps)
             len == [c \in ColumnSet |-> IF \E i \in 1 .. n : Columns[i] = c THEN k + 1 ELSE k]
             f == [file EXCEPT !.state = "closed", !.len = len]
  <2>1. at = "frames" /\ Store(f) /\ Raise
    BY <1>10 DEF FrameFails
  <2>2. Writing
    BY <2>1 DEF Writing
  <2>3. len \in [ColumnSet -> Int]
    BY <2>1 DEF DataInv, Drawing, Aligned
  <2> HIDE DEF len
  <2>4. f.state = "closed" /\ f.source = todo[pos] /\ f.len = len
    BY <1>5, <2>2, NoFileIsFile
  <2> HIDE DEF f
  <2> QED
    BY <1>1, <1>4, <1>5, <2>1, <2>2, <2>3, <2>4, TypeStored
<1>11. CASE Finalize
  <2> DEFINE f == [file EXCEPT !.state = "closed", !.annotated = TRUE, !.notes = progress.notes]
  <2>1. at = "frames" /\ Store(f) /\ at' = "duration" /\ UNCHANGED <<tuned, todo, pos, runs>>
    BY <1>11 DEF Finalize
  <2>2. Writing /\ ~Writing' /\ Counters'
    BY <1>2, <2>1 DEF Writing, Counters
  <2>3. f.state = "closed" /\ f.source = todo[pos] /\ f.len = file.len
    BY <1>5, <2>2, NoFileIsFile
  <2> HIDE DEF f
  <2> QED
    BY <1>1, <1>5, <2>1, <2>2, <2>3, TypeStored
<1>12. CASE Summarize
  <2>1. /\ at = "duration" /\ at' = "next" /\ pos' = pos + 1
        /\ UNCHANGED <<disk, tuned, todo, runs>>
    BY <1>12 DEF Summarize, Summarized
  <2>2. pos <= Len(todo)
    BY <2>1 DEF DataInv, Busy
  <2>3. Counters'
    BY <1>2, <1>3, <2>1, <2>2 DEF Counters
  <2> QED
    BY <1>1, <2>1, <2>3, TypeQuiet DEF Writing
<1>13. CASE Finish
  <2>1. /\ at = "next" /\ at' = "idle" /\ UNCHANGED <<disk, tuned, todo, pos, runs>>
    BY <1>13 DEF Finish
  <2>2. Counters'
    BY <1>2, <2>1 DEF Counters
  <2> QED
    BY <1>1, <2>1, <2>2, TypeQuiet DEF Writing
<1>14. CASE OpenRecording
  <2> DEFINE f == [NoFile EXCEPT !.state = "open", !.source = todo[pos]]
  <2>1. /\ pos <= Len(todo) /\ Store(f) /\ at' = "record"
        /\ UNCHANGED <<tuned, todo, pos, runs>>
    BY <1>14 DEF OpenRecording, AtSource
  <2>2. f.state = "open" /\ f.source = todo[pos] /\ f.len = [c \in ColumnSet |-> Missing]
    BY NoFileIsFile DEF NoFile
  <2> HIDE DEF f
  <2>3. f.len \in [ColumnSet -> Int] /\ Counters' /\ Writing'
    BY <1>2, <2>1, <2>2 DEF Counters, Writing, Missing
  <2> QED
    BY <1>1, <2>1, <2>2, <2>3, TypeStored
<1>15. CASE Record
  <2>1. PICK f : Recorded(f) /\ at = "record"
    BY <1>15, RecordEnds
  <2>2. Writing
    BY <2>1 DEF Writing
  <2>3. Counters' /\ ~Writing'
    <3>1. CASE Raise
      BY <1>4, <3>1
    <3>2. CASE Summarized(f)
      BY <1>2, <1>3, <1>5, <2>2, <3>2 DEF Summarized, Counters, Writing
    <3> QED
      BY <2>1, <3>1, <3>2 DEF Recorded
  <2>4. Store(f) /\ f.state = "closed" /\ f.source = todo[pos] /\ f.len \in [ColumnSet -> Int]
    BY <2>1 DEF Recorded
  <2> QED
    BY <1>1, <1>5, <2>2, <2>3, <2>4, TypeStored
<1>16. CASE Kill
  <2>1. Counters' /\ ~Writing'
    BY <1>4, <1>16 DEF Kill
  <2>2. CASE Writing
    <3> DEFINE f == [file EXCEPT !.state = "torn"]
    <3>1. Store(f)
      BY <1>16, <2>2 DEF Kill, Writing
    <3>2. f.state = "torn" /\ f.source = todo[pos] /\ f.len = file.len
      BY <1>5, <2>2, NoFileIsFile
    <3> HIDE DEF f
    <3> QED
      BY <1>1, <1>5, <2>1, <2>2, <3>1, <3>2, TypeStored
  <2>3. CASE ~Writing
    BY <1>1, <1>16, <2>1, <2>3, TypeQuiet DEF Kill, Writing
  <2> QED
    BY <2>2, <2>3
<1>17. CASE TuneOpen \/ TuneWrite
  <2>1. UNCHANGED <<disk, at, todo, pos, runs>>
    BY <1>17 DEF TuneOpen, TuneWrite, runVars
  <2>2. tuned'.state \in {"absent", "partial", "written"}
    BY <1>17 DEF TuneOpen, TuneWrite, DataInv, Tuning
  <2>3. Counters'
    BY <1>2, <2>1, <2>2 DEF Counters
  <2> QED
    BY <1>1, <2>1, <2>3, TypeQuiet
<1>18. CASE UNCHANGED vars
  <2>1. UNCHANGED <<disk, tuned, at, todo, pos, runs>>
    BY <1>18 DEF vars, runVars
  <2>2. Counters'
    BY <1>2, <2>1 DEF Counters
  <2> QED
    BY <1>1, <2>1, <2>2, TypeQuiet
<1> QED
  BY <1>6, <1>7, <1>8, <1>9, <1>10, <1>11, <1>12, <1>13, <1>14, <1>15, <1>16, <1>17, <1>18
  DEF Next

--------------------------------------------------------------------------------
(* Theorems.                                                               *)

\* The types of the files and of the program counter, and that the file of the source at
\* hand, and no other, is open exactly while a sequence is written (StreamingHDF5Writer
\* and HDF5Recorder, the loop of generate_synthetic_h5_dataset).
THEOREM TypeCorrect == Spec => []TypeOK
<1>1. Init => TypeOK
  <2> SUFFICES ASSUME Init PROVE TypeOK
    OBVIOUS
  <2>1. \A n \in Names : disk[n].state = "absent" /\ disk[n].len = [c \in ColumnSet |-> Missing]
    BY NoFileIsFile DEF Init, NoFile
  <2>2. [c \in ColumnSet |-> Missing] \in [ColumnSet -> Int]
    BY DEF Missing
  <2>3. /\ todo = <<>> /\ pos = 1 /\ runs = 0 /\ at = "idle" /\ config \in Configs
        /\ tuned.state = "absent"
    BY DEF Init
  <2>4. todo \in Seq(DOMAIN Raw) /\ pos \in 1 .. Len(todo) + 1
    BY <2>3
  <2>5. runs \in 0 .. MaxRuns
    BY <2>3, DatasetAssumption
  <2> QED
    BY <2>1, <2>2, <2>3, <2>4, <2>5 DEF TypeOK
<1> QED
  BY <1>1, TypeStep, DataInvAtFirst, DataInvStep, PTL DEF Spec

\* In every annotated file of a drawn source, whatever runs failed, were refused or were
\* killed before, the columns and the annotations have one length, and the k-th annotation
\* is about the k-th frame the run read: each person in it was detected in that frame, on
\* a track of his own (_build_frame_annotation, StreamingHDF5Writer.write_frame).
THEOREM NotesAligned == Spec => []AnnotationsAligned
<1>1. DataInv => AnnotationsAligned
  <2> SUFFICES ASSUME DataInv, NEW n \in Names, Drawn(disk[n]), disk[n].annotated
               PROVE  /\ \A c \in ColumnSet : disk[n].len[c] = Len(disk[n].notes)
                      /\ \A k \in DOMAIN disk[n].notes : FitsFrame(disk[n], disk[n].notes[k], k)
    BY DEF AnnotationsAligned, FitsFrame
  <2>1. Aligned(disk[n], disk[n].notes)
    BY DEF DataInv, OnDisk, FileTrue
  <2> QED
    BY <2>1 DEF Aligned
<1> QED
  BY <1>1, DataInvHolds, PTL

\* The activity of every annotated person is that of the displacement since the last frame
\* of the file that shows his track, over any gap (_activity_from_speed and last_centers in
\* generate_synthetic_h5_dataset).
THEOREM ActivitiesSinceLastSeen == Spec => []ActivitySinceLastSeen
<1>1. DataInv => ActivitySinceLastSeen
  <2> SUFFICES ASSUME DataInv, NEW n \in Names, Drawn(disk[n]), disk[n].annotated
               PROVE  ActivitiesTrue(disk[n].notes)
    BY DEF ActivitySinceLastSeen, ActivitiesTrue, ActivityTrue, Shows
  <2> QED
    BY DEF DataInv, OnDisk, FileTrue, Aligned
<1> QED
  BY <1>1, DataInvHolds, PTL

\* Of numbered frames, no two of one number, the timestamps in the file rise and the reader
\* finds the IMU sample of every frame (_iter_sequence_frames, _frame_timestamp_us and
\* HDF5Reader).
THEOREM FramesAreInTime == Spec => []FramesInTime
<1>1. DataInv => FramesInTime
  <2> SUFFICES ASSUME DataInv, NEW n \in Names, Drawn(disk[n]), disk[n].annotated,
                      Numbered(Raw[disk[n].source])
               PROVE  /\ \A i \in 1 .. Len(disk[n].stamps) - 1 :
                           disk[n].stamps[i] < disk[n].stamps[i + 1]
                      /\ ImuIndex(disk[n]) = [i \in DOMAIN disk[n].stamps |-> i]
    BY DEF FramesInTime, Numbered
  <2> DEFINE f == disk[n]
  <2>1. f.source \in DOMAIN Raw /\ f.config \in Configs /\ Aligned(f, f.notes)
        /\ Raw[f.source].kind # "h5" /\ Numbered(Raw[f.source])
    BY DEF DataInv, OnDisk, FileTrue, Drawn
  <2>2. IsDrawn(Raw[f.source])
    BY <2>1, DatasetAssumption DEF IsDrawn
  <2> HIDE DEF f
  <2>3. /\ f.stamps \in Seq(Int) /\ f.imuStamps = f.stamps
        /\ \A i, j \in 1 .. Len(f.stamps) : i < j => f.stamps[i] < f.stamps[j]
    BY <2>1, <2>2, StampsRise
  <2>4. ImuIndex(f) = [i \in DOMAIN f.stamps |-> i]
    BY <2>3, ImuInTime
  <2>5. \A i \in 1 .. Len(f.stamps) - 1 : f.stamps[i] < f.stamps[i + 1]
    BY <2>3
  <2> QED
    BY <2>4, <2>5 DEF f
<1> QED
  BY <1>1, DataInvHolds, PTL

\* What a run without --overwrite says it generated is there, until the end of time: the
\* file is closed, annotated, of that source and of that length, was tracked by a
\* configuration that scored at least as well as the default one, and the reader accepts
\* it (generate_synthetic_h5_dataset, SyntheticSequenceSummary, select_best of the tuner).
THEOREM SummariesAreTrue == Spec => []SummariesTrue
<1>1. Spec => [](DataInv /\ Held /\ SumInv)
  <2>1. Init => SumInv
    <3>1. ToSet(<<>>) = {} /\ \A S : <<>> \in Seq(S)
      BY DEF ToSet
    <3> QED
      BY <3>1 DEF Init, SumInv
  <2>2. Held /\ [Next]_vars => Held'
    BY EveryStep
  <2> QED
    BY <2>1, <2>2, DataInvAtFirst, DataInvStep, HeldAtFirst, SumInvStep, PTL DEF Spec
<1>2. DataInv /\ SumInv => SummariesTrue
  <2> SUFFICES ASSUME DataInv, SumInv, ~config.overwrite,
                      NEW s \in ToSet(summaries) \union ToSet(reported)
               PROVE  /\ disk[s.name].state = "closed" /\ disk[s.name].annotated
                      /\ disk[s.name].source = s.source /\ disk[s.name].len["rgb"] = s.frames
                      /\ Score(disk[s.name].tracker) >= Score(DefaultTracker)
                      /\ Drawn(disk[s.name]) =>
                           Replays(disk[s.name]) /\ Len(disk[s.name].notes) = s.frames
    BY DEF SummariesTrue
  <2> DEFINE f == disk[s.name]
  <2>1. /\ s.name \in Names /\ f.state = "closed" /\ f.annotated /\ f.source = s.source
        /\ f.len["rgb"] = s.frames
    BY DEF SumInv, Present
  <2>2. f.tracker \in KnownTrackers /\ FileTrue(f)
    BY <2>1 DEF DataInv, OnDisk, IsFile
  <2> HIDE DEF f
  <2>3. Score(f.tracker) >= Score(DefaultTracker)
    <3>1. Score(DefaultTracker) \in Int
      BY ScoreIsNumber
    <3>2. Score(DefaultTracker) >= Score(DefaultTracker)
      BY <3>1
    <3> QED
      BY <2>2, <3>2, TunedIsBest DEF KnownTrackers
  <2>4. Drawn(f) => Replays(f) /\ Len(f.notes) = s.frames
    <3>1. SUFFICES ASSUME Drawn(f) PROVE Replays(f) /\ Len(f.notes) = s.frames
      OBVIOUS
    <3>2. Aligned(f, f.notes)
      BY <2>1, <2>2, <3>1 DEF FileTrue
    <3> QED
      BY <2>1, <3>2, Replayed
  <2> QED
    BY <2>1, <2>3, <2>4 DEF f
<1> QED
  BY <1>1, <1>2, PTL

\* A run without --overwrite never touches a finished file or what a killed run left,
\* for any sources, also those of one name, any configurations and any number of runs
\* (StreamingHDF5Writer.__init__, convert_h5_sequence).
THEOREM FilesKept == Spec => KeepsFiles
<1>1. Spec => []Held
  <2>1. Held /\ [Next]_vars => Held'
    BY EveryStep
  <2> QED
    BY HeldAtFirst, <2>1, PTL DEF Spec
<1>2. Held /\ [Next]_vars => [Keeps]_vars
  BY EveryStep
<1> QED
  BY <1>1, <1>2, PTL DEF Spec, KeepsFiles, Keeps
================================================================================
