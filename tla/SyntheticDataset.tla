---------------------------- MODULE SyntheticDataset ----------------------------
(***************************************************************************)
(* The dataset pipeline: generate_synthetic_h5.py turns the raw sources    *)
(* (image clips, videos, recordings) into one HDF5 file per source,        *)
(* tracking the people it detects; train_tracker_botsort.py may write the  *)
(* tracker's configuration meanwhile; HDF5Reader replays the files.  A run *)
(* may raise at any frame or be killed, and may be started again.          *)
(*                                                                         *)
(* A picture is what its label file and the detector say of it.  A file is *)
(* the lengths of its columns, its timestamps and its annotations; pixels, *)
(* metadata and the values of the sensors are left out.  One frame lasts   *)
(* one unit of time.                                                       *)
(***************************************************************************)
EXTENDS BotSortTuning

CONSTANTS
  Raw,           \* the sources, in the order they are discovered within a kind
  Configs,       \* the configurations a run may be started with
  PersonNames,   \* person_class_names
  ModelNames,    \* the class names of the detector
  Thin,          \* boxes at most a pixel wide or high, or of no confidence
  Clip,          \* a box cut to the image
  Center,        \* the center of a box, in pixels
  MaxRuns        \* bound: runs of the generator

NoLimit == -1    \* None, as a limit
NoId == -1       \* None, as a frame id
Missing == -1    \* the length of a dataset that a file does not have

\* The datasets of a file, in the order append extends them.
Columns == << "rgb", "rgbTs", "depth", "depthTs", "lidar", "lidarPoints", "lidarTs",
              "accel", "gyro", "quat", "imuTs" >>
ColumnSet == ToSet(Columns)

\* A picture: the rows of its label file and what the detector finds in it.  An image of
\* a clip has the frame id of its name, if any; no two have the same path.
Picture == [labels : Seq([class : Nat, numbers : Nat, box : Boxes]),
            seen : Seq([class : Nat, box : Boxes])]
ClipImage == [id : Nat \union {NoId}, path : Nat, picture : Picture]

ASSUME DatasetAssumption ==
  /\ Thin \subseteq Boxes
  /\ Clip \in [Boxes -> Boxes]
  /\ Center \in [Boxes -> Int \X Int]
  /\ DOMAIN Raw = 1 .. Len(Raw) /\ Len(Raw) \in Nat
  /\ \A i \in DOMAIN Raw :
       /\ Raw[i].kind \in {"images", "videos", "h5"}
       /\ Raw[i].kind = "images" =>
            /\ IsFiniteSet(Raw[i].images) /\ Raw[i].images \subseteq ClipImage
            /\ \A a, b \in Raw[i].images : a.path = b.path => a = b
       /\ Raw[i].kind = "videos" => Raw[i].pictures \in Seq(Picture)
       /\ Raw[i].kind = "h5" => Raw[i].len \in [ColumnSet -> Nat \union {Missing}]
  /\ \A c \in Configs : /\ c.stride \in Nat \ {0}
                          /\ {c.maxSequences, c.maxFrames} \subseteq Nat \union {NoLimit}
  /\ MaxRuns \in Nat

VARIABLES
  disk,       \* the output files, by name
  tuned,      \* the tracker configuration file: absent, partial or written
  at,         \* where generate_synthetic_h5_dataset is
  config,     \* the configuration of the run
  todo,       \* its sources
  pos,        \* the source it is at
  progress,   \* of _write_sequence: tracker, track_memory, the writer's annotations
  summaries,  \* the summaries so far
  reported,   \* the summaries main printed for the last run
  runs        \* bound: runs so far

runVars == <<at, config, todo, pos, progress, summaries, reported, runs>>
vars == <<disk, tuned, runVars>>

NoFile == [state |-> "absent", source |-> 0, len |-> [c \in ColumnSet |-> Missing],
           stamps |-> <<>>, imuStamps |-> <<>>, annotated |-> FALSE, notes |-> <<>>,
           tracker |-> DefaultTracker, config |-> CHOOSE c \in Configs : TRUE]
NoProgress == [tracker |-> NewTracker, memory |-> <<>>, notes |-> <<>>]

Names == {Raw[i].name : i \in DOMAIN Raw}

AtMost(s, n) == IF n = NoLimit \/ n > Len(s) THEN s ELSE SubSeq(s, 1, n)

--------------------------------------------------------------------------------
(* What a run reads.                                                       *)

\* discover_*_sequences and _discover_sequences: images, then videos, then
\* recordings, those under raw_dir.  Sources are known by their place in Raw.
Discovered(c) ==
  LET of(kind) == IF c.kind \in {"all", kind}
                  THEN Picked([i \in DOMAIN Raw |-> i],
                              {i \in DOMAIN Raw : i \in c.raw /\ Raw[i].kind = kind})
                  ELSE <<>>
  IN  AtMost(of("images") \o of("videos") \o of("h5"), c.maxSequences)

\* resolve_person_class_id: the first class with a person's name, else the first.
PersonClass(names) ==
  LET person == {i \in DOMAIN names : names[i] \in PersonNames} IN
  IF person = {} THEN 1 ELSE CHOOSE i \in person : \A j \in person : i <= j

\* Mutant: the frames of a clip stay in the order of their file names.
ClipFrames_ByName(images) == InOrder(images, {p \in images \X images : p[1].path < p[2].path})

\* The frames of a clip: numbered ones first, by number, then by file name.
ClipFrames(images) ==
  LET key(f) == << IF f.id = NoId THEN 1 ELSE 0, IF f.id = NoId THEN 0 ELSE f.id, f.path >>
      before(a, b) == \E i \in 1 .. 3 : a[i] < b[i] /\ \A j \in 1 .. i - 1 : a[j] = b[j]
  IN  InOrder(images, {p \in images \X images : before(key(p[1]), key(p[2]))})

\* _iter_video_frames: every stride-th frame; the limit is tested after a
\* frame was emitted.
VideoFrames(pictures, c) ==
  AtMost([i \in 1 .. (Len(pictures) + c.stride - 1) \div c.stride |->
            [id |-> (i - 1) * c.stride, picture |-> pictures[(i - 1) * c.stride + 1]]],
         IF c.maxFrames = 0 THEN 1 ELSE c.maxFrames)

\* _iter_sequence_frames.
Frames(s, c) ==
  IF s.kind = "images" THEN AtMost(ClipFrames(s.images), c.maxFrames)
                       ELSE VideoFrames(s.pictures, c)

\* detections_from_yolo_label: the rows of the person class that have the form
\* of a box (4 numbers) or of a polygon (an even number, from 6 on).
LabelBoxes(s, picture) ==
  LET person(row) == /\ row.class = PersonClass(s.classes)
                     /\ row.numbers = 4 \/ (row.numbers >= 6 /\ row.numbers % 2 = 0)
      rows == Picked(picture.labels, {i \in DOMAIN picture.labels : person(picture.labels[i])})
  IN  [i \in DOMAIN rows |-> rows[i].box]

\* YoloDetectionProvider.detect.
Seen(picture) ==
  LET found == Picked(picture.seen, {i \in DOMAIN picture.seen :
                                       picture.seen[i].class = PersonClass(ModelNames)})
  IN  [i \in DOMAIN found |-> Clip[found[i].box]]

\* _valid_detections and _clip_detections: the size is tested before the cut.
Valid(boxes) ==
  LET wide == Picked(boxes, {i \in DOMAIN boxes : boxes[i] \notin Thin}) IN
  [i \in DOMAIN wide |-> Clip[wide[i]]]

\* _detect_for_frame.
Detections(s, picture, c) ==
  LET labelled == IF s.kind = "images" /\ c.detection \in {"labels", "hybrid"}
                  THEN LabelBoxes(s, picture) ELSE <<>>
  IN  IF s.kind = "images" /\ (c.detection = "labels" \/ labelled # <<>>)
      THEN Valid(labelled) ELSE Valid(Seen(picture))

\* The detections passed to the tracker: as many as have a depth box, but the
\* first ones, whichever those are.
Tracked(detections) ==
  SubSeq(detections, 1, Cardinality(DepthBoxes(detections)))

\* _frame_timestamp_us of source_frame_id or frame_offset: 0 is no id either.
Stamp(id, offset) == IF id \in {NoId, 0} THEN offset ELSE id

--------------------------------------------------------------------------------
(* Annotations.                                                            *)

\* _activity_from_speed of the distance between two centers.
Activity(from, to) ==
  LET square == (to[1] - from[1]) * (to[1] - from[1]) + (to[2] - from[2]) * (to[2] - from[2])
  IN  IF square < 4 THEN "STANDING" ELSE IF square < 576 THEN "WALKING" ELSE "RUNNING"

\* Mutant: the tracks that were missed are annotated too.
Current_Missed(tracks) == tracks

\* The tracks of a frame that were matched in it.
Current(tracks) == Picked(tracks, {t \in DOMAIN tracks : tracks[t].missed = 0})

\* _build_frame_annotation; memory maps a track to the center it was last seen at.
Annotation(k, stamp, tracks, memory) ==
  LET shown == Current(tracks)
      person(t) == LET c == Center[t.box] IN
        [id |-> t.id, box |-> t.box,
         activity |-> Activity(IF t.id \in DOMAIN memory THEN memory[t.id] ELSE c, c)]
  IN  [frame |-> k, stamp |-> stamp, persons |-> [i \in DOMAIN shown |-> person(shown[i])]]

\* Mutant: the place where a track was first seen is kept.
Remember_First(memory, tracks) ==
  LET shown == {t.id : t \in ToSet(Current(tracks))}
      place(id) == Center[(CHOOSE t \in ToSet(tracks) : t.id = id).box]
  IN  [id \in shown \union DOMAIN memory |->
         IF id \in DOMAIN memory THEN memory[id] ELSE place(id)]

\* track_memory after the frame.
Remember(memory, tracks) ==
  LET shown == {t.id : t \in ToSet(Current(tracks))}
      place(id) == Center[(CHOOSE t \in ToSet(tracks) : t.id = id).box]
  IN  [id \in shown \union DOMAIN memory |->
         IF id \in shown THEN place(id) ELSE memory[id]]

--------------------------------------------------------------------------------
(* The generator.                                                          *)

source == Raw[todo[pos]]
file == disk[source.name]
Store(f) == disk' = [disk EXCEPT ![source.name] = f]

Init ==
  /\ disk = [n \in Names |-> NoFile]
  /\ tuned = [state |-> "absent", config |-> DefaultTracker]
  /\ at = "idle"
  /\ config \in Configs
  /\ todo = <<>> /\ pos = 1 /\ progress = NoProgress
  /\ summaries = <<>> /\ reported = <<>> /\ runs = 0

\* main: a configuration that finds no source raises and leaves nothing behind.
Start(c) ==
  /\ at = "idle" /\ runs < MaxRuns
  /\ Discovered(c) # <<>>
  /\ at' = "next" /\ config' = c /\ todo' = Discovered(c) /\ pos' = 1
  /\ summaries' = <<>> /\ reported' = <<>> /\ runs' = runs + 1
  /\ UNCHANGED <<disk, tuned, progress>>

\* An exception ends the run: nothing is printed, finished files stay.
Raise ==
  /\ at' = "idle" /\ summaries' = <<>> /\ progress' = NoProgress
  /\ UNCHANGED <<tuned, config, todo, pos, reported, runs>>

AtSource(kinds) == at = "next" /\ pos <= Len(todo) /\ source.kind \in kinds

\* Mutant: an existing file is never in the way.
MayWrite_Always == TRUE

MayWrite == file.state = "absent" \/ config.overwrite

\* The file exists, the configuration of the tracker is cut off (json.loads),
\* or the recording has no frames to read (_read_required_rgb_frames).
Refuse ==
  /\ AtSource({"images", "videos", "h5"})
  /\ \/ ~MayWrite
     \/ source.kind # "h5" /\ tuned.state = "partial"
     \/ source.kind = "h5" /\ source.len["rgb"] = Missing
  /\ Raise
  /\ UNCHANGED disk

\* _load_tracker and StreamingHDF5Writer: the file is truncated.
OpenSequence ==
  /\ AtSource({"images", "videos"}) /\ MayWrite /\ tuned.state # "partial"
  /\ Store([NoFile EXCEPT !.state = "open", !.source = todo[pos],
                          !.len = [c \in ColumnSet |-> 0],
                          !.tracker = tuned.config, !.config = config])
  /\ at' = "frames" /\ progress' = NoProgress
  /\ UNCHANGED <<tuned, config, todo, pos, summaries, reported, runs>>

\* One turn of the loop of _write_sequence, with StreamingHDF5Writer.append.
WriteFrame ==
  LET frames == Frames(source, config)
      k      == Len(file.stamps)
      found  == Detections(source, frames[k + 1].picture, config)
      after  == Update(file.tracker, progress.tracker, Tracked(found))
      stamp  == Stamp(frames[k + 1].id, k)
  IN
  /\ at = "frames" /\ k < Len(frames)
  /\ Store([file EXCEPT !.len = [c \in ColumnSet |-> k + 1],
                        !.stamps = Append(@, stamp), !.imuStamps = Append(@, stamp)])
  /\ progress' = [tracker |-> after,
                  memory |-> Remember(progress.memory, after.tracks),
                  notes |-> Append(progress.notes,
                              Annotation(k, stamp, after.tracks, progress.memory))]
  /\ UNCHANGED <<tuned, at, config, todo, pos, summaries, reported, runs>>

\* A frame that is not read, detected in or labelled (n = 0), or a write that
\* fails after n columns.  The writer closes the file and adds no annotations.
FrameFails(n) ==
  LET k == Len(file.stamps) IN
  /\ at = "frames" /\ k < Len(Frames(source, config))
  /\ Store([file EXCEPT !.state = "closed",
              !.len = [c \in ColumnSet |->
                         IF \E i \in 1 .. n : Columns[i] = c THEN k + 1 ELSE k]])
  /\ Raise

\* The writer's exit after the last frame.
Finalize ==
  /\ at = "frames" /\ Len(file.stamps) = Len(Frames(source, config))
  /\ Store([file EXCEPT !.state = "closed", !.annotated = TRUE, !.notes = progress.notes])
  /\ at' = "duration"
  /\ UNCHANGED <<tuned, config, todo, pos, progress, summaries, reported, runs>>

Summarized(f) ==
  /\ summaries' = Append(summaries, [name |-> source.name, source |-> todo[pos],
                                     frames |-> f.len["rgb"]])
  /\ pos' = pos + 1 /\ at' = "next" /\ progress' = NoProgress
  /\ UNCHANGED <<tuned, config, todo, reported, runs>>

\* _update_duration and the summary.
Summarize == at = "duration" /\ Summarized(file) /\ UNCHANGED disk

Finish ==
  /\ at = "next" /\ pos > Len(todo)
  /\ at' = "idle" /\ reported' = summaries
  /\ UNCHANGED <<disk, tuned, config, todo, pos, progress, summaries, runs>>

--------------------------------------------------------------------------------
(* Recordings: _read_partial_h5 and HDF5Recorder.                          *)

\* The length of every column, absent ones filled in to the number of frames
\* or of timestamps.
Filled(s) ==
  LET own(c)   == s.len[c] # Missing
      n        == s.len["rgb"]
      rgbTs    == IF own("rgbTs") THEN s.len["rgbTs"] ELSE n
      fill(c)  == IF c \in {"rgbTs", "depth", "lidar", "lidarPoints"} THEN n ELSE rgbTs
  IN  [c \in ColumnSet |->
         IF c = "lidarPoints" /\ ~own("lidar") THEN n
         ELSE IF own(c) THEN s.len[c] ELSE fill(c)]

RgbStamps(s) ==
  IF s.len["rgbTs"] # Missing THEN s.stamps ELSE [i \in 1 .. s.len["rgb"] |-> i - 1]

\* _read_optional_annotations: the source's own when it has both kinds.
RecordedNotes(s) ==
  IF s.frameNotes # <<>> /\ s.sceneNotes > 0 THEN s.frameNotes
  ELSE [i \in DOMAIN RgbStamps(s) |->
          [frame |-> i - 1, stamp |-> RgbStamps(s)[i], persons |-> <<>>]]

\* The datasets whose chunks must not be empty.
Chunked == {"rgb", "depth", "lidar", "accel", "gyro", "quat"}

OpenRecording ==
  /\ AtSource({"h5"}) /\ MayWrite /\ source.len["rgb"] # Missing
  /\ Store([NoFile EXCEPT !.state = "open", !.source = todo[pos]])
  /\ at' = "record"
  /\ UNCHANGED <<tuned, config, todo, pos, progress, summaries, reported, runs>>

\* HDF5Recorder.write: the first dataset it cannot create ends the run; a
\* picture smaller than a chunk is one of them.
Record ==
  LET len  == Filled(source)
      bad  == {i \in DOMAIN Columns : \/ Columns[i] \in Chunked /\ len[Columns[i]] = 0
                                      \/ Columns[i] = "rgb" /\ ~source.fits}
      done == [file EXCEPT !.state = "closed", !.annotated = TRUE, !.len = len,
                 !.stamps = RgbStamps(source), !.notes = RecordedNotes(source),
                 !.imuStamps = IF source.len["imuTs"] # Missing
                               THEN source.imuStamps ELSE RgbStamps(source)]
  IN
  /\ at = "record"
  /\ \/ bad = {} /\ Store(done) /\ Summarized(done)
     \/ /\ bad # {}
        /\ Store([file EXCEPT !.state = "closed",
                    !.len = [c \in ColumnSet |->
                       IF \E i \in DOMAIN Columns :
                            Columns[i] = c /\ \A b \in bad : i < b
                       THEN len[c] ELSE Missing]])
        /\ Raise

--------------------------------------------------------------------------------
(* The rest.                                                               *)

\* The process is killed: a file it had open cannot be opened again.
Kill ==
  /\ at # "idle"
  /\ IF at \in {"frames", "record"} THEN Store([file EXCEPT !.state = "torn"])
                                    ELSE UNCHANGED disk
  /\ Raise

\* tune_botsort: write_text truncates the file first; a tuner that dies
\* between the two leaves it so.  Without a sequence of each data set it raises.
TuneOpen ==
  /\ Mot20Sequences # <<>> /\ HallwaySequences # <<>>
  /\ tuned' = [tuned EXCEPT !.state = "partial"]
  /\ UNCHANGED <<disk, runVars>>

TuneWrite ==
  /\ tuned.state = "partial"
  /\ tuned' = [state |-> "written", config |-> Tuned]
  /\ UNCHANGED <<disk, runVars>>

Next ==
  \/ \E c \in Configs : Start(c)
  \/ Refuse
  \/ OpenSequence
  \/ WriteFrame
  \/ \E n \in 0 .. Len(Columns) - 1 : FrameFails(n)
  \/ Finalize
  \/ Summarize
  \/ Finish
  \/ OpenRecording
  \/ Record
  \/ Kill
  \/ TuneOpen
  \/ TuneWrite

Spec == Init /\ [][Next]_vars

--------------------------------------------------------------------------------
(* HDF5Reader.iter_batches.                                                *)

\* imu_index for every frame: it only moves forward, past every sample that
\* is not later than the frame.
ImuIndex(f) ==
  LET passed(j, stamp) == {m \in j .. Len(f.imuStamps) :
                             \A x \in j + 1 .. m : f.imuStamps[x] <= stamp}
      last(j, stamp)   == CHOOSE m \in passed(j, stamp) \union {j} :
                             \A x \in passed(j, stamp) : x <= m
      index[k \in 0 .. Len(f.stamps)] == IF k = 0 THEN 1 ELSE last(index[k - 1], f.stamps[k])
  IN  [k \in DOMAIN f.stamps |-> index[k]]

\* The reader opens the file, finds every dataset and equal numbers of rgb,
\* depth and lidar records, and an IMU sample for every frame.
Replays(f) ==
  /\ f.state = "closed"
  /\ \A c \in ColumnSet : f.len[c] # Missing
  /\ \A i \in 1 .. 7 : f.len[Columns[i]] = f.len["rgb"]
  /\ \A i \in DOMAIN ImuIndex(f) :
       \A c \in {"accel", "gyro", "quat", "imuTs"} : ImuIndex(f)[i] <= f.len[c]

--------------------------------------------------------------------------------
(* Properties.                                                             *)

Drawn(f) == f.state # "absent" /\ Raw[f.source].kind # "h5"

\* Types, and what at says of the file: it is open exactly while a sequence
\* is written, and no other file ever is.
TypeOK ==
  /\ \A n \in Names :
       /\ disk[n].state \in {"absent", "open", "closed", "torn"}
       /\ disk[n].state # "absent" => disk[n].source \in DOMAIN Raw /\ Raw[disk[n].source].name = n
       /\ disk[n].len \in [ColumnSet -> Int]
       /\ disk[n].state = "open" <=> at \in {"frames", "record"} /\ source.name = n
  /\ tuned.state \in {"absent", "partial", "written"}
  /\ at \in {"idle", "next", "frames", "duration", "record"}
  /\ config \in Configs
  /\ todo \in Seq(DOMAIN Raw) /\ pos \in 1 .. Len(todo) + 1
  /\ runs \in 0 .. MaxRuns

\* Without --overwrite, what a run says it generated is there: each summary's
\* file holds that source, complete and annotated, tracked throughout by the
\* default tracker or by one that scored at least as well; a drawn file can
\* be replayed.  Sources may share a name, runs may die at any step.
SummariesTrue ==
  ~config.overwrite =>
    \A s \in ToSet(summaries) \union ToSet(reported) :
      LET f == disk[s.name] IN
      /\ f.state = "closed" /\ f.annotated
      /\ f.source = s.source /\ f.len["rgb"] = s.frames
      /\ Score(f.tracker) >= Score(DefaultTracker)
      /\ Drawn(f) => Replays(f) /\ Len(f.notes) = s.frames

\* Whatever happened to the runs before, an annotated file has one annotation
\* per frame in every column, and the k-th is about the k-th frame: the people
\* in it were detected in that frame, each on a track of his own.
AnnotationsAligned ==
  \A n \in Names :
    LET f == disk[n] IN
    Drawn(f) /\ f.annotated =>
      /\ \A c \in ColumnSet : f.len[c] = Len(f.notes)
      /\ \A k \in DOMAIN f.notes :
           LET note == f.notes[k]
               picture == Frames(Raw[f.source], f.config)[k].picture
           IN  /\ note.frame = k - 1 /\ note.stamp = f.stamps[k]
               /\ \A i, j \in DOMAIN note.persons :
                    note.persons[i].id = note.persons[j].id => i = j
               /\ \A i \in DOMAIN note.persons :
                    note.persons[i].box \in
                      ToSet(Detections(Raw[f.source], picture, f.config))

\* The activity annotated for a person is that of the displacement since the
\* last frame of the file that shows the same track, however long ago, though
\* _activity_from_speed calls its parameter speed_px_per_frame; a person shown
\* for the first time stands.
ActivitySinceLastSeen ==
  \A n \in Names :
    LET f == disk[n]
        shows(k, id) == {p \in ToSet(f.notes[k].persons) : p.id = id}
    IN
    Drawn(f) /\ f.annotated =>
      \A k \in DOMAIN f.notes : \A p \in ToSet(f.notes[k].persons) :
        LET before == {j \in 1 .. k - 1 : shows(j, p.id) # {}} IN
        IF before = {} THEN p.activity = "STANDING"
        ELSE \A q \in shows(CHOOSE j \in before : \A i \in before : i <= j, p.id) :
               p.activity = Activity(Center[q.box], Center[p.box])

\* A video, or a clip whose frames have numbers, no two the same, is written in
\* the order it was filmed: its timestamps rise, so that the reader pairs
\* every frame with the IMU sample recorded for it.
FramesInTime ==
  \A n \in Names :
    LET f == disk[n]
        s == Raw[f.source]
    IN
    /\ Drawn(f) /\ f.annotated
    /\ s.kind = "images" => \A a, b \in s.images : a.id # NoId /\ (a.id = b.id => a = b)
    => /\ \A i \in 1 .. Len(f.stamps) - 1 : f.stamps[i] < f.stamps[i + 1]
       /\ ImuIndex(f) = [i \in DOMAIN f.stamps |-> i]

\* A run without --overwrite never touches a file it did not create: not a
\* finished one, not one that another source of the same name just made, and
\* not what an aborted run left.
KeepsFiles ==
  [][~config'.overwrite =>
       \A n \in Names : disk[n].state \in {"closed", "torn"} => disk'[n] = disk[n]]_vars

================================================================================
