--------------------------- MODULE MCSyntheticDataset ---------------------------
(* Boxes 100 pixels wide on a line: near overlaps mid and far, gone overlaps  *)
(* none; out reaches over the edge of the image and its cut, edge, rounds to  *)
(* no pixel.                                                                  *)
EXTENDS SyntheticDataset

CONSTANTS near, mid, far, gone, out, edge

MCClip == [b \in Boxes |-> IF b = out THEN edge ELSE b]

MCCenter == [b \in Boxes |->
  << CASE b = near -> 100 [] b = mid -> 110 [] b = far -> 153 [] b = gone -> 500
       [] b \in {out, edge} -> 640, 100 >>]

MCIou == [p \in Boxes \X Boxes |->
  LET q == {p[1], p[2]} IN
  CASE p[1] = p[2] -> 10 [] q = {near, mid} -> 8 [] q = {mid, far} -> 4
    [] q = {near, far} -> 3 [] OTHER -> 0]

MCModelNames == <<"bag", "person">>

Label(class, numbers, box) == [class |-> class, numbers |-> numbers, box |-> box]
Pic(labels, boxes) ==
  [labels |-> labels, seen |-> [i \in DOMAIN boxes |-> [class |-> 2, box |-> boxes[i]]]]
Image(id, path, picture) == [id |-> id, path |-> path, picture |-> picture]

\* A clip with frames 0, 2 and 10, whose names sort 0, 10, 2.
Clip1 ==
  [kind |-> "images", name |-> "clip", classes |-> <<"nguoi", "chair">>, images |->
     { Image(0, 1, Pic(<<Label(1, 4, near), Label(2, 4, gone)>>, <<near, gone>>)),
       Image(2, 3, Pic(<<Label(1, 8, gone)>>, <<gone>>)),
       Image(10, 2, Pic(<<Label(1, 4, out), Label(1, 4, far), Label(1, 5, mid)>>, <<far, mid>>)) }]

\* A video with the name of a recording.
Film ==
  [kind |-> "videos", name |-> "hall", pictures |->
     << Pic(<<>>, <<near>>), Pic(<<>>, <<mid, out>>), Pic(<<>>, <<near>>) >>]

Full(n) == [c \in ColumnSet |-> n]
Recording(name, len, stamps, imuStamps, notes) ==
  [kind |-> "h5", name |-> name, len |-> len, stamps |-> stamps, imuStamps |-> imuStamps,
   frameNotes |-> notes, sceneNotes |-> Len(notes), fits |-> TRUE]

\* A recording without sensors, one whose IMU has times but no accelerations,
\* one without frames and one without pictures.
Bare == Recording("hall", [Full(Missing) EXCEPT !["rgb"] = 2, !["depth"] = 2], <<>>, <<>>, <<>>)
Odd  == Recording("odd", [Full(2) EXCEPT !["imuTs"] = 4, !["accel"] = Missing],
                  <<1, 4>>, <<1, 2, 3, 4>>, <<>>)
Void == Recording("void", Full(0), <<>>, <<>>, <<>>)

Blind == Recording("blind", [Full(2) EXCEPT !["rgb"] = Missing], <<1, 2>>, <<1, 2>>, <<>>)

MCRaw == << Odd, Film, Clip1, Bare, Void, Blind >>

Run(raw, kind, detection, maxFrames, overwrite) ==
  [raw |-> raw, kind |-> kind, detection |-> detection, stride |-> 1, maxSequences |-> NoLimit,
   maxFrames |-> maxFrames, overwrite |-> overwrite]

MCConfigs ==
  { Run(1 .. 5, "all", "hybrid", NoLimit, FALSE),
    Run({3}, "images", "labels", NoLimit, TRUE),
    [Run({2}, "all", "yolo", 0, FALSE) EXCEPT !.stride = 2],
    Run({2, 6}, "all", "yolo", NoLimit, FALSE),
    [Run(1 .. 5, "h5", "yolo", NoLimit, FALSE) EXCEPT !.maxSequences = 2],
    Run(1 .. 5, "h5", "yolo", NoLimit, TRUE) }

Frame(no, dets, truth) == [no |-> no, dets |-> dets, truth |-> truth]
Person(id, box) == [id |-> id, box |-> box]

Scene(files, frames) == [files |-> files, frames |-> frames]

\* The first folder of MOT20 has no ground truth: it is a test sequence.
MCMot20 ==
  << Scene({"det", "seqinfo"}, {Frame(1, <<gone>>, <<>>)}),
     Scene({"det", "gt", "seqinfo"},
            { Frame(1, <<near, gone>>, <<Person(1, near), Person(2, gone)>>),
              Frame(2, <<far>>, <<Person(1, far)>>),
              Frame(3, <<near>>, <<>>),
              Frame(4, <<near, mid>>, <<Person(1, near), Person(2, mid)>>) }) >>

MCHallway ==
  << Scene({"ground_truth", "images"},
            { [no |-> 1, truth |-> <<Person(1, near)>>],
              [no |-> 2, truth |-> <<>>],
              [no |-> 3, truth |-> <<Person(1, far)>>] }) >>
================================================================================
