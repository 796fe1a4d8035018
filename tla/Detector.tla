-------------------------------- MODULE Detector --------------------------------
(***************************************************************************)
(* PersonDetector (src/perception/detector.py) and the engine runner it    *)
(* drives (src/runtime/tensorrt_engine.py), as operators: what a detector  *)
(* makes of the array an engine returns, and which files a runner takes.   *)
(* A frame is the objects in it; a box is [x, y, w, h] with a confidence   *)
(* and a class; classes are numbered from 0, and a matrix is a sequence of *)
(* rows.  Detections are a set: nothing here tells their order.  Values    *)
(* are integers: pixels, and confidences in hundredths.                    *)
(***************************************************************************)
EXTENDS Integers, Sequences, FiniteSets, SequencesExt

CONSTANTS
  Width, Height,   \* FRAME_WIDTH, FRAME_HEIGHT
  Divisor,         \* input_scale is 1 / Divisor
  Threshold,       \* confidence_threshold
  Classes,         \* the number of classes of the model
  Anchors          \* the number of boxes of a raw output, at least

ASSUME DetectorAssumption ==
  /\ Width \in Nat \ {0} /\ Height \in Nat \ {0} /\ Divisor \in Nat \ {0}
  /\ Classes \in Nat \ {0} /\ Anchors \in Nat /\ Threshold \in Int

Lesser(a, b) == IF a < b THEN a ELSE b
Greater(a, b) == IF a > b THEN a ELSE b
Between(v, low, high) == Lesser(Greater(v, low), high)

Person == 0           \* PERSON_CLASS_ID

Det(x, y, w, h, conf, class) ==
  [x |-> x, y |-> y, w |-> w, h |-> h, conf |-> conf, class |-> class]

--------------------------------------------------------------------------------
(* The arrays engines return, for a frame scaled by 1 / Divisor.           *)

\* The object as it is in the scaled frame.
Shrunk(o) == [o EXCEPT !.x = @ \div Divisor, !.y = @ \div Divisor,
                       !.w = @ \div Divisor, !.h = @ \div Divisor]

\* One row of [x1, y1, x2, y2, confidence, class] for every object.
NmsOutput(objects) ==
  [i \in DOMAIN objects |-> LET o == Shrunk(objects[i]) IN
     << o.x, o.y, o.x + o.w, o.y + o.h, o.conf, o.class >>]

\* One row for each channel (center, size, the score of each class), one
\* column for each anchor; an anchor with no object scores 0.
RawOutput(objects) ==
  LET cell(c, a) ==
        IF a \notin DOMAIN objects THEN 0
        ELSE LET o == Shrunk(objects[a]) IN
             CASE c = 1 -> o.x + o.w \div 2 [] c = 2 -> o.y + o.h \div 2
               [] c = 3 -> o.w [] c = 4 -> o.h
               [] OTHER -> IF c - 5 = o.class THEN o.conf ELSE 0
  IN  [c \in 1 .. 4 + Classes |-> [a \in 1 .. Greater(Anchors, Len(objects)) |-> cell(c, a)]]

--------------------------------------------------------------------------------
(* _postprocess.                                                           *)

Transposed(m) == [j \in DOMAIN m[1] |-> [i \in DOMAIN m |-> m[i][j]]]

\* _clip_detections, in the scaled frame.
Clipped(d) ==
  LET width  == Width \div Divisor
      height == Height \div Divisor
      x == Between(d.x, 0, width)
      y == Between(d.y, 0, height)
  IN  [d EXCEPT !.x = x, !.y = y, !.w = Between(d.w, 0, width - x), !.h = Between(d.h, 0, height - y)]

\* _postprocess_nms_output: a row whose third and fourth numbers exceed its
\* first and second is taken for two corners, any other for corner and size.
BoxOfRow(r) ==
  LET corners == r[3] > r[1] /\ r[4] > r[2] IN
  Det(r[1], r[2], IF corners THEN r[3] - r[1] ELSE r[3],
      IF corners THEN r[4] - r[2] ELSE r[4], r[5], r[6])

NmsDetections(m) == {Clipped(BoxOfRow(r)) : r \in {r \in ToSet(m) : r[5] >= Threshold}}

\* The overlap of two boxes exceeds 0.45 of their union.
Overlap(d, e) ==
  LET side(a, m, b, n) == Greater(0, Lesser(a + m, b + n) - Greater(a, b))
      common == side(d.x, d.w, e.x, e.w) * side(d.y, d.h, e.y, e.h)
  IN  100 * common > 45 * (d.w * d.h + e.w * e.h - common)

\* _nms_xywh: a box is kept unless one that is kept overlaps it and comes before
\* it, in falling confidence.  One set of the boxes is so, as the order is strict.
Suppressed(box) ==
  LET before(i, j) == box[i].conf > box[j].conf \/ (box[i].conf = box[j].conf /\ i > j)
      greedy(kept) == \A j \in DOMAIN box :
        j \in kept <=> ~ \E i \in kept : before(i, j) /\ Overlap(box[i], box[j])
  IN  {box[i] : i \in UNION {kept \in SUBSET DOMAIN box : greedy(kept)}}

\* _postprocess_yolo11_raw, of a matrix with one row for each anchor.
RawDetections(m) ==
  LET person(r) == r[5] >= Threshold /\ \A c \in 5 .. Len(r) : r[c] <= r[5]
  IN  Suppressed([i \in {i \in DOMAIN m : person(m[i])} |->
        LET r == m[i] IN Clipped(Det(r[1] - r[3] \div 2, r[2] - r[4] \div 2, r[3], r[4], r[5], Person))])

\* _postprocess and _filter_person_class.  The layout is guessed from the
\* shape: six columns are boxes, and more rows than columns (six at least)
\* are channels.  A matrix too narrow for boxes and scores is a ValueError.
Turned(m) == IF Len(m) >= 6 /\ Len(m) > Len(m[1]) THEN Transposed(m) ELSE m
NoData(m) == m = <<>> \/ m[1] = <<>>
Malformed(m) == ~NoData(m) /\ Len(m[1]) # 6 /\ Len(Turned(m)[1]) < 5
Postprocess(m) ==
  IF NoData(m) THEN {}
  ELSE IF Len(m[1]) = 6 THEN {d \in NmsDetections(m) : d.class = Person}
  ELSE RawDetections(Turned(m))

\* _rescale_boxes.
Rescaled(dets) ==
  {[d EXCEPT !.x = @ * Divisor, !.y = @ * Divisor, !.w = @ * Divisor, !.h = @ * Divisor]
   : d \in dets}

\* _infer_pt, without the rescaling its callers do: the model itself applies
\* the threshold, and boxes are clipped before the others are dropped.
PtDetections(objects) ==
  LET found == {o \in {Shrunk(o) : o \in ToSet(objects)} : o.conf >= Threshold}
  IN  {d \in {Clipped(o) : o \in found} : d.class = Person}

\* _infer_synthetic: the annotated persons, each taken for a person, as they
\* are in the file.
SyntheticDetections(persons) ==
  {[p EXCEPT !.class = Person] : p \in {p \in ToSet(persons) : p.conf >= Threshold}}

--------------------------------------------------------------------------------
(* The engine runner.                                                      *)

\* _deserialize_engine_blob and _strip_ultralytics_metadata_prefix: the bytes
\* behind a metadata block are tried first, then the whole file.  A file is
\* torchscript, an engine (with the block or without), or cut short.
Deserialized(content) == content.form \in {"prefixed", "plain"} /\ ~content.cut

\* TensorRTEngineRunner.__init__: the runner that takes the file, if any; a
\* raw engine needs TensorRT, the CUDA bindings (_load_cudart_module) and the
\* tensors it is asked for.
RunnerFor(content, tensorRt) ==
  IF content.form = "torchscript" /\ ~content.cut THEN "script"
  ELSE IF Deserialized(content) /\ tensorRt THEN "raw" ELSE "none"
================================================================================
