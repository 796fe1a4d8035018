# A TLA+ model of the adaptive context-aware runtime

This directory specifies, model-checks and proves properties of the program in
`src/` (Python; the runtime proper is `src/src/`): the software that runs on a
Jetson, perceives people with a camera, decides what a robot should do, and
talks to a Raspberry Pi that drives the robot and stops it when the Jetson
falls silent; and the offline programs that make what it runs on: the data
set generator and the tracker's tuning (`pipelines/`), the detector's training and
the scripts that build engines (`scripts/`).

Modules with a component's name hold its state, `Init`, its actions, `Next`,
`Spec` and its properties; `MC…` modules and `.cfg` files are instances for TLC;
`…_proofs` modules hold theorems checked by TLAPS.  `PROJECT.json` lists the
components, the runs, one mutant of the model for each property (the run must
find the property violated once the mutant replaces the definition), the source
lines each definition stands for, the hazards and the findings.

## 1. Inventory

Paths are relative to `src/src/`, those of `pipelines/` and `scripts/` to `src/`.

| Component | State | Operations | Talks to |
|---|---|---|---|
| Heartbeat watchdog, `comm/health_monitor.py` 27–58, 273–288 | last heartbeat time, state, latch `estop_triggered`, stop event | `record_heartbeat` (any handler thread), `check` (watchdog thread), `stop` | shares its fields with the handler threads, no lock; calls `on_estop` |
| Heartbeat link, `comm/runtime.py`, `comm/health_monitor.py` 231–375 | client: sequence counter, pending acknowledgements, outbox, connection, reader; server: one handler per connection, three queues | `send_heartbeat`, `send_status_update`, `send_estop`, connect/reconnect, send, read acknowledgements; accept, handle, acknowledge | two processes over TCP; `queue.Queue`; callbacks `on_packet` |
| Runtime controller, `runtime/controller.py` | state, references to loop and heartbeat client; services own a thread and a socket | `start`, `stop`, `status` | API thread pool calls it; it starts and stops ingest, publisher, frame source, loop and heartbeat client |
| Runtime status, `runtime/controller.py` 183–247, `runtime/sensor_store.py`, `transport/zmq_sensor_ingest.py` 81–104 | latest message of each stream, their ages, loop and source status | `status`, `update_*`, `latest` | heartbeat thread and API read what other threads write |
| Frame source, `runtime/frame_source.py` | latest frame, sequence number, error; thread, publisher socket, camera handles (or the socket of a remote camera) | `start`, `stop`, `_run` (open, read, close), `latest` | polled by the loop; started and stopped by the controller |
| Perception loop and pipeline, `runtime/perception_loop.py`, `perception/pipeline.py` | last frame processed, last error; frame count, cached detections | `_run`, `process_once`, `process` | polls the source, runs detector and tracker, publishes |
| Tracker, `perception/tracker.py`, `perception/depth_proc.py` | track list, next id | `update`, `_associate` | called by the pipeline |
| Safety state machine, `safety/state_machine.py` | one state | `request_transition` | nobody calls it in the runtime |
| Safety helpers, `safety/*.py` | process watchdog's beat time | degradation, recovery and emergency-stop decisions | nobody calls them in the runtime |
| Brain pipeline, `reasoning/*.py`, `router/adaptive_router.py`, `complexity/soh_monitor.py` | the engines loaded so far, one per pathway and one for the fusion | budget, route, pathways, fusion | called per frame with the people and their features |
| Decision, `decision/*.py` | none; the caller keeps the previous output | intents, anomaly scores, command | takes the brain pipeline's output |
| Packet codec, `comm/protocol.py` | none | encode, decode, read from a stream | the link and the UDP receivers |
| UDP receivers, `comm/lidar_receiver.py`, `comm/health_monitor.py` 61–228 | a queue each | receive one datagram | Raspberry Pi telemetry |
| API, `api/app.py` | one controller | start, stop, status | the controller, from the threads of a pool that know nothing of each other |
| Person detector, `perception/detector.py`, `runtime/tensorrt_engine.py` | the engine's runner and the weights, once loaded | `detect`: run, fall back, decode, clip, scale back | called by the pipeline; reads the files of the scripts |
| Detector training and engine scripts, `pipelines/train_detector.py`, `scripts/*_engine*.py` | weights, engines, metadata, run directories | train, merge data sets, bootstrap, export, build | share a directory with each other and the detector |
| Data set generator, `pipelines/generate_synthetic_h5.py`, `utils/hdf5_*.py` | one HDF5 file for each source, a summary | discover, track, append, annotate, copy, summarise | reads what the tuner writes; its files are read back |
| Tracker tuning, `pipelines/train_tracker_botsort.py` | the tracker's configuration file | score three candidates, write the best | the generator |
| Other networks and trainers, learned routing policy, sensor processing, protobuf messages, sensor bridge | tensors, files | computation and I/O | – |

What is hard in this code:

- **Concurrency without locks.** The watchdog's fields are read and written by
  several threads; the controller is entered from a thread pool; the heartbeat
  thread reads the controller's state while a control call changes it.
- **Failure in the middle.** A start may fail at any of five services; a send may
  fail with a packet in hand; an acknowledgement may fail after the packet was
  handled; a detector may fail after it consumed its turn.
- **Threads that outlast their join.** Every `stop` gives a thread a bounded time
  and goes on regardless.
- **Time.** Heartbeat age, check interval and thread latency add up.
- **Numbers at thresholds.** Anomaly scores and collision risks meet thresholds by
  formulas with cut-offs of their own; batch sizes of different frames meet.
- **Files.** Scripts are killed between two changes of the file system; files are
  written in place; names collide; a run goes on over what an earlier one left.
- **Order.** Handlers of an old and a new connection run side by side; stale
  detections are reused; frames are retried.

The properties that make the components correct, and the hazards they answer,
are listed with their lines in `PROJECT.json` under `hazards`.  Some hazards have no
property, and a note that says why: where the code simply has the loss, the burst of stale
packets or the stale weights (the packet in hand when a send raises, the handler's end when
an acknowledgement does, the unbounded outbox, a bootstrap over old weights, a training
again), a property could only excuse it; where a frame is refused by one test
(`behavior_pipeline.py:78`), it could only repeat the test.

## 2. What is modelled

### HeartbeatWatchdog, HeartbeatAlarm, HeartbeatWatchdog_proofs

`HeartbeatWatchdog` is `record_heartbeat` and `check` at the granularity of
field accesses.  Each handler walks `ReadClock`, `StoreTime`, `TestState`,
`ClearState` (lines 42–45); the watchdog thread walks `BeginCheck`, `CheckFirst`,
`Arm`, `Compare`, `Latch`, `StopRobot`, `Notify` (lines 48–58, 284–288).  Other
threads may run between any two of them.  Two switch points are certain in the
code: the call of `_clock()`, and the look-up of `SafetyState.ESTOP`, which in
Python up to 3.10 (`pyproject.toml:9` asks for 3.10 or later) goes through
`EnumMeta.__getattr__`, which is Python code, after the state has been loaded.
From Python 3.11 on that look-up is a plain attribute and the interpreter is
unlikely to switch there; the model then allows more than the build does.

Time is a clock that ticks.  `Lag` is the scheduling latency: a thread that has
read the clock finishes its call within `Lag` ticks and the watchdog wakes up
within `Lag` of the end of its wait.  Without such an assumption no bound on the
alarm would hold; the code relies on it.

`HeartbeatAlarm` is what a watchdog promises: one alarm, never withdrawn, not
while a beat was heard in the last `Grace` ticks, not later than `Limit` ticks
after the newest.  `AlarmSpec` says that the threaded watchdog implements it with

    Grace = Timeout - Lag        Limit = Timeout + CheckInterval + 4 * Lag

Both are tight: TLC refutes `Grace = Timeout` (a handler stores an old reading
over a newer one) and `Limit = Timeout + CheckInterval + 3 * Lag`.

`SettledEstopPersists` says what the state guarantees (an ESTOP that no handler
was about to overwrite stays); `EstopPersists`, what the documentation promises,
is refuted: a handler that has passed the test of line 44 writes NORMAL over the
ESTOP of line 54, and the latch keeps it from being raised again.

### HeartbeatLink, HeartbeatLink_proofs

Client and server with any number of successive connections.  `Register` draws a
sequence number and registers the packet with the `AckTracker` (no call between
the two lines of the increment, hence one step); `Put` queues it.  The client's
thread goes `Connect`, `Take`, `SendReturns` or `SendFails`, `CloseSession`; its
reader `ReadAck`, `ReaderEnds`.  The server `Accept`s, each handler `QueuePacket`s,
then `SendAck`s.  `Break` cuts a connection and loses a suffix of what is in flight
in each direction.  A packet is its kind and its sequence number.

Two behaviours of the code that are easy to overlook are in the model.  A
socket's file object refuses every read after one that timed out, so the reader
thread ends after the first idle 200 ms (`ReaderEnds`) although the code says
`continue`.  And `send_ack` stands outside the `try` of `_handle_client`, so an
acknowledgement that cannot be sent ends the handler (`AckRaises`) with what it
had not read.

### RuntimeController, Runtime_proofs

`start`, `stop` and the clean-up of a failed start, for the five services, called by
any number of `Callers`: the threads of the API's pool, which may be in `start` and
`stop` at the same time, as no lock is taken.  A caller's call in progress is the
list of the steps it has left (`todo[c]`), so that services' threads and other callers
run between any two.  A service has a socket, a set of live threads and, for each of
its loop objects, a stop `event`.  A bind may raise and leaves its socket behind
(`BindRaises`); the perception loop may fail to be built (`CreateRaises`); a join may give
up (`JoinTimesOut`, for services in `Slow`); a step that finds `None` where another thread
left it raises: in `Spawn` and `Tell` with two callers only, in the closing of the camera with
one too.  An exception ends a start in its clean-up; a stop and a clean-up it leaves half way
(`Raise`), with whatever state was set before.  `perception_enabled` and a configured frame source are assumed.

The frame source is one of three, `camera`: OpenNI, a V4L2 capture, or the receiver of a
remote camera's frames, which connects and cannot fail to bind.  A local one opens its camera in its thread,
part by part (`OpenPart`), reads frames, and closes the parts in reverse order when it
ends, also after an exception (`CameraFails`).  `stop` closes them too, whether or not the
join before succeeded: `held` are the fields that are not `None`.  A thread that finds its
maker's field empty raises (`OpenRaises`).

`_close_camera` is three steps for each part: the field is tested (`Release` in a stop,
`ClosePart` in the thread), what it holds is closed by the driver (`Free`, `FreePart`), and it
is set to `None` (`Forget`, `ForgetPart`).  Between any two of them the other side may do the
same, so that a part may be closed twice, or the field be `None` when it is used.  That, or a
driver that fails, raises (`FreeRaises`, `FreePartRaises`), except for `unload()`, the one
close in a `try` (`Guarded`).  In the thread the exception ends the thread, with the parts
below left as they are.  In a stop it leaves `LocalCameraFrameSource.stop` and the
controller's `stop`, or the clean-up of a failed start: the loop is dropped, the socket of the
source is not closed, and the state stays RUNNING or STARTING (`aborted`).  `stuck` are the
parts a close that the driver failed did not get rid of, with the ones below it.

The lines 60–63 of `zmq_sensor_ingest.py`, which make, set up and bind a socket, are one
step, and so are 64–65, which make and start its thread.  A socket's `close()` and the
assignment of `None` are one step: only calls close sockets, so with one caller nothing comes
between.  (With two, `close()` may find `None` and raise; in a stop of the source this comes
after its camera, so `CameraReleased` does not depend on it.)

With one caller the controller keeps its promises (`NothingLeftBehind`, `RunningServes`,
`UsesOpenSockets`, `CameraReleased`, `ReadsOpenCamera`, `StopEndsThreads`).  With two it
keeps `CameraReleased` alone; what is lost is shown by `AssertSocket`.  `RunningServes` has
exactly three exceptions: a service that is restarted in place whose old thread outlasted its
join (the ingest and the source; a loop or a client is made anew), a source that crashed, and
a stop or clean-up that an exception in the closing of the camera has left half way, after
which the state may be RUNNING without a loop (`start` then only reports the status; a stop
that gets through sets it right).  `UsesOpenSockets` has the last one too: a publisher whose
bind failed is not closed by a clean-up that was left half way, and the next start takes it for
started.  `CameraReleased` excuses what is `stuck`.

### RuntimeStatus, Runtime_proofs

`status()` (lines 183–247) beside the controller: it extends `RuntimeController` with the
loop's error and count and the streams received, and with readers that walk `Snapshot`,
`ReadLoop`, `ReadAvailable`, `ReadReady` (190–196), `ReadReason` (197–231) and `Report`
(232–247).  The state is read at lines 191, 197 and 233, at three different moments.  The
ages of messages and the probes of the camera are nondeterministic each time they are
read.  `ReadyMeansServing`: what is reported RUNNING and
ready serves, unless a stop and a start, or a call still in progress, ran beside the status
(`overlap`), or a stop was left half way (`aborted`).  `StatusConsistent`: a status with no control call beside it is ready exactly
when it gives no reason, and only while RUNNING.  One consequence of the three reads: beside a stop,
`ready` may be reported together with STOPPED.

### DecisionChain, DecisionChain_proofs

From the people of a frame to a command.  `BrainRun` is `AdaptiveBrainPipeline.run`: the
level of complexity (any) and the health budget give the route; the pathways run in order
and load their engine on first use; the first that fails ends the frame and leaves the
engines before it loaded; the attention pathway refuses an empty scene and the graph network
an adjacency of another size than the entities; the fusion refuses outputs of different batch sizes before it
looks for its own engine.  `BehaviorRun` is `BehaviorDecisionPipeline.run`: rows of the
output are spread over the people, anomaly scores are computed with or without the
previous frame's output, and the commander chooses hold, avoid or proceed.  `Deploy`
puts the missing engine files in place.  The caller, which no code of the repository
is yet, gives any batch sizes and gives the previous output or does not.

The rows of the networks' outputs are inputs, as the scores the code computes from them.
Distances are in quarter metres, scores in 2000ths and risks in 40000ths, so that every
constant of the code is an integer and comparisons are exact; the rounding of floating
point is not modelled.  The branch of the router for a learned policy is left out (the
pipeline passes no `rl_state`), and so are velocities and headings.

Observations, which the properties state as they are:

- An empty scene never gets a command: the intents keep a row and the commander raises
  (`nav_commander.py:51`), although the commander alone, given three empty lists,
  proceeds (`tests/unit/test_nav_commander.py:47-57`).  At HIGH and CRITICAL the
  attention pathway refuses it before that.
- Without the previous output, so on the first frame, no score exceeds 0.795, and the
  robot is never held (`HoldNeedsPrevious`).
- A person exactly at the robot's position is passed over (`nav_commander.py:74`).
- With a preferred speed of 0 the avoiding velocity has no limit (`nav_commander.py:94`);
  this is outside the model.

### PerceptionLoop, Tracker and their proofs

`PerceptionLoop` is the loop's thread (`Poll`, `Decode`, `Detect`, `Track`,
`Publish`) with the pipeline's cadence and cache, and a frame source that replaces
its latest frame at any time.  A frame is its number and what the detector would
see, or `Garbled`.  Detector and publisher may raise, after which the same frame is
polled again.  A runtime that is stopped and started again makes a new loop with a new
pipeline over the same frame source, which has kept its last frame (`Restart`): that one
frame may be published again, and `FramesInOrder` says that no other is.

`Tracker` gives `update` and `_associate` as operators: the candidate pairs, the stable sort by
overlap, the greedy choice, ageing and removal of tracks.  A sort is the sequence that has its
elements at the places their order gives them (`InOrder`), a filter the elements at the places it lets
through (`Picked`), and the greedy loop is a function of the number of pairs looked at
(`after` in `Associate`): these are definitions the provers can work with.
A detection whose box covers no pixel of the depth map loses its 3-D box, which
makes `update` raise for that frame and for each skip frame after it.  Positions and
velocities are left out.

### SyntheticDataset, SyntheticDataset_proofs and BotSortTuning

`SyntheticDataset` is a run of `generate_synthetic_h5.py`: `Start` discovers the sources
(image clips, videos, recordings) in the order of the code, `OpenSequence` names the output
file and refuses one that exists, `WriteFrame` detects, tracks, annotates and appends one
frame to the eleven columns, `Finalize` writes the annotations, `OpenRecording` and
`Record` copy a recording with the columns it lacks filled in, `Summarize` and `Finish`
report.  `FrameFails(n)` is an exception after `n` of the frame's columns were extended,
`Kill` the end of the process at any step; runs may follow each other with other
options.  A picture is what its label file and the detector say of it; a file is the
lengths of its columns, its timestamps and its annotations.  The tracker is that of
`Tracker`, with the configuration file the tuner writes (`TuneOpen`, `TuneWrite`: truncated,
then written).  The operators of `HDF5Reader` say which inertial sample a frame is replayed with.

`BotSortTuning` is `tune_botsort` as operators: which sequences are taken, the tracker run
over each of them with the three candidates, the greedy scoring against the ground
truth, and the best weighted mean.  `TuningAssumption` gives the shape of the ground truth:
frames of a sequence have numbers, no two the same; `DatasetAssumption` that of the sources: the
images of a clip have paths, no two the same, strides are positive, limits are numbers or `None`.
All depths are equal in the code
(`_fake_depth_boxes`), so the depth gate separates nothing there.

Observations: with `--overwrite` a source replaces the file of another with the same name and
both are reported (`SummariesTrue` excludes it); a clip in which two pictures bear the same frame
number repeats a timestamp (`FramesInTime` excludes it); a memory of positions that is never
cleared makes a person's speed the displacement since he was last seen.

### Detector, EngineArtifacts and EngineArtifacts_proofs

`Detector` gives the operators of `detector.py` and `tensorrt_engine.py`: the arrays an
engine returns for a scene in either layout, `_postprocess` with its guess of the layout,
clipping, non-maximum suppression, scaling, and which runner takes which file.  Detections
are a set, as no property asks for their order; suppression keeps the one set of boxes of
which each is in it unless one before it, in falling confidence, is and overlaps it.

`EngineArtifacts` is the life of the files: `train_detector.py` (`Train` … `Finetuned`, with
the run directories that the training library numbers), `bootstrap_engine.py` (`Bootstrap` …
`NoCopy`), `export_engine.py` (`ExportAll` … `NextModel`) and `build_brain_engines.py`
(`BuildBrain`, `Compile`, `Saved`), one at a time, each killed at any step (`Kill`), beside a
detector that loads what it finds and falls back to the weights (`Detect…`, `Engine…`) and
an operator who removes engines and replaces weights.  A file is the model and the version
it was made from, its form, its input shape, and whether it is cut short.  The name of a file
or a directory is the sequence of the words between its hyphens, so that the merged name
`{directory}-{file}` is a concatenation.  What a library
does (an export writes beside the weights and leaves an ONNX file; a training numbers its
directory) is marked external.

Observations: a rename puts an engine in its place, so it is never half there, but the copy to the
codebase and the metadata are written in place; a bootstrap that finds an engine and its
metadata does not ask whether the weights are newer; an engine built for squares (640 by 640) is
given frames of 480 by 640 and nobody looks at the result of `set_input_shape`
(`tensorrt_engine.py:147`), so `PersonsFound` promises only that its boxes are inside the
frame.  The engines of the networks are written in place in the same directory, so weights
named like a network (`rl_policy.pt`, anywhere under the model root that `export_engine.py`
searches) are not promised a whole engine (`EnginesWhole` excludes them).  And the data sets
of the directories `hall` and `hall-2` may overwrite each other's files when they are merged
(`2-a.jpg` of the one, `a.jpg` of the other); `MergedPairs` is about directories of which no
name begins with another's words.

## 3. Runs

| Run | Instance | Shows |
|---|---|---|
| `watchdog` | 2 handlers, Timeout 2, CheckInterval 1, Lag 1, clock to 8 | `IInv`; `AlarmSpec` (refinement); `SettledEstopPersists` |
| `watchdog_estop` | the same | `EstopPersists` is violated |
| `link` | a heartbeat loop and an ESTOP sender, 2 packets, 3 connections | order, matching acknowledgements, delivery, the outbox drains |
| `link_acks` | 2 connections | `AcksHandled` is violated |
| `controller` | 1 caller, 4 calls, 1 failure, slow camera and loop, OpenNI | nothing left behind, running services serve, no closed socket or camera in use, threads end |
| `assert_socket` | 2 callers, 2 calls | `AssertSocket` is violated |
| `status` | 1 caller, 3 calls, 1 reader, a V4L2 or a remote camera | ready and RUNNING mean serving; a status with no call beside it is consistent |
| `perception` | 3 frames, 7 attempts per loop, 2 failures, 2 loops, detection each 3rd attempt | order, one-to-one association, age of detections, no usable frame lost |
| `decision` | 2 people, 4 places, 3 rows, 2 readings, 1 engine missing | failures leave nothing behind, commands are monotone in the distance, frames after a deployment do not suffer from earlier failures |
| `dataset` | 2 runs over 6 sources, 6 configurations, a tuner beside them | summaries are true, annotations aligned, frames in time, files of others kept |
| `artifacts` | 2 scripts, 3 models of which 2 are there, 1 change by the operator, 2 further networks | engines whole, bootstrap and export deliver, a training reports its own weights, pairs stay pairs, persons found |
| `detector_raw` | the same | `RawDecoded` is violated |

**Bounds and why they are enough.**

- Watchdog: two handlers are the fewest that store readings out of order; the
  clock reaches 8 = Limit + 1, so an alarm that is late by one tick is seen, and
  so is a heartbeat that arrives after the alarm.  The theorems of section 5
  hold without the bounds.
- Link: one packet of each sender lets both orders of `Register` and `Put` occur and
  a packet be lost in hand while the other is queued; three connections allow two
  reconnections, one with both older handlers still running.
- Controller: four calls reach start–stop–start–stop with a thread left behind by
  the first stop; one failure ends a start half way or a construction, and the retry succeeds, or it is
  the driver's in a close, in a stop or in the thread; a field set to `None` by the other side, and
  the camera's other failures, happen any number of times.  OpenNI has all four parts and both makers; a V4L2 capture is its
  special case with one part, and takes part in `status`.  Two callers with one
  call each are the least that overlap.
- Status: one stream stands for all, as the rungs of the ladder are alike; three calls let
  a stop and a start both fall into one `status()`.
- Decision: two people distinguish a row for each from one row for all; the places are
  near, on a collision course from outside the collision distance, near but leaving, and
  at the robot; the rows are a fall that is critical only with the change, a loiterer
  above the threshold of an anomaly, and an unsuspicious one; the two readings are on either
  side of half the budget (75 and 76 °C).  The theorems of section 5 hold without the bounds.
- Data set: two runs let a second meet what the first left, whole or torn.  The sources
  are a clip whose names sort in another order than its numbers, a video, a recording of
  the same name as the video, and recordings without frames, pictures or accelerations;
  the configurations differ in kind, detection, limits, stride and `--overwrite`.  Boxes on a
  line overlap in tenths on either side of the thresholds; one of them leaves the image.
- Artifacts: two scripts let one meet what the other left; two of the three models share a
  stem; the custom data sets have pictures of equal names, once with equal directory names
  and once with classes that differ.  A frame is halved, with a person near the corner, one
  over the edge, one below the threshold and an object that is not a person; eight boxes
  against six channels are enough to mislead the layout's guess.
- Perception: three frames with seven attempts give each detection frame one retry; a second
  loop is one restart over a kept frame;
  two overlapping boxes and one without depth are the pictures that make the
  association choose and the update fail.  `DetectEveryN` is 3, as two skip frames
  in a row are the least that tell a stale cache from the last frame's.

`CHECK_DEADLOCK FALSE` stands in the configurations whose bounds (packets, frames,
calls) or whose stop end every behaviour.

**Fairness.**  Only steps that a running thread takes are fair: threads of the
client and the server, `LoopStep`, and in the controller `ThreadStep` (while threads that were told to
stop, or open or close the camera, could go on, one of them does: less than fairness of each of
`ThreadEnds` and `SourceStep`, and enough; of a call in progress nothing is assumed).  `SyntheticDataset` and `EngineArtifacts` assume none: their processes may die.  An attempt to
connect succeeds eventually, as the Raspberry Pi accepts connections.  Nobody is
obliged to send, to capture, to call `start` or `stop`, or to break a connection.

## 4. Findings

Each is a run that TLC finds violated; `PROJECT.json` quotes the lines.

1. A heartbeat that is handled while `check()` raises ESTOP sets the state back to
   NORMAL, for good (`watchdog_estop`).
2. After 200 ms without an acknowledgement the client never reads one again on that
   connection (`link_acks`).  On the program itself, with heartbeats every 0.5 s:
   7 were handled by the server, 1 acknowledgement by the client.
3. A stop that overlaps a start closes the ingest's socket before the ingest's thread
   runs, which then fails its assertion (`assert_socket`).
4. The raw output of an engine with more boxes than channels, which is any real one, is
   read the wrong way round and its persons are lost (`detector_raw`).

Two more are visible in the models without a run of their own.  An ESTOP in hand when the
connection breaks is lost (`SendFails`): nobody sends it again, and the retries the protocol
document describes do not exist; `DeliveredUnlessBroken` says what is delivered.  And
`detect_every_n = 1`, documented as "detect every frame", never detects (`IsDetectionFrame`):
the counter modulo 1 is never 1.

Three further observations on the controller are in the properties as exceptions, as no document says
otherwise.  A start after a stop whose join timed out takes the old thread for
running: the state is RUNNING and the service ends (`RunningServes`, `outlived`).
An exception in the camera ends the frame source for good while the controller
stays RUNNING (`RunningServes`, `crashed`).  And an exception in `_close_camera`
(`frame_source.py:344-363`), from the driver or because the thread that outlasted its join has
set the field to `None` since it was tested, leaves a stop half way: RUNNING without a loop
(`RunningServes`, `aborted`).  One more is outside the model: the safety state
machine accepts DEGRADED to RECOVERY (`safety/state_machine.py:34`), while
`docs/specs/safety-state-machine.md:142` has RECOVERY entered from ESTOP only.

## 5. Proofs

`HeartbeatWatchdog_proofs` proves, for any set of handlers and any natural `Timeout`,
`CheckInterval`, `Lag` and `MaxClock` (`TimesAssumption`):

| Theorem | Statement |
|---|---|
| `TypeCorrect` | `Spec => []TypeOK` |
| `Invariance` | `Spec => []IInv` |
| `SettledEstop` | `Spec => SettledEstopPersists` |
| `Refinement` | `Spec => AlarmSpec` |

The refinement needs three things that are not visible in any one field.  An alarm
is not early because `lastHeartbeat` is within `Lag` of the newest heartbeat
(`LastNearNewest`), which holds because a handler's reading is at most `Lag` old when
it is stored (`HandlerTiming`) and so is the check's when it arms the timer
(`CheckTiming`, `Arming`).  It is not late because, as long as there is no alarm, the
watchdog's next check is due at most `Timeout + CheckInterval + 2 * Lag` after the newest
heartbeat (`Deadline`): the last check that found no timeout ran within `Timeout` of a
stored time that is at most `Lag` too new, ended `Lag` later and then waited
`CheckInterval`; the wake-up and the check itself each add a `Lag`.  And it is raised
once because the latch is set before the state and the state before the callback
(`AlarmPhase`).  `IInv` is their conjunction; the lemmas `HandlerStep`, `CheckStep` and
`InvStep` show that each step preserves it, `HandlerRefines`, `CheckRefines` and
`TickRefines` map each step to a step of `HeartbeatAlarm` or to a stutter.  TLC checks
`IInv` in the run `watchdog`.

`HeartbeatLink_proofs` proves, for any senders, kinds of packets and numbers of packets and
connections (`LinkAssumption`; `NothingAssumption`: the value that stands for no packet is not one):

| Theorem | Statement |
|---|---|
| `TypeCorrect` | `Spec => []TypeOK` |
| `AcknowledgementsMatch` | `Spec => []AcksMatch` |
| `HandledInOrderTheorem` | `Spec => []HandledInOrder` |
| `NothingHandledTwice` | `Spec => []HandledOnce`, which no run checks: it comes with the others |

All rest on where a packet can be: with its sender (`Drafts`), in the outbox or the client's
hand (`Outgoing`), on a connection or received over it (`Transit`), on the way back (`Acks`).  It is
in one place at a time, and further along the link the earlier it was put into the outbox; and the
client waits for it wherever it is (`Awaited`).  `LinkInv` is the conjunction.
That an older packet may come after a newer one is left to different connections, since
those before the current one are cut but their handlers may still hold packets.

`Runtime_proofs` proves of `RuntimeController`, for any cameras, slow services, and numbers of calls
and failures:

| Theorem | Statement |
|---|---|
| `TypeCorrect` | `OneCaller => (Spec => []TypeOK)` |
| `StoppedClean` | `OneCaller => (Spec => []NothingLeftBehind)` |
| `RunningMeansServing` | `OneCaller => (Spec => []RunningServes)` |
| `SocketsStayOpen` | `OneCaller => (Spec => []UsesOpenSockets)` |
| `ReadsWholeCamera` | `OneCaller => (Spec => []ReadsOpenCamera)` |
| `AssertionHolds` | `OneCaller => (Spec => AssertSocket)` |
| `CameraClosedWithThread` | `Spec => []CameraReleased`, for any callers |

`OneCaller` is not for the proof's convenience: the run `assert_socket` has a second caller break
`AssertSocket`, and the others fall with it.  `ControllerInv` follows one call through its
steps: they are in an order in which the loop starts after the publisher and stops before it
(`Script`); what a stop has not yet undone is among the steps it has left (`Stops`), and what a
start has not yet made is as a stop left it (`Starts`); threads that are alive and are not
the newest were told to stop and given up (`Threads`); the source's thread holds the parts of the camera its phase says (`CameraInv`).
After an exception that leaves a stop or a clean-up half way less is known: `Stops` (when no call
is in progress), `Starts` and `FreshInv` then say what such a call leaves true, until a stop or a
clean-up gets through.  `NothingLeftBehind` holds even so, for a reason `Stops` cannot give:
what is STOPPED or ERROR was cleaned up (`Clean`) and stays so, also when the next stop is left half
way, as a start says STARTING before it starts anything (`Settled`).  `FreshInv` adds that a new
loop or client was never given up.

`CameraReleased` has an invariant of its own, `HeldInv`, for any callers: each part that is held
is `stuck`, or there is a living thread (`ThreadCloses`) or a call in progress (`CallCloses`) that
still comes to it (`Reaches`), whichever thread opened it.  A close that finds `None` in a field it has
tested raises and comes to nothing more; but whoever set the field to `None` is at that part at this
moment and comes to those below (`OthersReach`).  Only a driver that fails breaks this chain, which is
what `stuck` records.

And of `RuntimeStatus`, for any readers and any finite set of callers (`CallersAssumption`):

| Theorem | Statement |
|---|---|
| `ReportsConsistent` | `StatusSpec => []StatusConsistent` |
| `ReadyServes` | `OneCaller => (StatusSpec => []ReadyMeansServing)` |

The first needs that what a reader has noted still holds as long as no call ran beside it
(`StillTrue`).  The second needs what one call can do to the notes: a loop that
was asked is the one that is referred to now, or the call is a stop and it is `Gone` (`Asked`,
`Following`); a stop and a start are two calls (`Moves`).

`EngineArtifacts_proofs` proves, for any models, networks, custom data sets and bounds
(`ArtifactsAssumption`: the weights the detector uses are among the models, at least one
network is built, a data set's name and its files' names are sequences of words, a frame is a
sequence of objects; `DetectorAssumption`: sizes and the scale are positive):

| Theorem | Statement |
|---|---|
| `TypeCorrect` | `Spec => []TypeOK` |
| `NoHalfEngine` | `Spec => []EnginesWhole` |
| `BootstrapLeavesFiles` | `Spec => []BootstrapDelivers` |
| `SuccessMeansBuilt` | `Spec => []ExitZeroMeansBuilt` |
| `FirstTrainingReported` | `Spec => []FreshRunReported` |
| `PairsStayPairs` | `Spec => []MergedPairs` |
| `PersonsInsideFrame` | `Spec => []PersonsOnly` |
| `EveryPersonFound` | `Exact => (Spec => []PersonsFound)` |

The promises are about a script that has ended; `ArtifactsInv` says how far one that runs has
come.  What has been exported is complete before it is renamed (`Made`), from which
`EnginesWhole` follows.  A bootstrap has what it built in its place, then described, then
copied (`BootstrapInv`); an export without a failure so far has shipped every model it is done
with, and no two models it found share a stem, so that the next one does not overwrite it
(`ExportInv`); a build has documented the networks it is done with (`BrainInv`); a training in an empty
directory has made the only run of each stage (`TrainInv`); and the merged data set is that of the configuration
(`MergedInv`).  The lemmas `Moves` and `Scripts` say that no other script takes a step meanwhile.
For `PairsStayPairs`, two names that make one file name begin alike (`OnePrefix`), so a merged
file has one data set it can come from (`OwnKept`).

`PersonsFound` has two parts.  `PersonsOnly`, that every box is a person's, sure enough and inside the
frame, is proved for every frame, frame size, scale, threshold and number of classes, of either layout
of the output and of one that was read past the frame: whatever `_postprocess` does not refuse is
clipped to the scaled frame (`PostprocessFound`), and scaled back it is in the frame, also where the
scale does not divide it (`RescaledInside`).  `PersonsAll`, that they are the frame's persons, needs `Exact`:
the frame and its objects are whole numbers of scaled pixels, which the integers of the model ask for where
the code has floats, and every object has a width and a height, without which `_postprocess_nms_output`
takes its corners for a corner and a size (`detector.py:281`).  The frames of the run are so.  Then a row's
box is its object (`RowIsObject`), and scaling, clipping and scaling back leave what is in the frame
(`ScaledClippedBack`).

`DecisionChain_proofs` proves, for any people, rows, readings, shipped engines and any
number of people in a frame (`DecisionAssumption`):

| Theorem | Statement |
|---|---|
| `ChainInvariance`, `DecisionTypeCorrect` | `Spec => []ChainInv`, `Spec => []DecisionTypeOK` |
| `HoldsWithPrevious` | `Spec => []HoldNeedsPrevious` |
| `CarefulCommands` | `Spec => []CarefulWhenCloser` |
| `OutputsOnceDeployed` | `Spec => OutputOnceDeployed` |

`CarefulWhenCloser` is about a command's mode and the scores that led to it, so the
inductive invariant `ChainInv` adds to the types that the mode is that of the scene and
the scores (`CommandMade`).  `ScoreBounds` gives the bound 1590 of a score without the
previous output, from which the robot is not held; `CloserRisk` shows that a risk at or
above the threshold stays there when the person is closer, whichever of the two formulas
it comes from, and `CloserAvoided` lifts that to the mode.  `Routes` and
`RoutesAreEngines` are about the routing table.

`Tracker_proofs` proves, for any boxes, overlaps and configuration (`TrackerAssumption`: overlaps
are numbers):

| Theorem | Statement |
|---|---|
| `AssociateOneToOne` | the matches pair no track and no detection twice |
| `UpdateFollows` | an update confirms every detection by one track, confirms none without one, keeps ids apart |

Sequences of any length are reached without an induction theorem that takes an operator: a set of
numbers has a least element (`LeastNumber`, from `WFMin`), so what holds of 0 and is kept by each step holds
of all (`EveryTurn`), a function defined by its own value one step before exists (`Turns`), and what its
steps keep, it has (`TurnsKeep`).  `InOrderOf` and `PickedOf` say what a sort by a strict order and a
filter return.  The greedy loop is one to one after each pair (`ChoiceStep`); between the matched
tracks, the new ones and the detections there is a bijection (`Correspond`), which the drop of old
tracks does not touch, as none that was confirmed is old (`KeptConfirm`).

`PerceptionLoop_proofs` proves, for any pictures, boxes, tracker parameters and bounds
(`LoopAssumption`):

| Theorem | Statement |
|---|---|
| `PublishedInOrder` | `Spec => []FramesInOrder` |
| `DetectionsAge` | `DetectEveryN > 1 => (Spec => []BoundedStaleness)` |
| `DetectionsConfirmed` | `Spec => []ConfirmedAsDetected` |

The order needs to know of a frame in work that it is newer than the last one its loop
remembers and not older than any that was published (`NewFrame`), and of what was published that
its loop remembers it or the source has seen it (`Remembered`): `OrderInv`.  The age needs
where in a turn of `DetectEveryN` frames the counter is: the last detection was one frame after a
whole number of turns, and each turn since then has cost one failure (`InCadence`).
`TurnStarts` and `TurnOf` are the two facts about the remainder.  The theorem excludes a
cadence of 1, with which the code never detects.  `DetectionsConfirmed` rests on `UpdateFollows`.

`SyntheticDataset_proofs` proves, for any sources, configurations, tracker parameters, ground truth
and number of runs (`DatasetAssumption`, `TuningAssumption`, `TrackerAssumption`):

| Theorem | Statement |
|---|---|
| `TypeCorrect` | `Spec => []TypeOK` |
| `NotesAligned` | `Spec => []AnnotationsAligned` |
| `ActivitiesSinceLastSeen` | `Spec => []ActivitySinceLastSeen` |
| `FramesAreInTime` | `Spec => []FramesInTime` |
| `SummariesAreTrue` | `Spec => []SummariesTrue` |
| `FilesKept` | `Spec => KeepsFiles`, which needs no assumption |

The inductive invariant `DataInv` says of the file at hand what the properties say of a finished
one, as far as it has come: the columns have the length of the notes taken so far, the k-th
note is about the k-th frame (`Aligned`), the tracker's ids are apart, and the memory holds for each
track the center of the last note that shows it (`Watching`, `MemoryTrue`).  `FrameWritten` is the
step of one frame: what `UpdateFollows` says of the tracker becomes a note about people detected
in that frame (`NoteTaken`), and a speed is measured from the memory, which is the last frame that showed the
track (`NoteAppended`).  An exception or a kill leaves a file that is not annotated, of which nothing is said;
a later run may not touch it.

`FramesInTime` adds that a sort by number gives rising numbers, that a stride keeps them rising, and
what the reader's pointer does: it moves to the last sample not after the frame
(`MovesToLast`, `ImuInTime`).  `SummariesTrue` adds `SumInv`, that the file of a summary is
present, which a step that changes no closed file keeps (`Keeps`); that a file whose columns are
aligned is one the reader accepts (`Replayed`); and that the default is among the tuner's
candidates and scores are numbers, so the best scores no less (`TunedIsBest`).  For `FilesKept`, the
file that is written is open until the writing ends (`Held`), so that a step that stores a
file finds it open, or opens it where `MayWrite` found none or the run may overwrite.

The attempt to prove `ActivitySinceLastSeen` showed that `Activity` had been written as a `CASE` with guards
that overlap, of which TLA+ does not say which arm is taken; it is now the chain of the code's `if`s.

Only model-checked: liveness (TLAPS handles neither fairness nor ENABLED here), so
`DeliveredUnlessBroken`, `OutboxDrains`, `StopEndsThreads` and `EventuallyPublished`.

## 6. Not modelled

- The values of neural networks, and their training (`pipelines/train_reasoning.py`,
  `train_attention.py`, …): tensors without a state a model could relate.
- The learned routing policy (`router/rl_policy.py`): the pipeline never passes `rl_state`.
- Sensor processing (features, IMU, LiDAR, fusion): numerical functions of one frame.
- The safety state machine and helpers: tables and decisions that nothing in the runtime
  calls.  The machine accepts DEGRADED to RECOVERY (`safety/state_machine.py:34`).
- The packet codec and the UDP receivers: one packet is read as a whole in the link model.
- In the link: the server's own stop, malformed packets, a failing payload factory, which
  ends the heartbeat thread (`health_monitor.py:335`).
- In the perception loop: timings, the fusion with IMU and LiDAR, and two loops at a time,
  the older of which outlasted its join.
- In the detector: CUDA memory, of which a failing `cudaFree` leaks the rest
  (`tensorrt_engine.py:126-128`); the decoding of rows that give a width where others give a
  corner (`detector.py:281`).
- In the data set: pixels, metadata texts, `build_person_only_dataset`, which only a test
  calls, and a writer whose constructor or finalizer raises.  In the tuner, scores are
  truncated to hundredths.  In the training script, `--plan-only`, which trains nothing.
- Protobuf conversion, logging, command lines, benchmarks and the sensor bridge.

## 7. Plan

In order.  A configuration that asks no new question joins the run of the module it extends.

1. `PacketStream`, composed with `HeartbeatLink`: reading packets from a byte stream with
   timeouts in the middle, malformed packets and the handler's end, the server's stop, a
   failing payload factory; the UDP receivers.
2. `Tracker` with velocities (zero on skip frames, a displacement of several frames divided
   by one on detection frames), and the fusion of detections with LiDAR and IMU.
3. `SafetyStates`: the state machine with degradation, recovery checks and the process
   watchdog.
4. The commander's velocities in `DecisionChain`.
5. An abstract specification of the controller (off, starting, on, failed) that
   `RuntimeController` with one caller implements.
6. Proofs: the persons of `Detector`, with its filters and its suppression stated as in `Tracker`,
   for frames in which nothing shrinks to nothing; the refinement of item 5.
