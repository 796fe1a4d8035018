--------------------------- MODULE RuntimeController ---------------------------
(***************************************************************************)
(* JetsonRuntimeController.start and stop (src/src/runtime/controller.py)  *)
(* with the services they start and stop: the sensor ingest and the frame  *)
(* source (a thread and a socket each, restarted in place), the result     *)
(* publisher (a socket), and the perception loop and heartbeat client      *)
(* (made anew by each start).                                              *)
(*                                                                         *)
(* A caller is a thread of the API's pool; the call it is in is the        *)
(* sequence of the steps it has left to do.  The services' threads, and    *)
(* other callers, run between two steps: nothing in the controller is      *)
(* locked.  A join that is given up leaves its thread behind, which ends   *)
(* when whatever blocks it returns.                                        *)
(*                                                                         *)
(* The thread of the frame source opens the camera part by part and closes *)
(* it when it ends; stop() closes it too, beside a thread it could not     *)
(* join.  Both test a field, close what it holds and set it to None, in    *)
(* three steps, and what raises there leaves the thread or the call.  A    *)
(* frame source that receives frames from another host has a socket and no *)
(* camera.  Frames are left to PerceptionLoop.                             *)
(***************************************************************************)
EXTENDS Naturals, Sequences, SequencesExt

CONSTANTS
  Callers,     \* threads that call start and stop
  Slow,        \* services whose thread may outlast the join of stop()
  Cameras,     \* the cameras the controller may be configured with
  MaxCalls,    \* bound: control calls
  MaxFailures  \* bound: binds, constructions and closes by the driver that raise

Restartable == {"ingest", "source"}
Fresh == {"loop", "heartbeat"}
Threaded == Restartable \union Fresh
Socketed == Restartable \union {"publisher"}

ASSUME ControllerAssumption ==
  /\ Slow \subseteq Threaded
  /\ Cameras \subseteq {"openni", "v4l2", "scada_zmq"}
  /\ MaxCalls \in Nat /\ MaxFailures \in Nat

VARIABLES
  state,     \* _state
  reason,    \* _reason: is there one
  todo,      \* per caller: steps its call has left
  socket,    \* per service: its _socket: "none", "open" (bind failed) or "bound"
  ref,       \* per service: the thread (or the object) referred to, 0 for None
  count,     \* per service: threads (or objects) made so far
  alive,     \* per service: its live threads
  event,     \* per service: the objects whose _stop_event is set
  camera,    \* configuration: CTX_CAMERA_BACKEND, or the source "scada_zmq"
  held,      \* the frame source's fields that are not None
  phase,     \* per thread of the frame source: <<"read", 0>> or <<what it does, part>>
  outlived,  \* history: threads whose join was given up
  crashed,   \* history: frame source threads whose loop ended with an exception
  aborted,   \* history: an exception has left a stop or a clean-up half way
  stuck,     \* history: parts left by a close that the driver failed
  calls,     \* bound: control calls so far
  failures   \* bound: exceptions so far

threadVars == <<ref, count, alive, event>>
cameraVars == <<camera, held, phase>>
historyVars == <<outlived, crashed, aborted, stuck>>
vars == <<state, reason, todo, socket, threadVars, cameraVars, historyVars, calls, failures>>

\* The fields of the frame source that hold the camera, in the order they are set.
Parts ==
  CASE camera = "openni" -> <<"openni2", "device", "depth stream", "color stream">>
    [] camera = "v4l2" -> <<"capture">>
    [] camera = "scada_zmq" -> <<>>

Ids == 1 .. MaxCalls
States == {"STOPPED", "STARTING", "RUNNING", "ERROR"}
Ops == {"test", "clear", "open", "create", "spawn", "halt", "tell", "close", "drop"}
Step ==
  (Ops \X (Threaded \union Socketed)) \union ({"set"} \X States)
    \union ({"join"} \X Threaded \X (Ids \union {0}))
    \union ({"release", "free", "forget"} \X DOMAIN Parts)

TypeOK ==
  /\ state \in States
  /\ reason \in BOOLEAN
  /\ todo \in [Callers -> Seq(Step)]
  /\ socket \in [Socketed -> {"none", "open", "bound"}]
  /\ ref \in [Threaded -> 0 .. MaxCalls]
  /\ count \in [Threaded -> 0 .. MaxCalls]
  /\ alive \in [Threaded -> SUBSET Ids]
  /\ event \in [Threaded -> SUBSET (Ids \union {0})]
  /\ \A x \in Threaded : event[x] \subseteq IF x \in Restartable THEN {0} ELSE Ids
  /\ camera \in Cameras
  /\ held \subseteq Range(Parts)
  /\ phase \in [Ids -> ({"open", "close", "free", "forget"} \X (DOMAIN Parts \union {1}))
                        \union {<<"read", 0>>}]
  /\ outlived \in [Threaded -> SUBSET Ids]
  /\ crashed \subseteq Ids
  /\ aborted \in BOOLEAN
  /\ stuck \subseteq Range(Parts)
  /\ calls \in 0 .. MaxCalls
  /\ failures \in 0 .. MaxFailures

Init ==
  /\ state = "STOPPED"
  /\ reason = FALSE
  /\ todo = [c \in Callers |-> <<>>]
  /\ socket = [s \in Socketed |-> "none"]
  /\ ref = [t \in Threaded |-> 0]
  /\ count = [t \in Threaded |-> 0]
  /\ alive = [t \in Threaded |-> {}]
  /\ event = [t \in Threaded |-> {}]
  /\ camera \in Cameras
  /\ held = {}
  /\ phase = [i \in Ids |-> <<"open", 1>>]
  /\ outlived = [t \in Threaded |-> {}]
  /\ crashed = {}
  /\ aborted = FALSE
  /\ stuck = {}
  /\ calls = 0
  /\ failures = 0

--------------------------------------------------------------------------------
(* The calls and the order of their steps.                                 *)

StartSteps ==
  << <<"set", "STARTING">>, <<"test", "ingest">>, <<"test", "publisher">>,
     <<"test", "source">>, <<"test", "loop">>, <<"test", "heartbeat">>,
     <<"set", "RUNNING">> >>

\* Mutant: the publisher is not closed after a failed start.
CleanUpSteps_NoPublisher ==
  << <<"halt", "loop">>, <<"halt", "source">>, <<"halt", "ingest">>,
     <<"halt", "heartbeat">>, <<"set", "ERROR">> >>

\* The except branch of start.
CleanUpSteps ==
  << <<"halt", "loop">>, <<"halt", "source">>, <<"halt", "ingest">>,
     <<"close", "publisher">>, <<"halt", "heartbeat">>, <<"set", "ERROR">> >>

\* Mutant: the services are stopped in the order they were started.
StopSteps_AsStarted ==
  << <<"halt", "ingest">>, <<"close", "publisher">>, <<"halt", "source">>,
     <<"halt", "loop">>, <<"halt", "heartbeat">>, <<"set", "STOPPED">> >>

StopSteps ==
  << <<"halt", "loop">>, <<"halt", "source">>, <<"halt", "heartbeat">>,
     <<"halt", "ingest">>, <<"close", "publisher">>, <<"set", "STOPPED">> >>

Idle == \A c \in Callers : todo[c] = <<>>

Call(c, steps) ==
  /\ todo[c] = <<>>
  /\ calls < MaxCalls
  /\ calls' = calls + 1
  /\ todo' = [todo EXCEPT ![c] = steps]
  /\ UNCHANGED <<state, reason, socket, threadVars, cameraVars, historyVars, failures>>

\* A start while RUNNING only reports the status.
Start(c) == state # "RUNNING" /\ Call(c, StartSteps)

Stop(c) == Call(c, StopSteps)

\* The next step of the call c is in.
At(c, step) == todo[c] # <<>> /\ Head(todo[c]) = step
Done(c) == todo' = [todo EXCEPT ![c] = Tail(@)]
Then(c, steps) == todo' = [todo EXCEPT ![c] = steps \o Tail(@)]

\* The step raises: start turns to its except branch; from there and from stop
\* the exception leaves the call.
Raise(c) ==
  todo' = [todo EXCEPT ![c] =
             IF Last(@) = <<"set", "RUNNING">> THEN CleanUpSteps ELSE <<>>]

\* An exception from outside: a bounded number of times.
Unforeseen(c) ==
  /\ failures < MaxFailures
  /\ failures' = failures + 1
  /\ Raise(c)

--------------------------------------------------------------------------------
(* Starting a service.                                                     *)

\* Mutant: a service that was started once counts as running.
Present_OnceStarted(x) ==
  IF x = "publisher" THEN socket[x] # "none" ELSE ref[x] # 0

\* Each start returns at once when the service seems to be running.
Present(x) ==
  CASE x \in Restartable -> ref[x] \in alive[x]
    [] x = "publisher" -> socket[x] # "none"
    [] x \in Fresh -> ref[x] # 0

Launch(x) ==
  CASE x \in Restartable -> << <<"clear", x>>, <<"open", x>>, <<"spawn", x>> >>
    [] x = "publisher" -> << <<"open", x>> >>
    [] x \in Fresh -> << <<"create", x>>, <<"spawn", x>> >>

Test(c, x) ==
  /\ At(c, <<"test", x>>)
  /\ IF Present(x) THEN Done(c) ELSE Then(c, Launch(x))
  /\ UNCHANGED <<state, reason, socket, threadVars, cameraVars, historyVars, calls, failures>>

Clear(c, x) ==
  /\ At(c, <<"clear", x>>)
  /\ event' = [event EXCEPT ![x] = {}]
  /\ Done(c)
  /\ UNCHANGED <<state, reason, socket, ref, count, alive, cameraVars, historyVars, calls,
                 failures>>

Bind(c, x) ==
  /\ At(c, <<"open", x>>)
  /\ socket' = [socket EXCEPT ![x] = "bound"]
  /\ Done(c)
  /\ UNCHANGED <<state, reason, threadVars, cameraVars, historyVars, calls, failures>>

\* A receiver of remote frames connects, which does not wait for the other side.
Connects(x) == x = "source" /\ camera = "scada_zmq"

\* The address is in use: the socket made before the bind stays in _socket.
BindRaises(c, x) ==
  /\ At(c, <<"open", x>>)
  /\ ~Connects(x)
  /\ Unforeseen(c)
  /\ socket' = [socket EXCEPT ![x] = "open"]
  /\ UNCHANGED <<state, reason, threadVars, cameraVars, historyVars, calls>>

New(x) == count[x] + 1

Create(c, x) ==
  /\ At(c, <<"create", x>>)
  /\ count' = [count EXCEPT ![x] = New(x)]
  /\ ref' = [ref EXCEPT ![x] = New(x)]
  /\ Done(c)
  /\ UNCHANGED <<state, reason, socket, alive, event, cameraVars, historyVars, calls, failures>>

\* The detector or the pipeline cannot be built; the field is still None.
CreateRaises(c) ==
  /\ At(c, <<"create", "loop">>)
  /\ Unforeseen(c)
  /\ UNCHANGED <<state, reason, socket, threadVars, cameraVars, historyVars, calls>>

Respawn(c, x) ==
  /\ x \in Restartable
  /\ At(c, <<"spawn", x>>)
  /\ count' = [count EXCEPT ![x] = New(x)]
  /\ ref' = [ref EXCEPT ![x] = New(x)]
  /\ alive' = [alive EXCEPT ![x] = @ \union {New(x)}]
  /\ Done(c)
  /\ UNCHANGED <<state, reason, socket, event, cameraVars, historyVars, calls, failures>>

\* start() of a new object; only the perception loop's clears its stop event.  None,
\* where another call has dropped the object since, has no start().
Spawn(c, x) ==
  /\ x \in Fresh
  /\ At(c, <<"spawn", x>>)
  /\ alive' = [alive EXCEPT ![x] = @ \union ({ref[x]} \ {0})]
  /\ event' = IF x = "loop" THEN [event EXCEPT ![x] = @ \ {ref[x]}] ELSE event
  /\ IF ref[x] = 0 THEN Raise(c) ELSE Done(c)
  /\ UNCHANGED <<state, reason, socket, ref, count, cameraVars, historyVars, calls, failures>>

--------------------------------------------------------------------------------
(* Stopping a service.                                                     *)

\* Mutant: stop() does not set the stop event.
Set_Not(x, object) == event' = event

Set(x, object) == event' = [event EXCEPT ![x] = @ \union {object}]

\* The threads of a restartable service share its stop event.
Object(x, i) == IF x \in Restartable THEN 0 ELSE i
Told(x) == {i \in Ids : Object(x, i) \in event[x]}

\* _close_camera in stop(), from the last part to the first.
Releases(x) ==
  IF x = "source" /\ Parts # <<>> THEN << <<"release", Len(Parts)>> >> ELSE <<>>

\* Mutant: the camera is closed before its thread is joined.
HaltService_ReleaseFirst(c, x) ==
  /\ x \in Restartable
  /\ At(c, <<"halt", x>>)
  /\ Set(x, 0)
  /\ Then(c, Releases(x) \o << <<"join", x, ref[x]>>, <<"close", x>> >>)
  /\ UNCHANGED <<state, reason, socket, ref, count, alive, cameraVars, historyVars, calls,
                 failures>>

HaltService(c, x) ==
  /\ x \in Restartable
  /\ At(c, <<"halt", x>>)
  /\ Set(x, 0)
  /\ Then(c, << <<"join", x, ref[x]>> >> \o Releases(x) \o << <<"close", x>> >>)
  /\ UNCHANGED <<state, reason, socket, ref, count, alive, cameraVars, historyVars, calls,
                 failures>>

HaltFresh(c, x) ==
  /\ x \in Fresh
  /\ At(c, <<"halt", x>>)
  /\ IF ref[x] = 0 THEN Done(c) ELSE Then(c, << <<"tell", x>>, <<"drop", x>> >>)
  /\ UNCHANGED <<state, reason, socket, threadVars, cameraVars, historyVars, calls, failures>>

\* stop() of the object, or of None where another call has dropped it since.
Tell(c, x) ==
  /\ At(c, <<"tell", x>>)
  /\ IF ref[x] = 0
       THEN Raise(c) /\ UNCHANGED event
       ELSE Set(x, ref[x]) /\ Then(c, << <<"join", x, ref[x]>> >>)
  /\ UNCHANGED <<state, reason, socket, ref, count, alive, cameraVars, historyVars, calls,
                 failures>>

Join(c, x) ==
  /\ \E i \in Ids \union {0} : At(c, <<"join", x, i>>) /\ i \notin alive[x]
  /\ Done(c)
  /\ UNCHANGED <<state, reason, socket, threadVars, cameraVars, historyVars, calls, failures>>

JoinTimesOut(c, x) ==
  /\ \E i \in Ids :
       /\ At(c, <<"join", x, i>>)
       /\ i \in alive[x]
       /\ x \in Slow \/ i \notin Told(x)
       /\ outlived' = [outlived EXCEPT ![x] = @ \union {i}]
  /\ Done(c)
  /\ UNCHANGED <<state, reason, socket, threadVars, cameraVars, crashed, aborted, stuck, calls,
                 failures>>

\* The part below is next, if there is one.
Onward(c, k) == IF k = 1 THEN Done(c) ELSE Then(c, << <<"release", k - 1>> >>)

\* A field is tested.
Release(c) ==
  /\ \E k \in DOMAIN Parts :
       /\ At(c, <<"release", k>>)
       /\ IF Parts[k] \in held THEN Then(c, << <<"free", k>> >>) ELSE Onward(c, k)
  /\ UNCHANGED <<state, reason, socket, threadVars, cameraVars, historyVars, calls, failures>>

\* Of the calls that close a part, only unload() is in a try.
Guarded(k) == Parts[k] = "openni2"

\* The driver closes what is found in the field.
Free(c) ==
  /\ \E k \in DOMAIN Parts :
       /\ At(c, <<"free", k>>)
       /\ Guarded(k) \/ Parts[k] \in held
       /\ Then(c, << <<"forget", k>> >>)
  /\ UNCHANGED <<state, reason, socket, threadVars, cameraVars, historyVars, calls, failures>>

\* The parts a close that ends at part k does not come to.
UpTo(k) == {Parts[j] : j \in 1 .. k}

\* The driver fails, or another thread has set the field to None since the test: the
\* exception leaves the call.
FreeRaises(c) ==
  /\ \E k \in DOMAIN Parts :
       /\ At(c, <<"free", k>>) /\ ~Guarded(k)
       /\ IF Parts[k] \in held
            THEN Unforeseen(c) /\ stuck' = stuck \union UpTo(k)
            ELSE Raise(c) /\ UNCHANGED <<failures, stuck>>
  /\ aborted' = TRUE
  /\ UNCHANGED <<state, reason, socket, threadVars, cameraVars, outlived, crashed, calls>>

\* The field is set to None.
Forget(c) ==
  /\ \E k \in DOMAIN Parts :
       /\ At(c, <<"forget", k>>)
       /\ held' = held \ {Parts[k]}
       /\ stuck' = stuck \ {Parts[k]}
       /\ Onward(c, k)
  /\ UNCHANGED <<state, reason, socket, threadVars, camera, phase, outlived, crashed, aborted,
                 calls, failures>>

Close(c, x) ==
  /\ At(c, <<"close", x>>)
  /\ socket' = [socket EXCEPT ![x] = "none"]
  /\ Done(c)
  /\ UNCHANGED <<state, reason, threadVars, cameraVars, historyVars, calls, failures>>

Drop(c, x) ==
  /\ At(c, <<"drop", x>>)
  /\ ref' = [ref EXCEPT ![x] = 0]
  /\ Done(c)
  /\ UNCHANGED <<state, reason, socket, count, alive, event, cameraVars, historyVars, calls,
                 failures>>

SetState(c, s) ==
  /\ At(c, <<"set", s>>)
  /\ state' = s
  /\ reason' = CASE s = "ERROR" -> TRUE
                 [] s = "STARTING" -> reason
                 [] OTHER -> FALSE
  /\ aborted' = (aborted /\ s \notin {"STOPPED", "ERROR"})
  /\ Done(c)
  /\ UNCHANGED <<socket, threadVars, cameraVars, outlived, crashed, stuck, calls, failures>>

--------------------------------------------------------------------------------
(* The services' threads.                                                  *)

ThreadEnds(x) ==
  /\ x # "source" \/ camera = "scada_zmq"
  /\ \E i \in alive[x] \intersect Told(x) : alive' = [alive EXCEPT ![x] = @ \ {i}]
  /\ UNCHANGED <<state, reason, todo, socket, ref, count, event, cameraVars, historyVars,
                 calls, failures>>

\* A thread of the local frame source is in this phase.
In(i, name) == camera # "scada_zmq" /\ i \in alive["source"] /\ phase[i][1] = name

\* The part the device or the streams are made from.
Maker(k) == IF k = 1 THEN {} ELSE {Parts[IF k = 2 THEN 1 ELSE 2]}

\* _open_camera: the part is made and the next one is to be, or the frames are to be
\* read.  The streams are given a mode of openni2, which stop() may have dropped.
OpenPart(i) ==
  /\ In(i, "open")
  /\ LET k == phase[i][2] IN
       /\ Maker(k) \subseteq held
       /\ held' = held \union {Parts[k]}
       /\ stuck' = stuck \ {Parts[k]}
       /\ phase' = [phase EXCEPT ![i] =
            IF k > 2 /\ Parts[1] \notin held THEN <<"close", Len(Parts)>>
            ELSE IF k = Len(Parts) THEN <<"read", 0>>
            ELSE <<"open", k + 1>>]
  /\ UNCHANGED <<state, reason, todo, socket, threadVars, camera, outlived, crashed, aborted,
                 calls, failures>>

\* What the next part is made from has been closed by stop() meanwhile.
OpenRaises(i) ==
  /\ In(i, "open") /\ ~(Maker(phase[i][2]) \subseteq held)
  /\ phase' = [phase EXCEPT ![i] = <<"close", Len(Parts)>>]
  /\ UNCHANGED <<state, reason, todo, socket, threadVars, camera, held, historyVars, calls,
                 failures>>

\* The loop over the frames tests the stop event between two of them.
LeaveLoop(i) ==
  /\ In(i, "read") /\ i \in Told("source")
  /\ phase' = [phase EXCEPT ![i] = <<"close", Len(Parts)>>]
  /\ UNCHANGED <<state, reason, todo, socket, threadVars, camera, held, historyVars, calls,
                 failures>>

\* Mutant: an exception in the camera ends the thread at once.
CameraFails_KeepsOpen(i) ==
  /\ In(i, "open") \/ In(i, "read")
  /\ alive' = [alive EXCEPT !["source"] = @ \ {i}]
  /\ crashed' = crashed \union {i}
  /\ UNCHANGED <<state, reason, todo, socket, ref, count, event, cameraVars, outlived, aborted,
                 stuck, calls, failures>>

\* An exception in the camera ends the loop of the thread.
CameraFails(i) ==
  /\ In(i, "open") \/ In(i, "read")
  /\ phase' = [phase EXCEPT ![i] = <<"close", Len(Parts)>>]
  /\ crashed' = crashed \union {i}
  /\ UNCHANGED <<state, reason, todo, socket, threadVars, camera, held, outlived, aborted,
                 stuck, calls, failures>>

\* _close_camera in the finally of the thread: the part below is next, or the thread ends.
Descend(i, k) ==
  /\ phase' = [phase EXCEPT ![i] = IF k = 1 THEN <<"open", 1>> ELSE <<"close", k - 1>>]
  /\ alive' = IF k = 1 THEN [alive EXCEPT !["source"] = @ \ {i}] ELSE alive

\* A field is tested.
ClosePart(i) ==
  /\ In(i, "close")
  /\ LET k == phase[i][2] IN
       IF Parts[k] \in held
         THEN phase' = [phase EXCEPT ![i] = <<"free", k>>] /\ UNCHANGED alive
         ELSE Descend(i, k)
  /\ UNCHANGED <<state, reason, todo, socket, ref, count, event, camera, held, historyVars,
                 calls, failures>>

\* The driver closes what is found in the field.
FreePart(i) ==
  /\ In(i, "free")
  /\ LET k == phase[i][2] IN
       /\ Guarded(k) \/ Parts[k] \in held
       /\ phase' = [phase EXCEPT ![i] = <<"forget", k>>]
  /\ UNCHANGED <<state, reason, todo, socket, threadVars, camera, held, historyVars, calls,
                 failures>>

\* The driver fails, or stop() has set the field to None since the test: the thread ends
\* there.
FreePartRaises(i) ==
  /\ In(i, "free")
  /\ LET k == phase[i][2] IN
       /\ ~Guarded(k)
       /\ IF Parts[k] \in held
            THEN /\ failures < MaxFailures
                 /\ failures' = failures + 1
                 /\ stuck' = stuck \union UpTo(k)
            ELSE UNCHANGED <<failures, stuck>>
  /\ phase' = [phase EXCEPT ![i] = <<"open", 1>>]
  /\ alive' = [alive EXCEPT !["source"] = @ \ {i}]
  /\ UNCHANGED <<state, reason, todo, socket, ref, count, event, camera, held, outlived,
                 crashed, aborted, calls>>

\* The field is set to None.
ForgetPart(i) ==
  /\ In(i, "forget")
  /\ LET k == phase[i][2] IN
       /\ held' = held \ {Parts[k]}
       /\ stuck' = stuck \ {Parts[k]}
       /\ Descend(i, k)
  /\ UNCHANGED <<state, reason, todo, socket, ref, count, event, camera, outlived, crashed,
                 aborted, calls, failures>>

SourceStep(i) ==
  \/ OpenPart(i) \/ OpenRaises(i) \/ LeaveLoop(i)
  \/ ClosePart(i) \/ FreePart(i) \/ FreePartRaises(i) \/ ForgetPart(i)

CallStep(c) ==
  \/ \E x \in Threaded \union Socketed :
       \/ Test(c, x) \/ Clear(c, x) \/ Bind(c, x) \/ BindRaises(c, x)
       \/ Create(c, x) \/ Respawn(c, x) \/ Spawn(c, x)
       \/ HaltService(c, x) \/ HaltFresh(c, x) \/ Tell(c, x)
       \/ Join(c, x) \/ JoinTimesOut(c, x) \/ Close(c, x) \/ Drop(c, x)
  \/ CreateRaises(c) \/ Release(c) \/ Free(c) \/ FreeRaises(c) \/ Forget(c)
  \/ \E s \in States : SetState(c, s)

ThreadStep == (\E x \in Threaded : ThreadEnds(x)) \/ (\E i \in Ids : SourceStep(i))

Next ==
  \/ \E c \in Callers : Start(c) \/ Stop(c) \/ CallStep(c)
  \/ ThreadStep
  \/ \E i \in Ids : CameraFails(i)

Spec == Init /\ [][Next]_vars

\* While threads that were told to stop, or open or close the camera, could go on, one of
\* them does: less than that each of them does, and enough, as none has more than a few
\* steps left.
FairSpec == Spec /\ WF_vars(ThreadStep)

--------------------------------------------------------------------------------
(* Properties.  The safety properties are about one caller and fail with two,  *)
(* all but CameraReleased.                                                     *)

\* After a stop, and after a start that failed half way, nothing is left behind:
\* no socket is open, no loop or client is referred to, and each live thread has
\* been told to stop (controller.py:150-159, 172-181).
NothingLeftBehind ==
  Idle /\ state \in {"STOPPED", "ERROR"} =>
    /\ \A x \in Socketed : socket[x] = "none"
    /\ \A x \in Fresh : ref[x] = 0
    /\ \A x \in Threaded : alive[x] \subseteq Told(x)

\* While RUNNING with no call in progress, each service is bound and has a thread
\* that was not told to stop -- with three exceptions.  The camera of a source failed.  A
\* service that is restarted in place had a thread that outlasted the join of a stop: start()
\* takes it for running and leaves its stop event set and its socket closed
\* (frame_source.py:79, 158).  Or an exception in the closing of the camera has left a stop,
\* or the clean-up of a start, half way: the loop is gone and the source is told to stop
\* (frame_source.py:344-363, controller.py:150-159, 172-181).
RunningServes ==
  Idle /\ state = "RUNNING" /\ ~aborted =>
    /\ socket["publisher"] = "bound"
    /\ \A x \in Threaded :
         \/ /\ ref[x] \in alive[x] \ Told(x)
            /\ x \in Socketed => socket[x] = "bound"
         \/ x \in Restartable /\ ref[x] \in outlived[x]
         \/ x = "source" /\ ref[x] \in crashed

\* The loop publishes on a socket that is bound, and a service reads from its own,
\* unless its join was given up: the order of start, stop and clean-up
\* (controller.py:142-156, 174-178).  A clean-up that an exception left half way has not
\* closed a publisher that could not be bound, and the next start takes it for started.
UsesOpenSockets ==
  \A x \in {"ingest", "source", "loop"} :
    \/ alive[x] \subseteq outlived[x]
    \/ socket[IF x = "loop" THEN "publisher" ELSE x] = "bound"
    \/ x = "loop" /\ aborted

\* Whoever closes the camera first, the thread or the stop that could not join it, no
\* part of it stays open when the thread has ended, but for those that the driver failed to
\* close and the ones below: a thread that is still opening when it is told to stop closes
\* what it opened since, and one that finds None in a field it has tested leaves the rest to
\* whoever put it there (frame_source.py:179-182, 246-248, 335-353).
CameraReleased == Idle /\ alive["source"] = {} => held \subseteq stuck

\* No thread reads a camera that was closed under it, unless its join was given up
\* (frame_source.py:179-182, 318-331).
ReadsOpenCamera ==
  \A i \in Ids : In(i, "read") /\ ~(Range(Parts) \subseteq held) => i \in outlived["source"]

\* A stop ends all threads unless a new call comes: those a join left behind too.
StopEndsThreads ==
  Idle /\ state = "STOPPED"
    ~> (\A x \in Threaded : alive[x] = {}) \/ ~Idle

\* "assert self._socket is not None" (zmq_sensor_ingest.py:89): the thread of the
\* sensor ingest finds the socket its start() has made.
AssertSocket ==
  [][alive'["ingest"] \subseteq alive["ingest"] \/ socket["ingest"] # "none"]_vars

================================================================================
