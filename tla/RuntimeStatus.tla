----------------------------- MODULE RuntimeStatus -----------------------------
(***************************************************************************)
(* JetsonRuntimeController.status (src/src/runtime/controller.py), called  *)
(* by the API and by the heartbeat thread for its payload, beside the      *)
(* control calls of RuntimeController and the threads that fill the sensor *)
(* store, the frame source and the statistics of the perception loop.      *)
(* status() takes no lock: it reads _state in several places and the rest  *)
(* in between.                                                             *)
(*                                                                         *)
(* Time is not represented: what status() compares with a limit, the age   *)
(* of a message, frame or result, may be on either side of it when it is   *)
(* read, and a device or a model file may exist or not.                    *)
(***************************************************************************)
EXTENDS RuntimeController

CONSTANTS
  Readers,  \* threads that call status()
  Streams   \* the sensor streams status() waits for: LiDAR and IMU

\* The pool of the API has a fixed number of threads.
ASSUME CallersAssumption == IsFiniteSet(Callers)

VARIABLES
  stream,   \* the streams of which SensorStore has a message
  outcome,  \* how the loop referred to last ended process_once
  reader    \* per reader: where it is in status() and its local variables

statusVars == <<vars, stream, outcome, reader>>

Ages == {"none", "fresh", "stale"}

\* What is there is fresh or stale at the time it is read.
AgeOf(present) == IF present THEN {"fresh", "stale"} ELSE {"none"}

\* Locals: the snapshot's ages, the loop's statistics (none if it is absent or not
\* running), `reason`, both availabilities, `ready`; and, as a history, the number
\* of control calls that ran at some time during this call.
Quiet ==
  [at |-> "idle", stream |-> [s \in Streams |-> "none"], loop |-> "absent",
   reason |-> FALSE, available |-> FALSE, ready |-> FALSE, overlap |-> 0]

StatusInit ==
  /\ Init
  /\ stream = {}
  /\ outcome = "none"
  /\ reader = [r \in Readers |-> Quiet]

--------------------------------------------------------------------------------
(* status().                                                               *)

InProgress == Cardinality({c \in Callers : todo[c] # <<>>})

Snapshot(r) ==
  /\ reader[r].at = "idle"
  /\ \E ages \in [Streams -> Ages] :
       /\ \A s \in Streams : ages[s] \in AgeOf(s \in stream)
       /\ reader' = [reader EXCEPT ![r] =
                       [Quiet EXCEPT !.at = "loop", !.stream = ages,
                                     !.overlap = InProgress]]
  /\ UNCHANGED <<vars, stream, outcome>>

Running(x) == ref[x] \in alive[x]

\* Mutant: the rung for a loop that has published nothing is missing.
LoopStats_NoRung ==
  CASE ~Running("loop") -> {"absent"}
    [] outcome = "error" -> {"error"}
    [] OTHER -> {"fresh", "stale"}

\* stats() of the perception loop: what the conditions of status() tell apart.
LoopStats ==
  CASE ~Running("loop") -> {"absent"}
    [] outcome = "error" -> {"error"}
    [] OTHER -> AgeOf(outcome = "result")

ReadLoop(r) ==
  /\ reader[r].at = "loop"
  /\ \E loop \in LoopStats :
       reader' = [reader EXCEPT ![r].at = "available", ![r].loop = loop,
                                ![r].reason = reason]
  /\ UNCHANGED <<vars, stream, outcome>>

\* _camera_available: a probe of a camera attached to the Jetson while STOPPED, else
\* a running source with a recent frame.
CameraAvailable(device, recent) ==
  IF state = "STOPPED" /\ camera # "scada_zmq" THEN device ELSE Running("source") /\ recent

ReadAvailable(r) ==
  /\ reader[r].at = "available"
  /\ \E engine, device, recent \in BOOLEAN :
       reader' = [reader EXCEPT
                    ![r].at = "ready",
                    ![r].available = engine /\ CameraAvailable(device, recent)]
  /\ UNCHANGED <<vars, stream, outcome>>

HasAll(r) == reader[r].available /\ \A s \in Streams : reader[r].stream[s] # "none"

ReadReady(r) ==
  /\ reader[r].at = "ready"
  /\ reader' = [reader EXCEPT ![r].at = "reason",
                              ![r].ready = state = "RUNNING" /\ HasAll(r)]
  /\ UNCHANGED <<vars, stream, outcome>>

Current(r) == reader[r].loop = "fresh" /\ \A s \in Streams : reader[r].stream[s] = "fresh"

\* Mutant: a stale stream or loop gives a reason and leaves `ready` as it is.
Ladder_OnlyReason(r) ==
  [reader[r] EXCEPT !.at = "report", !.reason = ~(HasAll(r) /\ Current(r))]

\* The ladder of conditions: what is missing gives a reason, what is present but
\* not current gives a reason and takes `ready` back.
Ladder(r) ==
  [reader[r] EXCEPT !.at = "report",
                    !.reason = ~(HasAll(r) /\ Current(r)),
                    !.ready = @ /\ (HasAll(r) => Current(r))]

ReadReason(r) ==
  /\ reader[r].at = "reason"
  /\ reader' = [reader EXCEPT ![r] =
                  IF state = "RUNNING" THEN Ladder(r) ELSE [@ EXCEPT !.at = "report"]]
  /\ UNCHANGED <<vars, stream, outcome>>

\* _state is read once more: the report is this state with `ready` and `reason`.
Report(r) ==
  /\ reader[r].at = "report"
  /\ reader' = [reader EXCEPT ![r] = Quiet]
  /\ UNCHANGED <<vars, stream, outcome>>

Status(r) ==
  \/ Snapshot(r) \/ ReadLoop(r) \/ ReadAvailable(r) \/ ReadReady(r)
  \/ ReadReason(r) \/ Report(r)

--------------------------------------------------------------------------------
(* What the services' threads write.                                       *)

Receive ==
  /\ alive["ingest"] # {} /\ socket["ingest"] = "bound"
  /\ \E s \in Streams : stream' = stream \union {s}
  /\ UNCHANGED <<vars, outcome, reader>>

\* process_once publishes a result, or the loop catches an exception.  The frame may
\* be an old one: the source keeps its last frame when it is stopped.
Process ==
  /\ Running("loop")
  /\ outcome' \in {"result", "error"}
  /\ UNCHANGED <<vars, stream, reader>>

\* A control step: a new loop has statistics of its own, the sensor store keeps what
\* it has.
Control ==
  /\ Next
  /\ outcome' = IF ref'["loop"] \in {0, ref["loop"]} THEN outcome ELSE "none"
  /\ reader' = [r \in Readers |->
                  IF reader[r].at = "idle" THEN reader[r]
                  ELSE [reader[r] EXCEPT !.overlap = @ + calls' - calls]]
  /\ UNCHANGED stream

StatusNext ==
  \/ \E r \in Readers : Status(r)
  \/ Receive \/ Process
  \/ Control

StatusSpec == StatusInit /\ [][StatusNext]_statusVars

--------------------------------------------------------------------------------
(* Properties.  A report is made where reader[r].at = "report".            *)

\* A status that says ready and RUNNING is about a loop that serves now and has
\* published: the loop that was asked is the one that runs -- unless two control
\* calls, a stop and a start, or one still in progress, ran during the status call, or
\* an exception has left a stop half way (controller.py:183-234).
ReadyMeansServing ==
  \A r \in Readers :
    reader[r].at = "report" /\ reader[r].ready /\ state = "RUNNING"
      /\ reader[r].overlap <= 1 /\ Idle /\ ~aborted
      => /\ ref["loop"] \in alive["loop"] \ Told("loop")
         /\ outcome # "none"
         /\ socket["publisher"] = "bound"

\* A status that no control call ran beside is consistent: ready only when RUNNING,
\* and while RUNNING either ready or with a reason; after a failed start there is a
\* reason (controller.py:187-232).  Beside a stop, the second read of _state may find
\* STOPPED and skip the conditions: ready is then reported on stale streams.
StatusConsistent ==
  \A r \in Readers :
    reader[r].at = "report" /\ reader[r].overlap = 0 =>
      /\ reader[r].ready => state = "RUNNING"
      /\ state = "RUNNING" => (reader[r].ready <=> ~reader[r].reason)
      /\ state = "ERROR" => reader[r].reason

================================================================================
