--------------------------- MODULE HeartbeatWatchdog ---------------------------
(***************************************************************************)
(* The Raspberry Pi's heartbeat watchdog (src/src/comm/health_monitor.py), *)
(* shared without a lock by the watchdog thread, which calls check(), and  *)
(* the connection handler threads, which call record_heartbeat().  A step  *)
(* is one read or write of a shared field; between two of them any other   *)
(* thread may run, as the call of _clock() and, up to Python 3.10, the     *)
(* look-up of SafetyState.ESTOP let it.                                    *)
(*                                                                         *)
(* Time is a discrete clock.  A thread that has read it completes its call *)
(* within Lag ticks and the watchdog thread wakes within Lag ticks of the  *)
(* end of its wait: Lag is the scheduling latency of the machine.          *)
(***************************************************************************)
EXTENDS Integers

CONSTANTS
  Handlers,       \* connection handler threads
  Timeout,        \* timeout_ms
  CheckInterval,  \* check_interval_ms
  Lag,            \* scheduling latency
  MaxClock,       \* bound on the clock
  None            \* Python's None

ASSUME TimesAssumption ==
  /\ Timeout \in Nat /\ CheckInterval \in Nat /\ Lag \in Nat /\ MaxClock \in Nat
  /\ None \notin Int

VARIABLES
  clock,           \* the machine's monotonic clock
  lastHeartbeat,   \* last_heartbeat_ms
  state,           \* state
  estopTriggered,  \* estop_triggered
  alarms,          \* calls of on_estop
  stopping,        \* HeartbeatServerDaemon._stop_event
  handlerAt,       \* where each handler is in record_heartbeat
  handlerNow,      \* the clock value it read
  watchdogAt,      \* where the watchdog thread is in _watchdog_loop and check
  checkNow,        \* `now` of the check in progress
  wakeAt,          \* when its wait ends
  newest           \* history: the newest heartbeat time that was stored

fields == <<lastHeartbeat, state, estopTriggered, alarms>>
handlerVars == <<handlerAt, handlerNow>>
watchdogVars == <<watchdogAt, checkNow, wakeAt>>
vars == <<clock, fields, stopping, handlerVars, watchdogVars, newest>>

HandlerPoints == {"idle", "store", "test", "clear"}
CheckPoints == {"first", "arm", "compare", "latch", "stop", "notify"}

TypeOK ==
  /\ clock \in Nat
  /\ lastHeartbeat \in Nat \union {None}
  /\ state \in {"NORMAL", "ESTOP"}
  /\ estopTriggered \in BOOLEAN
  /\ alarms \in {0, 1}
  /\ stopping \in BOOLEAN
  /\ handlerAt \in [Handlers -> HandlerPoints]
  /\ handlerNow \in [Handlers -> Nat]
  /\ watchdogAt \in CheckPoints \union {"wait", "exited"}
  /\ checkNow \in Nat
  /\ wakeAt \in Nat
  /\ newest \in Nat

Init ==
  /\ clock = 0
  /\ lastHeartbeat = None
  /\ state = "NORMAL"
  /\ estopTriggered = FALSE
  /\ alarms = 0
  /\ stopping = FALSE
  /\ handlerAt = [h \in Handlers |-> "idle"]
  /\ handlerNow = [h \in Handlers |-> 0]
  /\ watchdogAt = "wait"
  /\ checkNow = 0
  /\ wakeAt = 0
  /\ newest = 0

--------------------------------------------------------------------------------
(* record_heartbeat, called by a handler thread for a HEARTBEAT packet.    *)

ReadClock(h) ==
  /\ handlerAt[h] = "idle"
  /\ handlerAt' = [handlerAt EXCEPT ![h] = "store"]
  /\ handlerNow' = [handlerNow EXCEPT ![h] = clock]
  /\ UNCHANGED <<clock, fields, stopping, watchdogVars, newest>>

StoreTime(h) ==
  /\ handlerAt[h] = "store"
  /\ handlerAt' = [handlerAt EXCEPT ![h] = "test"]
  /\ lastHeartbeat' = handlerNow[h]
  /\ newest' = IF handlerNow[h] > newest THEN handlerNow[h] ELSE newest
  /\ UNCHANGED <<clock, state, estopTriggered, alarms, stopping, handlerNow,
                 watchdogVars>>

\* Mutant: record_heartbeat without the test of line 44.
TestState_NoTest(h) ==
  /\ handlerAt[h] = "test"
  /\ handlerAt' = [handlerAt EXCEPT ![h] = "clear"]
  /\ UNCHANGED <<clock, fields, stopping, handlerNow, watchdogVars, newest>>

TestState(h) ==
  /\ handlerAt[h] = "test"
  /\ handlerAt' = [handlerAt EXCEPT ![h] =
                     IF state # "ESTOP" THEN "clear" ELSE "idle"]
  /\ UNCHANGED <<clock, fields, stopping, handlerNow, watchdogVars, newest>>

ClearState(h) ==
  /\ handlerAt[h] = "clear"
  /\ handlerAt' = [handlerAt EXCEPT ![h] = "idle"]
  /\ state' = "NORMAL"
  /\ UNCHANGED <<clock, lastHeartbeat, estopTriggered, alarms, stopping,
                 handlerNow, watchdogVars, newest>>

RecordHeartbeat(h) == ReadClock(h) \/ StoreTime(h) \/ TestState(h) \/ ClearState(h)

--------------------------------------------------------------------------------
(* _watchdog_loop and check, run by the watchdog thread.                   *)

\* The watchdog thread returns from check and waits for the next round.
WaitAgain ==
  /\ watchdogAt' = "wait"
  /\ wakeAt' = clock + CheckInterval

BeginCheck ==
  /\ watchdogAt = "wait"
  /\ ~stopping
  /\ clock >= wakeAt
  /\ watchdogAt' = "first"
  /\ checkNow' = clock
  /\ UNCHANGED <<clock, fields, stopping, handlerVars, wakeAt, newest>>

CheckFirst ==
  /\ watchdogAt = "first"
  /\ watchdogAt' = IF lastHeartbeat = None THEN "arm" ELSE "compare"
  /\ UNCHANGED <<clock, fields, stopping, handlerVars, checkNow, wakeAt, newest>>

\* Mutant: the first check returns without storing its time.
Arm_NotStored ==
  /\ watchdogAt = "arm"
  /\ WaitAgain
  /\ UNCHANGED <<clock, fields, stopping, handlerVars, checkNow, newest>>

Arm ==
  /\ watchdogAt = "arm"
  /\ lastHeartbeat' = checkNow
  /\ WaitAgain
  /\ UNCHANGED <<clock, state, estopTriggered, alarms, stopping, handlerVars,
                 checkNow, newest>>

\* Mutant: the timeout reached rather than exceeded.
Expired_TooSoon == checkNow - lastHeartbeat >= Timeout /\ ~estopTriggered

Expired == checkNow - lastHeartbeat > Timeout /\ ~estopTriggered

Compare ==
  /\ watchdogAt = "compare"
  /\ IF Expired
       THEN watchdogAt' = "latch" /\ wakeAt' = wakeAt
       ELSE WaitAgain
  /\ UNCHANGED <<clock, fields, stopping, handlerVars, checkNow, newest>>

Latch ==
  /\ watchdogAt = "latch"
  /\ estopTriggered' = TRUE
  /\ watchdogAt' = "stop"
  /\ UNCHANGED <<clock, lastHeartbeat, state, alarms, stopping, handlerVars,
                 checkNow, wakeAt, newest>>

StopRobot ==
  /\ watchdogAt = "stop"
  /\ state' = "ESTOP"
  /\ watchdogAt' = "notify"
  /\ UNCHANGED <<clock, lastHeartbeat, estopTriggered, alarms, stopping,
                 handlerVars, checkNow, wakeAt, newest>>

Notify ==
  /\ watchdogAt = "notify"
  /\ alarms' = alarms + 1
  /\ WaitAgain
  /\ UNCHANGED <<clock, lastHeartbeat, state, estopTriggered, stopping,
                 handlerVars, checkNow, newest>>

\* The wait returns early once the stop event is set, and the loop ends.
ExitLoop ==
  /\ watchdogAt = "wait"
  /\ stopping
  /\ watchdogAt' = "exited"
  /\ UNCHANGED <<clock, fields, stopping, handlerVars, checkNow, wakeAt, newest>>

WatchdogStep ==
  \/ BeginCheck \/ CheckFirst \/ Arm \/ Compare
  \/ Latch \/ StopRobot \/ Notify \/ ExitLoop

--------------------------------------------------------------------------------
(* HeartbeatServerDaemon.stop, and the passing of time.                    *)

RequestStop ==
  /\ ~stopping
  /\ stopping' = TRUE
  /\ UNCHANGED <<clock, fields, handlerVars, watchdogVars, newest>>

Tick ==
  /\ clock < MaxClock
  /\ \A h \in Handlers : handlerAt[h] # "idle" => clock < handlerNow[h] + Lag
  /\ watchdogAt = "wait" => clock < wakeAt + Lag
  /\ watchdogAt \in CheckPoints => clock < checkNow + Lag
  /\ clock' = clock + 1
  /\ UNCHANGED <<fields, stopping, handlerVars, watchdogVars, newest>>

Next ==
  \/ \E h \in Handlers : RecordHeartbeat(h)
  \/ WatchdogStep
  \/ RequestStop
  \/ Tick

Spec == Init /\ [][Next]_vars

--------------------------------------------------------------------------------
(* Properties                                                              *)

\* The decision to stop is taken when check() compares the times, two steps
\* before the flag that records it is set.
Alarmed == estopTriggered \/ watchdogAt = "latch"

\* check() measures silence against last_heartbeat_ms, which handler threads
\* may store out of order: an older reading by at most Lag ticks.
Grace == Timeout - Lag

\* First arming, the last check that finds no timeout, the wait and the check
\* that follows may each be late by Lag.
Limit == Timeout + CheckInterval + 4 * Lag

Alarm == INSTANCE HeartbeatAlarm
           WITH now <- clock, beat <- newest, alarm <- Alarmed,
                onDuty <- ~stopping

\* HeartbeatWatchdog (health_monitor.py:27-58) implements a one-shot alarm: it
\* never fires while a heartbeat was stored within Timeout - Lag ticks, and
\* while the loop runs it fires at most Limit ticks after the newest one, even
\* if no heartbeat ever came.
AlarmSpec == Alarm!Spec

\* The time that last_heartbeat_ms and `now` are apart from the truth: the parts
\* of the inductive invariant behind AlarmSpec.
HandlerTiming ==
  \A h \in Handlers : handlerAt[h] # "idle" =>
    handlerNow[h] <= clock /\ clock <= handlerNow[h] + Lag

CheckTiming ==
  /\ watchdogAt = "wait" => clock <= wakeAt + Lag
  /\ watchdogAt \in CheckPoints =>
       /\ checkNow <= clock /\ clock <= checkNow + Lag
       /\ checkNow <= wakeAt + Lag
  /\ watchdogAt = "exited" => stopping

LastNearNewest ==
  /\ newest <= clock
  /\ lastHeartbeat # None =>
       lastHeartbeat <= newest + Lag /\ newest <= lastHeartbeat + Lag

Arming ==
  /\ lastHeartbeat = None \/ watchdogAt = "arm" => wakeAt = 0
  /\ watchdogAt = "compare" => lastHeartbeat # None

Deadline == ~Alarmed => wakeAt <= newest + Timeout + CheckInterval + 2 * Lag

AlarmPhase ==
  /\ watchdogAt \in {"latch", "stop", "notify"} => alarms = 0
  /\ watchdogAt = "latch" => ~estopTriggered
  /\ watchdogAt \in {"stop", "notify"} => estopTriggered
  /\ ~estopTriggered => alarms = 0

\* However check() and record_heartbeat() interleave, the stored heartbeat time
\* is within Lag of the newest one, no check runs on a time older than Lag, the
\* next check is due before the alarm would be late, and the callback runs at
\* most once, after the latch (health_monitor.py:42-58, 284-288).
IInv ==
  /\ HandlerTiming
  /\ CheckTiming
  /\ LastNearNewest
  /\ Arming
  /\ Deadline
  /\ AlarmPhase

\* No handler is past the test of line 44 and about to write NORMAL.
NoPendingClear == \A h \in Handlers : handlerAt[h] # "clear"

\* An ESTOP that no handler was about to overwrite when it took effect is never
\* lifted by a heartbeat that comes later (record_heartbeat, lines 44-45).
SettledEstopPersists ==
  [][state = "ESTOP" /\ NoPendingClear
       => state' = "ESTOP" /\ NoPendingClear']_vars

\* "ESTOP state persists indefinitely without manual intervention"
\* (docs/specs/safety-state-machine.md:240): no step takes the watchdog out of
\* ESTOP.  The code has no reset, so there is no manual intervention either.
EstopPersists == [][state = "ESTOP" => state' = "ESTOP"]_vars

================================================================================
