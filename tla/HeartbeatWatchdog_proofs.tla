----------------------- MODULE HeartbeatWatchdog_proofs -----------------------
(***************************************************************************)
(* Proofs about the watchdog for any number of handler threads and any     *)
(* Timeout, CheckInterval and Lag.                                         *)
(***************************************************************************)
EXTENDS HeartbeatWatchdog, TLAPS

\* The watchdog starts disarmed, with its first check due at once.
LEMMA Initially == Init => TypeOK /\ IInv
  <1> SUFFICES ASSUME Init PROVE TypeOK /\ IInv
    OBVIOUS
  <1>1. TypeOK
    BY DEF Init, TypeOK, HandlerPoints
  <1>2. HandlerTiming /\ Arming /\ AlarmPhase
    BY DEF Init, HandlerTiming, Arming, AlarmPhase
  <1>3. CheckTiming /\ LastNearNewest /\ Deadline
    BY TimesAssumption
    DEF Init, CheckTiming, CheckPoints, LastNearNewest, Deadline
  <1>4. QED
    BY <1>1, <1>2, <1>3 DEF IInv

\* Every step of every thread keeps the fields in their types; the callback
\* cannot run twice because AlarmPhase holds.
LEMMA TypeStep == TypeOK /\ AlarmPhase /\ [Next]_vars => TypeOK'
  <1> SUFFICES ASSUME TypeOK, AlarmPhase, [Next]_vars PROVE TypeOK'
    OBVIOUS
  <1> USE DEF TypeOK, HandlerPoints, CheckPoints
  <1>1. ASSUME NEW h \in Handlers, RecordHeartbeat(h) PROVE TypeOK'
    <2>1. CASE ReadClock(h)
      BY <2>1 DEF ReadClock, fields, watchdogVars
    <2>2. CASE StoreTime(h)
      BY <2>2 DEF StoreTime, watchdogVars
    <2>3. CASE TestState(h)
      BY <2>3 DEF TestState, fields, watchdogVars
    <2>4. CASE ClearState(h)
      BY <2>4 DEF ClearState, watchdogVars
    <2>5. QED
      BY <1>1, <2>1, <2>2, <2>3, <2>4 DEF RecordHeartbeat
  <1>2. ASSUME WatchdogStep PROVE TypeOK'
    <2> USE TimesAssumption DEF fields, handlerVars, WaitAgain
    <2>1. CASE BeginCheck
      BY <2>1 DEF BeginCheck
    <2>2. CASE CheckFirst
      BY <2>2 DEF CheckFirst
    <2>3. CASE Arm
      BY <2>3 DEF Arm
    <2>4. CASE Compare
      BY <2>4 DEF Compare
    <2>5. CASE Latch
      BY <2>5 DEF Latch
    <2>6. CASE StopRobot
      BY <2>6 DEF StopRobot
    <2>7. CASE Notify
      BY <2>7 DEF Notify, AlarmPhase
    <2>8. CASE ExitLoop
      BY <2>8 DEF ExitLoop
    <2>9. QED
      BY <1>2, <2>1, <2>2, <2>3, <2>4, <2>5, <2>6, <2>7, <2>8 DEF WatchdogStep
  <1>3. CASE RequestStop
    BY <1>3 DEF RequestStop, fields, handlerVars, watchdogVars
  <1>4. CASE Tick
    BY <1>4 DEF Tick, fields, handlerVars, watchdogVars
  <1>5. CASE UNCHANGED vars
    BY <1>5 DEF vars, fields, handlerVars, watchdogVars
  <1>6. QED
    BY <1>1, <1>2, <1>3, <1>4, <1>5 DEF Next

\* A handler that stores its reading moves last_heartbeat_ms back by at most Lag.
LEMMA HandlerStep ==
  ASSUME TypeOK, IInv, NEW h \in Handlers, RecordHeartbeat(h)
  PROVE  IInv'
  <1> USE TimesAssumption DEF TypeOK, IInv, HandlerTiming, CheckTiming,
          LastNearNewest, Arming, Deadline, Alarmed, AlarmPhase, HandlerPoints,
          CheckPoints
  <1>1. CASE ReadClock(h)
    BY <1>1 DEF ReadClock, fields, watchdogVars
  <1>2. CASE StoreTime(h)
    BY <1>2 DEF StoreTime, watchdogVars
  <1>3. CASE TestState(h)
    BY <1>3 DEF TestState, fields, watchdogVars
  <1>4. CASE ClearState(h)
    BY <1>4 DEF ClearState, watchdogVars
  <1>5. QED
    BY <1>1, <1>2, <1>3, <1>4 DEF RecordHeartbeat

\* A check that finds no timeout is due again before the alarm would be late.
LEMMA CheckStep == ASSUME TypeOK, IInv, WatchdogStep PROVE IInv'
  <1> USE TimesAssumption DEF TypeOK, IInv, HandlerTiming, CheckTiming,
          LastNearNewest, Arming, Deadline, Alarmed, AlarmPhase, CheckPoints,
          fields, handlerVars, WaitAgain
  <1>1. CASE BeginCheck
    BY <1>1 DEF BeginCheck
  <1>2. CASE CheckFirst
    BY <1>2 DEF CheckFirst
  <1>3. CASE Arm
    BY <1>3 DEF Arm
  <1>4. CASE Compare
    BY <1>4 DEF Compare, Expired
  <1>5. CASE Latch
    BY <1>5 DEF Latch
  <1>6. CASE StopRobot
    BY <1>6 DEF StopRobot
  <1>7. CASE Notify
    BY <1>7 DEF Notify
  <1>8. CASE ExitLoop
    BY <1>8 DEF ExitLoop
  <1>9. QED
    BY <1>1, <1>2, <1>3, <1>4, <1>5, <1>6, <1>7, <1>8 DEF WatchdogStep

\* No step of any thread, and no tick, breaks the timing invariant.
LEMMA InvStep == TypeOK /\ IInv /\ [Next]_vars => IInv'
  <1> SUFFICES ASSUME TypeOK, IInv, [Next]_vars PROVE IInv'
    OBVIOUS
  <1> USE DEF IInv, HandlerTiming, CheckTiming, LastNearNewest, Arming,
          Deadline, Alarmed, AlarmPhase, fields, handlerVars, watchdogVars
  <1>1. ASSUME NEW h \in Handlers, RecordHeartbeat(h) PROVE IInv'
    BY <1>1, HandlerStep
  <1>2. CASE WatchdogStep
    BY <1>2, CheckStep
  <1>3. CASE RequestStop
    BY <1>3 DEF RequestStop
  <1>4. CASE Tick
    BY <1>4, TimesAssumption DEF Tick, TypeOK, CheckPoints, HandlerPoints
  <1>5. CASE UNCHANGED vars
    BY <1>5 DEF vars
  <1>6. QED
    BY <1>1, <1>2, <1>3, <1>4, <1>5 DEF Next

--------------------------------------------------------------------------------

\* The fields keep their types and the callback runs at most once, in every
\* interleaving of check() and record_heartbeat() (health_monitor.py:42-58).
THEOREM TypeCorrect == Spec => []TypeOK
  <1>1. Init => TypeOK /\ IInv
    BY Initially
  <1>2. TypeOK /\ IInv /\ [Next]_vars => (TypeOK /\ IInv)'
    BY TypeStep, InvStep DEF IInv
  <1>3. QED
    BY <1>1, <1>2, PTL DEF Spec

\* The inductive invariant behind the timing of the alarm holds.
THEOREM Invariance == Spec => []IInv
  <1>1. Init => TypeOK /\ IInv
    BY Initially
  <1>2. TypeOK /\ IInv /\ [Next]_vars => (TypeOK /\ IInv)'
    BY TypeStep, InvStep DEF IInv
  <1>3. QED
    BY <1>1, <1>2, PTL DEF Spec

\* An ESTOP with no handler between lines 44 and 45 is never lifted.
THEOREM SettledEstop == Spec => SettledEstopPersists
  <1> DEFINE Kept == state = "ESTOP" /\ NoPendingClear
                       => state' = "ESTOP" /\ NoPendingClear'
  <1>1. TypeOK /\ [Next]_vars => Kept
    <2> SUFFICES ASSUME TypeOK, [Next]_vars, state = "ESTOP", NoPendingClear
                 PROVE  state' = "ESTOP" /\ NoPendingClear'
      OBVIOUS
    <2> USE DEF NoPendingClear, TypeOK, fields, handlerVars, watchdogVars
    <2>1. ASSUME NEW h \in Handlers, RecordHeartbeat(h)
          PROVE  state' = "ESTOP" /\ NoPendingClear'
      BY <2>1 DEF RecordHeartbeat, ReadClock, StoreTime, TestState, ClearState
    <2>2. CASE WatchdogStep
      BY <2>2 DEF WatchdogStep, BeginCheck, CheckFirst, Arm, Compare, Latch,
                  StopRobot, Notify, ExitLoop
    <2>3. CASE RequestStop \/ Tick \/ UNCHANGED vars
      BY <2>3 DEF RequestStop, Tick, vars
    <2>4. QED
      BY <2>1, <2>2, <2>3 DEF Next
  <1>2. TypeOK /\ [Next]_vars => [Kept]_vars
    BY <1>1
  <1>3. QED
    BY <1>2, TypeCorrect, PTL DEF Spec, SettledEstopPersists

--------------------------------------------------------------------------------

\* A check that decides to stop the robot saw more than Grace ticks of silence.
LEMMA CheckRefines ==
  ASSUME TypeOK, IInv, WatchdogStep
  PROVE  Alarm!Raise \/ UNCHANGED Alarm!vars
  <1> USE TimesAssumption DEF TypeOK, Alarm!Raise, Alarm!vars, Alarmed,
          CheckPoints, fields, handlerVars, WaitAgain
  <1>1. CASE Compare
    <2>1. CASE Expired
      <3>1. ~Alarmed /\ Alarmed'
        BY <1>1, <2>1 DEF Compare, Expired
      <3>2. clock - newest > Grace
        BY <1>1, <2>1 DEF Compare, Expired, Grace, IInv, CheckTiming,
                          LastNearNewest, Arming
      <3>3. QED
        BY <1>1, <3>1, <3>2 DEF Compare
    <2>2. CASE ~Expired
      BY <1>1, <2>2 DEF Compare
    <2>3. QED
      BY <2>1, <2>2
  <1>2. CASE Latch
    BY <1>2 DEF Latch
  <1>3. CASE BeginCheck \/ CheckFirst \/ Arm \/ StopRobot \/ Notify \/ ExitLoop
    BY <1>3 DEF BeginCheck, CheckFirst, Arm, StopRobot, Notify, ExitLoop
  <1>4. QED
    BY <1>1, <1>2, <1>3 DEF WatchdogStep

\* A heartbeat stored by a handler is a beat the alarm hears.
LEMMA HandlerRefines ==
  ASSUME TypeOK, IInv, NEW h \in Handlers, RecordHeartbeat(h)
  PROVE  Alarm!Hear \/ UNCHANGED Alarm!vars
  <1> USE DEF TypeOK, Alarm!Hear, Alarm!vars, Alarmed, fields, watchdogVars,
          HandlerPoints
  <1>1. CASE StoreTime(h)
    BY <1>1 DEF StoreTime, IInv, HandlerTiming, LastNearNewest
  <1>2. CASE ReadClock(h) \/ TestState(h) \/ ClearState(h)
    BY <1>2 DEF ReadClock, TestState, ClearState
  <1>3. QED
    BY <1>1, <1>2 DEF RecordHeartbeat

\* Time cannot pass the alarm's limit while the loop runs.
LEMMA TickRefines == ASSUME TypeOK, IInv, Tick PROVE Alarm!Tick
  <1>1. ~stopping /\ ~Alarmed => clock < newest + Limit
    BY TimesAssumption
    DEF TypeOK, Tick, IInv, CheckTiming, Deadline, Limit, CheckPoints, Alarmed
  <1>2. QED
    BY <1>1 DEF Tick, Alarm!Tick, Alarmed, fields, handlerVars, watchdogVars

\* The interleaved code implements the one-shot alarm: never raised within
\* Timeout - Lag of a heartbeat, never later than Limit after the newest one.
THEOREM Refinement == Spec => AlarmSpec
  <1>1. Init => Alarm!Init
    BY DEF Init, Alarm!Init, Alarmed
  <1>2. TypeOK /\ IInv /\ [Next]_vars => [Alarm!Next]_Alarm!vars
    <2> SUFFICES ASSUME TypeOK, IInv, [Next]_vars
                 PROVE  Alarm!Next \/ UNCHANGED Alarm!vars
      OBVIOUS
    <2>1. CASE \E h \in Handlers : RecordHeartbeat(h)
      BY <2>1, HandlerRefines DEF Alarm!Next
    <2>2. CASE WatchdogStep
      BY <2>2, CheckRefines DEF Alarm!Next
    <2>3. CASE RequestStop
      BY <2>3 DEF RequestStop, Alarm!Next, Alarm!GoOffDuty, Alarmed, fields,
                  handlerVars, watchdogVars
    <2>4. CASE Tick
      BY <2>4, TickRefines DEF Alarm!Next
    <2>5. CASE UNCHANGED vars
      BY <2>5 DEF vars, Alarm!vars, Alarmed, fields, handlerVars, watchdogVars
    <2>6. QED
      BY <2>1, <2>2, <2>3, <2>4, <2>5 DEF Next
  <1>3. QED
    BY <1>1, <1>2, TypeCorrect, Invariance, PTL DEF Spec, AlarmSpec, Alarm!Spec
================================================================================
