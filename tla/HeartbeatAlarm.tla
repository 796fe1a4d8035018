---------------------------- MODULE HeartbeatAlarm ----------------------------
(***************************************************************************)
(* What a heartbeat watchdog promises, with no threads and no fields: one  *)
(* alarm, raised at most once and never withdrawn, never while a beat was  *)
(* heard within the last Grace ticks, and never later than Limit ticks     *)
(* after the newest beat as long as the watchdog is on duty.               *)
(***************************************************************************)
EXTENDS Integers

CONSTANTS
  Grace,   \* silence an alarm must exceed
  Limit    \* silence an on-duty watchdog never lets pass without an alarm

VARIABLES
  now,     \* the time
  beat,    \* time of the newest beat heard, 0 before the first one
  alarm,   \* the alarm has been raised
  onDuty   \* the watchdog has not been asked to stop

vars == <<now, beat, alarm, onDuty>>

Init ==
  /\ now = 0
  /\ beat = 0
  /\ alarm = FALSE
  /\ onDuty = TRUE

\* A beat is heard; the time it carries lies between the newest one and now.
Hear ==
  /\ beat' \in beat .. now
  /\ UNCHANGED <<now, alarm, onDuty>>

Raise ==
  /\ ~alarm
  /\ now - beat > Grace
  /\ alarm' = TRUE
  /\ UNCHANGED <<now, beat, onDuty>>

Tick ==
  /\ onDuty /\ ~alarm => now < beat + Limit
  /\ now' = now + 1
  /\ UNCHANGED <<beat, alarm, onDuty>>

GoOffDuty ==
  /\ onDuty' = FALSE
  /\ UNCHANGED <<now, beat, alarm>>

Next == Hear \/ Raise \/ Tick \/ GoOffDuty

Spec == Init /\ [][Next]_vars
================================================================================
