---------------------------- MODULE MCHeartbeatLink ----------------------------
(* The heartbeat loop and one application thread that sends an ESTOP.       *)
EXTENDS HeartbeatLink
MCKindsOf == [s \in Senders |-> IF s = "loop" THEN {"HEARTBEAT"} ELSE {"ESTOP"}]
================================================================================
