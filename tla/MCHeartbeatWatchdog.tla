-------------------------- MODULE MCHeartbeatWatchdog --------------------------
(* Two connections whose handlers interleave with the watchdog thread.      *)
EXTENDS HeartbeatWatchdog
================================================================================
