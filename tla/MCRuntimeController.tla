-------------------------- MODULE MCRuntimeController --------------------------
(* One caller makes four control calls while the camera and the perception  *)
(* loop may block; or two callers overlap.                                  *)
EXTENDS RuntimeController
================================================================================
