---------------------------- MODULE MCRuntimeStatus ----------------------------
(* One thread asks for the status while another makes control calls.        *)
EXTENDS RuntimeStatus
================================================================================
