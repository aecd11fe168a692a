---------------------------- MODULE MCCallBridge -----------------------------
(* Small instances of CallBridge for TLC.                                   *)
EXTENDS CallBridge
=============================================================================
