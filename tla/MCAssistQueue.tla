---------------------------- MODULE MCAssistQueue -----------------------------
(* AssistQueue on the few messages each cfg gives it.                       *)
EXTENDS AssistQueue, TLC
=============================================================================
