---------------------------- MODULE MCStreamTurn -----------------------------
(* StreamTurn on two chats and a plain request.                             *)
EXTENDS StreamTurn, TLC
=============================================================================
