------------------------------ MODULE MCSmsInbox -----------------------------
(* Small instances of SmsInbox for TLC.  "plain" can be deleted from the    *)
(* modem once archived, "stuck" cannot be read.                             *)
EXTENDS SmsInbox

CONSTANTS plain, stuck
=============================================================================
