------------------------------- MODULE SmsRelay ------------------------------
(***************************************************************************)
(* An incoming SMS on its whole way, from the modem's store (SmsInbox) to  *)
(* the server (SmsHandoff).  The two meet in the journal, where capturing  *)
(* a message adds the row the bridge will offer, and in the bridge's       *)
(* receipts query, whose collection pass comes before its rows.            *)
(***************************************************************************)
EXTENDS SmsInbox, SmsHandoff

relayVars == <<vars, handoffVars>>

RelayInit == Init /\ HandoffInit

-----------------------------------------------------------------------------
(* Where the two meet.                                                     *)

\* A message captured for the first time is a row with no ack_status: due at once.
Collected(r) ==
  /\ Capture(r)
  /\ IF Archived(got[r]) THEN UNCHANGED handoffVars ELSE NewRow("received")

\* sync_once runs the helper only once it is through with the last batch.
StartPoll ==
  /\ thread = "sleep"
  /\ List("poll")
  /\ UNCHANGED handoffVars

\* The pass is over, and the same helper reads what is due.
Polled ==
  /\ EndPoll
  /\ Query \/ QueryEmpty

-----------------------------------------------------------------------------
(* The steps of each alone.                                                *)

PassStep(r) ==
  \/ Advance(r) \/ Read(r) \/ ReadFails(r) \/ EndScan(r)
  \/ Delete(r) \/ DeleteFails(r) \/ Abort(r) \/ Crash(r)

InboxStep ==
  /\ \/ \E c \in Contents : Arrive(c)
     \/ \E p \in Paths : Complete(p)
     \/ Restart
     \/ \E r \in Roles : PassStep(r)
     \/ List("alert") \/ ClaimAlerts \/ Announce
  /\ UNCHANGED handoffVars

HandoffStep ==
  /\ \/ NewRow("unknown")
     \/ \E i \in Rows : Verdict(i, "sent") \/ Verdict(i, "not_sent")
     \/ Accepted \/ Unanswered \/ Ack \/ AckFails \/ BridgeRestart
     \/ \E r \in Receipt : Late(r)
  /\ UNCHANGED vars

-----------------------------------------------------------------------------
RelayNext ==
  \/ \E r \in Roles : Collected(r)
  \/ StartPoll \/ Polled
  \/ InboxStep \/ HandoffStep

RelaySpec == RelayInit /\ [][RelayNext]_relayVars

-----------------------------------------------------------------------------
(* Properties.                                                             *)

Incoming == {i \in DOMAIN rows : rows[i].status = "received"}
HandedIn == {r \in server : r[2] = "received"}

\* The server never holds an incoming message that is not archived on the phone,
\* and once nothing is due it holds every one of them, each by one receipt:
\* nothing is dropped or invented between the modem and the server, although two
\* callers collect, receipts are lost or late, and each side restarts.
ServerMirrorsArchive ==
  /\ Cardinality(HandedIn) <= Len(archive)
  /\ Due = {} => Cardinality(HandedIn) = Len(archive)
=============================================================================
