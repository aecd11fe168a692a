------------------------------ MODULE SmsHandoff -----------------------------
(***************************************************************************)
(* Handing the phone's SMS journal to the server: the receipts and ack     *)
(* operations of openrc-sms-root, driven by the bridge's one polling       *)
(* thread (sms_forward.py sync_once, poll_loop).  Rows appear and get      *)
(* their verdicts as SmsInbox and SmsJournal say; here they are given.     *)
(***************************************************************************)
EXTENDS Naturals, Sequences, SequencesExt, FiniteSetsExt

CONSTANTS
  MaxRows,  \* bound: journal rows
  Refused,  \* rows the server never accepts
  Limit,    \* the LIMIT of the receipts query
  MaxLosses \* bound: lost outputs and answers, failed acks, bridge restarts

ASSUME HandoffAssumption ==
  /\ MaxRows \in Nat \ {0} /\ Limit \in Nat \ {0} /\ MaxLosses \in Nat
  /\ Refused \subseteq 1 .. MaxRows

Rows == 1 .. MaxRows
Statuses == {"received", "unknown", "sent", "not_sent"}
NoAck == "none"

VARIABLES
  rows,    \* the journal in rowid order: status, ack_status, last_offered
  thread,  \* the bridge's polling thread: "sleep", "handoff", "ack"
  batch,   \* the receipts in hand, as <<row, status>>; the first is the current one
  wire,    \* requests the network still holds
  server,  \* receipts the server made durable
  losses

handoffVars == <<rows, thread, batch, wire, server, losses>>

Receipt == Rows \X Statuses
Row == [status : Statuses, ack : Statuses \cup {NoAck}, offered : 0 .. MaxRows]

HandoffTypeOK ==
  /\ rows \in Seq(Row) /\ Len(rows) <= MaxRows
  /\ thread \in {"sleep", "handoff", "ack"}
  /\ batch \in Seq(Receipt) /\ Len(batch) <= Limit
  /\ wire \subseteq Receipt
  /\ server \subseteq Receipt
  /\ losses \in 0 .. MaxLosses

HandoffInit ==
  /\ rows = <<>>
  /\ thread = "sleep"
  /\ batch = <<>>
  /\ wire = {}
  /\ server = {}
  /\ losses = 0

-----------------------------------------------------------------------------
(* The rest of the phone.                                                  *)

\* An incoming message is captured, or an attempt is claimed.
NewRow(status) ==
  /\ Len(rows) < MaxRows
  /\ rows' = Append(rows, [status |-> status, ack |-> NoAck, offered |-> 0])
  /\ UNCHANGED <<thread, batch, wire, server, losses>>

\* The claimant of an attempt records its verdict.
Verdict(i, v) ==
  /\ i \in DOMAIN rows /\ rows[i].status = "unknown"
  /\ rows' = [rows EXCEPT ![i].status = v]
  /\ UNCHANGED <<thread, batch, wire, server, losses>>

-----------------------------------------------------------------------------
(* The receipts query.                                                     *)

Fault == losses < MaxLosses /\ losses' = losses + 1

Due == {i \in DOMAIN rows : rows[i].ack # rows[i].status}

\* ORDER BY last_offered, rowid
Sooner(i, j) ==
  \/ rows[i].offered < rows[j].offered
  \/ rows[i].offered = rows[j].offered /\ i < j

\* last_offered counts turns without bound, and only its order matters: turns
\* are renumbered 1, 2, ... with 0 kept for rows never offered.
Renumbered(turn) ==
  LET turns == {turn[i] : i \in DOMAIN turn} \ {0}
  IN [i \in DOMAIN turn |-> Cardinality({t \in turns : t <= turn[i]})]

\* Mutant of Offer: the turn is not stored.
OfferUnstored(chosen) == UNCHANGED rows

\* The rows chosen get the next turn, committed before they are printed.
Offer(chosen) ==
  LET last == Max({rows[i].offered : i \in DOMAIN rows})
      turn == Renumbered([i \in DOMAIN rows |->
                            IF i \in Range(chosen) THEN last + 1 ELSE rows[i].offered])
  IN rows' = [i \in DOMAIN rows |-> [rows[i] EXCEPT !.offered = turn[i]]]

\* The first n rows due, in that order.
FirstDue(n) ==
  {order \in [1 .. n -> Due] :
     /\ \A k \in 1 .. n - 1 : Sooner(order[k], order[k + 1])
     /\ \A i \in Due \ Range(order) : Sooner(order[n], i)}

\* Mutant of Query: no LIMIT.
QueryAll ==
  /\ thread = "sleep" /\ Due # {}
  /\ \E chosen \in FirstDue(Cardinality(Due)) :
       /\ Offer(chosen)
       /\ thread' = "handoff"
       /\ batch' = [k \in DOMAIN chosen |-> <<chosen[k], rows[chosen[k]].status>>]
  /\ UNCHANGED <<wire, server, losses>>

\* LIMIT, and the output bound may cut the batch shorter (never to nothing).
Query ==
  /\ thread = "sleep"
  /\ \E n \in 1 .. Limit : \E chosen \in FirstDue(n) :
       /\ Offer(chosen)
       /\ \/ /\ thread' = "handoff"
             /\ batch' = [k \in 1 .. n |-> <<chosen[k], rows[chosen[k]].status>>]
             /\ UNCHANGED losses
          \/ Fault /\ UNCHANGED <<thread, batch>>   \* killed, or its output was lost
  /\ UNCHANGED <<wire, server>>

\* Nothing is due: the loop sleeps on.
QueryEmpty ==
  /\ thread = "sleep" /\ Due = {}
  /\ UNCHANGED handoffVars

-----------------------------------------------------------------------------
(* The bridge.                                                             *)

\* The loop's continue: on to the next receipt, or to sleep after the last.
NextReceipt ==
  /\ batch' = Tail(batch)
  /\ thread' = IF Len(batch) = 1 THEN "sleep" ELSE "handoff"

\* The server makes the receipt durable and its answer reaches the bridge.
Accepted ==
  /\ thread = "handoff" /\ Head(batch)[1] \notin Refused
  /\ server' = server \cup {Head(batch)}
  /\ thread' = "ack"
  /\ UNCHANGED <<rows, batch, wire, losses>>

\* Refused, malformed or timed out; what timed out may still be on its way.
Unanswered ==
  /\ thread = "handoff"
  /\ IF Head(batch)[1] \in Refused THEN UNCHANGED <<wire, losses>>
     ELSE Fault /\ wire' \in {wire, wire \cup {Head(batch)}}
  /\ NextReceipt
  /\ UNCHANGED <<rows, server>>

Late(r) ==
  /\ r \in wire
  /\ wire' = wire \ {r}
  /\ server' = IF r[1] \in Refused THEN server ELSE server \cup {r}
  /\ UNCHANGED <<rows, thread, batch, losses>>

\* Mutant of AckOf: whatever the row's status is by now.
AckOfRow(i, s) == rows' = [rows EXCEPT ![i].ack = rows[i].status]

\* UPDATE ... SET ack_status=? WHERE id=? AND status=?
AckOf(i, s) ==
  rows' = [rows EXCEPT ![i].ack = IF rows[i].status = s THEN s ELSE @]

Ack ==
  /\ thread = "ack"
  /\ AckOf(Head(batch)[1], Head(batch)[2])
  /\ NextReceipt
  /\ UNCHANGED <<wire, server, losses>>

\* The ack helper fails quietly, or its timeout ends sync_once altogether.
AckFails ==
  /\ thread = "ack" /\ Fault
  /\ \/ NextReceipt
     \/ thread' = "sleep" /\ batch' = <<>>
  /\ UNCHANGED <<rows, wire, server>>

\* The bridge dies and the session supervisor starts it again.
BridgeRestart ==
  /\ thread # "sleep" /\ Fault
  /\ thread' = "sleep"
  /\ batch' = <<>>
  /\ UNCHANGED <<rows, wire, server>>

-----------------------------------------------------------------------------
HandoffNext ==
  \/ NewRow("received") \/ NewRow("unknown")
  \/ \E i \in Rows : Verdict(i, "sent") \/ Verdict(i, "not_sent")
  \/ Query \/ QueryEmpty \/ Accepted \/ Unanswered \/ Ack \/ AckFails \/ BridgeRestart
  \/ \E r \in Receipt : Late(r)

HandoffSpec == HandoffInit /\ [][HandoffNext]_handoffVars

\* poll_loop never ends and every call it makes is bounded, so it keeps moving;
\* a claimant that dies leaves "unknown" for good, so nothing is asked of Verdict.
HandoffFairness ==
  /\ WF_handoffVars(Query)
  /\ WF_handoffVars(Accepted \/ Unanswered)
  /\ WF_handoffVars(Ack)

HandoffFairSpec == HandoffSpec /\ HandoffFairness

-----------------------------------------------------------------------------
(* Properties.                                                             *)

\* A row counts as handed over in a status only if the server holds exactly
\* that version, although the row changed while its receipt was in flight.
AckTruthful ==
  \A i \in DOMAIN rows : rows[i].ack # NoAck => <<i, rows[i].ack>> \in server

\* Once losses have ceased, whatever was lost or delayed, and although the
\* server refuses some rows for good, every other row reaches the server in its
\* last status.
EveryReceiptLands ==
  \A i \in Rows \ Refused :
    (i \in DOMAIN rows) ~> (i \in DOMAIN rows /\ i \notin Due)
=============================================================================
