------------------------------ MODULE MCSmsSend ------------------------------
(* Small instances of the three modules of a message that goes out: the     *)
(* proposal on the screen, the helper with its journal, and the receipts    *)
(* handed to the server.  A behaviour is one of a single part, the others   *)
(* stay where they start; together they would be too many states.           *)
EXTENDS SmsProposal, SmsJournal, SmsHandoff

CONSTANTS p1, p2, i1, i2, b1, b2, nobody, text, draft

MCProcs == {p1, p2}
MCIdentities == {i1, i2}
MCBodies == {b1, b2}

VARIABLE part

sendVars == <<vars, journalVars, handoffVars, part>>

\* What the other helpers ask for makes no difference to the parts beside them.
SendInit ==
  /\ Init /\ JournalInit /\ HandoffInit
  /\ part \in {"proposal", "journal", "handoff"}
  /\ part # "journal" => req = [p \in Procs |-> [id |-> i1, body |-> b1]]

\* Every helper has ended and the modem has no call left.
Quiesced ==
  /\ \A p \in Procs : pc[p] \in Ended /\ call[p] # "queued"
  /\ UNCHANGED sendVars

SendNext ==
  \/ part = "proposal" /\ Next /\ UNCHANGED <<journalVars, handoffVars, part>>
  \/ part = "journal" /\ JournalNext /\ UNCHANGED <<vars, handoffVars, part>>
  \/ part = "handoff" /\ HandoffNext /\ UNCHANGED <<vars, journalVars, part>>
  \/ part = "journal" /\ Quiesced

SendSpec == SendInit /\ [][SendNext]_sendVars

\* The fairness of each part, asked only where it is the one that moves.
SendFairness ==
  /\ WF_vars(part = "proposal" /\ \E c \in calls : c.kind = "approve" /\ Answer(c))
  /\ WF_vars(part = "proposal" /\ \E h \in helpers : HelperRuns(h))
  /\ WF_handoffVars(part = "handoff" /\ Query)
  /\ WF_handoffVars(part = "handoff" /\ (Accepted \/ Unanswered))
  /\ WF_handoffVars(part = "handoff" /\ Ack)

SendFairSpec == SendSpec /\ SendFairness
=============================================================================
