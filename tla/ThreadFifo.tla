------------------------------ MODULE ThreadFifo ------------------------------
(***************************************************************************)
(* What an Assist Web thread promises its user: the messages sent in it    *)
(* reach the server in the order they were sent, each only when every      *)
(* earlier one has run to its end or been refused for good, and a message  *)
(* leaves the thread's queue, once, only after that.                       *)
(* AssistQueue's view, its cache file and the server implement it.         *)
(***************************************************************************)
EXTENDS Naturals

CONSTANT Messages

VARIABLES
  sent,     \* the messages the user has sent
  accepted, \* those the server has made a Run of
  over,     \* those whose Run has ended, or that it refused
  retired   \* those the thread's queue no longer holds

fifoVars == <<sent, accepted, over, retired>>

Start ==
  /\ sent = {} /\ accepted = {} /\ over = {} /\ retired = {}

\* The user sends a message after all the others.
SendNext(m) ==
  /\ m \in Messages \ sent
  /\ \A n \in sent : n < m
  /\ sent' = sent \cup {m}
  /\ UNCHANGED <<accepted, over, retired>>

\* The server's verdict waits for every predecessor.
MayRun(m) ==
  /\ m \in sent \ (accepted \cup over)
  /\ \A n \in sent : n < m => n \in over

Accept(m) ==
  /\ MayRun(m)
  /\ accepted' = accepted \cup {m}
  /\ UNCHANGED <<sent, over, retired>>

Refuse(m) ==
  /\ MayRun(m)
  /\ over' = over \cup {m}
  /\ UNCHANGED <<sent, accepted, retired>>

End(m) ==
  /\ m \in accepted \ over
  /\ over' = over \cup {m}
  /\ UNCHANGED <<sent, accepted, retired>>

Retire(S) ==
  /\ S \subseteq over \ retired
  /\ retired' = retired \cup S
  /\ UNCHANGED <<sent, accepted, over>>

Step ==
  \/ \E m \in Messages : SendNext(m) \/ Accept(m) \/ Refuse(m) \/ End(m)
  \/ \E S \in SUBSET Messages : Retire(S)

Fifo == Start /\ [][Step]_fifoVars
=============================================================================
