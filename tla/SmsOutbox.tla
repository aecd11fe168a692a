------------------------------ MODULE SmsOutbox ------------------------------
(***************************************************************************)
(* What the phone promises about an outgoing SMS, whoever asks for it and  *)
(* however often: an identity is claimed once, for one exact body; the     *)
(* modem accepts it at most once; a verdict is only ever the truth and is  *)
(* never revised; and a caller is told a verdict only if it is recorded.   *)
(***************************************************************************)
EXTENDS Naturals, Sequences

CONSTANTS Ids, Bodies

VARIABLES
  claim,     \* claim[id]: the body the identity was claimed for, or NoBody
  verdict,   \* verdict[id] \in {"unknown", "sent", "not_sent"}
  accepted,  \* the messages the modem accepted, in order
  told       \* what callers have been told, as <<id, verdict>> pairs

NoBody == "none"
Verdicts == {"unknown", "sent", "not_sent"}
Message == [id : Ids, body : Bodies]

ovars == <<claim, verdict, accepted, told>>

Accepted(id) == \E i \in DOMAIN accepted : accepted[i].id = id

OutboxInit ==
  /\ claim = [id \in Ids |-> NoBody]
  /\ verdict = [id \in Ids |-> "unknown"]
  /\ accepted = <<>>
  /\ told = {}

Claim(id, body) ==
  /\ claim[id] = NoBody
  /\ claim' = [claim EXCEPT ![id] = body]
  /\ UNCHANGED <<verdict, accepted, told>>

\* The modem takes a claimed message nobody has given a verdict on yet.
Accept(id) ==
  /\ claim[id] # NoBody
  /\ verdict[id] = "unknown"
  /\ ~Accepted(id)
  /\ accepted' = Append(accepted, [id |-> id, body |-> claim[id]])
  /\ UNCHANGED <<claim, verdict, told>>

Decide(id) ==
  /\ claim[id] # NoBody
  /\ verdict[id] = "unknown"
  /\ verdict' = [verdict EXCEPT ![id] = IF Accepted(id) THEN "sent" ELSE "not_sent"]
  /\ UNCHANGED <<claim, accepted, told>>

Tell(id, v) ==
  /\ v \in {"unknown", verdict[id]}
  /\ told' = told \cup {<<id, v>>}
  /\ UNCHANGED <<claim, verdict, accepted>>

OutboxNext ==
  \E id \in Ids :
    \/ \E body \in Bodies : Claim(id, body)
    \/ Accept(id)
    \/ Decide(id)
    \/ \E v \in Verdicts : Tell(id, v)

OutboxSpec == OutboxInit /\ [][OutboxNext]_ovars
=============================================================================
