------------------------------ MODULE SmsProposal ----------------------------
(***************************************************************************)
(* The phone's one outgoing SMS proposal (phone-sms.el), from staging over *)
(* two consecutive taps to its result, and the operation that carries it   *)
(* out (openrc-init.el, assist-web.el): a text of the phone's own goes to  *)
(* the root helper at once, a draft of the server only after the server    *)
(* has acknowledged the approval.  The helpers and the modem are those of  *)
(* SmsOutbox, which SmsJournal implements.                                 *)
(***************************************************************************)
EXTENDS Naturals, Sequences, FiniteSets

CONSTANTS
  Texts,     \* messages written on the phone
  Drafts,    \* messages the server holds for approval; the draft is its own id
  MaxProps,  \* bound: proposals staged
  MaxFaults, \* bound: failed requests, dead helpers, Emacs restarts
  NoItem

ASSUME ProposalAssumption ==
  /\ Texts \cap Drafts = {} /\ {NoItem, "none"} \cap (Texts \cup Drafts) = {}
  /\ Drafts \cap (1 .. MaxProps) = {}   \* a proposal's id is a digest of its own
  /\ MaxProps \in Nat \ {0} /\ MaxFaults \in Nat

Items == Texts \cup Drafts
Props == 1 .. MaxProps
NoProp == 0
Ids == Drafts \cup Props

VARIABLES
  state,      \* emacsos-sms--state
  shown,      \* the number, body and context of the proposal
  prop,       \* emacsos-sms--proposal-id, drawn from a counter
  staged,     \* that counter
  confirm,    \* emacsos-sms--confirm-id
  rejecting,  \* emacsos-sms--rejecting
  visible,    \* the SMS buffer owns the phone's target window
  calls,      \* requests whose callback is still to run
  helpers,    \* sms helper processes
  remote,     \* the server's state of each draft
  faults,
  lastTap,    \* history: what was armed, if nothing but callbacks happened since
  attempted,  \* history: proposals a helper was started for
  claim, verdict, accepted, told   \* the outbox

Outbox == INSTANCE SmsOutbox WITH Bodies <- Items

screen == <<state, shown, prop>>
outbox == <<claim, verdict, accepted, told>>
history == <<lastTap, attempted>>
vars == <<screen, staged, confirm, rejecting, visible, calls, helpers, remote,
          faults, history, outbox>>

Kinds == {"review", "discard", "reject", "approve"}
NoReply == "none"
ServerStates == {"pending", "approved", "rejected", "sent", "not_sent", "unknown"}
Call == [kind : Kinds, item : Drafts, prop : Props \cup {NoProp},
         reply : ServerStates \cup {NoReply, "unclaimed"}]
Helper == [prop : Props, item : Items, phase : {"started", "claimant", "repeat"}]

\* The journal identity of a helper's message.
Id(h) == IF h.item \in Drafts THEN h.item ELSE h.prop

TypeOK ==
  /\ state \in {"none", "proposed", "sending", "sent", "failed", "unknown"}
  /\ shown \in Items \cup {NoItem}
  /\ prop \in Props \cup {NoProp} /\ staged \in 0 .. MaxProps
  /\ confirm \in Props \cup {NoProp}
  /\ rejecting \in BOOLEAN /\ visible \in BOOLEAN
  /\ calls \subseteq Call
  /\ helpers \subseteq Helper
  /\ remote \in [Drafts -> ServerStates]
  /\ faults \in 0 .. MaxFaults
  /\ lastTap \in Items \cup {NoItem}
  /\ attempted \subseteq Props

Init ==
  /\ state = "none" /\ shown = NoItem /\ prop = NoProp
  /\ staged = 0
  /\ confirm = NoProp
  /\ rejecting = FALSE
  /\ visible = FALSE
  /\ calls = {}
  /\ helpers = {}
  /\ remote = [d \in Drafts |-> "pending"]
  /\ faults = 0
  /\ lastTap = NoItem
  /\ attempted = {}
  /\ Outbox!OutboxInit

Error == faults < MaxFaults /\ faults' = faults + 1

-----------------------------------------------------------------------------
(* Parts of the handlers.                                                  *)

\* clear-confirm
Disarm == confirm' = NoProp /\ lastTap' = NoItem

\* dismiss, in every state but sending
Dismiss ==
  /\ state' = "none" /\ shown' = NoItem /\ prop' = NoProp
  /\ rejecting' = FALSE
  /\ visible' = FALSE
  /\ Disarm

\* The staging branch of emacsos-send-message.  Without a window to show it in
\* the proposal is dismissed again.
Stage(item, window) ==
  /\ staged < MaxProps
  /\ staged' = staged + 1
  /\ Disarm
  /\ IF window
       THEN /\ state' = "proposed" /\ shown' = item /\ prop' = staged + 1
            /\ visible' = TRUE
            /\ UNCHANGED rejecting
       ELSE /\ state' = "none" /\ shown' = NoItem /\ prop' = NoProp
            /\ visible' = FALSE /\ rejecting' = FALSE

Ask(kind, item, p) ==
  calls' = calls \cup {[kind |-> kind, item |-> item, prop |-> p, reply |-> NoReply]}

Start(item, p) ==
  /\ helpers' = helpers \cup {[prop |-> p, item |-> item, phase |-> "started"]}
  /\ attempted' = attempted \cup {p}

\* Mutant of Result: the helper's word is the screen's.
RawResult(v) == v

\* What an answer of the server or a line of the helper is shown as.
Result(v) == CASE v = "sent" -> "sent" [] v = "not_sent" -> "failed" [] OTHER -> "unknown"

\* finished: a result counts only for the proposal that is being sent.
Finished(p, result) ==
  IF state = "sending" /\ prop = p
    THEN state' = result /\ UNCHANGED <<shown, prop>>
    ELSE UNCHANGED screen

-----------------------------------------------------------------------------
(* The user.                                                               *)

\* emacsos-send-message for a text of the phone: any attempt disarms.
SendMessage(t) ==
  /\ Disarm
  /\ IF \/ state = "proposed" /\ shown \in Drafts
        \/ state \in {"sending", "unknown"}
       THEN UNCHANGED <<screen, staged, rejecting, visible>>
       ELSE \E window \in BOOLEAN : Stage(t, window)
  /\ UNCHANGED <<calls, helpers, remote, faults, attempted, outbox>>

\* review-sms: show the proposal the draft already is, or look the draft up in
\* the journal first.
Review(d) ==
  /\ IF state \in {"proposed", "sending", "sent", "unknown"} /\ shown = d
       THEN visible' = TRUE /\ UNCHANGED calls
       ELSE /\ IF state \in {"proposed", "sending", "unknown"} THEN UNCHANGED calls
               ELSE Ask("review", d, NoProp)
            /\ UNCHANGED visible
  /\ Disarm
  /\ UNCHANGED <<screen, staged, rejecting, helpers, remote, faults, attempted, outbox>>

\* The first tap arms.
Arm ==
  /\ state = "proposed" /\ visible /\ ~rejecting
  /\ confirm # prop
  /\ confirm' = prop
  /\ lastTap' = shown
  /\ UNCHANGED <<screen, staged, rejecting, visible, calls, helpers, remote, faults,
                 attempted, outbox>>

\* The second tap: start-send and the platform's operation.
ConfirmSend ==
  /\ state = "proposed" /\ visible /\ ~rejecting
  /\ confirm = prop
  /\ Disarm
  /\ state' = "sending"
  /\ IF shown \in Drafts
       THEN Ask("approve", shown, prop) /\ UNCHANGED <<helpers, attempted>>
       ELSE Start(shown, prop) /\ UNCHANGED calls
  /\ UNCHANGED <<shown, prop, staged, rejecting, visible, remote, faults, outbox>>

\* The helper process of a phone text cannot be started.
ConfirmFails ==
  /\ state = "proposed" /\ visible /\ ~rejecting
  /\ confirm = prop /\ shown \notin Drafts
  /\ Error
  /\ Disarm
  /\ state' = "unknown"
  /\ UNCHANGED <<shown, prop, staged, rejecting, visible, calls, helpers, remote,
                 attempted, outbox>>

\* Cancel, and killing the buffer of a draft: the server must acknowledge.
Cancel ==
  /\ state = "proposed"
  /\ IF shown \in Drafts
       THEN /\ Disarm
            /\ rejecting' = TRUE
            /\ Ask("discard", shown, NoProp)
            /\ UNCHANGED <<screen, visible>>
       ELSE Dismiss /\ UNCHANGED calls
  /\ UNCHANGED <<staged, helpers, remote, faults, attempted, outbox>>

\* Done; Acknowledge of an unknown result.
Done ==
  /\ state \in {"sent", "failed", "unknown"}
  /\ Dismiss
  /\ UNCHANGED <<staged, calls, helpers, remote, faults, attempted, outbox>>

\* Mutant of OtherCommand: the arm survives.
OtherCommandKeepsArm ==
  /\ confirm # NoProp
  /\ lastTap' = NoItem
  /\ UNCHANGED <<screen, staged, confirm, rejecting, visible, calls, helpers, remote, faults,
                 attempted, outbox>>

\* Another command, a touch elsewhere, the 15 s timer: the arm is lost.
OtherCommand ==
  /\ confirm # NoProp
  /\ Disarm
  /\ UNCHANGED <<screen, staged, rejecting, visible, calls, helpers, remote, faults,
                 attempted, outbox>>

\* The target window shows something else; later the badge shows the SMS again.
LookAway ==
  /\ visible
  /\ visible' = FALSE
  /\ Disarm
  /\ UNCHANGED <<screen, staged, rejecting, calls, helpers, remote, faults, attempted, outbox>>

ShowStatus ==
  /\ state # "none" /\ ~visible
  /\ visible' = TRUE
  /\ Disarm
  /\ UNCHANGED <<screen, staged, rejecting, calls, helpers, remote, faults, attempted, outbox>>

-----------------------------------------------------------------------------
(* The journal and the server answer.                                      *)

Reply(c, reply) == calls' = (calls \ {c}) \cup {[c EXCEPT !.reply = reply]}

\* A lookup.  A helper claims within moments of its start, before the user has
\* gone on to ask for another lookup.
Lookup(c) ==
  /\ c.kind \in {"review", "discard"} /\ c.reply = NoReply
  /\ \A h \in helpers : Id(h) = c.item => h.phase # "started"
  /\ Reply(c, IF claim[c.item] = Outbox!NoBody THEN "unclaimed" ELSE verdict[c.item])
  /\ UNCHANGED <<screen, staged, confirm, rejecting, visible, helpers, remote, faults,
                 history, outbox>>

\* The server decides a draft once; a rejection may still follow an approval.
ServerDecides(c) ==
  LET was == remote[c.item]
      new == IF c.kind = "approve" /\ was = "pending" THEN "approved"
             ELSE IF c.kind = "reject" /\ was \in {"pending", "approved"} THEN "rejected"
             ELSE was
  IN
  /\ c.kind \in {"approve", "reject"} /\ c.reply = NoReply
  /\ remote' = [remote EXCEPT ![c.item] = new]
  /\ Reply(c, new)
  /\ UNCHANGED <<screen, staged, confirm, rejecting, visible, helpers, faults, history, outbox>>

\* The phone reports a journaled attempt (sms-outcome, receipts).
ServerLearns(d) ==
  /\ claim[d] # Outbox!NoBody
  /\ remote[d] # verdict[d]
  /\ remote' = [remote EXCEPT ![d] = verdict[d]]
  /\ UNCHANGED <<screen, staged, confirm, rejecting, visible, calls, helpers, faults,
                 history, outbox>>

-----------------------------------------------------------------------------
(* Callbacks.                                                              *)

\* The lookup of a review is back: stage the draft, or project its result, which
\* without a window is shown for a proposal already dismissed.
ReviewReply(c) ==
  /\ c.kind = "review" /\ c.reply # NoReply
  /\ calls' = calls \ {c}
  /\ IF state \in {"proposed", "sending", "unknown"}
       THEN UNCHANGED <<screen, staged, confirm, rejecting, visible, lastTap>>
       ELSE \E window \in BOOLEAN :
              IF c.reply = "unclaimed"
                THEN Stage(c.item, window)
                ELSE /\ staged < MaxProps
                     /\ staged' = staged + 1
                     /\ Disarm
                     /\ state' = Result(c.reply)
                     /\ shown' = IF window THEN c.item ELSE NoItem
                     /\ prop' = IF window THEN staged + 1 ELSE NoProp
                     /\ visible' = window
                     /\ rejecting' = (rejecting /\ window)
  /\ UNCHANGED <<helpers, remote, faults, attempted, outbox>>

\* Cancel found no attempt: reject; otherwise the draft stays, to be retried.
DiscardReply(c) ==
  /\ c.kind = "discard" /\ c.reply # NoReply
  /\ calls' = (calls \ {c}) \cup
       IF c.reply = "unclaimed" THEN {[c EXCEPT !.kind = "reject", !.reply = NoReply]} ELSE {}
  /\ UNCHANGED <<screen, staged, confirm, rejecting, visible, helpers, remote, faults,
                 history, outbox>>

\* The callback of Cancel: it knows its context only.
RejectReply(c) ==
  /\ c.kind = "reject" /\ c.reply # NoReply
  /\ calls' = calls \ {c}
  /\ IF shown = c.item /\ c.reply = "rejected"
       THEN IF state = "sending"
              THEN rejecting' = FALSE /\ UNCHANGED <<screen, visible, confirm, lastTap>>
              ELSE Dismiss
       ELSE UNCHANGED <<screen, rejecting, visible, confirm, lastTap>>
  /\ UNCHANGED <<staged, helpers, remote, faults, attempted, outbox>>

\* Mutants of ApproveReply: an approval sends, whoever owns the screen by now;
\* an answer other than an approval is dropped.
ApproveReplyBlind(c) ==
  /\ c.kind = "approve" /\ c.reply # NoReply
  /\ calls' = calls \ {c}
  /\ IF c.reply = "approved"
       THEN Start(c.item, c.prop) /\ UNCHANGED screen
       ELSE /\ Finished(c.prop, IF c.reply \in {"sent", "unknown"} THEN c.reply ELSE "failed")
            /\ UNCHANGED <<helpers, attempted>>
  /\ UNCHANGED <<staged, confirm, rejecting, visible, remote, faults, lastTap, outbox>>

ApproveReplyDropped(c) ==
  /\ c.kind = "approve" /\ c.reply # NoReply
  /\ calls' = calls \ {c}
  /\ IF state = "sending" /\ prop = c.prop /\ c.reply = "approved"
       THEN Start(c.item, c.prop)
       ELSE UNCHANGED <<helpers, attempted>>
  /\ UNCHANGED <<screen, staged, confirm, rejecting, visible, remote, faults, lastTap, outbox>>

\* The approval is back: only the very confirmation that asked may still send.
ApproveReply(c) ==
  /\ c.kind = "approve" /\ c.reply # NoReply
  /\ calls' = calls \ {c}
  /\ IF state = "sending" /\ prop = c.prop /\ c.reply = "approved"
       THEN Start(c.item, c.prop) /\ UNCHANGED screen
       ELSE /\ Finished(c.prop, IF c.reply \in {"sent", "unknown"} THEN c.reply ELSE "failed")
            /\ UNCHANGED <<helpers, attempted>>
  /\ UNCHANGED <<staged, confirm, rejecting, visible, remote, faults, lastTap, outbox>>

\* A lookup or request fails, or its answer is lost: nothing can be concluded
\* from a lookup or a rejection, and an approval that failed did not send.
CallFails(c) ==
  /\ Error
  /\ calls' = calls \ {c}
  /\ IF c.kind = "approve" THEN Finished(c.prop, "failed") ELSE UNCHANGED screen
  /\ UNCHANGED <<staged, confirm, rejecting, visible, helpers, remote, history, outbox>>

\* Mutant of OwnerChanged: the send is taken to have failed.
OwnerChangedFails ==
  /\ state = "sending"
  /\ Error
  /\ state' = "failed"
  /\ UNCHANGED <<shown, prop, staged, confirm, rejecting, visible, calls, helpers,
                 remote, history, outbox>>

\* ModemManager has a new owner.
OwnerChanged ==
  /\ state = "sending"
  /\ Error
  /\ state' = "unknown"
  /\ UNCHANGED <<shown, prop, staged, confirm, rejecting, visible, calls, helpers,
                 remote, history, outbox>>

-----------------------------------------------------------------------------
(* The helpers (SmsJournal), as steps of the outbox.                       *)

Phase(h, phase) == helpers' = (helpers \ {h}) \cup {[h EXCEPT !.phase = phase]}
emacs == <<screen, staged, confirm, rejecting, visible, calls, remote, history>>

HelperClaims(h) ==
  /\ h.phase = "started"
  /\ IF claim[Id(h)] = Outbox!NoBody
       THEN Outbox!Claim(Id(h), h.item) /\ Phase(h, "claimant")
       ELSE UNCHANGED outbox /\ Phase(h, "repeat")
  /\ UNCHANGED <<emacs, faults>>

ModemAccepts(id) ==
  /\ Outbox!Accept(id)
  /\ UNCHANGED <<emacs, helpers, faults>>

HelperDecides(h) ==
  /\ h.phase = "claimant"
  /\ Outbox!Decide(Id(h))
  /\ UNCHANGED <<emacs, helpers, faults>>

\* It prints its line and exits.
HelperExits(h) ==
  /\ h.phase # "started"
  /\ \E v \in {"unknown", verdict[Id(h)]} :
       Outbox!Tell(Id(h), v) /\ Finished(h.prop, Result(v))
  /\ helpers' = helpers \ {h}
  /\ UNCHANGED <<staged, confirm, rejecting, visible, calls, remote, faults, history>>

\* It dies without a word.
HelperDies(h) ==
  /\ Error
  /\ helpers' = helpers \ {h}
  /\ Finished(h.prop, "unknown")
  /\ UNCHANGED <<staged, confirm, rejecting, visible, calls, remote, history, outbox>>

\* Emacs is killed and restarted; its helpers run on.
EmacsRestart ==
  /\ Error
  /\ Dismiss
  /\ calls' = {}
  /\ UNCHANGED <<staged, helpers, remote, attempted, outbox>>

-----------------------------------------------------------------------------
User ==
  \/ \E t \in Texts : SendMessage(t)
  \/ \E d \in Drafts : Review(d)
  \/ Arm \/ ConfirmSend \/ ConfirmFails \/ Cancel \/ Done
  \/ OtherCommand \/ LookAway \/ ShowStatus

Answer(c) ==
  \/ Lookup(c) \/ ServerDecides(c)
  \/ ReviewReply(c) \/ DiscardReply(c) \/ RejectReply(c) \/ ApproveReply(c)

HelperRuns(h) == HelperClaims(h) \/ HelperExits(h)

Next ==
  \/ User
  \/ \E c \in calls : Answer(c) \/ CallFails(c)
  \/ \E d \in Drafts : ServerLearns(d)
  \/ \E h \in helpers : HelperRuns(h) \/ HelperDecides(h) \/ HelperDies(h)
  \/ \E id \in Ids : ModemAccepts(id)
  \/ OwnerChanged \/ EmacsRestart

Spec == Init /\ [][Next]_vars

\* Every request has a timeout and every helper an alarm; nothing is asked of
\* the user.
Fairness ==
  /\ WF_vars(\E c \in calls : c.kind = "approve" /\ Answer(c))
  /\ WF_vars(\E h \in helpers : HelperRuns(h))

FairSpec == Spec /\ Fairness

-----------------------------------------------------------------------------
(* Properties.                                                             *)

\* Nothing is sent, or asked to be approved, but what was on the screen at two
\* consecutive taps: whatever is staged, shown, timed out or answered between
\* the taps, the second one sends what the first one armed or nothing.
TwoTaps == [][state = "proposed" /\ state' \in {"sending", "unknown"} => lastTap = shown]_vars

\* A draft the server holds as rejected was never given to a helper and never
\* is, although approvals are answered late and results were uncertain.
RejectedNeverSent ==
  \A d \in Drafts : remote[d] = "rejected" =>
    claim[d] = Outbox!NoBody /\ \A h \in helpers : h.item # d

\* "Sent" means the modem accepted this very message; "Not sent" that this
\* attempt did not and will not send it.  The lock of a pending rejection never
\* outlives its draft: it would keep every later proposal from being sent.
HonestScreen ==
  /\ state = "sent" /\ shown # NoItem =>
       \E m \in {accepted[i] : i \in DOMAIN accepted} : m.body = shown
  /\ state = "failed" /\ shown # NoItem /\ prop \in attempted =>
       LET id == IF shown \in Drafts THEN shown ELSE prop
       IN verdict[id] = "not_sent" /\ ~Outbox!Accepted(id)
  /\ rejecting => state = "proposed" /\ shown \in Drafts

\* A draft stays on the screen until the server acknowledged its rejection or
\* it was sent for (README: retains the draft until the server acknowledges).
RetainedUntilAck ==
  [][state = "proposed" /\ shown \in Drafts /\ state' = "none" =>
       remote[shown] = "rejected" \/ EmacsRestart]_vars

ProposalLeaves == TwoTaps /\ RetainedUntilAck

\* A send does not hang: it ends in a result.
SendingEnds == state = "sending" ~> state # "sending"
=============================================================================
