-------------------------- MODULE SmsProposalProofs --------------------------
(***************************************************************************)
(* SmsProposal for any texts, drafts, proposals and failures.              *)
(***************************************************************************)
EXTENDS SmsProposal, TLAPS

NoBody == Outbox!NoBody

\* What the outbox holds: verdicts agree with the modem, the modem with the
\* journal, and the journal with the helpers that are still there.
OutboxTypes ==
  /\ claim \in [Ids -> Items \cup {NoBody}]
  /\ verdict \in [Ids -> Outbox!Verdicts]
  /\ accepted \in Seq(Outbox!Message)

Journal ==
  /\ \A id \in Ids : /\ verdict[id] = "sent" => Outbox!Accepted(id)
                     /\ verdict[id] = "not_sent" => ~Outbox!Accepted(id)
  /\ \A i \in DOMAIN accepted : accepted[i].body = claim[accepted[i].id]
  /\ \A d \in Drafts : claim[d] \in {NoBody, d}
  /\ \A p \in Props : claim[p] # NoBody => p \in attempted
  /\ \A h \in helpers : /\ h.phase # "started" => claim[Id(h)] # NoBody
                        /\ claim[Id(h)] \in {NoBody, h.item}

\* The proposal on the screen: its number is the last one drawn or none, its arm
\* is for what it shows, and only a draft awaits a rejection.
Screen ==
  /\ prop <= staged
  /\ state \in {"proposed", "sending"} => prop # NoProp /\ shown \in Items
  /\ state = "proposed" => prop \notin attempted
  /\ confirm # NoProp => state = "proposed" /\ confirm = prop /\ lastTap = shown
  /\ rejecting => state = "proposed" /\ shown \in Drafts

\* A proposal is confirmed once: an approval is asked for once, and one helper is
\* started, for what the proposal showed.
Attempts ==
  /\ \A p \in attempted : p <= staged
  /\ \A h \in helpers : h.prop \in attempted /\ (h.prop = prop => shown = h.item)
  /\ \A h, g \in helpers : h.prop = g.prop => h = g
  /\ \A c \in calls : c.kind = "approve" =>
       /\ c.prop # NoProp /\ c.prop <= staged /\ c.prop \notin attempted
       /\ c.prop = prop => state # "proposed" /\ shown = c.item
  /\ \A c, e \in calls : c.kind = "approve" /\ e.kind = "approve" /\ c.prop = e.prop => c = e

\* What a request heard is still so.
Answers ==
  \A c \in calls :
    /\ c.reply = "rejected" => remote[c.item] = "rejected"
    /\ c.reply \in {"sent", "not_sent"} => verdict[c.item] = c.reply

Reports == \A d \in Drafts : remote[d] \in {"sent", "not_sent"} => verdict[d] = remote[d]

\* A rejection under way keeps its draft on the screen, and no helper has it; an
\* approval that may still send is of a draft that is not rejected.
Rejections ==
  \A c \in calls :
    /\ c.kind \in {"discard", "reject"} =>
         \/ state = "proposed" /\ rejecting /\ shown = c.item
         \/ remote[c.item] = "rejected"
    /\ c.kind = "reject" \/ (c.kind = "discard" /\ c.reply = "unclaimed") =>
         claim[c.item] = NoBody /\ \A h \in helpers : h.item # c.item
    /\ c.kind = "approve" /\ c.reply = "approved" /\ state = "sending" /\ prop = c.prop =>
         remote[c.item] # "rejected"

IInv ==
  /\ TypeOK /\ OutboxTypes
  /\ Journal /\ Screen /\ Attempts /\ Answers /\ Reports /\ Rejections
  /\ RejectedNeverSent /\ HonestScreen

-----------------------------------------------------------------------------
\* The bounds and sets, one by one.
LEMMA Sets ==
  /\ MaxProps \in Nat \ {0} /\ MaxFaults \in Nat
  /\ Props \subseteq Nat /\ NoProp \notin Props /\ Drafts \cap Props = {}
  /\ NoItem \notin Items /\ NoBody \notin Items
  /\ Drafts \subseteq Items /\ Texts \subseteq Items /\ Texts \cap Drafts = {}
  /\ Drafts \subseteq Ids /\ Props \subseteq Ids
BY ProposalAssumption DEF Props, NoProp, Items, Ids, NoBody, Outbox!NoBody

\* A request that was answered differs in its answer only.
LEMMA Replied ==
  ASSUME NEW c \in Call, NEW x \in ServerStates \cup {NoReply, "unclaimed"}
  PROVE  LET r == [c EXCEPT !.reply = x] IN
         r \in Call /\ r.kind = c.kind /\ r.item = c.item /\ r.prop = c.prop /\ r.reply = x
BY DEF Call

\* A lookup that lets a rejection go on.
LEMMA Rejecting ==
  ASSUME NEW c \in Call
  PROVE  LET r == [c EXCEPT !.kind = "reject", !.reply = NoReply] IN
         r \in Call /\ r.kind = "reject" /\ r.item = c.item /\ r.prop = c.prop /\ r.reply = NoReply
BY DEF Call, Kinds

\* A helper that claimed differs in its phase only.
LEMMA Phased ==
  ASSUME NEW h \in Helper, NEW x \in {"started", "claimant", "repeat"}
  PROVE  LET g == [h EXCEPT !.phase = x] IN
         g \in Helper /\ g.prop = h.prop /\ g.item = h.item /\ g.phase = x /\ Id(g) = Id(h)
BY DEF Helper, Id

\* The one helper a claim changes.
LEMMA PhaseSteps ==
  ASSUME helpers \subseteq Helper, NEW g \in helpers, NEW x \in {"started", "claimant", "repeat"},
         Phase(g, x), NEW h \in helpers', h \notin helpers \ {g}
  PROVE  /\ h.prop = g.prop /\ h.item = g.item /\ h.phase = x /\ Id(h) = Id(g)
         /\ helpers' = (helpers \ {g}) \cup {h}
<1>1. g \in Helper
  OBVIOUS
<1>2. h = [g EXCEPT !.phase = x] /\ helpers' = (helpers \ {g}) \cup {h}
  BY DEF Phase
<1>3. h.prop = g.prop /\ h.item = g.item /\ h.phase = x
  BY <1>1, <1>2 DEF Helper
<1> QED BY <1>2, <1>3 DEF Id

\* The identity of a helper is one of the journal's.
LEMMA Identity ==
  ASSUME NEW h \in Helper
  PROVE  /\ Id(h) \in Ids /\ h.prop \in Props /\ h.item \in Items
         /\ h.item \in Drafts => Id(h) = h.item
         /\ h.item \notin Drafts => Id(h) = h.prop
BY Sets DEF Helper, Id

\* What the server decides: its answer is its new state; an approval starts from
\* a pending draft, a rejection is asked for, and neither is taken back.
LEMMA Decided ==
  ASSUME remote \in [Drafts -> ServerStates], NEW c \in Call, ServerDecides(c)
  PROVE  \E x \in ServerStates :
           /\ remote' = [remote EXCEPT ![c.item] = x] /\ Reply(c, x)
           /\ x # remote[c.item] => \/ x = "approved" /\ c.kind = "approve"
                                    \/ x = "rejected" /\ c.kind = "reject"
           /\ remote[c.item] = "rejected" => x = "rejected"
<1>1. c.item \in Drafts
  BY DEF Call
<1>2. remote[c.item] \in ServerStates /\ "approved" \in ServerStates /\ "rejected" \in ServerStates
  BY <1>1 DEF ServerStates
<1>3. CASE c.kind = "approve" /\ remote[c.item] = "pending"
  BY <1>1, <1>2, <1>3 DEF ServerDecides
<1>4. CASE c.kind = "reject" /\ remote[c.item] \in {"pending", "approved"}
  BY <1>1, <1>2, <1>4 DEF ServerDecides
<1>5. CASE ~(c.kind = "approve" /\ remote[c.item] = "pending")
           /\ ~(c.kind = "reject" /\ remote[c.item] \in {"pending", "approved"})
  BY <1>1, <1>2, <1>5 DEF ServerDecides
<1> QED BY <1>3, <1>4, <1>5

-----------------------------------------------------------------------------
(* Types: of the screen, of the requests and helpers, of the outbox.       *)

ScreenTypes ==
  /\ state \in {"none", "proposed", "sending", "sent", "failed", "unknown"}
  /\ shown \in Items \cup {NoItem}
  /\ prop \in Props \cup {NoProp} /\ staged \in 0 .. MaxProps
  /\ confirm \in Props \cup {NoProp}
  /\ rejecting \in BOOLEAN /\ visible \in BOOLEAN
  /\ lastTap \in Items \cup {NoItem}

WorkTypes ==
  /\ calls \subseteq Call
  /\ helpers \subseteq Helper
  /\ remote \in [Drafts -> ServerStates]
  /\ faults \in 0 .. MaxFaults
  /\ attempted \subseteq Props

\* The types are the screen's and those of the work behind it.
LEMMA TypeParts == TypeOK <=> ScreenTypes /\ WorkTypes
BY DEF TypeOK, ScreenTypes, WorkTypes

\* A result of a helper or the server is a state of the screen.
LEMMA Results == \A v : Result(v) \in {"sent", "failed", "unknown"}
BY DEF Result

\* The screen.
LEMMA ScreenTypesKept == ScreenTypes /\ WorkTypes /\ Next => ScreenTypes'
<1> SUFFICES ASSUME ScreenTypes, WorkTypes, Next
             PROVE  ScreenTypes'
  OBVIOUS
<1>n. staged < MaxProps => staged + 1 \in Props /\ staged + 1 \in 0 .. MaxProps
  BY Sets DEF ScreenTypes, Props
<1> USE Sets DEF ScreenTypes, screen, history, Disarm
<1>s. ASSUME NEW item \in Items, NEW window \in BOOLEAN, Stage(item, window)
      PROVE  ScreenTypes'
  BY <1>n, <1>s DEF Stage
<1>1. CASE User
  <2>1. ASSUME NEW t \in Texts, SendMessage(t)
        PROVE  ScreenTypes'
    <3>1. CASE UNCHANGED <<screen, staged, rejecting, visible>>
      BY <2>1, <3>1 DEF SendMessage
    <3>2. CASE \E window \in BOOLEAN : Stage(t, window)
      BY <1>s, <3>2
    <3> QED BY <2>1, <3>1, <3>2 DEF SendMessage
  <2>2. ASSUME NEW d \in Drafts, Review(d)
        PROVE  ScreenTypes'
    BY <2>2 DEF Review
  <2>3. CASE Arm
    BY <2>3 DEF Arm
  <2>4. CASE ConfirmSend \/ ConfirmFails
    BY <2>4 DEF ConfirmSend, ConfirmFails
  <2>5. CASE Cancel \/ Done
    BY <2>5 DEF Cancel, Done, Dismiss
  <2>6. CASE OtherCommand \/ LookAway \/ ShowStatus
    BY <2>6 DEF OtherCommand, LookAway, ShowStatus
  <2> QED BY <1>1, <2>1, <2>2, <2>3, <2>4, <2>5, <2>6 DEF User
<1>2. ASSUME NEW c \in calls, Answer(c) \/ CallFails(c)
      PROVE  ScreenTypes'
  <2>1. CASE Lookup(c) \/ ServerDecides(c) \/ DiscardReply(c)
    BY <2>1 DEF Lookup, ServerDecides, DiscardReply
  <2>2. CASE ReviewReply(c)
    <3>1. c.item \in Items
      BY DEF WorkTypes, Call
    <3>2. CASE UNCHANGED <<screen, staged, confirm, rejecting, visible, lastTap>>
      BY <3>2
    <3>3. CASE \E window \in BOOLEAN : Stage(c.item, window)
      BY <1>s, <3>1, <3>3
    <3>4. ASSUME NEW window \in BOOLEAN,
                 /\ staged < MaxProps /\ staged' = staged + 1 /\ Disarm
                 /\ state' = Result(c.reply)
                 /\ shown' = IF window THEN c.item ELSE NoItem
                 /\ prop' = IF window THEN staged + 1 ELSE NoProp
                 /\ visible' = window /\ rejecting' = (rejecting /\ window)
          PROVE  ScreenTypes'
      <4>1. (rejecting /\ window) \in BOOLEAN
        OBVIOUS
      <4> QED BY <1>n, <3>1, <3>4, <4>1, Results
    <3> QED BY <2>2, <3>2, <3>3, <3>4 DEF ReviewReply
  <2>3. CASE RejectReply(c)
    BY <2>3 DEF RejectReply, Dismiss
  <2>4. CASE ApproveReply(c)
    BY <2>4 DEF ApproveReply, Finished
  <2>5. CASE CallFails(c)
    BY <2>5 DEF CallFails, Finished
  <2> QED BY <1>2, <2>1, <2>2, <2>3, <2>4, <2>5 DEF Answer
<1>3. ASSUME NEW h \in helpers, HelperRuns(h) \/ HelperDecides(h) \/ HelperDies(h)
      PROVE  ScreenTypes'
  BY <1>3, Results DEF HelperRuns, HelperClaims, HelperExits, HelperDecides, HelperDies, Finished,
                       emacs
<1>4. CASE EmacsRestart \/ OwnerChanged
  BY <1>4 DEF EmacsRestart, OwnerChanged, Dismiss
<1>5. CASE \/ \E d \in Drafts : ServerLearns(d)
           \/ \E id \in Ids : ModemAccepts(id)
  BY <1>5 DEF ServerLearns, ModemAccepts, emacs
<1> QED BY <1>1, <1>2, <1>3, <1>4, <1>5 DEF Next

\* The requests, the helpers and the server.
LEMMA WorkTypesKept == TypeOK /\ OutboxTypes /\ Screen /\ Attempts /\ Next => WorkTypes'
<1> SUFFICES ASSUME TypeOK, OutboxTypes, Screen, Attempts, Next
             PROVE  WorkTypes'
  OBVIOUS
<1>t. WorkTypes /\ ScreenTypes
  BY TypeParts
<1>f. faults \in 0 .. MaxFaults /\ (Error => faults' \in 0 .. MaxFaults)
  BY <1>t, Sets DEF WorkTypes, Error
<1> USE <1>f DEF WorkTypes, screen, history, Disarm
<1>a. ASSUME NEW kind \in Kinds, NEW d \in Drafts, NEW p \in Props \cup {NoProp}, Ask(kind, d, p)
      PROVE  calls' \subseteq Call
  BY <1>a, <1>t DEF Ask, Call
<1>s. ASSUME NEW item \in Items, NEW p \in Props, Start(item, p)
      PROVE  helpers' \subseteq Helper /\ attempted' \subseteq Props
  BY <1>s, <1>t DEF Start, Helper
<1>1. CASE User
  <2>1. ASSUME NEW t \in Texts, SendMessage(t)
        PROVE  WorkTypes'
    BY <1>t, <2>1 DEF SendMessage
  <2>2. ASSUME NEW d \in Drafts, Review(d)
        PROVE  WorkTypes'
    BY <1>t, <1>a, <2>2 DEF Review, Kinds
  <2>3. CASE Arm \/ OtherCommand \/ LookAway \/ ShowStatus \/ Done
    BY <1>t, <2>3 DEF Arm, OtherCommand, LookAway, ShowStatus, Done
  <2>4. CASE ConfirmSend
    <3>1. shown \in Items /\ prop \in Props
      BY <1>t, <2>4 DEF ConfirmSend, Screen, ScreenTypes
    <3> QED BY <1>t, <1>a, <1>s, <2>4, <3>1 DEF ConfirmSend, Kinds
  <2>5. CASE ConfirmFails
    BY <1>t, <2>5 DEF ConfirmFails
  <2>6. CASE Cancel
    BY <1>t, <1>a, <2>6 DEF Cancel, Kinds
  <2> QED BY <1>1, <2>1, <2>2, <2>3, <2>4, <2>5, <2>6 DEF User
<1>2. ASSUME NEW c \in calls, Answer(c) \/ CallFails(c)
      PROVE  WorkTypes'
  <2>t. c \in Call /\ c.item \in Drafts
    BY <1>t DEF Call
  <2>r. ASSUME NEW x \in ServerStates \cup {NoReply, "unclaimed"}, Reply(c, x)
        PROVE  calls' \subseteq Call
    BY <1>t, <2>t, <2>r, Replied DEF Reply
  <2>1. CASE Lookup(c)
    <3>1. verdict[c.item] \in ServerStates
      BY <2>t, Sets DEF OutboxTypes, Outbox!Verdicts, ServerStates
    <3> QED BY <1>t, <2>1, <2>r, <3>1 DEF Lookup
  <2>2. CASE ServerDecides(c)
    <3>1. PICK x \in ServerStates : remote' = [remote EXCEPT ![c.item] = x] /\ Reply(c, x)
      BY <1>t, <2>t, <2>2, Decided
    <3>2. UNCHANGED <<helpers, faults, attempted>>
      BY <2>2 DEF ServerDecides
    <3> QED BY <1>t, <2>t, <2>r, <3>1, <3>2
  <2>3. CASE ReviewReply(c) \/ RejectReply(c) \/ CallFails(c)
    BY <1>t, <2>3 DEF ReviewReply, RejectReply, CallFails
  <2>4. CASE DiscardReply(c)
    BY <1>t, <2>t, <2>4, Rejecting DEF DiscardReply
  <2>5. CASE ApproveReply(c)
    <3>1. c.prop \in Props
      BY <2>t, <2>5 DEF ApproveReply, Attempts, Call
    <3>2. calls' \subseteq Call /\ UNCHANGED <<remote, faults>>
      BY <1>t, <2>5 DEF ApproveReply
    <3>3. Start(c.item, c.prop) \/ UNCHANGED <<helpers, attempted>>
      BY <2>5 DEF ApproveReply
    <3> QED BY <1>t, <1>s, <2>t, <3>1, <3>2, <3>3, Sets
  <2> QED BY <1>2, <2>1, <2>2, <2>3, <2>4, <2>5 DEF Answer
<1>3. ASSUME NEW h \in helpers, HelperRuns(h) \/ HelperDecides(h) \/ HelperDies(h)
      PROVE  WorkTypes'
  <2>1. ASSUME NEW x \in {"started", "claimant", "repeat"}, Phase(h, x)
        PROVE  helpers' \subseteq Helper
    BY <1>t, <2>1, Phased DEF Phase
  <2>2. CASE HelperClaims(h)
    BY <1>t, <2>1, <2>2 DEF HelperClaims, emacs
  <2>3. CASE HelperDecides(h)
    BY <1>t, <2>3 DEF HelperDecides, emacs
  <2>4. CASE HelperExits(h) \/ HelperDies(h)
    BY <1>t, <2>4 DEF HelperExits, HelperDies
  <2> QED BY <1>3, <2>2, <2>3, <2>4 DEF HelperRuns
<1>4. CASE EmacsRestart \/ OwnerChanged
  BY <1>t, <1>4 DEF EmacsRestart, OwnerChanged
<1>5. ASSUME NEW d \in Drafts, ServerLearns(d)
      PROVE  WorkTypes'
  <2>1. verdict[d] \in ServerStates
    BY Sets DEF OutboxTypes, Outbox!Verdicts, ServerStates
  <2> QED BY <1>t, <1>5, <2>1 DEF ServerLearns
<1>6. CASE \E id \in Ids : ModemAccepts(id)
  BY <1>t, <1>6 DEF ModemAccepts, emacs
<1> QED BY <1>1, <1>2, <1>3, <1>4, <1>5, <1>6 DEF Next

\* The outbox: only its own operations change it.
LEMMA OutboxSteps ==
  ASSUME Next
  PROVE  \/ UNCHANGED <<claim, verdict, accepted>>
         \/ \E h \in helpers : HelperClaims(h) /\ claim[Id(h)] = NoBody
         \/ \E id \in Ids : ModemAccepts(id)
         \/ \E h \in helpers : HelperDecides(h)
<1> USE DEF outbox, NoBody
<1>1. CASE User
  BY <1>1 DEF User, SendMessage, Review, Arm, ConfirmSend, ConfirmFails, Cancel, Done, OtherCommand,
              LookAway, ShowStatus
<1>2. CASE \E c \in calls : Answer(c) \/ CallFails(c)
  BY <1>2 DEF Answer, Lookup, ServerDecides, ReviewReply, DiscardReply, RejectReply, ApproveReply,
              CallFails
<1>3. ASSUME NEW h \in helpers, HelperRuns(h) \/ HelperDies(h)
      PROVE  \/ UNCHANGED <<claim, verdict, accepted>>
             \/ HelperClaims(h) /\ claim[Id(h)] = NoBody
  BY <1>3 DEF HelperRuns, HelperClaims, HelperExits, HelperDies, Outbox!Tell
<1>4. CASE EmacsRestart \/ OwnerChanged \/ \E d \in Drafts : ServerLearns(d)
  BY <1>4 DEF EmacsRestart, OwnerChanged, ServerLearns
<1> QED BY <1>1, <1>2, <1>3, <1>4 DEF Next

\* A step keeps the outbox's types.
LEMMA OutboxTypesKept == WorkTypes /\ OutboxTypes /\ Next => OutboxTypes'
<1> SUFFICES ASSUME WorkTypes, OutboxTypes, Next
             PROVE  OutboxTypes'
  OBVIOUS
<1> USE Sets DEF OutboxTypes
<1>1. ASSUME NEW h \in helpers, HelperClaims(h), claim[Id(h)] = NoBody
      PROVE  OutboxTypes'
  <2>1. Id(h) \in Ids /\ h.item \in Items
    BY Identity DEF WorkTypes
  <2> QED BY <1>1, <2>1 DEF HelperClaims, NoBody, Outbox!Claim
<1>2. ASSUME NEW id \in Ids, ModemAccepts(id)
      PROVE  OutboxTypes'
  <2>1. claim[id] \in Items
    BY <1>2 DEF ModemAccepts, Outbox!Accept, NoBody
  <2>2. [id |-> id, body |-> claim[id]] \in Outbox!Message
    BY <2>1 DEF Outbox!Message
  <2> QED BY <1>2, <2>2 DEF ModemAccepts, Outbox!Accept
<1>3. ASSUME NEW h \in helpers, HelperDecides(h)
      PROVE  OutboxTypes'
  <2>1. Id(h) \in Ids
    BY Identity DEF WorkTypes
  <2> QED BY <1>3, <2>1 DEF HelperDecides, Outbox!Decide, Outbox!Verdicts
<1> QED BY <1>1, <1>2, <1>3, OutboxSteps

-----------------------------------------------------------------------------
(* The screen and what it started.                                         *)

\* A step draws at most one number, and shows a proposal it stages under it.
LEMMA ScreenKept == TypeOK /\ Screen /\ Attempts /\ Answers /\ Next => Screen'
<1> SUFFICES ASSUME TypeOK, Screen, Attempts, Answers, Next
             PROVE  Screen'
  OBVIOUS
<1>t. ScreenTypes /\ WorkTypes
  BY TypeParts
<1>n. staged \in Nat /\ prop \in Nat /\ NoProp = 0 /\ staged + 1 \notin attempted
  BY <1>t, Sets DEF ScreenTypes, NoProp, Attempts
<1> USE Sets DEF Screen, screen, history, Disarm
<1>s. ASSUME NEW item \in Items, NEW window \in BOOLEAN, Stage(item, window), ~rejecting,
             UNCHANGED attempted
      PROVE  Screen'
  BY <1>n, <1>s DEF Stage
<1>1. CASE User
  <2>1. ASSUME NEW t \in Texts, SendMessage(t)
        PROVE  Screen'
    <3>1. CASE UNCHANGED <<screen, staged, rejecting, visible>>
      BY <2>1, <3>1 DEF SendMessage
    <3>2. CASE ~rejecting /\ \E window \in BOOLEAN : Stage(t, window)
      BY <1>s, <2>1, <3>2 DEF SendMessage
    <3> QED BY <2>1, <3>1, <3>2 DEF SendMessage
  <2>2. ASSUME NEW d \in Drafts, Review(d)
        PROVE  Screen'
    BY <2>2 DEF Review
  <2>3. CASE Arm
    BY <2>3 DEF Arm
  <2>4. CASE ConfirmSend \/ ConfirmFails
    BY <2>4 DEF ConfirmSend, ConfirmFails
  <2>5. CASE Cancel \/ Done
    BY <1>n, <2>5 DEF Cancel, Done, Dismiss
  <2>6. CASE OtherCommand \/ LookAway \/ ShowStatus
    BY <2>6 DEF OtherCommand, LookAway, ShowStatus
  <2> QED BY <1>1, <2>1, <2>2, <2>3, <2>4, <2>5, <2>6 DEF User
<1>2. ASSUME NEW c \in calls, Answer(c) \/ CallFails(c)
      PROVE  Screen'
  <2>1. CASE Lookup(c) \/ ServerDecides(c) \/ DiscardReply(c)
    BY <2>1 DEF Lookup, ServerDecides, DiscardReply
  <2>2. CASE ReviewReply(c)
    <3>1. c.item \in Items /\ attempted' = attempted
      BY <1>t, <2>2 DEF WorkTypes, Call, ReviewReply
    <3>2. CASE UNCHANGED <<screen, staged, confirm, rejecting, visible, lastTap>>
      BY <3>1, <3>2
    <3>3. CASE ~rejecting /\ \E window \in BOOLEAN : Stage(c.item, window)
      BY <1>s, <3>1, <3>3
    <3>4. ASSUME NEW window \in BOOLEAN, ~rejecting,
                 /\ staged < MaxProps /\ staged' = staged + 1 /\ Disarm
                 /\ state' = Result(c.reply)
                 /\ shown' = IF window THEN c.item ELSE NoItem
                 /\ prop' = IF window THEN staged + 1 ELSE NoProp
                 /\ visible' = window /\ rejecting' = (rejecting /\ window)
          PROVE  Screen'
      <4>1. state' \notin {"proposed", "sending"} /\ confirm' = NoProp
        BY <3>4, Results
      <4>2. prop' <= staged'
        BY <1>n, <3>4
      <4>3. ~rejecting'
        BY <3>4
      <4> QED BY <4>1, <4>2, <4>3
    <3> QED BY <2>2, <3>2, <3>3, <3>4 DEF ReviewReply
  <2>3. CASE RejectReply(c)
    BY <1>n, <2>3 DEF RejectReply, Dismiss
  <2>4. CASE ApproveReply(c)
    <3>1. c.prop = prop => state # "proposed"
      BY <2>4 DEF ApproveReply, Attempts
    <3> QED BY <2>4, <3>1 DEF ApproveReply, Finished, Start
  <2>5. CASE CallFails(c)
    BY <2>5 DEF CallFails, Finished
  <2> QED BY <1>2, <2>1, <2>2, <2>3, <2>4, <2>5 DEF Answer
<1>3. ASSUME NEW h \in helpers, HelperRuns(h) \/ HelperDecides(h) \/ HelperDies(h)
      PROVE  Screen'
  <2>1. \/ UNCHANGED screen
        \/ state = "sending" /\ state' \in {"sent", "failed", "unknown"} /\ UNCHANGED <<shown, prop>>
    BY <1>3, Results DEF HelperRuns, HelperClaims, HelperExits, HelperDecides, HelperDies, Finished,
                         emacs
  <2>2. UNCHANGED <<staged, confirm, rejecting, lastTap, attempted>>
    BY <1>3 DEF HelperRuns, HelperClaims, HelperExits, HelperDecides, HelperDies, emacs
  <2> QED BY <2>1, <2>2
<1>4. CASE EmacsRestart \/ OwnerChanged
  BY <1>n, <1>4 DEF EmacsRestart, OwnerChanged, Dismiss
<1>5. CASE \/ \E d \in Drafts : ServerLearns(d)
           \/ \E id \in Ids : ModemAccepts(id)
  BY <1>5 DEF ServerLearns, ModemAccepts, emacs
<1> QED BY <1>1, <1>2, <1>3, <1>4, <1>5 DEF Next

\* The proposal a step leaves: the same one, and then not proposed again; none;
\* or a new one under the next number.
LEMMA ScreenSteps ==
  ASSUME ScreenTypes, Next
  PROVE  /\ staged <= staged'
         /\ \/ UNCHANGED <<shown, prop>> /\ (state' = "proposed" => state = "proposed")
            \/ prop' = NoProp
            \/ prop' = staged + 1
<1>n. staged \in Nat
  BY DEF ScreenTypes
<1> USE <1>n DEF screen
<1>1. CASE User
  <2>1. CASE \E t \in Texts : SendMessage(t)
    BY <2>1 DEF SendMessage, Stage
  <2>2. CASE (\E d \in Drafts : Review(d)) \/ Arm \/ ConfirmSend \/ ConfirmFails
    BY <2>2 DEF Review, Arm, ConfirmSend, ConfirmFails
  <2>3. CASE Cancel \/ Done \/ OtherCommand \/ LookAway \/ ShowStatus
    BY <2>3 DEF Cancel, Done, OtherCommand, LookAway, ShowStatus, Dismiss
  <2> QED BY <1>1, <2>1, <2>2, <2>3 DEF User
<1>2. ASSUME NEW c \in calls, ReviewReply(c)
      PROVE  /\ staged <= staged'
             /\ UNCHANGED screen \/ prop' = NoProp \/ prop' = staged + 1
  BY <1>2 DEF ReviewReply, Stage
<1>3. ASSUME NEW c \in calls, Answer(c) \/ CallFails(c), ~ReviewReply(c)
      PROVE  /\ staged' = staged
             /\ \/ UNCHANGED <<shown, prop>> /\ (state' = "proposed" => state = "proposed")
                \/ prop' = NoProp
  BY <1>3 DEF Answer, Lookup, ServerDecides, DiscardReply, RejectReply, ApproveReply, CallFails,
              Dismiss, Finished
<1>4. ASSUME NEW h \in helpers, HelperRuns(h) \/ HelperDecides(h) \/ HelperDies(h)
      PROVE  /\ UNCHANGED <<staged, shown, prop>>
             /\ state' = "proposed" => state = "proposed"
  BY <1>4, Results DEF HelperRuns, HelperClaims, HelperExits, HelperDecides, HelperDies, Finished,
                       emacs
<1>5. CASE \/ \E d \in Drafts : ServerLearns(d)
           \/ \E id \in Ids : ModemAccepts(id)
           \/ OwnerChanged \/ EmacsRestart
  BY <1>5 DEF ServerLearns, ModemAccepts, OwnerChanged, EmacsRestart, Dismiss, emacs
<1> QED BY <1>1, <1>2, <1>3, <1>4, <1>5 DEF Next

\* The helpers a step leaves: some of them; one of them has claimed; or one more,
\* for the confirmed text or the approved draft on the screen.
LEMMA HelperSteps ==
  ASSUME Next
  PROVE  \/ helpers' \subseteq helpers /\ attempted' = attempted
         \/ \E h \in helpers, x \in {"claimant", "repeat"} :
              HelperClaims(h) /\ Phase(h, x) /\ attempted' = attempted
         \/ ConfirmSend /\ shown \notin Drafts /\ Start(shown, prop)
         \/ \E c \in calls : /\ ApproveReply(c) /\ c.reply = "approved"
                             /\ state = "sending" /\ prop = c.prop
                             /\ Start(c.item, c.prop)
<1> USE DEF history
<1>1. CASE User
  <2>1. CASE ConfirmSend
    BY <2>1 DEF ConfirmSend
  <2>2. CASE (\E t \in Texts : SendMessage(t)) \/ (\E d \in Drafts : Review(d)) \/ Arm
             \/ ConfirmFails
    BY <2>2 DEF SendMessage, Review, Arm, ConfirmFails
  <2>3. CASE Cancel \/ Done \/ OtherCommand \/ LookAway \/ ShowStatus
    BY <2>3 DEF Cancel, Done, OtherCommand, LookAway, ShowStatus
  <2> QED BY <1>1, <2>1, <2>2, <2>3 DEF User
<1>2. ASSUME NEW c \in calls, ApproveReply(c)
      PROVE  \/ UNCHANGED <<helpers, attempted>>
             \/ /\ c.reply = "approved" /\ state = "sending" /\ prop = c.prop
                /\ Start(c.item, c.prop)
  BY <1>2 DEF ApproveReply
<1>3. ASSUME NEW c \in calls, Answer(c) \/ CallFails(c), ~ApproveReply(c)
      PROVE  UNCHANGED <<helpers, attempted>>
  BY <1>3 DEF Answer, Lookup, ServerDecides, ReviewReply, DiscardReply, RejectReply, CallFails
<1>4. ASSUME NEW h \in helpers, HelperClaims(h)
      PROVE  (Phase(h, "claimant") \/ Phase(h, "repeat")) /\ attempted' = attempted
  BY <1>4 DEF HelperClaims, emacs
<1>5. ASSUME NEW h \in helpers, HelperExits(h) \/ HelperDecides(h) \/ HelperDies(h)
      PROVE  helpers' \subseteq helpers /\ attempted' = attempted
  BY <1>5 DEF HelperExits, HelperDecides, HelperDies, emacs
<1>6. CASE \/ \E d \in Drafts : ServerLearns(d)
           \/ \E id \in Ids : ModemAccepts(id)
           \/ OwnerChanged \/ EmacsRestart
  BY <1>6 DEF ServerLearns, ModemAccepts, OwnerChanged, EmacsRestart, emacs
<1> QED BY <1>1, <1>2, <1>3, <1>4, <1>5, <1>6 DEF Next, HelperRuns

\* A request a step adds: a lookup for a review; a discard of the draft on the
\* screen; an approval of it, confirmed; an earlier request, answered; or the
\* rejection an earlier discard goes on to.
LEMMA RequestSteps ==
  ASSUME WorkTypes, Next, NEW e \in calls', e \notin calls
  PROVE  \/ e.kind = "review" /\ e.reply = NoReply
         \/ /\ Cancel /\ shown \in Drafts
            /\ e.kind = "discard" /\ e.item = shown /\ e.reply = NoReply
         \/ /\ ConfirmSend /\ shown \in Drafts /\ calls' = calls \cup {e}
            /\ e.kind = "approve" /\ e.item = shown /\ e.prop = prop /\ e.reply = NoReply
         \/ \E c \in calls :
              /\ e.kind = c.kind /\ e.item = c.item /\ e.prop = c.prop
              /\ calls' = (calls \ {c}) \cup {e}
              /\ \/ Lookup(c) /\ e.reply = IF claim[c.item] = NoBody THEN "unclaimed"
                                           ELSE verdict[c.item]
                 \/ ServerDecides(c) /\ e.reply = remote'[c.item]
         \/ \E c \in calls :
              /\ DiscardReply(c) /\ c.reply = "unclaimed"
              /\ e.kind = "reject" /\ e.item = c.item /\ e.reply = NoReply
<1>1. CASE User
  <2>1. CASE ConfirmSend
    BY <2>1 DEF ConfirmSend, Ask
  <2>2. CASE (\E t \in Texts : SendMessage(t)) \/ Arm \/ ConfirmFails
    BY <2>2 DEF SendMessage, Arm, ConfirmFails
  <2>3. CASE \E d \in Drafts : Review(d)
    BY <2>3 DEF Review, Ask
  <2>4. CASE Done \/ OtherCommand \/ LookAway \/ ShowStatus
    BY <2>4 DEF Done, OtherCommand, LookAway, ShowStatus
  <2>5. CASE Cancel
    BY <2>5 DEF Cancel, Ask
  <2> QED BY <1>1, <2>1, <2>2, <2>3, <2>4, <2>5 DEF User
<1>2. ASSUME NEW c \in calls, Lookup(c)
      PROVE  /\ e.kind = c.kind /\ e.item = c.item /\ e.prop = c.prop
             /\ calls' = (calls \ {c}) \cup {e}
             /\ e.reply = IF claim[c.item] = NoBody THEN "unclaimed" ELSE verdict[c.item]
  <2> DEFINE x == IF claim[c.item] = NoBody THEN "unclaimed" ELSE verdict[c.item]
  <2>1. Reply(c, x)
    BY <1>2 DEF Lookup, NoBody
  <2>2. c \in Call
    BY DEF WorkTypes
  <2> HIDE DEF x
  <2>3. e = [c EXCEPT !.reply = x] /\ calls' = (calls \ {c}) \cup {e}
    BY <2>1 DEF Reply
  <2>4. e.kind = c.kind /\ e.item = c.item /\ e.prop = c.prop /\ e.reply = x
    BY <2>2, <2>3 DEF Call
  <2> QED BY <2>3, <2>4 DEF x
<1>3. ASSUME NEW c \in calls, ServerDecides(c)
      PROVE  /\ e.kind = c.kind /\ e.item = c.item /\ e.prop = c.prop
             /\ calls' = (calls \ {c}) \cup {e}
             /\ e.reply = remote'[c.item]
  <2>1. c \in Call /\ c.item \in Drafts
    BY DEF WorkTypes, Call
  <2>2. PICK x \in ServerStates : remote' = [remote EXCEPT ![c.item] = x] /\ Reply(c, x)
    BY <1>3, <2>1, Decided DEF WorkTypes
  <2>3. e = [c EXCEPT !.reply = x] /\ calls' = (calls \ {c}) \cup {e}
    BY <2>2 DEF Reply
  <2>4. e.kind = c.kind /\ e.item = c.item /\ e.prop = c.prop /\ e.reply = x
    BY <2>1, <2>3 DEF Call
  <2>5. remote'[c.item] = x
    BY <2>1, <2>2 DEF WorkTypes
  <2> QED BY <2>3, <2>4, <2>5
<1>4. ASSUME NEW c \in calls, DiscardReply(c)
      PROVE  c.reply = "unclaimed" /\ e.kind = "reject" /\ e.item = c.item /\ e.reply = NoReply
  <2>1. c \in Call
    BY DEF WorkTypes
  <2>2. c.reply = "unclaimed" /\ e = [c EXCEPT !.kind = "reject", !.reply = NoReply]
    BY <1>4 DEF DiscardReply
  <2> QED BY <2>1, <2>2, Rejecting
<1>5. ASSUME NEW c \in calls, ReviewReply(c) \/ RejectReply(c) \/ ApproveReply(c) \/ CallFails(c)
      PROVE  FALSE
  BY <1>5 DEF ReviewReply, RejectReply, ApproveReply, CallFails
<1>6. CASE \/ \E d \in Drafts : ServerLearns(d)
           \/ \E id \in Ids : ModemAccepts(id)
           \/ OwnerChanged \/ EmacsRestart
           \/ \E h \in helpers : HelperRuns(h) \/ HelperDecides(h) \/ HelperDies(h)
  BY <1>6 DEF ServerLearns, ModemAccepts, OwnerChanged, EmacsRestart, HelperRuns, HelperClaims,
              HelperExits, HelperDecides, HelperDies, emacs
<1> QED BY <1>1, <1>2, <1>3, <1>4, <1>5, <1>6 DEF Next, Answer

\* One approval and one helper for each confirmed proposal.
LEMMA AttemptsKept == TypeOK /\ Screen /\ Attempts /\ Next => Attempts'
<1> SUFFICES ASSUME TypeOK, Screen, Attempts, Next
             PROVE  Attempts'
  OBVIOUS
<1>t. ScreenTypes /\ WorkTypes
  BY TypeParts
<1>n. staged \in Nat /\ staged' \in Nat /\ NoProp = 0 /\ prop \in Nat /\ staged <= staged'
  BY <1>t, Sets, ScreenSteps, ScreenTypesKept DEF ScreenTypes, NoProp
<1>p. \A q \in Props : q \in Nat /\ q # NoProp
  BY Sets
\* The numbers a step adds to the attempts.
<1>1. \/ attempted' = attempted
      \/ ConfirmSend /\ shown \notin Drafts /\ attempted' = attempted \cup {prop}
      \/ \E c \in calls : /\ ApproveReply(c) /\ prop = c.prop /\ state = "sending"
                          /\ attempted' = attempted \cup {c.prop}
  BY HelperSteps DEF Start
<1>2. \A p \in attempted' : p <= staged'
  BY <1>t, <1>n, <1>p, <1>1 DEF Attempts, Screen, WorkTypes, ConfirmSend, ApproveReply
\* What a known number shows stays what it shows.
<1>3. ASSUME NEW p \in Props, p <= staged, p = prop'
      PROVE  p = prop /\ shown' = shown
  BY <1>n, <1>p, <1>3, ScreenSteps, <1>t
<1>4. \A h \in helpers' : h.prop \in attempted' /\ (h.prop = prop' => shown' = h.item)
  <2> SUFFICES ASSUME NEW h \in helpers'
               PROVE  h.prop \in attempted' /\ (h.prop = prop' => shown' = h.item)
    OBVIOUS
  <2>1. ASSUME NEW g \in helpers, h.prop = g.prop, h.item = g.item
        PROVE  h.prop \in attempted' /\ (h.prop = prop' => shown' = h.item)
    <3>1. g.prop \in attempted /\ g.prop <= staged /\ (g.prop = prop => shown = g.item)
          /\ g.prop \in Props
      BY <1>t DEF Attempts, WorkTypes
    <3>2. h.prop \in attempted'
      BY <1>1, <2>1, <3>1
    <3>3. g.prop = prop' => shown' = g.item
      BY <1>3, <3>1
    <3> QED BY <2>1, <3>2, <3>3
  <2>2. CASE \E g \in helpers, x \in {"claimant", "repeat"} : Phase(g, x)
    <3>1. PICK g \in helpers, x \in {"claimant", "repeat"} : Phase(g, x)
      BY <2>2
    <3>2. h \in helpers \/ (h.prop = g.prop /\ h.item = g.item)
      BY <1>t, <3>1, PhaseSteps DEF WorkTypes
    <3> QED BY <2>1, <3>2
  <2>3. CASE ConfirmSend /\ shown \notin Drafts /\ Start(shown, prop)
    <3>1. h \in helpers \/ (h.prop = prop /\ h.item = shown)
      BY <2>3 DEF Start
    <3>2. UNCHANGED <<shown, prop>> /\ attempted' = attempted \cup {prop}
      BY <2>3 DEF ConfirmSend, Start
    <3> QED BY <2>1, <3>1, <3>2
  <2>4. ASSUME NEW c \in calls, ApproveReply(c), c.reply = "approved", state = "sending",
               prop = c.prop, Start(c.item, c.prop)
        PROVE  h.prop \in attempted' /\ (h.prop = prop' => shown' = h.item)
    <3>1. h \in helpers \/ (h.prop = prop /\ h.item = c.item)
      BY <2>4 DEF Start
    <3>2. UNCHANGED screen /\ attempted' = attempted \cup {prop} /\ shown = c.item
      BY <2>4 DEF ApproveReply, Start, Attempts
    <3> QED BY <2>1, <3>1, <3>2 DEF screen
  <2>5. CASE helpers' \subseteq helpers
    <3>1. h \in helpers
      BY <2>5
    <3> QED BY <2>1, <3>1
  <2> QED BY <2>2, <2>3, <2>4, <2>5, HelperSteps
<1>5. \A h, g \in helpers' : h.prop = g.prop => h = g
  <2>1. CASE helpers' \subseteq helpers
    BY <2>1 DEF Attempts
  <2>2. CASE \E g \in helpers, x \in {"claimant", "repeat"} : Phase(g, x)
    <3>1. PICK b \in helpers, x \in {"claimant", "repeat"} : Phase(b, x)
      BY <2>2
    <3>2. \A h \in helpers' :
            h \in helpers \ {b} \/ (h.prop = b.prop /\ helpers' = (helpers \ {b}) \cup {h})
      BY <1>t, <3>1, PhaseSteps DEF WorkTypes
    <3> QED BY <3>2 DEF Attempts
  <2>3. ASSUME NEW item, NEW p, p \notin attempted, Start(item, p)
        PROVE  \A h, g \in helpers' : h.prop = g.prop => h = g
    BY <2>3 DEF Start, Attempts
  <2> QED BY <2>1, <2>2, <2>3, HelperSteps DEF ConfirmSend, Screen, ApproveReply, Attempts
\* An approval is of a number the step did not start.
<1>6. ASSUME NEW e \in calls, e \in calls', e.kind = "approve"
      PROVE  e.prop \notin attempted'
  <2>1. e.prop \notin attempted /\ (e.prop = prop => state # "proposed")
    BY <1>6 DEF Attempts
  <2>2. ASSUME NEW c \in calls, ApproveReply(c)
        PROVE  e.prop # c.prop
    BY <1>6, <2>2 DEF ApproveReply, Attempts
  <2> QED BY <1>1, <2>1, <2>2 DEF ConfirmSend
<1>7. ASSUME NEW e \in calls', e.kind = "approve"
      PROVE  /\ e.prop # NoProp /\ e.prop <= staged' /\ e.prop \notin attempted'
             /\ e.prop = prop' => state' # "proposed" /\ shown' = e.item
  <2>1. ASSUME NEW c \in calls, c.kind = "approve", c.prop = e.prop, c.item = e.item,
               c.prop \notin attempted'
        PROVE  /\ e.prop # NoProp /\ e.prop <= staged' /\ e.prop \notin attempted'
               /\ e.prop = prop' => state' # "proposed" /\ shown' = e.item
    <3>1. c.prop # NoProp /\ c.prop <= staged /\ (c.prop = prop => state # "proposed" /\ shown = c.item)
      BY <2>1 DEF Attempts
    <3>2. c.prop \in Props
      BY <1>t, <3>1 DEF WorkTypes, Call
    <3> QED BY <1>t, <1>n, <1>p, <2>1, <3>1, <3>2, ScreenSteps
  <2>2. CASE e \in calls
    BY <1>6, <1>7, <2>1, <2>2
  <2>3. CASE ConfirmSend /\ shown \in Drafts /\ e.item = shown /\ e.prop = prop
    <3>1. prop # NoProp /\ prop <= staged /\ prop \notin attempted
      BY <2>3 DEF ConfirmSend, Screen
    <3>2. UNCHANGED <<shown, prop, staged>> /\ state' = "sending" /\ attempted' = attempted
      BY <1>1, <2>3 DEF ConfirmSend, ApproveReply
    <3> QED BY <2>3, <3>1, <3>2
  <2>4. ASSUME NEW c \in calls, c.kind = e.kind, e.item = c.item, e.prop = c.prop,
               ServerDecides(c)
        PROVE  /\ e.prop # NoProp /\ e.prop <= staged' /\ e.prop \notin attempted'
               /\ e.prop = prop' => state' # "proposed" /\ shown' = e.item
    <3>1. c.prop \notin attempted'
      BY <1>7, <2>4 DEF ServerDecides, Attempts, history
    <3> QED BY <1>7, <2>1, <2>4, <3>1
  <2> QED BY <1>t, <1>7, <2>2, <2>3, <2>4, RequestSteps DEF Lookup
<1>8. ASSUME NEW c \in calls', NEW e \in calls', c.kind = "approve", e.kind = "approve",
             c.prop = e.prop, c \notin calls
      PROVE  c = e
  <2>1. CASE ConfirmSend /\ shown \in Drafts /\ calls' = calls \cup {c} /\ c.prop = prop
    BY <1>8, <2>1 DEF ConfirmSend, Attempts
  <2>2. ASSUME NEW b \in calls, c.kind = b.kind, c.prop = b.prop, calls' = (calls \ {b}) \cup {c}
        PROVE  c = e
    BY <1>8, <2>2 DEF Attempts
  <2> QED BY <1>t, <1>8, <2>1, <2>2, RequestSteps
<1>9. \A c, e \in calls' : c.kind = "approve" /\ e.kind = "approve" /\ c.prop = e.prop => c = e
  BY <1>8 DEF Attempts
<1> QED BY <1>2, <1>4, <1>5, <1>7, <1>9 DEF Attempts

-----------------------------------------------------------------------------
(* The journal, the server and what is known of them.                      *)

\* A body, a verdict and an accepted message stay.
LEMMA Final ==
  ASSUME WorkTypes, OutboxTypes, Next
  PROVE  /\ \A id \in Ids : /\ claim[id] # NoBody => claim'[id] = claim[id]
                            /\ verdict[id] # "unknown" => verdict'[id] = verdict[id]
         /\ \A i \in DOMAIN accepted : i \in DOMAIN accepted' /\ accepted'[i] = accepted[i]
<1>1. CASE UNCHANGED <<claim, verdict, accepted>>
  BY <1>1
<1>2. ASSUME NEW h \in helpers, HelperClaims(h), claim[Id(h)] = NoBody
      PROVE  claim' = [claim EXCEPT ![Id(h)] = h.item] /\ UNCHANGED <<verdict, accepted>>
  BY <1>2 DEF HelperClaims, NoBody, Outbox!Claim
<1>3. ASSUME NEW id \in Ids, ModemAccepts(id)
      PROVE  /\ UNCHANGED <<claim, verdict>>
             /\ \A i \in DOMAIN accepted : i \in DOMAIN accepted' /\ accepted'[i] = accepted[i]
  BY <1>3 DEF ModemAccepts, Outbox!Accept, OutboxTypes
<1>4. ASSUME NEW h \in helpers, HelperDecides(h)
      PROVE  /\ UNCHANGED <<claim, accepted>> /\ verdict[Id(h)] = "unknown"
             /\ \E v : verdict' = [verdict EXCEPT ![Id(h)] = v]
  BY <1>4 DEF HelperDecides, Outbox!Decide
<1> QED BY <1>1, <1>2, <1>3, <1>4, OutboxSteps DEF OutboxTypes

\* The server's state of a draft changes by its own decision, or to the verdict
\* of a claimed message.
LEMMA ServerSteps ==
  ASSUME WorkTypes, Next, NEW d \in Drafts, remote'[d] # remote[d]
  PROVE  \/ claim[d] # NoBody /\ remote'[d] = verdict[d]
         \/ /\ remote[d] # "rejected"
            /\ \/ remote'[d] = "approved"
               \/ /\ remote'[d] = "rejected"
                  /\ \E c \in calls : ServerDecides(c) /\ c.kind = "reject" /\ c.item = d
<1>1. CASE remote' = remote
  BY <1>1
<1>2. ASSUME NEW b \in Drafts, ServerLearns(b)
      PROVE  claim[d] # NoBody /\ remote'[d] = verdict[d]
  BY <1>2 DEF ServerLearns, WorkTypes, NoBody
<1>3. ASSUME NEW c \in calls, ServerDecides(c)
      PROVE  /\ remote[d] # "rejected" /\ c.item = d
             /\ \/ remote'[d] = "approved"
                \/ remote'[d] = "rejected" /\ c.kind = "reject"
  <2>1. c \in Call /\ c.item \in Drafts
    BY DEF WorkTypes, Call
  <2>2. PICK x \in ServerStates :
          /\ remote' = [remote EXCEPT ![c.item] = x] /\ Reply(c, x)
          /\ x # remote[c.item] => \/ x = "approved" /\ c.kind = "approve"
                                   \/ x = "rejected" /\ c.kind = "reject"
          /\ remote[c.item] = "rejected" => x = "rejected"
    BY <1>3, <2>1, Decided DEF WorkTypes
  <2>3. c.item = d /\ remote'[d] = x
    BY <2>1, <2>2 DEF WorkTypes
  <2> QED BY <2>2, <2>3
<1>4. remote' = remote \/ (\E b \in Drafts : ServerLearns(b))
        \/ (\E c \in calls : ServerDecides(c))
  <2>1. CASE User
    BY <2>1 DEF User, SendMessage, Review, Arm, ConfirmSend, ConfirmFails, Cancel, Done,
                OtherCommand, LookAway, ShowStatus
  <2>2. CASE \E c \in calls : Answer(c) \/ CallFails(c)
    BY <2>2 DEF Answer, Lookup, ReviewReply, DiscardReply, RejectReply, ApproveReply, CallFails
  <2>3. CASE \/ \E id \in Ids : ModemAccepts(id)
             \/ OwnerChanged \/ EmacsRestart
             \/ \E h \in helpers : HelperRuns(h) \/ HelperDecides(h) \/ HelperDies(h)
    BY <2>3 DEF ModemAccepts, OwnerChanged, EmacsRestart, HelperRuns, HelperClaims, HelperExits,
                HelperDecides, HelperDies, emacs
  <2> QED BY <2>1, <2>2, <2>3 DEF Next
<1> QED BY <1>1, <1>2, <1>3, <1>4

\* A rejection is for good: the phone reports an attempt only, and there was none.
LEMMA RejectionsAreFinal ==
  ASSUME WorkTypes, Next, RejectedNeverSent, NEW d \in Drafts, remote[d] = "rejected"
  PROVE  remote'[d] = "rejected"
BY ServerSteps DEF RejectedNeverSent, NoBody

\* What requests heard.
LEMMA AnswersKept ==
  WorkTypes /\ OutboxTypes /\ Answers /\ Reports /\ RejectedNeverSent /\ Reports' /\ Next => Answers'
<1> SUFFICES ASSUME WorkTypes, OutboxTypes, Answers, Reports, RejectedNeverSent, Reports', Next,
                    NEW e \in calls'
             PROVE  /\ e.reply = "rejected" => remote'[e.item] = "rejected"
                    /\ e.reply \in {"sent", "not_sent"} => verdict'[e.item] = e.reply
  BY DEF Answers
<1>1. ASSUME NEW c \in calls
      PROVE  c.item \in Drafts /\ c.item \in Ids
  BY Sets DEF WorkTypes, Call
<1>2. CASE e \in calls
  BY <1>1, <1>2, Final, RejectionsAreFinal DEF Answers
<1>3. ASSUME NEW c \in calls, e.item = c.item, e.reply = remote'[c.item]
      PROVE  /\ e.reply = "rejected" => remote'[e.item] = "rejected"
             /\ e.reply \in {"sent", "not_sent"} => verdict'[e.item] = e.reply
  BY <1>1, <1>3 DEF Reports
<1>4. ASSUME NEW c \in calls, e.item = c.item,
             e.reply = IF claim[c.item] = NoBody THEN "unclaimed" ELSE verdict[c.item]
      PROVE  /\ e.reply = "rejected" => remote'[e.item] = "rejected"
             /\ e.reply \in {"sent", "not_sent"} => verdict'[e.item] = e.reply
  <2>1. verdict[c.item] # "rejected"
    BY <1>1 DEF OutboxTypes, Outbox!Verdicts
  <2> QED BY <1>1, <1>4, <2>1, Final
<1> QED BY <1>2, <1>3, <1>4, RequestSteps DEF NoReply

\* What the server knows of a result is recorded.
LEMMA ReportsKept == WorkTypes /\ OutboxTypes /\ Reports /\ Next => Reports'
<1> SUFFICES ASSUME WorkTypes, OutboxTypes, Reports, Next, NEW d \in Drafts,
                    remote'[d] \in {"sent", "not_sent"}
             PROVE  verdict'[d] = remote'[d]
  BY DEF Reports
<1>1. d \in Ids
  BY Sets
<1>2. CASE remote'[d] = remote[d]
  BY <1>1, <1>2, Final DEF Reports
<1>3. CASE remote'[d] # remote[d]
  <2>1. remote'[d] = verdict[d]
    BY <1>3, ServerSteps
  <2> QED BY <1>1, <2>1, Final
<1> QED BY <1>2, <1>3

\* The proposals attempted stay attempted.
LEMMA AttemptedGrows == Next => attempted \subseteq attempted'
BY HelperSteps DEF Start

\* Two helpers of one identity are one helper.
LEMMA SameIdentity ==
  ASSUME helpers \subseteq Helper, Attempts, NEW h \in helpers, NEW g \in helpers, Id(h) = Id(g)
  PROVE  (h.item \in Drafts /\ h.item = g.item) \/ h = g
<1>1. h \in Helper /\ g \in Helper
  OBVIOUS
<1> QED BY <1>1, Identity, Sets DEF Attempts

\* The modem's log, the verdicts and the journal agree.
LEMMA JournalKept ==
  TypeOK /\ OutboxTypes /\ Screen /\ Attempts /\ Journal /\ Next => Journal'
<1> SUFFICES ASSUME TypeOK, OutboxTypes, Screen, Attempts, Journal, Next
             PROVE  Journal'
  OBVIOUS
<1>t. WorkTypes
  BY TypeParts
<1>h. \A h \in helpers : h \in Helper /\ h.item \in Items /\ Id(h) \in Ids
  BY <1>t, Identity DEF WorkTypes
<1>1. \A id \in Ids : /\ verdict'[id] = "sent" => Outbox!Accepted(id)'
                      /\ verdict'[id] = "not_sent" => ~Outbox!Accepted(id)'
  <2> SUFFICES ASSUME NEW id \in Ids
               PROVE  /\ verdict'[id] = "sent" => Outbox!Accepted(id)'
                      /\ verdict'[id] = "not_sent" => ~Outbox!Accepted(id)'
    OBVIOUS
  <2>1. CASE verdict' = verdict /\ accepted' = accepted
    BY <2>1 DEF Journal, Outbox!Accepted
  <2>2. ASSUME NEW m \in Ids, ModemAccepts(m)
        PROVE  /\ verdict'[id] = "sent" => Outbox!Accepted(id)'
               /\ verdict'[id] = "not_sent" => ~Outbox!Accepted(id)'
    <3>1. /\ verdict' = verdict /\ verdict[m] = "unknown"
          /\ accepted' = Append(accepted, [id |-> m, body |-> claim[m]])
      BY <2>2 DEF ModemAccepts, Outbox!Accept
    <3>2. \A i \in DOMAIN accepted' : \/ i \in DOMAIN accepted /\ accepted'[i] = accepted[i]
                                      \/ accepted'[i].id = m
      BY <3>1 DEF OutboxTypes
    <3>3. \A i \in DOMAIN accepted : i \in DOMAIN accepted' /\ accepted'[i] = accepted[i]
      BY <1>t, Final
    <3> QED BY <3>1, <3>2, <3>3 DEF Journal, Outbox!Accepted
  <2>3. ASSUME NEW h \in helpers, HelperDecides(h)
        PROVE  /\ verdict'[id] = "sent" => Outbox!Accepted(id)'
               /\ verdict'[id] = "not_sent" => ~Outbox!Accepted(id)'
    <3>1. /\ accepted' = accepted
          /\ verdict' = [verdict EXCEPT ![Id(h)] = IF Outbox!Accepted(Id(h)) THEN "sent"
                                                   ELSE "not_sent"]
      BY <2>3 DEF HelperDecides, Outbox!Decide
    <3>2. Outbox!Accepted(id)' <=> Outbox!Accepted(id)
      BY <3>1 DEF Outbox!Accepted
    <3> QED BY <1>h, <3>1, <3>2 DEF Journal, OutboxTypes
  <2>4. ASSUME NEW h \in helpers, HelperClaims(h)
        PROVE  verdict' = verdict /\ accepted' = accepted
    BY <2>4 DEF HelperClaims, Outbox!Claim, outbox
  <2> QED BY <2>1, <2>2, <2>3, <2>4, OutboxSteps
<1>2. \A i \in DOMAIN accepted' : accepted'[i].body = claim'[accepted'[i].id]
  <2>1. ASSUME NEW i \in DOMAIN accepted
        PROVE  accepted'[i].body = claim'[accepted'[i].id]
    <3>1. accepted[i] \in Outbox!Message
      BY DEF OutboxTypes
    <3>2. accepted[i].id \in Ids /\ accepted[i].body \in Items
      BY <3>1 DEF Outbox!Message
    <3>3. claim[accepted[i].id] = accepted[i].body /\ accepted[i].body # NoBody
      BY <3>2, Sets DEF Journal
    <3> QED BY <1>t, <3>2, <3>3, Final
  <2>2. ASSUME NEW m \in Ids, ModemAccepts(m), NEW i \in DOMAIN accepted', i \notin DOMAIN accepted
        PROVE  accepted'[i].body = claim'[accepted'[i].id]
    <3>1. claim' = claim /\ accepted' = Append(accepted, [id |-> m, body |-> claim[m]])
      BY <2>2 DEF ModemAccepts, Outbox!Accept
    <3>2. accepted'[i] = [id |-> m, body |-> claim[m]]
      BY <2>2, <3>1 DEF OutboxTypes
    <3> QED BY <3>1, <3>2
  <2>3. ASSUME NEW h \in helpers, HelperClaims(h) \/ HelperDecides(h)
        PROVE  accepted' = accepted
    BY <2>3 DEF HelperClaims, HelperDecides, Outbox!Claim, Outbox!Decide, outbox
  <2> QED BY <2>1, <2>2, <2>3, OutboxSteps
\* What a claim records is its helper's item.
<1>3. ASSUME NEW id \in Ids, claim'[id] # claim[id]
      PROVE  \E h \in helpers : /\ HelperClaims(h) /\ Id(h) = id
                                /\ claim[id] = NoBody /\ claim'[id] = h.item
  <2>1. ASSUME NEW h \in helpers, HelperClaims(h), claim[Id(h)] = NoBody
        PROVE  claim' = [claim EXCEPT ![Id(h)] = h.item]
    BY <2>1 DEF HelperClaims, NoBody, Outbox!Claim
  <2>2. ASSUME NEW h \in helpers, HelperDecides(h)
        PROVE  claim' = claim
    BY <2>2 DEF HelperDecides, Outbox!Decide
  <2>3. ASSUME NEW m \in Ids, ModemAccepts(m)
        PROVE  claim' = claim
    BY <2>3 DEF ModemAccepts, Outbox!Accept
  <2> QED BY <1>h, <1>3, <2>1, <2>2, <2>3, OutboxSteps DEF OutboxTypes
<1>4. ASSUME NEW d \in Drafts
      PROVE  claim'[d] \in {NoBody, d}
  <2>1. d \in Ids /\ d \notin Props
    BY Sets
  <2> QED BY <1>h, <1>3, <2>1, Identity DEF Journal
<1>5. ASSUME NEW p \in Props, claim'[p] # NoBody
      PROVE  p \in attempted'
  <2>1. p \in Ids /\ p \notin Drafts
    BY Sets
  <2> QED BY <1>h, <1>3, <1>5, <2>1, Identity, AttemptedGrows DEF Journal, Attempts
\* A helper that was there.
<1>6. ASSUME NEW h \in helpers
      PROVE  /\ claim'[Id(h)] \in {NoBody, h.item}
             /\ claim[Id(h)] # NoBody => claim'[Id(h)] # NoBody
  <2>1. CASE claim'[Id(h)] = claim[Id(h)]
    BY <2>1 DEF Journal
  <2>2. CASE claim'[Id(h)] # claim[Id(h)]
    <3>1. PICK g \in helpers : /\ Id(g) = Id(h) /\ claim[Id(h)] = NoBody
                               /\ claim'[Id(h)] = g.item
      BY <1>h, <1>3, <2>2
    <3>2. g.item = h.item
      BY <1>t, <3>1, SameIdentity DEF WorkTypes
    <3> QED BY <3>1, <3>2
  <2> QED BY <2>1, <2>2
<1>7. ASSUME NEW h \in helpers'
      PROVE  /\ h.phase # "started" => claim'[Id(h)] # NoBody
             /\ claim'[Id(h)] \in {NoBody, h.item}
  <2>1. CASE h \in helpers
    BY <1>6, <2>1 DEF Journal
  <2>2. ASSUME h \notin helpers, NEW g \in helpers, NEW x \in {"claimant", "repeat"},
               HelperClaims(g), Phase(g, x)
        PROVE  /\ h.phase # "started" => claim'[Id(h)] # NoBody
               /\ claim'[Id(h)] \in {NoBody, h.item}
    <3>1. h.item = g.item /\ Id(h) = Id(g)
      BY <1>t, <2>2, PhaseSteps DEF WorkTypes
    <3>2. claim'[Id(g)] # NoBody
      <4>1. claim[Id(g)] # NoBody \/ claim' = [claim EXCEPT ![Id(g)] = g.item]
        BY <2>2 DEF HelperClaims, NoBody, Outbox!Claim
      <4>2. g.item # NoBody /\ Id(g) \in Ids
        BY <1>h, Sets
      <4> QED BY <1>6, <4>1, <4>2 DEF OutboxTypes
    <3> QED BY <1>6, <3>1, <3>2
  <2>3. ASSUME h \notin helpers, NEW item \in Items, NEW p \in Props, Start(item, p),
               p \notin attempted, claim' = claim
        PROVE  /\ h.phase # "started" => claim'[Id(h)] # NoBody
               /\ claim'[Id(h)] \in {NoBody, h.item}
    <3>1. h.phase = "started" /\ h.item = item /\ h.prop = p
      BY <2>3 DEF Start
    <3>2. CASE item \in Drafts
      BY <2>3, <3>1, <3>2 DEF Id, Journal
    <3>3. CASE item \notin Drafts
      BY <2>3, <3>1, <3>3 DEF Id, Journal
    <3> QED BY <3>1, <3>2, <3>3
  <2>4. ASSUME ConfirmSend, shown \notin Drafts, Start(shown, prop)
        PROVE  shown \in Items /\ prop \in Props /\ prop \notin attempted /\ claim' = claim
    BY <2>4, TypeParts DEF ConfirmSend, Screen, ScreenTypes, outbox
  <2>5. ASSUME NEW c \in calls, ApproveReply(c)
        PROVE  c.item \in Items /\ c.prop \in Props /\ c.prop \notin attempted /\ claim' = claim
    BY <1>t, <2>5, Sets DEF ApproveReply, Attempts, WorkTypes, Call, outbox
  <2> QED BY <2>1, <2>2, <2>3, <2>4, <2>5, HelperSteps
<1> QED BY <1>1, <1>2, <1>4, <1>5, <1>7 DEF Journal

-----------------------------------------------------------------------------
(* Rejections and results.                                                 *)

Pending(d) == state = "proposed" /\ rejecting /\ shown = d
Untouched(d) == claim[d] = NoBody /\ \A h \in helpers : h.item # d

\* A draft that awaits its rejection leaves the screen when it is rejected, or
\* when Emacs restarts.
LEMMA PendingSteps ==
  ASSUME Screen, Next, NEW d \in Drafts, Pending(d)
  PROVE  \/ Pending(d)'
         \/ calls' = {}
         \/ \E c \in calls : c.item = d /\ c.reply = "rejected"
<1> USE DEF Pending, screen
<1>1. CASE User
  <2>1. CASE \E t \in Texts : SendMessage(t)
    BY <2>1 DEF SendMessage
  <2>2. CASE (\E b \in Drafts : Review(b)) \/ Arm \/ ConfirmSend \/ ConfirmFails
    BY <2>2 DEF Review, Arm, ConfirmSend, ConfirmFails
  <2>3. CASE Cancel \/ Done \/ OtherCommand \/ LookAway \/ ShowStatus
    BY <2>3 DEF Cancel, Done, OtherCommand, LookAway, ShowStatus
  <2> QED BY <1>1, <2>1, <2>2, <2>3 DEF User
<1>2. ASSUME NEW c \in calls, RejectReply(c)
      PROVE  Pending(d)' \/ (c.item = d /\ c.reply = "rejected")
  BY <1>2 DEF RejectReply
<1>3. ASSUME NEW c \in calls, Answer(c) \/ CallFails(c), ~RejectReply(c)
      PROVE  Pending(d)'
  BY <1>3 DEF Answer, Lookup, ServerDecides, ReviewReply, DiscardReply, ApproveReply, CallFails,
              Finished
<1>4. ASSUME NEW h \in helpers, HelperRuns(h) \/ HelperDecides(h) \/ HelperDies(h)
      PROVE  Pending(d)'
  BY <1>4 DEF HelperRuns, HelperClaims, HelperExits, HelperDecides, HelperDies, Finished, emacs
<1>5. CASE EmacsRestart
  BY <1>5 DEF EmacsRestart
<1>6. CASE \/ \E b \in Drafts : ServerLearns(b)
           \/ \E id \in Ids : ModemAccepts(id)
           \/ OwnerChanged
  BY <1>6 DEF ServerLearns, ModemAccepts, OwnerChanged, emacs
<1> QED BY <1>1, <1>2, <1>3, <1>4, <1>5, <1>6 DEF Next

\* Sending goes on, or starts from a confirmed proposal.
LEMMA SendingSteps ==
  ASSUME Next, state' = "sending"
  PROVE  ConfirmSend \/ (state = "sending" /\ UNCHANGED <<shown, prop>>)
<1> USE DEF screen
<1>1. CASE User
  <2>1. CASE \E t \in Texts : SendMessage(t)
    BY <2>1 DEF SendMessage, Stage
  <2>2. CASE (\E b \in Drafts : Review(b)) \/ Arm \/ ConfirmFails
    BY <2>2 DEF Review, Arm, ConfirmFails
  <2>3. CASE Cancel \/ Done \/ OtherCommand \/ LookAway \/ ShowStatus
    BY <2>3 DEF Cancel, Done, OtherCommand, LookAway, ShowStatus, Dismiss
  <2> QED BY <1>1, <2>1, <2>2, <2>3 DEF User
<1>2. ASSUME NEW c \in calls, Answer(c) \/ CallFails(c)
      PROVE  state = "sending" /\ UNCHANGED <<shown, prop>>
  <2>1. CASE ReviewReply(c)
    BY <2>1, Results DEF ReviewReply, Stage
  <2>2. CASE RejectReply(c)
    BY <2>2 DEF RejectReply, Dismiss
  <2>3. CASE ApproveReply(c) \/ CallFails(c)
    BY <2>3 DEF ApproveReply, CallFails, Finished
  <2>4. CASE Lookup(c) \/ ServerDecides(c) \/ DiscardReply(c)
    BY <2>4 DEF Lookup, ServerDecides, DiscardReply
  <2> QED BY <1>2, <2>1, <2>2, <2>3, <2>4 DEF Answer
<1>3. ASSUME NEW h \in helpers, HelperRuns(h) \/ HelperDecides(h) \/ HelperDies(h)
      PROVE  state = "sending" /\ UNCHANGED <<shown, prop>>
  BY <1>3, Results DEF HelperRuns, HelperClaims, HelperExits, HelperDecides, HelperDies, Finished,
                       emacs
<1>4. CASE \/ \E b \in Drafts : ServerLearns(b)
           \/ \E id \in Ids : ModemAccepts(id)
           \/ OwnerChanged \/ EmacsRestart
  BY <1>4 DEF ServerLearns, ModemAccepts, OwnerChanged, EmacsRestart, Dismiss, emacs
<1> QED BY <1>1, <1>2, <1>3, <1>4 DEF Next

\* A draft no helper has stays so, unless its approval is carried out.
LEMMA UntouchedSteps ==
  ASSUME WorkTypes, OutboxTypes, Next, NEW d \in Drafts, Untouched(d)
  PROVE  \/ Untouched(d)'
         \/ \E c \in calls : /\ c.kind = "approve" /\ c.reply = "approved" /\ c.item = d
                             /\ state = "sending" /\ prop = c.prop
<1>d. d \in Ids
  BY Sets
<1>1. claim'[d] = NoBody
  <2>1. ASSUME NEW h \in helpers, HelperClaims(h), claim[Id(h)] = NoBody
        PROVE  claim'[d] = NoBody
    <3>1. Id(h) # d
      BY <2>1, Identity, Sets DEF Untouched, WorkTypes
    <3> QED BY <1>d, <2>1, <3>1 DEF HelperClaims, NoBody, Outbox!Claim, Untouched,
                                OutboxTypes
  <2>2. ASSUME \/ \E h \in helpers : HelperDecides(h)
               \/ \E id \in Ids : ModemAccepts(id)
        PROVE  claim' = claim
    BY <2>2 DEF HelperDecides, ModemAccepts, Outbox!Decide, Outbox!Accept
  <2> QED BY <2>1, <2>2, OutboxSteps DEF Untouched
<1>2. CASE helpers' \subseteq helpers
  BY <1>1, <1>2 DEF Untouched
<1>3. ASSUME NEW h \in helpers, NEW x \in {"claimant", "repeat"}, Phase(h, x)
      PROVE  \A g \in helpers' : g.item # d
  BY <1>3, PhaseSteps DEF WorkTypes, Untouched
<1>4. CASE Start(shown, prop) /\ shown \notin Drafts
  BY <1>1, <1>4 DEF Start, Untouched
<1>5. ASSUME NEW c \in calls, Start(c.item, c.prop), c.item # d
      PROVE  Untouched(d)'
  BY <1>1, <1>5 DEF Start, Untouched
<1> QED BY <1>1, <1>2, <1>3, <1>4, <1>5, HelperSteps DEF Untouched, ApproveReply

\* The rejections under way.
LEMMA RejectionsKept ==
  /\ TypeOK /\ OutboxTypes /\ Journal /\ Screen /\ Attempts /\ Answers /\ Rejections
  /\ RejectedNeverSent /\ Next
  => Rejections'
<1> SUFFICES ASSUME TypeOK, OutboxTypes, Journal, Screen, Attempts, Answers, Rejections,
                    RejectedNeverSent, Next, NEW e \in calls'
             PROVE  /\ e.kind \in {"discard", "reject"} =>
                         Pending(e.item)' \/ remote'[e.item] = "rejected"
                    /\ e.kind = "reject" \/ (e.kind = "discard" /\ e.reply = "unclaimed") =>
                         Untouched(e.item)'
                    /\ /\ e.kind = "approve" /\ e.reply = "approved"
                       /\ state' = "sending" /\ prop' = e.prop
                       => remote'[e.item] # "rejected"
  BY DEF Rejections, Pending, Untouched
<1>t. WorkTypes
  BY TypeParts
<1>c. \A c \in calls : c.item \in Drafts /\ c.item \in Ids
  BY <1>t, Sets DEF WorkTypes, Call
<1>r. \A c \in calls :
        /\ c.kind \in {"discard", "reject"} => Pending(c.item) \/ remote[c.item] = "rejected"
        /\ c.kind = "reject" \/ (c.kind = "discard" /\ c.reply = "unclaimed") => Untouched(c.item)
        /\ c.kind = "approve" /\ c.reply = "approved" /\ state = "sending" /\ prop = c.prop =>
             remote[c.item] # "rejected"
  BY DEF Rejections, Pending, Untouched
<1>1. ASSUME NEW c \in calls, c.kind \in {"discard", "reject"}, c.item = e.item
      PROVE  Pending(e.item)' \/ remote'[e.item] = "rejected"
  <2>1. CASE remote[c.item] = "rejected"
    BY <1>t, <1>c, <1>1, <2>1, RejectionsAreFinal
  <2>2. CASE Pending(c.item)
    <3>1. calls' # {}
      OBVIOUS
    <3>2. ASSUME NEW b \in calls, b.item = c.item, b.reply = "rejected"
          PROVE  remote'[c.item] = "rejected"
      BY <1>t, <1>c, <3>2, RejectionsAreFinal DEF Answers
    <3> QED BY <1>c, <1>1, <2>2, <3>1, <3>2, PendingSteps
  <2> QED BY <1>r, <1>1, <2>1, <2>2
<1>2. ASSUME NEW c \in calls, c.item = e.item,
             c.kind = "reject" \/ (c.kind = "discard" /\ c.reply = "unclaimed")
      PROVE  Untouched(e.item)'
  <2>1. Untouched(c.item) /\ (Pending(c.item) \/ remote[c.item] = "rejected")
    BY <1>r, <1>2
  <2>2. ASSUME NEW b \in calls, b.kind = "approve", b.reply = "approved", b.item = c.item,
               state = "sending", prop = b.prop
        PROVE  FALSE
    BY <1>r, <2>1, <2>2 DEF Pending
  <2> QED BY <1>t, <1>c, <1>2, <2>1, <2>2, UntouchedSteps
<1>3. ASSUME e.kind = "approve", e.reply = "approved", state' = "sending", prop' = e.prop,
             e \in calls
      PROVE  remote'[e.item] # "rejected"
  <2>1. state = "sending" /\ prop = e.prop
    BY <1>3, SendingSteps DEF ConfirmSend, Attempts
  <2>2. remote[e.item] # "rejected"
    BY <1>r, <1>3, <2>1
  <2>3. ASSUME NEW b \in calls, b.kind = "reject", b.item = e.item
        PROVE  FALSE
    BY <1>r, <2>1, <2>2, <2>3 DEF Pending
  <2>4. verdict[e.item] # "rejected"
    BY <1>c, <1>3 DEF OutboxTypes, Outbox!Verdicts
  <2> QED BY <1>t, <1>c, <1>3, <2>2, <2>3, <2>4, ServerSteps
<1>4. CASE e \in calls
  BY <1>1, <1>2, <1>3, <1>4
<1>5. CASE Cancel /\ shown \in Drafts /\ e.kind = "discard" /\ e.item = shown /\ e.reply = NoReply
  BY <1>5 DEF Cancel, Pending, NoReply, screen
<1>6. ASSUME NEW c \in calls, e.kind = c.kind, e.item = c.item, Lookup(c),
             e.reply = IF claim[c.item] = NoBody THEN "unclaimed" ELSE verdict[c.item]
      PROVE  /\ e.kind \in {"review", "discard"}
             /\ e.reply = "unclaimed" => Untouched(e.item)'
  <2>1. verdict[c.item] # "unclaimed"
    BY <1>c DEF OutboxTypes, Outbox!Verdicts
  <2>2. e.reply = "unclaimed" => claim[c.item] = NoBody
    BY <1>6, <2>1
  <2>3. \A h \in helpers : h.item = c.item => Id(h) = c.item /\ h.phase # "started"
    BY <1>t, <1>c, <1>6, Identity DEF WorkTypes, Lookup
  <2>4. claim[c.item] = NoBody => \A h \in helpers : h.item # c.item
    BY <2>3 DEF Journal
  <2>5. UNCHANGED <<claim, helpers>> /\ c.kind \in {"review", "discard"}
    BY <1>6 DEF Lookup, outbox
  <2> QED BY <1>6, <2>2, <2>4, <2>5 DEF Untouched
<1>7. ASSUME NEW c \in calls, e.kind = c.kind, e.item = c.item, ServerDecides(c),
             e.reply = remote'[c.item]
      PROVE  e.kind # "discard" /\ (e.reply = "approved" => remote'[e.item] # "rejected")
  BY <1>7 DEF ServerDecides
<1>8. ASSUME NEW c \in calls, DiscardReply(c), c.reply = "unclaimed", e.kind = "reject",
             e.item = c.item
      PROVE  c.kind = "discard"
  BY <1>8 DEF DiscardReply
<1> QED BY <1>t, <1>1, <1>2, <1>4, <1>5, <1>6, <1>7, <1>8, RequestSteps DEF NoReply

\* A rejected draft is never sent.
LEMMA RejectedKept ==
  /\ TypeOK /\ OutboxTypes /\ Rejections /\ RejectedNeverSent /\ Next
  => RejectedNeverSent'
<1> SUFFICES ASSUME TypeOK, OutboxTypes, Rejections, RejectedNeverSent, Next,
                    NEW d \in Drafts, remote'[d] = "rejected"
             PROVE  Untouched(d)'
  BY DEF RejectedNeverSent, Untouched, NoBody
<1>t. WorkTypes /\ d \in Ids
  BY TypeParts, Sets
<1>1. CASE remote[d] = "rejected"
  <2>1. Untouched(d)
    BY <1>1 DEF RejectedNeverSent, Untouched, NoBody
  <2> QED BY <1>t, <1>1, <2>1, UntouchedSteps DEF Rejections
<1>2. CASE remote[d] # "rejected"
  <2>1. verdict[d] # "rejected"
    BY <1>t DEF OutboxTypes, Outbox!Verdicts
  <2>2. PICK c \in calls : ServerDecides(c) /\ c.kind = "reject" /\ c.item = d
    BY <1>t, <1>2, <2>1, ServerSteps
  <2>3. Untouched(d) /\ UNCHANGED <<claim, helpers>>
    BY <2>2 DEF Rejections, Untouched, ServerDecides, outbox
  <2> QED BY <2>3 DEF Untouched
<1> QED BY <1>1, <1>2

\* A result on the screen: it was there; it is a helper's; it answers the approval
\* on the screen; or it is looked up for a review, under a new number or none.
LEMMA ResultSteps ==
  ASSUME Next, state' \in {"sent", "failed"}
  PROVE  \/ UNCHANGED screen
         \/ \E h \in helpers : /\ h.phase # "started" /\ prop = h.prop
                               /\ UNCHANGED <<shown, prop, attempted>>
                               /\ verdict[Id(h)] = IF state' = "sent" THEN "sent" ELSE "not_sent"
         \/ \E c \in calls : /\ c.kind = "approve" /\ prop = c.prop
                             /\ UNCHANGED <<shown, prop, attempted>>
                             /\ state' = "sent" => c.reply = "sent"
         \/ \E c \in calls : /\ ReviewReply(c)
                             /\ shown' \in {c.item, NoItem} /\ prop' \in {staged + 1, NoProp}
                             /\ state' = "sent" => c.reply = "sent"
<1> USE DEF screen, history
<1>1. CASE User
  <2>1. CASE \E t \in Texts : SendMessage(t)
    BY <2>1 DEF SendMessage, Stage
  <2>2. CASE (\E b \in Drafts : Review(b)) \/ Arm \/ ConfirmSend \/ ConfirmFails
    BY <2>2 DEF Review, Arm, ConfirmSend, ConfirmFails
  <2>3. CASE Cancel \/ Done \/ OtherCommand \/ LookAway \/ ShowStatus
    BY <2>3 DEF Cancel, Done, OtherCommand, LookAway, ShowStatus, Dismiss
  <2> QED BY <1>1, <2>1, <2>2, <2>3 DEF User
<1>2. ASSUME NEW c \in calls, ReviewReply(c), ~UNCHANGED screen
      PROVE  /\ shown' \in {c.item, NoItem} /\ prop' \in {staged + 1, NoProp}
             /\ state' = "sent" => c.reply = "sent"
  BY <1>2 DEF ReviewReply, Stage, Result
<1>3. ASSUME NEW c \in calls, RejectReply(c)
      PROVE  UNCHANGED screen
  BY <1>3 DEF RejectReply, Dismiss
<1>4. ASSUME NEW c \in calls, ApproveReply(c) \/ CallFails(c), ~UNCHANGED screen
      PROVE  /\ c.kind = "approve" /\ prop = c.prop /\ UNCHANGED <<shown, prop, attempted>>
             /\ state' = "sent" => c.reply = "sent"
  BY <1>4 DEF ApproveReply, CallFails, Finished
<1>5. ASSUME NEW c \in calls, Lookup(c) \/ ServerDecides(c) \/ DiscardReply(c)
      PROVE  UNCHANGED screen
  BY <1>5 DEF Lookup, ServerDecides, DiscardReply
<1>6. ASSUME NEW h \in helpers, HelperExits(h), ~UNCHANGED screen
      PROVE  /\ h.phase # "started" /\ prop = h.prop /\ UNCHANGED <<shown, prop, attempted>>
             /\ verdict[Id(h)] = IF state' = "sent" THEN "sent" ELSE "not_sent"
  <2>1. PICK v \in {"unknown", verdict[Id(h)]} : Finished(h.prop, Result(v))
    BY <1>6 DEF HelperExits
  <2>2. prop = h.prop /\ state' = Result(v) /\ UNCHANGED <<shown, prop>>
    BY <1>6, <2>1 DEF Finished
  <2>3. v = IF state' = "sent" THEN "sent" ELSE "not_sent"
    BY <2>2 DEF Result
  <2> QED BY <1>6, <2>1, <2>2, <2>3 DEF HelperExits
<1>7. ASSUME NEW h \in helpers, HelperClaims(h) \/ HelperDecides(h) \/ HelperDies(h)
      PROVE  UNCHANGED screen
  BY <1>7 DEF HelperClaims, HelperDecides, HelperDies, Finished, emacs
<1>8. CASE \/ \E b \in Drafts : ServerLearns(b)
           \/ \E id \in Ids : ModemAccepts(id)
           \/ OwnerChanged \/ EmacsRestart
  BY <1>8 DEF ServerLearns, ModemAccepts, OwnerChanged, EmacsRestart, Dismiss, emacs
<1> QED BY <1>1, <1>2, <1>3, <1>4, <1>5, <1>6, <1>7, <1>8 DEF Next, Answer, HelperRuns

\* An identity decided as sent was accepted with its body.
LEMMA SentBody ==
  ASSUME OutboxTypes, Journal, NEW id \in Ids, verdict[id] = "sent"
  PROVE  \E m \in {accepted[i] : i \in DOMAIN accepted} : m.body = claim[id] /\ claim[id] # NoBody
<1>1. PICK i \in DOMAIN accepted : accepted[i].id = id
  BY DEF Journal, Outbox!Accepted
<1>2. accepted[i].body = claim[id] /\ accepted[i] \in Outbox!Message
  BY <1>1 DEF Journal, OutboxTypes
<1>3. claim[id] # NoBody
  BY <1>2, Sets DEF Outbox!Message
<1> QED BY <1>2, <1>3

\* What the screen says of the modem.
SentShown ==
  state = "sent" /\ shown # NoItem =>
    \E m \in {accepted[i] : i \in DOMAIN accepted} : m.body = shown
FailedShown ==
  state = "failed" /\ shown # NoItem /\ prop \in attempted =>
    LET id == IF shown \in Drafts THEN shown ELSE prop
    IN verdict[id] = "not_sent" /\ ~Outbox!Accepted(id)

\* The screen is honest when what it shows as sent and as failed is so.
LEMMA HonestParts ==
  Screen => (HonestScreen <=> SentShown /\ FailedShown)
BY DEF HonestScreen, SentShown, FailedShown, Screen

\* "Sent" is shown for what the modem accepted.
LEMMA SentKept ==
  ASSUME TypeOK, OutboxTypes, Journal, Attempts, Answers, SentShown, Next,
         state' = "sent", shown' # NoItem
  PROVE  \E m \in {accepted'[i] : i \in DOMAIN accepted'} : m.body = shown'
<1>t. WorkTypes
  BY TypeParts
<1>1. SUFFICES \E m \in {accepted[i] : i \in DOMAIN accepted} : m.body = shown'
  BY <1>t, Final
<1>2. CASE UNCHANGED screen
  BY <1>2 DEF SentShown, screen
<1>3. ASSUME NEW h \in helpers, h.phase # "started", prop = h.prop, UNCHANGED shown,
             verdict[Id(h)] = "sent"
      PROVE  \E m \in {accepted[i] : i \in DOMAIN accepted} : m.body = shown'
  <2>1. Id(h) \in Ids /\ claim[Id(h)] \in {NoBody, h.item} /\ shown' = h.item
    BY <1>t, <1>3, Identity DEF WorkTypes, Journal, Attempts
  <2> QED BY <1>3, <2>1, SentBody
<1>4. ASSUME NEW c \in calls, c.reply = "sent", shown' = c.item
      PROVE  \E m \in {accepted[i] : i \in DOMAIN accepted} : m.body = shown'
  <2>1. c.item \in Drafts /\ c.item \in Ids
    BY <1>t, Sets DEF WorkTypes, Call
  <2>2. verdict[c.item] = "sent" /\ claim[c.item] \in {NoBody, c.item}
    BY <1>4, <2>1 DEF Answers, Journal
  <2> QED BY <1>4, <2>1, <2>2, SentBody
<1>5. ASSUME NEW c \in calls, c.kind = "approve", prop = c.prop, UNCHANGED shown
      PROVE  shown' = c.item
  BY <1>5 DEF Attempts
<1> QED BY <1>2, <1>3, <1>4, <1>5, ResultSteps

\* "Not sent" is shown for what this attempt did not and will not send.
LEMMA FailedKept ==
  TypeOK /\ OutboxTypes /\ Journal /\ Screen /\ Attempts /\ FailedShown /\ Next /\ Journal'
  => FailedShown'
<1> SUFFICES ASSUME TypeOK, OutboxTypes, Journal, Screen, Attempts, FailedShown, Next, Journal',
                    state' = "failed", shown' # NoItem, prop' \in attempted',
                    NEW id, id = IF shown' \in Drafts THEN shown' ELSE prop'
             PROVE  verdict'[id] = "not_sent" /\ ~Outbox!Accepted(id)'
  BY DEF FailedShown
<1>t. WorkTypes /\ ScreenTypes
  BY TypeParts
<1>0. id \in Ids
  <2>1. prop' \in Props
    BY WorkTypesKept DEF WorkTypes
  <2> QED BY <2>1, Sets
<1>1. SUFFICES verdict[id] = "not_sent"
  BY <1>t, <1>0, Final DEF Journal
<1>2. CASE UNCHANGED screen
  <2>1. prop \in attempted
    <3>1. attempted' = attempted \/ state \in {"proposed", "sending"}
      BY HelperSteps DEF ConfirmSend
    <3> QED BY <1>2, <3>1 DEF screen
  <2> QED BY <1>2, <2>1 DEF FailedShown, screen
<1>3. ASSUME NEW h \in helpers, prop = h.prop, UNCHANGED <<shown, prop>>,
             verdict[Id(h)] = "not_sent"
      PROVE  verdict[id] = "not_sent"
  <2>1. shown' = h.item /\ prop' = h.prop
    BY <1>3 DEF Attempts
  <2> QED BY <1>3, <2>1 DEF Id
<1>4. ASSUME NEW c \in calls, c.kind = "approve", prop = c.prop, UNCHANGED <<prop, attempted>>
      PROVE  FALSE
  BY <1>4 DEF Attempts
<1>5. ASSUME NEW c \in calls, ReviewReply(c), prop' \in {staged + 1, NoProp}
      PROVE  FALSE
  <2>1. attempted' = attempted
    BY <1>5 DEF ReviewReply
  <2>2. staged + 1 \notin attempted
    BY <1>t DEF Attempts, ScreenTypes
  <2>3. NoProp \notin attempted
    BY <1>t, Sets DEF WorkTypes
  <2> QED BY <1>5, <2>1, <2>2, <2>3
<1> QED BY <1>2, <1>3, <1>4, <1>5, ResultSteps

-----------------------------------------------------------------------------
\* All of it holds at the start.
LEMMA Initially == Init => IInv
<1> SUFFICES ASSUME Init
             PROVE  IInv
  OBVIOUS
<1> USE Sets DEF Init
<1>1. TypeOK
  <2>1. ScreenTypes
    <3>1. 0 \in 0 .. MaxProps
      OBVIOUS
    <3>2. rejecting \in BOOLEAN /\ visible \in BOOLEAN
      OBVIOUS
    <3>3. state = "none" /\ shown = NoItem /\ prop = NoProp /\ staged = 0 /\ confirm = NoProp
          /\ lastTap = NoItem
      OBVIOUS
    <3> QED BY <3>1, <3>2, <3>3 DEF ScreenTypes
  <2>2. WorkTypes
    BY DEF WorkTypes, ServerStates
  <2> QED BY <2>1, <2>2, TypeParts
<1>2. OutboxTypes /\ Journal /\ accepted = <<>>
  BY DEF OutboxTypes, Journal, Outbox!OutboxInit, Outbox!Verdicts, Outbox!Accepted, NoBody
<1>3. Screen /\ Attempts /\ Answers /\ Reports /\ Rejections
  BY DEF Screen, Attempts, Answers, Reports, Rejections, NoProp
<1>4. RejectedNeverSent /\ HonestScreen
  BY DEF RejectedNeverSent, HonestScreen
<1> QED BY <1>1, <1>2, <1>3, <1>4 DEF IInv

\* A stutter changes nothing.
LEMMA Stutter == IInv /\ UNCHANGED vars => IInv'
BY DEF vars, screen, history, outbox, IInv, TypeOK, OutboxTypes, Journal, Screen, Attempts, Answers,
       Reports, Rejections, RejectedNeverSent, HonestScreen, Outbox!Accepted

\* The inductive invariant.
LEMMA InvariantStep == IInv /\ [Next]_vars => IInv'
<1> SUFFICES ASSUME IInv, Next
             PROVE  IInv'
  BY Stutter
<1> USE DEF IInv
<1>t. ScreenTypes /\ WorkTypes
  BY TypeParts
<1>1. TypeOK'
  <2>1. ScreenTypes' /\ WorkTypes'
    BY <1>t, ScreenTypesKept, WorkTypesKept
  <2>2. TypeOK' <=> ScreenTypes' /\ WorkTypes'
    BY TypeParts, PTL
  <2> QED BY <2>1, <2>2
<1>2. OutboxTypes' /\ Journal'
  BY <1>t, OutboxTypesKept, JournalKept
<1>3. Screen' /\ Attempts'
  BY <1>t, ScreenKept, AttemptsKept
<1>4. Answers' /\ Reports'
  BY <1>t, AnswersKept, ReportsKept
<1>5. Rejections' /\ RejectedNeverSent'
  BY RejectionsKept, RejectedKept
<1>6. HonestScreen'
  <2>1. SentShown /\ FailedShown
    BY HonestParts
  <2>2. SentShown' /\ FailedShown'
    BY <1>2, <2>1, SentKept, FailedKept DEF SentShown
  <2>3. Screen' => (HonestScreen' <=> SentShown' /\ FailedShown')
    BY HonestParts, PTL
  <2> QED BY <1>3, <2>2, <2>3
<1> QED BY <1>1, <1>2, <1>3, <1>4, <1>5, <1>6

\* It holds in every reachable state.
THEOREM Inductive == Spec => []IInv
BY Initially, InvariantStep, PTL DEF Spec

-----------------------------------------------------------------------------
\* Every variable keeps its type.
THEOREM TypesHold == Spec => []TypeOK
BY Inductive, PTL DEF IInv

\* A draft the server holds as rejected was never given to a helper and never is:
\* reject, approve and discard answers may come in any order (assist-web.el).
THEOREM RejectionHolds == Spec => []RejectedNeverSent
BY Inductive, PTL DEF IInv

\* "Sent" means the modem accepted this very message, "Not sent" that this attempt
\* did not and will not send it, and only a draft on the screen awaits a rejection.
THEOREM ScreenIsHonest == Spec => []HonestScreen
BY Inductive, PTL DEF IInv

\* The second tap sends what the first one armed, and a draft leaves the screen
\* unsent only when the server has acknowledged its rejection.
THEOREM TapsAndAcknowledgements == Spec => ProposalLeaves
<1>1. IInv /\ [Next]_vars /\ state = "proposed" /\ state' \in {"sending", "unknown"} =>
        lastTap = shown
  <2> SUFFICES ASSUME IInv, Next, state = "proposed", state' \in {"sending", "unknown"}
               PROVE  lastTap = shown
    BY DEF vars, screen
  <2> USE DEF screen
  <2>1. CASE ConfirmSend \/ ConfirmFails
    BY <2>1, Sets DEF ConfirmSend, ConfirmFails, IInv, Screen
  <2>2. CASE User /\ ~ConfirmSend /\ ~ConfirmFails
    <3>1. CASE \E t \in Texts : SendMessage(t)
      BY <3>1 DEF SendMessage, Stage
    <3>2. CASE (\E d \in Drafts : Review(d)) \/ Arm
      BY <3>2 DEF Review, Arm
    <3>3. CASE Cancel \/ Done \/ OtherCommand \/ LookAway \/ ShowStatus
      BY <3>3 DEF Cancel, Done, OtherCommand, LookAway, ShowStatus, Dismiss
    <3> QED BY <2>2, <3>1, <3>2, <3>3 DEF User
  <2>3. ASSUME NEW c \in calls, Answer(c) \/ CallFails(c)
        PROVE  FALSE
    BY <2>3 DEF Answer, Lookup, ServerDecides, ReviewReply, DiscardReply, RejectReply, ApproveReply,
                CallFails, Finished, Dismiss
  <2>4. ASSUME NEW h \in helpers, HelperRuns(h) \/ HelperDecides(h) \/ HelperDies(h)
        PROVE  FALSE
    BY <2>4 DEF HelperRuns, HelperClaims, HelperExits, HelperDecides, HelperDies, Finished, emacs
  <2>5. CASE \/ \E d \in Drafts : ServerLearns(d)
             \/ \E id \in Ids : ModemAccepts(id)
             \/ OwnerChanged \/ EmacsRestart
    BY <2>5 DEF ServerLearns, ModemAccepts, OwnerChanged, EmacsRestart, Dismiss, emacs
  <2> QED BY <2>1, <2>2, <2>3, <2>4, <2>5 DEF Next
<1>2. IInv /\ [Next]_vars /\ state = "proposed" /\ shown \in Drafts /\ state' = "none" =>
        remote[shown] = "rejected" \/ EmacsRestart
  <2> SUFFICES ASSUME IInv, Next, state = "proposed", shown \in Drafts, state' = "none"
               PROVE  remote[shown] = "rejected" \/ EmacsRestart
    BY DEF vars, screen
  <2> USE DEF screen
  <2>1. CASE User
    <3>1. CASE \E t \in Texts : SendMessage(t)
      BY <3>1 DEF SendMessage
    <3>2. CASE (\E d \in Drafts : Review(d)) \/ Arm \/ ConfirmSend \/ ConfirmFails
      BY <3>2 DEF Review, Arm, ConfirmSend, ConfirmFails
    <3>3. CASE Cancel \/ Done \/ OtherCommand \/ LookAway \/ ShowStatus
      BY <3>3 DEF Cancel, Done, OtherCommand, LookAway, ShowStatus
    <3> QED BY <2>1, <3>1, <3>2, <3>3 DEF User
  <2>2. ASSUME NEW c \in calls, RejectReply(c)
        PROVE  remote[shown] = "rejected"
    BY <2>2 DEF RejectReply, IInv, Answers
  <2>3. ASSUME NEW c \in calls, Answer(c) \/ CallFails(c), ~RejectReply(c)
        PROVE  FALSE
    BY <2>3 DEF Answer, Lookup, ServerDecides, ReviewReply, DiscardReply, ApproveReply, CallFails,
                Finished
  <2>4. ASSUME NEW h \in helpers, HelperRuns(h) \/ HelperDecides(h) \/ HelperDies(h)
        PROVE  FALSE
    BY <2>4 DEF HelperRuns, HelperClaims, HelperExits, HelperDecides, HelperDies, Finished, emacs
  <2>5. CASE \/ \E d \in Drafts : ServerLearns(d)
             \/ \E id \in Ids : ModemAccepts(id)
             \/ OwnerChanged
    BY <2>5 DEF ServerLearns, ModemAccepts, OwnerChanged, emacs
  <2> QED BY <2>1, <2>2, <2>3, <2>4, <2>5 DEF Next
<1>3. []IInv /\ [][Next]_vars => TwoTaps
  BY <1>1, PTL DEF TwoTaps
<1>4. []IInv /\ [][Next]_vars => RetainedUntilAck
  BY <1>2, PTL DEF RetainedUntilAck
<1> QED BY <1>3, <1>4, Inductive, PTL DEF Spec, ProposalLeaves
=============================================================================
