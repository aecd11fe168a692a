------------------------------- MODULE SmsInbox ------------------------------
(***************************************************************************)
(* Incoming SMS on the phone: ModemManager's message store, the collection *)
(* pass every receipt query of openrc-sms-root begins with, and the local  *)
(* alert Emacs raises.  Two callers run the helper side by side: "poll" is *)
(* the bridge's receipts query (sms_forward.py), "alert" is Emacs's alerts *)
(* query (openrc-init.el).  Both walk the same store and share the journal.*)
(***************************************************************************)
EXTENDS Naturals, Sequences, SequencesExt, FiniteSetsExt

CONSTANTS
  Contents,    \* messages, up to the source key the journal gives them
  Unreadable,  \* those whose leaf read never succeeds
  Deletable,   \* plain text in modem storage, which archived_plaintext can prove
  Old,         \* archive-only or before the alert start: never announced
  MaxPath,     \* bound: messages the store names between two modem restarts
  Batch,       \* CAPTURE_BATCH, leaves read in one pass
  MaxEpochs,   \* bound: modem restarts
  MaxFaults    \* bound: kills, alarms, database errors, missed signals

ASSUME SetsAssumption ==
  /\ Unreadable \subseteq Contents /\ Deletable \subseteq Contents /\ Old \subseteq Contents
ASSUME BoundsAssumption ==
  /\ MaxPath \in Nat \ {0} /\ Batch \in Nat \ {0}
  /\ MaxEpochs \in Nat /\ MaxFaults \in Nat

Roles == {"poll", "alert"}
Paths == 1 .. MaxPath
NoPath == 0   \* the NULL scan path
NoContent == "none"
NoEntry == [content |-> NoContent, done |-> FALSE]

VARIABLES
  store,    \* store[path]: the modem's message, done once State = 3
  used,     \* paths named since the modem (re)started; never reused
  epoch,    \* which ModemManager owner is alive
  cursor,   \* incoming_scan, durable
  archive,  \* the incoming rows in rowid order, durable
  pc,       \* where the helper of a role is
  todo,     \* its leaves still to read
  at,       \* the leaf it is on
  owner,    \* the ModemManager owner it captured
  got,      \* what it read
  hints,    \* paths signals named to Emacs, newest first
  claims,   \* alert rows it claimed and will report
  alerted,  \* what Emacs announced, in order
  faults

vars == <<store, used, epoch, cursor, archive, pc, todo, at, owner, got,
          hints, claims, alerted, faults>>
modem == <<store, used, epoch>>
helper == <<pc, todo, at, owner, got, claims>>

Present == {p \in Paths : store[p] # NoEntry}
Archived(c) == \E i \in DOMAIN archive : archive[i].content = c
InStore(c) == \E p \in Paths : store[p] = [content |-> c, done |-> TRUE]

TypeOK ==
  /\ store \in [Paths -> [content : Contents \cup {NoContent}, done : BOOLEAN]]
  /\ used \in 0 .. MaxPath
  /\ epoch \in 0 .. MaxEpochs
  /\ cursor \in Paths \cup {NoPath}
  /\ archive \in Seq([content : Contents, claimed : BOOLEAN])
  /\ pc \in [Roles -> {"idle", "scan", "read", "capture", "delete", "collected", "report"}]
  /\ todo \in [Roles -> Seq(Paths)]
  /\ at \in [Roles -> Paths \cup {NoPath}]
  /\ owner \in [Roles -> 0 .. MaxEpochs]
  /\ got \in [Roles -> Contents \cup {NoContent}]
  /\ hints \in Seq(Paths) /\ IsInjective(hints)
  /\ claims \in Seq(Contents)
  /\ alerted \in Seq(Contents)
  /\ faults \in 0 .. MaxFaults

Init ==
  /\ store = [p \in Paths |-> NoEntry]
  /\ used = 0
  /\ epoch = 0
  /\ cursor = NoPath
  /\ archive = <<>>
  /\ pc = [r \in Roles |-> "idle"]
  /\ todo = [r \in Roles |-> <<>>]
  /\ at = [r \in Roles |-> NoPath]
  /\ owner = [r \in Roles |-> 0]
  /\ got = [r \in Roles |-> NoContent]
  /\ hints = <<>>
  /\ claims = <<>>
  /\ alerted = <<>>
  /\ faults = 0

-----------------------------------------------------------------------------
(* The modem.                                                              *)

\* A sequence that may hold x, once, without it.
Without(s, x) ==
  IF x \in Range(s) THEN RemoveAt(s, CHOOSE i \in DOMAIN s : s[i] = x) ELSE s

\* A signal puts its path first among Emacs's hints, unless it is missed (Emacs
\* restarts, or has not yet learnt of the modem's new owner).
Signal(p) ==
  \/ hints' = <<p>> \o Without(hints, p) /\ UNCHANGED faults
  \/ UNCHANGED hints /\ faults < MaxFaults /\ faults' = faults + 1

\* A message begins to arrive (again, perhaps: the network repeats some).
Arrive(c) ==
  /\ used < MaxPath
  /\ used' = used + 1
  /\ store' = [store EXCEPT ![used + 1] = [content |-> c, done |-> FALSE]]
  /\ Signal(used + 1)
  /\ UNCHANGED <<epoch, cursor, archive, helper, alerted>>

\* Its last part is there: State becomes 3.
Complete(p) ==
  /\ p \in Present /\ ~store[p].done
  /\ store' = [store EXCEPT ![p].done = TRUE]
  /\ Signal(p)
  /\ UNCHANGED <<used, epoch, cursor, archive, helper, alerted>>

\* A restart names the surviving messages afresh, in any order; parts of
\* unfinished ones are lost.
Restart ==
  /\ epoch < MaxEpochs
  /\ epoch' = epoch + 1
  /\ \E kept \in SetToSeqs({p \in Present : store[p].done}) :
       /\ used' = Len(kept)
       /\ store' = [p \in Paths |-> IF p <= Len(kept) THEN store[kept[p]] ELSE NoEntry]
  /\ UNCHANGED <<cursor, archive, helper, hints, alerted, faults>>

-----------------------------------------------------------------------------
(* collect_incoming, run by the helper of role r.                          *)

Goto(r, to) == pc' = [pc EXCEPT ![r] = to]

\* Back to the leaves with nothing read in hand.
NextLeaf(r) ==
  /\ Goto(r, "scan")
  /\ at' = [at EXCEPT ![r] = NoPath]
  /\ got' = [got EXCEPT ![r] = NoContent]

\* The pass is over: its locals go with it.
Leave(r, to) ==
  /\ Goto(r, to)
  /\ todo' = [todo EXCEPT ![r] = <<>>]
  /\ at' = [at EXCEPT ![r] = NoPath]
  /\ owner' = [owner EXCEPT ![r] = 0]
  /\ got' = [got EXCEPT ![r] = NoContent]

\* The members of a finite set of numbers, in order.
Ascending(S) == {s \in SetToSeqs(S) : \A k, l \in DOMAIN s : k < l => s[k] < s[l]}

\* Path order, from just behind the durable cursor and round again.
Rotations == {r[1] \o r[2] : r \in Ascending({p \in Present : p > cursor})
                                     \X Ascending({p \in Present : p <= cursor})}

Ordered(hint, rotation) ==
  IF hint \in Present THEN <<hint>> \o Without(rotation, hint) ELSE rotation

\* The owner and the message list are read; only Emacs has hints.
List(r) ==
  LET hinted == r = "alert" /\ hints # <<>> IN
  /\ pc[r] = "idle"
  /\ Goto(r, "scan")
  /\ owner' = [owner EXCEPT ![r] = epoch]
  /\ hints' = IF hinted THEN Tail(hints) ELSE hints
  /\ \E rotation \in Rotations :
       LET order == IF hinted THEN Ordered(Head(hints), rotation) ELSE rotation
       IN todo' = [todo EXCEPT ![r] = SubSeq(order, 1, Min({Batch, Len(order)}))]
  /\ UNCHANGED <<modem, cursor, archive, at, got, claims, alerted, faults>>

\* Mutants of Advance: the cursor points behind the leaf; it is never stored.
AdvancePast(r) ==
  /\ pc[r] = "scan" /\ todo[r] # <<>>
  /\ cursor' = Head(todo[r]) + 1
  /\ at' = [at EXCEPT ![r] = Head(todo[r])]
  /\ todo' = [todo EXCEPT ![r] = Tail(@)]
  /\ Goto(r, "read")
  /\ UNCHANGED <<modem, archive, owner, got, hints, claims, alerted, faults>>

AdvanceUnstored(r) ==
  /\ pc[r] = "scan" /\ todo[r] # <<>>
  /\ at' = [at EXCEPT ![r] = Head(todo[r])]
  /\ todo' = [todo EXCEPT ![r] = Tail(@)]
  /\ Goto(r, "read")
  /\ UNCHANGED <<modem, cursor, archive, owner, got, hints, claims, alerted, faults>>

\* The cursor is committed before the leaf is read.
Advance(r) ==
  /\ pc[r] = "scan" /\ todo[r] # <<>>
  /\ cursor' = Head(todo[r])
  /\ at' = [at EXCEPT ![r] = Head(todo[r])]
  /\ todo' = [todo EXCEPT ![r] = Tail(@)]
  /\ Goto(r, "read")
  /\ UNCHANGED <<modem, archive, owner, got, hints, claims, alerted, faults>>

\* GetAll answers: an unfinished message is passed over.
Read(r) ==
  LET entry == store[at[r]] IN
  /\ pc[r] = "read"
  /\ owner[r] = epoch /\ at[r] \in Present
  /\ entry.content \notin Unreadable
  /\ IF entry.done
       THEN /\ Goto(r, "capture")
            /\ got' = [got EXCEPT ![r] = entry.content]
            /\ UNCHANGED at
       ELSE NextLeaf(r)
  /\ UNCHANGED <<modem, cursor, archive, todo, owner, hints, claims, alerted, faults>>

\* A bus error or the 2 s timeout: the next leaf's turn.
ReadFails(r) ==
  /\ pc[r] = "read"
  /\ NextLeaf(r)
  /\ UNCHANGED <<modem, cursor, archive, todo, owner, hints, claims, alerted, faults>>

\* Mutant of Capture: no unique source key.
CaptureAgain(r) ==
  /\ pc[r] = "capture"
  /\ archive' = Append(archive, [content |-> got[r], claimed |-> got[r] \in Old])
  /\ IF got[r] \in Deletable
       THEN Goto(r, "delete") /\ UNCHANGED <<at, got>>
       ELSE NextLeaf(r)
  /\ UNCHANGED <<modem, cursor, todo, owner, hints, claims, alerted, faults>>

\* One transaction: an equal source message keeps its first row.
Capture(r) ==
  /\ pc[r] = "capture"
  /\ archive' = IF Archived(got[r]) THEN archive
                ELSE Append(archive, [content |-> got[r], claimed |-> got[r] \in Old])
  /\ IF got[r] \in Deletable
       THEN Goto(r, "delete") /\ UNCHANGED <<at, got>>
       ELSE NextLeaf(r)
  /\ UNCHANGED <<modem, cursor, todo, owner, hints, claims, alerted, faults>>

\* Mutant of Delete: addressed to whoever owns the service's name now.
DeleteByName(r) ==
  /\ pc[r] = "delete"
  /\ store' = [store EXCEPT ![at[r]] = NoEntry]
  /\ NextLeaf(r)
  /\ UNCHANGED <<used, epoch, cursor, archive, todo, owner, hints, claims, alerted, faults>>

\* Delete is addressed to the captured owner: after a restart it reaches nobody.
Delete(r) ==
  /\ pc[r] = "delete"
  /\ store' = IF owner[r] = epoch THEN [store EXCEPT ![at[r]] = NoEntry] ELSE store
  /\ NextLeaf(r)
  /\ UNCHANGED <<used, epoch, cursor, archive, todo, owner, hints, claims, alerted, faults>>

DeleteFails(r) ==
  /\ pc[r] = "delete"
  /\ NextLeaf(r)
  /\ UNCHANGED <<modem, cursor, archive, todo, owner, hints, claims, alerted, faults>>

EndScan(r) ==
  /\ pc[r] = "scan" /\ todo[r] = <<>>
  /\ Leave(r, "collected")
  /\ UNCHANGED <<modem, cursor, archive, hints, claims, alerted, faults>>

\* Any exception of the pass, the 30 s alarm's too, is caught by
\* receipt_operation, which goes on without the modem.
Abort(r) ==
  /\ pc[r] \in {"scan", "read", "capture", "delete"}
  /\ faults < MaxFaults
  /\ faults' = faults + 1
  /\ Leave(r, "collected")
  /\ UNCHANGED <<modem, cursor, archive, hints, claims, alerted>>

-----------------------------------------------------------------------------
(* After the pass.                                                         *)

\* The bridge's query goes on to offer receipts (see SmsHandoff).
EndPoll ==
  /\ pc["poll"] = "collected"
  /\ Goto("poll", "idle")
  /\ UNCHANGED <<modem, cursor, archive, todo, at, owner, got, hints, claims, alerted, faults>>

Unclaimed == {i \in DOMAIN archive : ~archive[i].claimed}
FirstUnclaimed(n) == {i \in Unclaimed : Cardinality({j \in Unclaimed : j < i}) < n}

\* claim_incoming_alerts: at most four in rowid order, committed before Emacs hears of them.
ClaimAlerts ==
  LET batch == FirstUnclaimed(4) IN
  /\ pc["alert"] = "collected"
  /\ archive' = [i \in DOMAIN archive |->
                   IF i \in batch THEN [archive[i] EXCEPT !.claimed = TRUE] ELSE archive[i]]
  /\ \E rows \in Ascending(batch) :
       claims' = [k \in DOMAIN rows |-> archive[rows[k]].content]
  /\ Goto("alert", "report")
  /\ UNCHANGED <<modem, cursor, todo, at, owner, got, hints, alerted, faults>>

\* Emacs records and vibrates for each identity of a query that succeeded.
Announce ==
  /\ pc["alert"] = "report"
  /\ alerted' = alerted \o claims
  /\ claims' = <<>>
  /\ Goto("alert", "idle")
  /\ UNCHANGED <<modem, cursor, archive, todo, at, owner, got, hints, faults>>

\* The helper or its caller is killed, or the phone loses power.
Crash(r) ==
  /\ pc[r] # "idle"
  /\ faults < MaxFaults
  /\ faults' = faults + 1
  /\ Leave(r, "idle")
  /\ claims' = IF r = "alert" THEN <<>> ELSE claims
  /\ UNCHANGED <<modem, cursor, archive, hints, alerted>>

-----------------------------------------------------------------------------
Step(r) ==
  \/ Advance(r) \/ ReadFails(r) \/ Capture(r) \/ EndScan(r)
  \/ Delete(r) \/ DeleteFails(r)

Next ==
  \/ \E c \in Contents : Arrive(c)
  \/ \E p \in Paths : Complete(p)
  \/ Restart
  \/ \E r \in Roles :
       \/ List(r) \/ Step(r) \/ Read(r) \/ Abort(r) \/ Crash(r)
  \/ EndPoll \/ ClaimAlerts \/ Announce

Spec == Init /\ [][Next]_vars

\* Both callers come back on a timer and every call of a pass is bounded; a
\* readable leaf that is asked for again and again answers in the end.
ReadOf(p) == \E r \in Roles : at[r] = p /\ Read(r)
Fairness ==
  /\ \A r \in Roles :
       /\ WF_vars(Step(r) \/ Read(r))
       /\ WF_vars(List(r))
  /\ \A p \in Paths : SF_vars(ReadOf(p))
  /\ WF_vars(EndPoll) /\ WF_vars(ClaimAlerts) /\ WF_vars(Announce)

FairSpec == Spec /\ Fairness

-----------------------------------------------------------------------------
(* Properties.                                                             *)

\* A row per message: however often, from whichever path and by whichever
\* helper a message is read, it is archived once (capture_incoming).
ArchivedOnce ==
  \A i, j \in DOMAIN archive : archive[i].content = archive[j].content => i = j

\* A completed message leaves the modem's store only for the archive: nothing
\* the collection does, with restarts renaming the store, loses one.
NothingLost ==
  [][\A c \in Contents : InStore(c) /\ ~Archived(c) => InStore(c)' \/ Archived(c)']_vars

\* No message is announced twice, and none that predates local alerts is
\* (claim_incoming_alerts: must not replay an uncertain vibration attempt).
AnnouncedOnce ==
  /\ \A i, j \in DOMAIN alerted : alerted[i] = alerted[j] => i = j
  /\ \A i \in DOMAIN alerted : alerted[i] \notin Old /\ Archived(alerted[i])

OncePerMessage == ArchivedOnce /\ AnnouncedOnce

\* Every readable message that is complete is archived, although another leaf
\* of the store cannot be read, hints jump the queue and both helpers move the
\* one cursor.
EveryMessageArchived ==
  \A c \in Contents \ Unreadable : InStore(c) ~> Archived(c)

\* Every archived message comes up for its alert: the unclaimed ones drain.
AlertsDrain == Unclaimed # {} ~> Unclaimed = {}

EveryMessageLands == EveryMessageArchived /\ AlertsDrain
=============================================================================
