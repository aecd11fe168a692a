---------------------------- MODULE SmsInboxProofs ---------------------------
(***************************************************************************)
(* Proofs that the collection passes over the modem's store lose nothing   *)
(* and that each message is archived and announced once (SmsInbox), for    *)
(* any messages, paths, batches, restarts and faults.                      *)
(*                                                                         *)
(* Nothing is lost because what a pass holds is what its path still names: *)
(* while the owner it captured is alive a path is never reused and a       *)
(* completed message never changes, so a delete addressed to that owner    *)
(* can only remove what has been archived.  Nothing is announced twice     *)
(* because an alert is about rows already claimed, and a content has one   *)
(* row.                                                                    *)
(*                                                                         *)
(* Then the handoff to the server (SmsHandoff): an ack is never ahead of   *)
(* it.  And the two together (SmsRelay): the server mirrors the archive.   *)
(***************************************************************************)
EXTENDS SmsRelay, FiniteSetTheorems, SequenceTheorems, TLAPS

ArchiveRow == [content : Contents, claimed : BOOLEAN]

\* The types that the arguments below need.
Types ==
  /\ store \in [Paths -> [content : Contents \cup {NoContent}, done : BOOLEAN]]
  /\ used \in Nat
  /\ epoch \in Nat
  /\ archive \in Seq(ArchiveRow)
  /\ pc \in [Roles -> {"idle", "scan", "read", "capture", "delete", "collected", "report"}]
  /\ at = [r \in Roles |-> at[r]]
  /\ owner \in [Roles -> Nat]
  /\ got \in [Roles -> Contents \cup {NoContent}]
  /\ claims \in Seq(Contents)
  /\ alerted \in Seq(Contents)

\* What a path names has been named since the modem (re)started.
Named ==
  \A p \in Paths : store[p] # NoEntry => p <= used /\ store[p].content \in Contents

\* A pass's owner is the present one or an earlier one.
Owners == \A r \in Roles : owner[r] <= epoch

\* The copy a pass has read is still what its path names, unless the other
\* pass has deleted it, as long as the modem has not restarted.
Copied(r) ==
  /\ got[r] \in Contents
  /\ owner[r] = epoch =>
       /\ at[r] \in Paths /\ at[r] <= used
       /\ store[at[r]] \in {[content |-> got[r], done |-> TRUE], NoEntry}

InHand ==
  \A r \in Roles :
    /\ pc[r] \in {"capture", "delete"} => Copied(r)
    /\ pc[r] = "delete" => Archived(got[r])

\* A row that may still be claimed is one to be announced.
Fresh == \A i \in DOMAIN archive : ~archive[i].claimed => archive[i].content \notin Old

\* An announcement, made or in hand, is about a claimed row.
Claimed(c) ==
  /\ c \notin Old
  /\ \E i \in DOMAIN archive : archive[i].content = c /\ archive[i].claimed

Announced ==
  /\ \A i \in DOMAIN alerted : Claimed(alerted[i])
  /\ \A i, j \in DOMAIN alerted : alerted[i] = alerted[j] => i = j

Pending ==
  /\ \A k \in DOMAIN claims : Claimed(claims[k])
  /\ \A k, l \in DOMAIN claims : claims[k] = claims[l] => k = l
  /\ \A k \in DOMAIN claims, i \in DOMAIN alerted : claims[k] # alerted[i]

IInv ==
  /\ Types /\ Named /\ Owners /\ InHand
  /\ ArchivedOnce /\ Fresh /\ Announced /\ Pending

-----------------------------------------------------------------------------
(* The steps, one variable at a time.                                      *)

\* What a step can do to the archive: add a message it does not have, or claim
\* rows; a row never changes its content.
ArchiveStep ==
  \/ UNCHANGED archive
  \/ \E r \in Roles :
       /\ pc[r] = "capture" /\ ~Archived(got[r])
       /\ archive' = Append(archive, [content |-> got[r], claimed |-> got[r] \in Old])
       /\ UNCHANGED <<claims, alerted>>
  \/ ClaimAlerts

\* Every step does to the archive one of the things listed above.
LEMMA ArchiveSteps == [Next]_vars => ArchiveStep
<1> SUFFICES ASSUME [Next]_vars PROVE ArchiveStep
  OBVIOUS
<1> USE DEF ArchiveStep, modem, helper
<1>1. CASE UNCHANGED vars
  BY <1>1 DEF vars
<1>2. ASSUME NEW c \in Contents, Arrive(c) PROVE ArchiveStep
  BY <1>2 DEF Arrive
<1>3. ASSUME NEW p \in Paths, Complete(p) PROVE ArchiveStep
  BY <1>3 DEF Complete
<1>4. CASE Restart
  BY <1>4 DEF Restart
<1>5. ASSUME NEW r \in Roles,
             List(r) \/ Advance(r) \/ ReadFails(r) \/ Read(r) \/ EndScan(r) \/ Abort(r)
               \/ Delete(r) \/ DeleteFails(r) \/ Crash(r)
      PROVE  ArchiveStep
  BY <1>5 DEF List, Advance, ReadFails, Read, EndScan, Abort, Delete, DeleteFails, Crash
<1>6. ASSUME NEW r \in Roles, Capture(r) PROVE ArchiveStep
  BY <1>6 DEF Capture
<1>7. CASE EndPoll \/ Announce
  BY <1>7 DEF EndPoll, Announce
<1>8. CASE ClaimAlerts
  BY <1>8
<1> QED
  BY <1>1, <1>2, <1>3, <1>4, <1>5, <1>6, <1>7, <1>8 DEF Next, Step

\* A restart keeps every completed message, under the paths from 1 on.
LEMMA Renamed ==
  ASSUME Types, Named, Restart
  PROVE  /\ used' \in Nat /\ used' <= MaxPath
         /\ store' \in [Paths -> [content : Contents \cup {NoContent}, done : BOOLEAN]]
         /\ \A p \in Paths :
              store'[p] # NoEntry => p <= used' /\ store'[p].content \in Contents
         /\ \A c \in Contents : InStore(c) => InStore(c)'
<1> DEFINE Done == {p \in Present : store[p].done}
<1>1. PICK kept \in SetToSeqs(Done) :
        /\ used' = Len(kept)
        /\ store' = [p \in Paths |-> IF p <= Len(kept) THEN store[kept[p]] ELSE NoEntry]
  BY DEF Restart
<1>2. IsFiniteSet(Paths) /\ Cardinality(Paths) = MaxPath
  BY BoundsAssumption, FS_Interval DEF Paths
<1>3. Done \in SUBSET Paths
  BY DEF Present
<1>4. IsFiniteSet(Done) /\ Cardinality(Done) <= MaxPath
  BY <1>2, <1>3, FS_Subset
<1> DEFINE n == Cardinality(Done)
<1>5. n \in Nat /\ n <= MaxPath
  BY <1>4, FS_CardinalityType
<1>6. /\ kept \in [1 .. n -> Done]
      /\ \A i, j \in 1 .. n : i # j => kept[i] # kept[j]
  BY <1>1 DEF SetToSeqs
<1>7. kept \in Injection(1 .. n, Done)
  BY <1>6 DEF Injection, IsInjective
<1>8. Cardinality(1 .. n) = n
  BY <1>5, FS_Interval
<1>9. kept \in Surjection(1 .. n, Done)
  BY <1>4, <1>7, <1>8, FS_Injection
<1>10. Len(kept) = n
  BY <1>5, <1>6
<1>11. \A p \in Paths : p <= n => p \in 1 .. n /\ kept[p] \in Paths
  BY <1>3, <1>5, <1>6 DEF Paths
<1>12. NoEntry \in [content : Contents \cup {NoContent}, done : BOOLEAN]
  BY DEF NoEntry
<1>13. store' \in [Paths -> [content : Contents \cup {NoContent}, done : BOOLEAN]]
  <2> DEFINE E == [content : Contents \cup {NoContent}, done : BOOLEAN]
  <2>1. store \in [Paths -> E] /\ NoEntry \in E
    BY <1>12 DEF Types
  <2> HIDE DEF E, Done, n
  <2>2. \A p \in Paths : (IF p <= n THEN store[kept[p]] ELSE NoEntry) \in E
    BY <2>1, <1>11
  <2>3. store' \in [Paths -> E]
    BY <2>2, <1>1, <1>10
  <2> QED
    BY <2>3 DEF E
<1>14. ASSUME NEW p \in Paths, store'[p] # NoEntry
       PROVE  p <= used' /\ store'[p].content \in Contents
  <2>1. p <= n /\ store'[p] = store[kept[p]]
    BY <1>1, <1>10, <1>14
  <2>2. kept[p] \in Present
    BY <1>6, <1>11, <2>1
  <2> QED
    BY <1>1, <1>10, <2>1, <2>2 DEF Named, Present
<1>15. ASSUME NEW c \in Contents, InStore(c) PROVE InStore(c)'
  <2>1. PICK p \in Paths : store[p] = [content |-> c, done |-> TRUE]
    BY <1>15 DEF InStore
  <2>2. p \in Done
    BY <2>1 DEF Present, NoEntry
  <2>3. PICK k \in 1 .. n : kept[k] = p
    BY <1>9, <2>2 DEF Surjection
  <2>4. k \in Paths /\ k <= n
    BY <1>5, <2>3, BoundsAssumption DEF Paths
  <2>5. store'[k] = [content |-> c, done |-> TRUE]
    BY <1>1, <1>10, <2>1, <2>3, <2>4
  <2> QED
    BY <2>4, <2>5 DEF InStore
<1> QED
  BY <1>1, <1>5, <1>10, <1>13, <1>14, <1>15

\* The claims a query takes: contents of rows nobody has claimed, in some order
\* and each once.
LEMMA Taken ==
  ASSUME Types, ClaimAlerts
  PROVE  /\ archive' \in Seq(ArchiveRow) /\ DOMAIN archive' = DOMAIN archive
         /\ \A i \in DOMAIN archive :
              /\ archive'[i].content = archive[i].content
              /\ archive[i].claimed => archive'[i].claimed
         /\ \E n \in Nat : \E picked \in [1 .. n -> DOMAIN archive] :
              /\ claims' = [k \in 1 .. n |-> archive[picked[k]].content]
              /\ \A k, l \in 1 .. n : picked[k] = picked[l] => k = l
              /\ \A k \in 1 .. n : ~archive[picked[k]].claimed /\ archive'[picked[k]].claimed
<1> DEFINE free == FirstUnclaimed(4)
<1>1. PICK picked \in Ascending(free) :
        claims' = [k \in DOMAIN picked |-> archive[picked[k]].content]
  BY DEF ClaimAlerts
<1>2. archive' = [i \in DOMAIN archive |->
                    IF i \in free THEN [archive[i] EXCEPT !.claimed = TRUE] ELSE archive[i]]
  BY DEF ClaimAlerts
<1>3. free \in SUBSET DOMAIN archive /\ \A i \in free : ~archive[i].claimed
  BY DEF FirstUnclaimed, Unclaimed
<1>4. archive \in Seq(ArchiveRow) /\ DOMAIN archive = 1 .. Len(archive) /\ Len(archive) \in Nat
  BY DEF Types
<1>5. IsFiniteSet(free)
  <2>1. IsFiniteSet(DOMAIN archive)
    BY <1>4, FS_Interval
  <2> HIDE DEF free
  <2> QED
    BY <1>3, <2>1, FS_Subset
<1> DEFINE n == Cardinality(free)
<1>6. n \in Nat
  BY <1>5, FS_CardinalityType
<1>7. picked \in [1 .. n -> free] /\ \A i, j \in 1 .. n : i # j => picked[i] # picked[j]
  BY <1>1 DEF Ascending, SetToSeqs
<1> HIDE DEF free
<1>8. \A i \in DOMAIN archive :
        archive[i] \in ArchiveRow /\ [archive[i] EXCEPT !.claimed = TRUE] \in ArchiveRow
  <2> SUFFICES ASSUME NEW i \in DOMAIN archive
               PROVE  archive[i] \in ArchiveRow /\ [archive[i] EXCEPT !.claimed = TRUE] \in ArchiveRow
    OBVIOUS
  <2>1. archive[i] \in ArchiveRow
    BY <1>4
  <2> QED
    BY <2>1 DEF ArchiveRow
<1>9. archive' \in Seq(ArchiveRow) /\ DOMAIN archive' = DOMAIN archive
  <2>1. archive' \in [1 .. Len(archive) -> ArchiveRow]
    BY <1>2, <1>4, <1>8
  <2> QED
    BY <2>1, <1>4
<1>10. ASSUME NEW i \in DOMAIN archive
       PROVE  /\ archive'[i].content = archive[i].content
              /\ archive[i].claimed => archive'[i].claimed
              /\ i \in free => archive'[i].claimed
  <2>1. archive'[i] = IF i \in free THEN [archive[i] EXCEPT !.claimed = TRUE] ELSE archive[i]
    BY <1>2
  <2>2. archive[i] \in ArchiveRow
    BY <1>8
  <2>3. CASE i \in free
    BY <2>1, <2>2, <2>3 DEF ArchiveRow
  <2>4. CASE i \notin free
    BY <2>1, <2>4
  <2> QED
    BY <2>3, <2>4
<1>11. picked \in [1 .. n -> DOMAIN archive] /\ DOMAIN picked = 1 .. n
  BY <1>3, <1>7
<1>12. \A k \in 1 .. n : picked[k] \in free
  BY <1>7
<1> QED
  BY <1>1, <1>3, <1>6, <1>7, <1>9, <1>10, <1>11, <1>12

\* The content read from a completed entry is a message.
LEMMA Contented ==
  ASSUME Named, NEW p \in Present
  PROVE  store[p].content \in Contents
BY DEF Named, Present

\* A step keeps the types.
LEMMA TypesKept == ASSUME Types, Named, InHand, [Next]_vars PROVE Types'
<1> USE DEF modem, helper
<1>1. CASE UNCHANGED vars
  BY <1>1 DEF vars, Types
<1>2. ASSUME NEW c \in Contents, Arrive(c) PROVE Types'
  <2>1. [content |-> c, done |-> FALSE] \in [content : Contents \cup {NoContent}, done : BOOLEAN]
    OBVIOUS
  <2>2. store' \in [Paths -> [content : Contents \cup {NoContent}, done : BOOLEAN]]
    BY <1>2, <2>1 DEF Types, Arrive
  <2> QED
    BY <1>2, <2>2 DEF Types, Arrive
<1>3. ASSUME NEW p \in Paths, Complete(p) PROVE Types'
  BY <1>3 DEF Types, Complete
<1>4. CASE Restart
  <2>1. /\ used' \in Nat
        /\ store' \in [Paths -> [content : Contents \cup {NoContent}, done : BOOLEAN]]
    BY <1>4, Renamed
  <2>2. epoch' = epoch + 1 /\ UNCHANGED <<archive, pc, at, owner, got, claims, alerted>>
    BY <1>4 DEF Restart
  <2> QED
    BY <2>1, <2>2 DEF Types
<1>5. ASSUME NEW r \in Roles, List(r) PROVE Types'
  BY <1>5 DEF Types, List, Goto
<1>6. ASSUME NEW r \in Roles, Advance(r) PROVE Types'
  BY <1>6 DEF Types, Advance, Goto
<1>7. ASSUME NEW r \in Roles, ReadFails(r) \/ DeleteFails(r) PROVE Types'
  BY <1>7 DEF Types, ReadFails, DeleteFails, NextLeaf, Goto
<1>8. ASSUME NEW r \in Roles, Read(r) PROVE Types'
  <2>1. CASE store[at[r]].done
    <3>1. store[at[r]].content \in Contents
      BY <1>8, <2>1, Contented DEF Read
    <3> QED
      BY <1>8, <2>1, <3>1 DEF Types, Read, Goto
  <2>2. CASE ~store[at[r]].done
    BY <1>8, <2>2 DEF Types, Read, NextLeaf, Goto
  <2> QED
    BY <2>1, <2>2
<1>9. ASSUME NEW r \in Roles, Capture(r) PROVE Types'
  <2>1. got[r] \in Contents
    BY <1>9 DEF InHand, Capture, Copied
  <2>2. [content |-> got[r], claimed |-> got[r] \in Old] \in ArchiveRow
    BY <2>1 DEF ArchiveRow
  <2>3. archive' \in Seq(ArchiveRow)
    BY <1>9, <2>2 DEF Types, Capture
  <2>4. CASE got[r] \in Deletable
    BY <1>9, <2>3, <2>4 DEF Types, Capture, Goto
  <2>5. CASE got[r] \notin Deletable
    BY <1>9, <2>3, <2>5 DEF Types, Capture, NextLeaf, Goto
  <2> QED
    BY <2>4, <2>5
<1>10. ASSUME NEW r \in Roles, Delete(r) PROVE Types'
  <2>1. NoEntry \in [content : Contents \cup {NoContent}, done : BOOLEAN]
    BY DEF NoEntry
  <2>2. store' \in [Paths -> [content : Contents \cup {NoContent}, done : BOOLEAN]]
    BY <1>10, <2>1 DEF Types, Delete
  <2> QED
    BY <1>10, <2>2 DEF Types, Delete, NextLeaf, Goto
<1>11. ASSUME NEW r \in Roles, EndScan(r) \/ Abort(r) PROVE Types'
  <2>1. Leave(r, "collected") /\ UNCHANGED <<store, used, epoch, archive, claims, alerted>>
    BY <1>11 DEF EndScan, Abort
  <2> QED
    BY <2>1 DEF Types, Leave, Goto
<1>12. ASSUME NEW r \in Roles, Crash(r) PROVE Types'
  <2>1. claims' \in Seq(Contents)
    BY <1>12 DEF Types, Crash
  <2> QED
    BY <1>12, <2>1 DEF Types, Crash, Leave, Goto
<1>13. CASE EndPoll
  BY <1>13 DEF Types, EndPoll, Goto, Roles
<1>14. CASE ClaimAlerts
  <2>1. PICK n \in Nat : \E picked \in [1 .. n -> DOMAIN archive] :
          claims' = [k \in 1 .. n |-> archive[picked[k]].content]
    BY <1>14, Taken
  <2>2. ASSUME NEW i \in DOMAIN archive PROVE archive[i].content \in Contents
    <3>1. archive[i] \in ArchiveRow
      BY DEF Types
    <3> QED
      BY <3>1 DEF ArchiveRow
  <2>3. claims' \in [1 .. n -> Contents]
    BY <2>1, <2>2
  <2>4. claims' \in Seq(Contents) /\ archive' \in Seq(ArchiveRow)
    BY <2>1, <2>3, <1>14, Taken
  <2> QED
    BY <1>14, <2>4 DEF Types, ClaimAlerts, Goto, Roles
<1>15. CASE Announce
  BY <1>15 DEF Types, Announce, Goto, Roles
<1> QED
  BY <1>1, <1>2, <1>3, <1>4, <1>5, <1>6, <1>7, <1>8, <1>9, <1>10, <1>11, <1>12, <1>13,
     <1>14, <1>15 DEF Next, Step

\* What a step can do to the modem's store.
ModemStep ==
  \/ UNCHANGED modem
  \/ (\E c \in Contents : Arrive(c)) \/ (\E p \in Paths : Complete(p)) \/ Restart
  \/ \E r \in Roles :
       /\ pc[r] = "delete" /\ owner[r] = epoch
       /\ store' = [store EXCEPT ![at[r]] = NoEntry]
       /\ UNCHANGED <<used, epoch, archive>>

\* Every step does to the modem's store one of the things listed above.
LEMMA ModemSteps == [Next]_vars => ModemStep
<1> SUFFICES ASSUME [Next]_vars PROVE ModemStep
  OBVIOUS
<1> USE DEF ModemStep, modem
<1>1. CASE UNCHANGED vars
  BY <1>1 DEF vars
<1>2. CASE (\E c \in Contents : Arrive(c)) \/ (\E p \in Paths : Complete(p)) \/ Restart
  BY <1>2
<1>3. ASSUME NEW r \in Roles,
             List(r) \/ Advance(r) \/ ReadFails(r) \/ Read(r) \/ EndScan(r) \/ Abort(r)
               \/ DeleteFails(r) \/ Crash(r) \/ Capture(r)
      PROVE  ModemStep
  BY <1>3 DEF List, Advance, ReadFails, Read, EndScan, Abort, DeleteFails, Crash, Capture
<1>4. ASSUME NEW r \in Roles, Delete(r) PROVE ModemStep
  BY <1>4 DEF Delete
<1>5. CASE EndPoll \/ Announce \/ ClaimAlerts
  BY <1>5 DEF EndPoll, Announce, ClaimAlerts
<1> QED
  BY <1>1, <1>2, <1>3, <1>4, <1>5 DEF Next, Step

\* How the pass of a role moves on: away from a message in hand, to one just read,
\* or to the deletion of the one just archived.
HelperStep(r) ==
  \/ UNCHANGED <<pc[r], at[r], owner[r], got[r]>>
  \/ pc'[r] \notin {"capture", "delete"} /\ owner'[r] \in {owner[r], 0, epoch}
  \/ /\ Read(r) /\ store[at[r]].done
     /\ pc'[r] = "capture" /\ got'[r] = store[at[r]].content
     /\ UNCHANGED <<at[r], owner[r], modem>>
  \/ /\ Capture(r) /\ pc'[r] = "delete"
     /\ UNCHANGED <<at[r], owner[r], got[r], modem>>

\* Every step does to a helper's pass one of the things listed above.
LEMMA HelperSteps ==
  ASSUME Types, [Next]_vars, NEW r \in Roles
  PROVE  HelperStep(r)
<1> USE DEF HelperStep, modem, helper, Types
<1>1. CASE UNCHANGED vars
  BY <1>1 DEF vars
<1>2. ASSUME NEW c \in Contents, Arrive(c) PROVE HelperStep(r)
  BY <1>2 DEF Arrive
<1>3. ASSUME NEW p \in Paths, Complete(p) PROVE HelperStep(r)
  BY <1>3 DEF Complete
<1>4. CASE Restart
  BY <1>4 DEF Restart
<1>5. ASSUME NEW s \in Roles, List(s) PROVE HelperStep(r)
  BY <1>5 DEF List, Goto
<1>6. ASSUME NEW s \in Roles, Advance(s) PROVE HelperStep(r)
  BY <1>6 DEF Advance, Goto
<1>7. ASSUME NEW s \in Roles, ReadFails(s) \/ DeleteFails(s) \/ Delete(s)
      PROVE  HelperStep(r)
  <2>1. NextLeaf(s) /\ UNCHANGED owner
    BY <1>7 DEF ReadFails, DeleteFails, Delete
  <2> QED
    BY <2>1 DEF NextLeaf, Goto
<1>8. ASSUME NEW s \in Roles, Read(s) PROVE HelperStep(r)
  <2>1. CASE store[at[s]].done
    <3>1. CASE s = r
      BY <1>8, <2>1, <3>1 DEF Read, Goto
    <3>2. CASE s # r
      BY <1>8, <2>1, <3>2 DEF Read, Goto
    <3> QED
      BY <3>1, <3>2
  <2>2. CASE ~store[at[s]].done
    BY <1>8, <2>2 DEF Read, NextLeaf, Goto
  <2> QED
    BY <2>1, <2>2
<1>9. ASSUME NEW s \in Roles, Capture(s) PROVE HelperStep(r)
  <2>1. CASE got[s] \in Deletable
    BY <1>9, <2>1 DEF Capture, Goto
  <2>2. CASE got[s] \notin Deletable
    BY <1>9, <2>2 DEF Capture, NextLeaf, Goto
  <2> QED
    BY <2>1, <2>2
<1>10. ASSUME NEW s \in Roles, NEW to \in {"collected", "idle"}, Leave(s, to)
       PROVE  HelperStep(r)
  BY <1>10 DEF Leave, Goto
<1>11. ASSUME NEW s \in Roles, EndScan(s) \/ Abort(s) \/ Crash(s) PROVE HelperStep(r)
  BY <1>10, <1>11 DEF EndScan, Abort, Crash
<1>12. CASE EndPoll \/ Announce
  BY <1>12 DEF EndPoll, Announce, Goto
<1>13. CASE ClaimAlerts
  BY <1>13 DEF ClaimAlerts, Goto
<1> QED
  BY <1>1, <1>2, <1>3, <1>4, <1>5, <1>6, <1>7, <1>8, <1>9, <1>11, <1>12, <1>13
  DEF Next, Step

-----------------------------------------------------------------------------
(* The archive.                                                            *)

\* What is archived stays so, and what has been claimed.
LEMMA Kept ==
  ASSUME Types, InHand, [Next]_vars, NEW c
  PROVE  /\ Archived(c) => Archived(c)'
         /\ Claimed(c) => Claimed(c)'
<1>1. CASE UNCHANGED archive
  BY <1>1 DEF Archived, Claimed
<1>2. ASSUME NEW r \in Roles,
             archive' = Append(archive, [content |-> got[r], claimed |-> got[r] \in Old])
      PROVE  /\ Archived(c) => Archived(c)'
             /\ Claimed(c) => Claimed(c)'
  <2>1. \A i \in DOMAIN archive : i \in DOMAIN archive' /\ archive'[i] = archive[i]
    BY <1>2 DEF Types
  <2> QED
    BY <2>1 DEF Archived, Claimed
<1>3. CASE ClaimAlerts
  <2>1. /\ DOMAIN archive' = DOMAIN archive
        /\ \A i \in DOMAIN archive :
             /\ archive'[i].content = archive[i].content
             /\ archive[i].claimed => archive'[i].claimed
    BY <1>3, Taken
  <2>2. Archived(c) => Archived(c)'
    BY <2>1 DEF Archived
  <2>3. Claimed(c) => Claimed(c)'
    BY <2>1 DEF Claimed
  <2> QED
    BY <2>2, <2>3
<1> QED
  BY <1>1, <1>2, <1>3, ArchiveSteps DEF ArchiveStep

\* A message captured is archived.
LEMMA Captured ==
  ASSUME Types, NEW r \in Roles, Capture(r)
  PROVE  \E i \in DOMAIN archive' : archive'[i].content = got[r]
<1>1. CASE Archived(got[r])
  BY <1>1 DEF Archived, Capture
<1>2. CASE ~Archived(got[r])
  <2>1. archive' = Append(archive, [content |-> got[r], claimed |-> got[r] \in Old])
    BY <1>2 DEF Capture
  <2>2. Len(archive) + 1 \in DOMAIN archive' /\ archive'[Len(archive) + 1].content = got[r]
    BY <2>1 DEF Types
  <2> QED
    BY <2>2
<1> QED
  BY <1>1, <1>2

\* A content has one row in the archive, and a row still to be claimed is a new message.
LEMMA OnceKept ==
  ASSUME Types, InHand, ArchivedOnce, Fresh, [Next]_vars
  PROVE  ArchivedOnce' /\ Fresh'
<1>1. CASE UNCHANGED archive
  BY <1>1 DEF ArchivedOnce, Fresh
<1>2. ASSUME NEW r \in Roles, ~Archived(got[r]),
             archive' = Append(archive, [content |-> got[r], claimed |-> got[r] \in Old])
      PROVE  ArchivedOnce' /\ Fresh'
  <2> DEFINE last == Len(archive) + 1
  <2>1. /\ DOMAIN archive' = 1 .. last /\ DOMAIN archive = 1 .. Len(archive)
        /\ Len(archive) \in Nat
        /\ \A i \in DOMAIN archive : archive'[i] = archive[i]
        /\ archive'[last].content = got[r] /\ archive'[last].claimed = (got[r] \in Old)
    BY <1>2 DEF Types
  <2>2. \A i \in DOMAIN archive : archive[i].content # got[r]
    BY <1>2 DEF Archived
  <2>3. \A i \in DOMAIN archive' : i = last \/ i \in DOMAIN archive
    BY <2>1
  <2>4. ArchivedOnce'
    BY <2>1, <2>2, <2>3 DEF ArchivedOnce
  <2>5. Fresh'
    BY <2>1, <2>3 DEF Fresh
  <2> QED
    BY <2>4, <2>5
<1>3. CASE ClaimAlerts
  BY <1>3, Taken DEF ArchivedOnce, Fresh
<1> QED
  BY <1>1, <1>2, <1>3, ArchiveSteps DEF ArchiveStep

-----------------------------------------------------------------------------
(* The alerts.                                                             *)

\* How a step changes what is announced and what is about to be.
AlertStep ==
  \/ UNCHANGED <<claims, alerted>>
  \/ claims' = <<>> /\ UNCHANGED alerted
  \/ ClaimAlerts /\ UNCHANGED alerted
  \/ alerted' = alerted \o claims /\ claims' = <<>>

\* Every step does to the alerts one of the things listed above.
LEMMA AlertSteps == [Next]_vars => AlertStep
<1> SUFFICES ASSUME [Next]_vars PROVE AlertStep
  OBVIOUS
<1> USE DEF AlertStep, helper
<1>1. CASE UNCHANGED vars
  BY <1>1 DEF vars
<1>2. ASSUME NEW c \in Contents, Arrive(c) PROVE AlertStep
  BY <1>2 DEF Arrive
<1>3. ASSUME NEW p \in Paths, Complete(p) PROVE AlertStep
  BY <1>3 DEF Complete
<1>4. CASE Restart
  BY <1>4 DEF Restart
<1>5. ASSUME NEW r \in Roles,
             List(r) \/ Advance(r) \/ ReadFails(r) \/ Read(r) \/ EndScan(r) \/ Abort(r)
               \/ Delete(r) \/ DeleteFails(r) \/ Capture(r)
      PROVE  AlertStep
  BY <1>5 DEF List, Advance, ReadFails, Read, EndScan, Abort, Delete, DeleteFails, Capture
<1>6. ASSUME NEW r \in Roles, Crash(r) PROVE AlertStep
  BY <1>6 DEF Crash
<1>7. CASE EndPoll \/ Announce \/ ClaimAlerts
  BY <1>7 DEF EndPoll, Announce, ClaimAlerts
<1> QED
  BY <1>1, <1>2, <1>3, <1>4, <1>5, <1>6, <1>7 DEF Next, Step

\* The rows a query claims are not those of an alert made before: a content has
\* one row, and that one was unclaimed.
LEMMA ClaimsAreNew ==
  ASSUME Types, ArchivedOnce, Fresh, Announced, ClaimAlerts
  PROVE  /\ \A k \in DOMAIN claims' :
              \E i \in DOMAIN archive :
                /\ claims'[k] = archive[i].content /\ claims'[k] \notin Old
                /\ ~archive[i].claimed /\ archive'[i].claimed
         /\ \A k, l \in DOMAIN claims' : claims'[k] = claims'[l] => k = l
         /\ \A k \in DOMAIN claims', i \in DOMAIN alerted : claims'[k] # alerted[i]
<1>1. PICK n \in Nat : \E picked \in [1 .. n -> DOMAIN archive] :
        /\ claims' = [k \in 1 .. n |-> archive[picked[k]].content]
        /\ \A k, l \in 1 .. n : picked[k] = picked[l] => k = l
        /\ \A k \in 1 .. n : ~archive[picked[k]].claimed /\ archive'[picked[k]].claimed
  BY Taken
<1>2. PICK picked \in [1 .. n -> DOMAIN archive] :
        /\ claims' = [k \in 1 .. n |-> archive[picked[k]].content]
        /\ \A k, l \in 1 .. n : picked[k] = picked[l] => k = l
        /\ \A k \in 1 .. n : ~archive[picked[k]].claimed /\ archive'[picked[k]].claimed
  BY <1>1
<1>3. DOMAIN claims' = 1 .. n /\ \A k \in 1 .. n : claims'[k] = archive[picked[k]].content
  BY <1>2
<1>4. ASSUME NEW k \in 1 .. n
      PROVE  \E i \in DOMAIN archive :
               /\ claims'[k] = archive[i].content /\ claims'[k] \notin Old
               /\ ~archive[i].claimed /\ archive'[i].claimed
  <2>1. picked[k] \in DOMAIN archive
    BY <1>2
  <2> QED
    BY <1>2, <1>3, <2>1 DEF Fresh
<1>5. \A k, l \in 1 .. n : claims'[k] = claims'[l] => k = l
  BY <1>2, <1>3 DEF ArchivedOnce
<1>6. ASSUME NEW k \in 1 .. n, NEW i \in DOMAIN alerted PROVE claims'[k] # alerted[i]
  <2>1. PICK j \in DOMAIN archive : archive[j].content = alerted[i] /\ archive[j].claimed
    BY DEF Announced, Claimed
  <2>2. picked[k] \in DOMAIN archive /\ ~archive[picked[k]].claimed
    BY <1>2
  <2> QED
    BY <1>3, <2>1, <2>2 DEF ArchivedOnce
<1> QED
  BY <1>3, <1>4, <1>5, <1>6

\* Alerts stay about claimed rows, and about each row once.
LEMMA AlertsKept ==
  ASSUME Types, InHand, ArchivedOnce, Fresh, Announced, Pending, [Next]_vars
  PROVE  Announced' /\ Pending'
<1>1. \A i \in DOMAIN alerted : Claimed(alerted[i])
  BY DEF Announced
<1>2. \A k \in DOMAIN claims : Claimed(claims[k])
  BY DEF Pending
<1>3. ASSUME NEW c, Claimed(c) PROVE Claimed(c)'
  BY <1>3, Kept
<1>4. /\ alerted \in Seq(Contents) /\ claims \in Seq(Contents)
      /\ Len(alerted) \in Nat /\ Len(claims) \in Nat
      /\ DOMAIN alerted = 1 .. Len(alerted) /\ DOMAIN claims = 1 .. Len(claims)
  BY DEF Types
<1>5. CASE UNCHANGED <<claims, alerted>>
  BY <1>1, <1>2, <1>3, <1>5 DEF Announced, Pending, Claimed
<1>6. CASE claims' = <<>> /\ UNCHANGED alerted
  BY <1>1, <1>3, <1>6 DEF Announced, Pending, Claimed
<1>7. CASE ClaimAlerts /\ UNCHANGED alerted
  <2>1. Announced'
    BY <1>1, <1>3, <1>7 DEF Announced, Claimed
  <2>2. \A i \in DOMAIN archive :
          i \in DOMAIN archive' /\ archive'[i].content = archive[i].content
    BY <1>7, Taken
  <2>3. \A k \in DOMAIN claims' : Claimed(claims[k])'
    BY <1>7, <2>2, ClaimsAreNew DEF Claimed
  <2> QED
    BY <1>7, <2>1, <2>3, ClaimsAreNew DEF Pending
<1>8. CASE alerted' = alerted \o claims /\ claims' = <<>>
  <2>1. /\ DOMAIN alerted' = 1 .. Len(alerted) + Len(claims)
        /\ \A i \in DOMAIN alerted' :
             alerted'[i] = IF i <= Len(alerted) THEN alerted[i] ELSE claims[i - Len(alerted)]
    BY <1>4, <1>8
  <2>2. ASSUME NEW i \in DOMAIN alerted'
        PROVE  \/ i \in DOMAIN alerted /\ alerted'[i] = alerted[i]
               \/ /\ i - Len(alerted) \in DOMAIN claims
                  /\ alerted'[i] = claims[i - Len(alerted)]
    BY <1>4, <2>1
  <2>3. \A i \in DOMAIN alerted' : Claimed(alerted'[i])
    BY <1>1, <1>2, <2>2
  <2>4. \A i \in DOMAIN alerted' : Claimed(alerted[i])'
    BY <1>3, <2>3 DEF Claimed
  <2>5. ASSUME NEW i \in DOMAIN alerted', NEW j \in DOMAIN alerted', alerted'[i] = alerted'[j]
        PROVE  i = j
    <3>1. i \in Int /\ j \in Int
      BY <1>4, <2>1
    <3> QED
      BY <1>4, <2>2, <2>5, <3>1 DEF Announced, Pending
  <2> QED
    BY <1>8, <2>4, <2>5 DEF Announced, Pending
<1> QED
  BY <1>5, <1>6, <1>7, <1>8, AlertSteps DEF AlertStep

-----------------------------------------------------------------------------
(* The store.                                                              *)

\* Paths stay named in order, and every owner is of this epoch or an earlier one.
LEMMA StoreKept ==
  ASSUME Types, Named, Owners, [Next]_vars
  PROVE  Named' /\ Owners'
<1>1. Owners'
  <2> SUFFICES ASSUME NEW r \in Roles PROVE owner'[r] <= epoch'
    BY DEF Owners
  <2>1. owner[r] \in Nat /\ owner[r] <= epoch /\ epoch \in Nat
    BY DEF Types, Owners
  <2>2. epoch' = epoch \/ epoch' = epoch + 1
    BY ModemSteps DEF ModemStep, modem, Arrive, Complete, Restart
  <2>3. owner'[r] \in {owner[r], 0, epoch}
    BY HelperSteps DEF HelperStep
  <2> QED
    BY <2>1, <2>2, <2>3
<1>2. CASE UNCHANGED modem
  BY <1>1, <1>2 DEF Named, modem
<1>3. ASSUME NEW c \in Contents, Arrive(c) PROVE Named'
  <2>1. used' = used + 1 /\ store' = [store EXCEPT ![used + 1] = [content |-> c, done |-> FALSE]]
    BY <1>3 DEF Arrive
  <2> SUFFICES ASSUME NEW p \in Paths, store'[p] # NoEntry
               PROVE  p <= used' /\ store'[p].content \in Contents
    BY DEF Named
  <2>2. CASE p = used + 1
    BY <2>1, <2>2 DEF Types
  <2>3. CASE p # used + 1
    <3>1. store'[p] = store[p]
      BY <2>1, <2>3 DEF Types
    <3>2. p <= used /\ store[p].content \in Contents /\ used \in Nat
      BY <3>1 DEF Named, Types
    <3> QED
      BY <2>1, <3>1, <3>2 DEF Paths
  <2> QED
    BY <2>2, <2>3
<1>4. ASSUME NEW p \in Paths, Complete(p) PROVE Named'
  <2>1. store' = [store EXCEPT ![p] = [@ EXCEPT !.done = TRUE]] /\ used' = used
    BY <1>4 DEF Complete
  <2>2. store[p] # NoEntry
    BY <1>4 DEF Complete, Present
  <2>3. store[p] \in [content : Contents \cup {NoContent}, done : BOOLEAN]
    BY DEF Types
  <2>4. store'[p].content = store[p].content
    BY <2>1, <2>3 DEF Types
  <2>5. \A q \in Paths : q # p => store'[q] = store[q]
    BY <2>1 DEF Types
  <2> SUFFICES ASSUME NEW q \in Paths, store'[q] # NoEntry
               PROVE  q <= used' /\ store'[q].content \in Contents
    BY DEF Named
  <2>6. store[q] # NoEntry /\ store'[q].content = store[q].content
    BY <2>2, <2>4, <2>5
  <2> QED
    BY <2>1, <2>6 DEF Named
<1>5. CASE Restart
  BY <1>1, <1>5, Renamed DEF Named
<1>6. ASSUME NEW r \in Roles, store' = [store EXCEPT ![at[r]] = NoEntry], UNCHANGED used
      PROVE  Named'
  <2> SUFFICES ASSUME NEW q \in Paths, store'[q] # NoEntry
               PROVE  q <= used' /\ store'[q].content \in Contents
    BY DEF Named
  <2>1. store'[q] = store[q]
    BY <1>6 DEF Types
  <2> QED
    BY <1>6, <2>1 DEF Named
<1> QED
  BY <1>1, <1>2, <1>3, <1>4, <1>5, <1>6, ModemSteps DEF ModemStep

\* While the owner lives, the entry of a completed message stays what it is until
\* it is deleted: a new message gets a new path, and only unfinished ones change.
LEMMA EntryStays ==
  ASSUME Types, Named, [Next]_vars, epoch' = epoch,
         NEW p \in Paths, p <= used, NEW c \in Contents,
         store[p] \in {[content |-> c, done |-> TRUE], NoEntry}
  PROVE  p <= used' /\ store'[p] \in {[content |-> c, done |-> TRUE], NoEntry}
<1>1. CASE UNCHANGED modem
  BY <1>1 DEF modem
<1>2. ASSUME NEW d \in Contents, Arrive(d)
      PROVE  p <= used' /\ store'[p] = store[p]
  <2>1. used' = used + 1 /\ store' = [store EXCEPT ![used + 1] = [content |-> d, done |-> FALSE]]
    BY <1>2 DEF Arrive
  <2>2. p # used + 1 /\ p <= used + 1
    BY DEF Types, Paths
  <2> QED
    BY <2>1, <2>2 DEF Types
<1>3. ASSUME NEW q \in Paths, Complete(q)
      PROVE  p <= used' /\ store'[p] = store[p]
  <2>1. store[q] # NoEntry /\ ~store[q].done /\ used' = used
    BY <1>3 DEF Complete, Present
  <2>2. p # q
    BY <2>1
  <2> QED
    BY <1>3, <2>1, <2>2 DEF Complete, Types
<1>4. CASE Restart
  BY <1>4 DEF Restart, Types
<1>5. ASSUME NEW r \in Roles, store' = [store EXCEPT ![at[r]] = NoEntry], UNCHANGED used
      PROVE  p <= used' /\ store'[p] \in {store[p], NoEntry}
  BY <1>5 DEF Types
<1> QED
  BY <1>1, <1>2, <1>3, <1>4, <1>5, ModemSteps DEF ModemStep

\* What a pass holds stays what its path names while its owner lives.
LEMMA InHandKept ==
  ASSUME Types, Named, Owners, InHand, [Next]_vars
  PROVE  InHand'
<1> SUFFICES ASSUME NEW r \in Roles
             PROVE  /\ pc'[r] \in {"capture", "delete"} => Copied(r)'
                    /\ pc'[r] = "delete" => Archived(got[r])'
  BY DEF InHand
<1>1. CASE UNCHANGED <<pc[r], at[r], owner[r], got[r]>>
  <2>1. ASSUME pc'[r] \in {"capture", "delete"} PROVE Copied(r)'
    <3>1. Copied(r)
      BY <1>1, <2>1 DEF InHand
    <3>2. got'[r] \in Contents
      BY <1>1, <3>1 DEF Copied
    <3>3. ASSUME owner'[r] = epoch'
          PROVE  /\ at'[r] \in Paths /\ at'[r] <= used'
                 /\ store'[at'[r]] \in {[content |-> got'[r], done |-> TRUE], NoEntry}
      <4>1. epoch' = epoch \/ epoch' = epoch + 1
        BY ModemSteps DEF ModemStep, modem, Arrive, Complete, Restart
      <4>2. owner[r] <= epoch /\ owner[r] \in Nat /\ epoch \in Nat
        BY DEF Owners, Types
      <4>3. epoch' = epoch /\ owner[r] = epoch
        BY <1>1, <3>3, <4>1, <4>2
      <4>4. /\ at[r] \in Paths /\ at[r] <= used
            /\ store[at[r]] \in {[content |-> got[r], done |-> TRUE], NoEntry}
        BY <3>1, <4>3 DEF Copied
      <4>5. /\ at[r] <= used'
            /\ store'[at[r]] \in {[content |-> got[r], done |-> TRUE], NoEntry}
        BY <3>1, <4>3, <4>4, EntryStays DEF Copied
      <4> QED
        BY <1>1, <4>4, <4>5
    <3> QED
      BY <3>2, <3>3 DEF Copied
  <2>2. ASSUME pc'[r] = "delete" PROVE Archived(got[r])'
    <3>1. PICK c : c = got[r]
      OBVIOUS
    <3>2. Archived(c)'
      BY <1>1, <2>2, <3>1, Kept DEF InHand
    <3> QED
      BY <1>1, <3>1, <3>2 DEF Archived
  <2> QED
    BY <2>1, <2>2
<1>2. CASE pc'[r] \notin {"capture", "delete"}
  BY <1>2
<1>3. CASE /\ Read(r) /\ store[at[r]].done
           /\ pc'[r] = "capture" /\ got'[r] = store[at[r]].content
           /\ UNCHANGED <<at[r], owner[r], modem>>
  <2>1. at[r] \in Paths /\ store[at[r]] # NoEntry
    BY <1>3 DEF Read, Present
  <2>2. at[r] <= used /\ store[at[r]].content \in Contents
    BY <2>1 DEF Named
  <2>3. store[at[r]] \in [content : Contents \cup {NoContent}, done : BOOLEAN]
    BY <2>1 DEF Types
  <2>4. store[at[r]] = [content |-> store[at[r]].content, done |-> TRUE]
    BY <1>3, <2>3
  <2> QED
    BY <1>3, <2>1, <2>2, <2>4 DEF Copied, modem
<1>4. CASE /\ Capture(r) /\ pc'[r] = "delete"
           /\ UNCHANGED <<at[r], owner[r], got[r], modem>>
  <2>1. Copied(r)
    BY <1>4 DEF InHand, Capture
  <2>2. Copied(r)'
    BY <1>4, <2>1 DEF Copied, modem
  <2>3. Archived(got[r])'
    BY <1>4, Captured DEF Archived
  <2> QED
    BY <2>2, <2>3
<1> QED
  BY <1>1, <1>2, <1>3, <1>4, HelperSteps DEF HelperStep

-----------------------------------------------------------------------------
(* The theorems.                                                           *)

\* IInv holds in every reachable state.
THEOREM Inductive == Spec => []IInv
<1>1. Init => IInv
  <2> SUFFICES ASSUME Init PROVE IInv
    OBVIOUS
  <2> USE DEF Init
  <2>1. Types
    BY DEF Types, NoEntry
  <2>2. Named /\ Owners /\ InHand
    BY DEF Named, Owners, InHand
  <2>3. ArchivedOnce /\ Fresh /\ Announced /\ Pending
    BY DEF ArchivedOnce, Fresh, Announced, Pending
  <2> QED
    BY <2>1, <2>2, <2>3 DEF IInv
<1>2. IInv /\ [Next]_vars => IInv'
  BY TypesKept, StoreKept, InHandKept, OnceKept, AlertsKept DEF IInv
<1> QED
  BY <1>1, <1>2, PTL DEF Spec

\* The stated properties of collect_incoming and claim_incoming_alerts: a message
\* is archived once, and announced at most once and never from before the alerts.
THEOREM OnceEach == Spec => []OncePerMessage
<1>1. IInv => OncePerMessage
  <2> SUFFICES ASSUME IInv PROVE OncePerMessage
    OBVIOUS
  <2>1. ArchivedOnce /\ Announced
    BY DEF IInv
  <2>2. AnnouncedOnce
    BY <2>1 DEF Announced, AnnouncedOnce, Claimed, Archived
  <2> QED
    BY <2>1, <2>2 DEF OncePerMessage
<1> QED
  BY <1>1, Inductive, PTL

\* A completed message that is not archived stays in the modem's store, whatever
\* the two passes delete and however a restart of ModemManager renames them.
LEMMA StaysOrArchived ==
  ASSUME IInv, [Next]_vars, NEW c \in Contents, InStore(c), ~Archived(c)
  PROVE  InStore(c)' \/ Archived(c)'
<1> USE DEF IInv
<1>1. PICK p \in Paths : store[p] = [content |-> c, done |-> TRUE]
  BY DEF InStore
<1>2. store[p] # NoEntry /\ store[p].done
  BY <1>1 DEF NoEntry
<1>3. CASE UNCHANGED modem
  BY <1>3 DEF InStore, modem
<1>4. ASSUME NEW d \in Contents, Arrive(d) PROVE InStore(c)'
  <2>1. p # used + 1
    BY <1>2 DEF Named, Types, Paths
  <2>2. store'[p] = store[p]
    BY <1>4, <2>1 DEF Arrive, Types
  <2> QED
    BY <1>1, <2>2 DEF InStore
<1>5. ASSUME NEW q \in Paths, Complete(q) PROVE InStore(c)'
  <2>1. p # q
    BY <1>2, <1>5 DEF Complete
  <2>2. store'[p] = store[p]
    BY <1>5, <2>1 DEF Complete, Types
  <2> QED
    BY <1>1, <2>2 DEF InStore
<1>6. CASE Restart
  BY <1>6, Renamed
<1>7. ASSUME NEW r \in Roles, pc[r] = "delete", owner[r] = epoch,
             store' = [store EXCEPT ![at[r]] = NoEntry]
      PROVE  InStore(c)'
  <2>1. /\ Archived(got[r])
        /\ store[at[r]] \in {[content |-> got[r], done |-> TRUE], NoEntry}
    BY <1>7 DEF InHand, Copied
  <2>2. p # at[r]
    BY <1>1, <1>2, <2>1
  <2>3. store'[p] = store[p]
    BY <1>7, <2>2 DEF Types
  <2> QED
    BY <1>1, <2>3 DEF InStore
<1> QED
  BY <1>3, <1>4, <1>5, <1>6, <1>7, ModemSteps DEF ModemStep

\* The stated property of collect_incoming: nothing a pass does loses a message.
THEOREM LosesNothing == Spec => NothingLost
<1>1. IInv /\ [Next]_vars =>
        [\A c \in Contents : InStore(c) /\ ~Archived(c) => InStore(c)' \/ Archived(c)']_vars
  BY StaysOrArchived
<1> QED
  BY <1>1, Inductive, PTL DEF Spec, NothingLost

-----------------------------------------------------------------------------
(* The types of the rest, and the bounds.                                  *)

\* What is left of a sequence without one of its elements keeps the others, once each.
LEMMA Removal ==
  ASSUME NEW S, NEW s \in Seq(S), IsInjective(s), NEW i \in DOMAIN s
  PROVE  /\ RemoveAt(s, i) \in Seq(S) /\ IsInjective(RemoveAt(s, i))
         /\ \A j \in DOMAIN RemoveAt(s, i) : \E k \in DOMAIN s : k # i /\ RemoveAt(s, i)[j] = s[k]
<1> DEFINE n == Len(s)
           a == SubSeq(s, 1, i - 1)
           b == SubSeq(s, i + 1, n)
           t == a \o b
<1>1. n \in Nat /\ i \in 1 .. n /\ DOMAIN s = 1 .. n
  OBVIOUS
<1>2. /\ a \in Seq(S) /\ Len(a) = i - 1
      /\ \A j \in 1 .. i - 1 : a[j] = s[j]
  OBVIOUS
<1>3. /\ b \in Seq(S) /\ Len(b) = n - i
      /\ \A j \in 1 .. n - i : b[j] = s[i + j]
  OBVIOUS
<1> HIDE DEF a, b, n
<1>4. /\ t \in Seq(S) /\ Len(t) = n - 1 /\ DOMAIN t = 1 .. n - 1
      /\ \A j \in 1 .. n - 1 : t[j] = IF j < i THEN s[j] ELSE s[j + 1]
  <2>1. /\ t \in Seq(S) /\ Len(t) = Len(a) + Len(b)
        /\ \A j \in 1 .. Len(a) + Len(b) : t[j] = IF j <= Len(a) THEN a[j] ELSE b[j - Len(a)]
    <3>1. a \in Seq(S) /\ b \in Seq(S)
      BY <1>2, <1>3
    <3> QED BY <3>1, ConcatProperties, Zenon
  <2>3. Len(t) = n - 1
    BY <1>1, <1>2, <1>3, <2>1
  <2>4. ASSUME NEW j \in 1 .. n - 1
        PROVE  t[j] = IF j < i THEN s[j] ELSE s[j + 1]
    <3>1. CASE j < i
      BY <1>1, <1>2, <2>1, <2>3, <3>1
    <3>2. CASE ~(j < i)
      <4>1. j - (i - 1) \in 1 .. n - i /\ i + (j - (i - 1)) = j + 1 /\ ~(j <= i - 1)
        BY <1>1, <3>2
      <4>2. t[j] = b[j - (i - 1)]
        BY <1>2, <2>1, <2>3, <4>1
      <4> QED BY <1>3, <3>2, <4>1, <4>2
    <3> QED BY <3>1, <3>2
  <2> HIDE DEF t
  <2>5. DOMAIN t = 1 .. n - 1
    BY <2>1, <2>3
  <2> QED BY <2>1, <2>3, <2>4, <2>5
<1>5. RemoveAt(s, i) = t
  BY DEF RemoveAt, a, b, n
<1> HIDE DEF t
<1>6. IsInjective(t)
  <2> SUFFICES ASSUME NEW j \in 1 .. n - 1, NEW k \in 1 .. n - 1, t[j] = t[k]
               PROVE  j = k
    BY <1>4 DEF IsInjective
  <2>1. /\ j \in 1 .. n /\ j + 1 \in 1 .. n /\ k \in 1 .. n /\ k + 1 \in 1 .. n
    BY <1>1
  <2>2. \A p, q \in 1 .. n : s[p] = s[q] => p = q
    BY <1>1 DEF IsInjective
  <2>3. /\ t[j] = IF j < i THEN s[j] ELSE s[j + 1]
        /\ t[k] = IF k < i THEN s[k] ELSE s[k + 1]
    BY <1>4
  <2> DEFINE p == IF j < i THEN j ELSE j + 1
             q == IF k < i THEN k ELSE k + 1
  <2>4. s[p] = s[q] /\ p \in 1 .. n /\ q \in 1 .. n
    BY <2>1, <2>3
  <2>5. p = q
    <3> HIDE DEF p, q
    <3> QED BY <2>2, <2>4
  <2> QED BY <1>1, <2>5
<1>7. ASSUME NEW j \in 1 .. n - 1
      PROVE  \E k \in 1 .. n : k # i /\ t[j] = s[k]
  <2>1. CASE j < i
    BY <1>1, <1>4, <2>1
  <2>2. CASE ~(j < i)
    <3>1. j + 1 \in 1 .. n /\ j + 1 # i /\ t[j] = s[j + 1]
      BY <1>1, <1>4, <2>2
    <3> QED BY <3>1
  <2> QED BY <2>1, <2>2
<1> QED BY <1>1, <1>4, <1>5, <1>6, <1>7

\* Neither a sequence without x nor what it is put before holds x twice.
LEMMA WithoutFacts ==
  ASSUME NEW S, NEW s \in Seq(S), IsInjective(s), NEW x
  PROVE  /\ Without(s, x) \in Seq(S) /\ IsInjective(Without(s, x))
         /\ \A j \in DOMAIN Without(s, x) : Without(s, x)[j] # x
<1>1. CASE x \in Range(s)
  <2> DEFINE i == CHOOSE i \in DOMAIN s : s[i] = x
  <2>1. i \in DOMAIN s /\ s[i] = x
    BY <1>1 DEF Range
  <2>2. Without(s, x) = RemoveAt(s, i)
    BY <1>1 DEF Without
  <2> HIDE DEF i
  <2>3. /\ RemoveAt(s, i) \in Seq(S) /\ IsInjective(RemoveAt(s, i))
        /\ \A j \in DOMAIN RemoveAt(s, i) : \E k \in DOMAIN s : k # i /\ RemoveAt(s, i)[j] = s[k]
    BY <2>1, Removal
  <2>4. \A k \in DOMAIN s : k # i => s[k] # x
    BY <2>1 DEF IsInjective
  <2> QED
    BY <2>2, <2>3, <2>4
<1>2. CASE x \notin Range(s)
  BY <1>2 DEF Without, Range
<1> QED
  BY <1>1, <1>2

\* One element put before a sequence that does not hold it.
LEMMA Prepended ==
  ASSUME NEW S, NEW x \in S, NEW s \in Seq(S), IsInjective(s), \A j \in DOMAIN s : s[j] # x
  PROVE  <<x>> \o s \in Seq(S) /\ IsInjective(<<x>> \o s)
<1> DEFINE t == <<x>> \o s
<1>1. /\ t \in Seq(S) /\ Len(s) \in Nat /\ DOMAIN s = 1 .. Len(s) /\ DOMAIN t = 1 .. Len(s) + 1
      /\ t[1] = x /\ \A j \in 2 .. Len(s) + 1 : t[j] = s[j - 1]
  OBVIOUS
<1> HIDE DEF t
<1>2. IsInjective(t)
  <2> SUFFICES ASSUME NEW j \in 1 .. Len(s) + 1, NEW k \in 1 .. Len(s) + 1, t[j] = t[k]
               PROVE  j = k
    BY <1>1 DEF IsInjective
  <2>1. \A m \in 2 .. Len(s) + 1 : m - 1 \in 1 .. Len(s) /\ t[m] # x
    BY <1>1
  <2>2. CASE j = 1 \/ k = 1
    BY <1>1, <2>1, <2>2
  <2>3. CASE j # 1 /\ k # 1
    <3>1. j - 1 \in 1 .. Len(s) /\ k - 1 \in 1 .. Len(s) /\ s[j - 1] = s[k - 1]
      BY <1>1, <2>3
    <3>2. j - 1 = k - 1
      BY <1>1, <3>1 DEF IsInjective
    <3> QED
      BY <3>2
  <2> QED
    BY <2>2, <2>3
<1> QED
  BY <1>1, <1>2 DEF t

\* The variables that the properties do not rest on, and how far the others go.
Extents ==
  /\ used <= MaxPath /\ epoch <= MaxEpochs
  /\ cursor \in Paths \cup {NoPath}
  /\ todo \in [Roles -> Seq(Paths)]
  /\ at \in [Roles -> Paths \cup {NoPath}]
  /\ hints \in Seq(Paths) /\ IsInjective(hints)
  /\ faults \in 0 .. MaxFaults

\* A signal leaves each path once among the hints.
LEMMA Signalled ==
  ASSUME Extents, NEW p \in Paths, Signal(p)
  PROVE  hints' \in Seq(Paths) /\ IsInjective(hints') /\ faults' \in 0 .. MaxFaults
<1>1. CASE hints' = <<p>> \o Without(hints, p) /\ UNCHANGED faults
  <2>1. /\ Without(hints, p) \in Seq(Paths) /\ IsInjective(Without(hints, p))
        /\ \A j \in DOMAIN Without(hints, p) : Without(hints, p)[j] # p
    BY WithoutFacts DEF Extents
  <2>2. <<p>> \o Without(hints, p) \in Seq(Paths) /\ IsInjective(<<p>> \o Without(hints, p))
    BY <2>1, Prepended
  <2> QED
    BY <1>1, <2>2 DEF Extents
<1>2. CASE UNCHANGED hints /\ faults < MaxFaults /\ faults' = faults + 1
  BY <1>2, BoundsAssumption DEF Extents
<1> QED
  BY <1>1, <1>2 DEF Signal

\* The members of a set of paths in order are a sequence of paths, each once.
LEMMA AscendingFacts ==
  ASSUME NEW P \in SUBSET Paths, NEW s \in Ascending(P)
  PROVE  /\ s \in Seq(Paths) /\ IsInjective(s)
         /\ \A j \in DOMAIN s : s[j] \in P
<1>1. IsFiniteSet(Paths)
  BY BoundsAssumption, FS_Interval DEF Paths
<1>2. IsFiniteSet(P)
  BY <1>1, FS_Subset
<1>3. Cardinality(P) \in Nat
  BY <1>2, FS_CardinalityType
<1>4. /\ s \in [1 .. Cardinality(P) -> P]
      /\ \A i, j \in 1 .. Cardinality(P) : i # j => s[i] # s[j]
  BY DEF Ascending, SetToSeqs
<1>5. s \in Seq(Paths)
  <2>1. s \in [1 .. Cardinality(P) -> Paths]
    BY <1>4
  <2> QED
    BY <1>3, <2>1
<1> QED
  BY <1>4, <1>5 DEF IsInjective

\* What a pass lists is a sequence of paths.
LEMMA Listed ==
  ASSUME Extents, NEW r \in Roles, List(r)
  PROVE  /\ todo' \in [Roles -> Seq(Paths)]
         /\ hints' \in Seq(Paths) /\ IsInjective(hints')
<1> DEFINE hinted == r = "alert" /\ hints # <<>>
           order(t) == IF hinted THEN Ordered(Head(hints), t) ELSE t
<1>1. PICK t \in Rotations :
        todo' = [todo EXCEPT ![r] = SubSeq(order(t), 1, Min({Batch, Len(order(t))}))]
  BY DEF List
<1>2. t \in Seq(Paths) /\ IsInjective(t)
  <2> DEFINE A == {p \in Present : p > cursor}
             B == {p \in Present : p <= cursor}
  <2>1. A \in SUBSET Paths /\ B \in SUBSET Paths /\ A \cap B = {}
    BY DEF Present, Extents, Paths, NoPath
  <2>2. PICK a \in Ascending(A), b \in Ascending(B) : t = a \o b
    <3>1. PICK u \in Ascending(A) \X Ascending(B) : t = u[1] \o u[2]
      BY DEF Rotations
    <3> HIDE DEF A, B
    <3>2. u[1] \in Ascending(A) /\ u[2] \in Ascending(B)
      OBVIOUS
    <3> QED
      BY <3>1, <3>2, Zenon
  <2> HIDE DEF A, B
  <2>3. /\ a \in Seq(Paths) /\ IsInjective(a) /\ \A j \in DOMAIN a : a[j] \in A
        /\ b \in Seq(Paths) /\ IsInjective(b) /\ \A j \in DOMAIN b : b[j] \in B
    BY <2>1, AscendingFacts
  <2>4. /\ t \in Seq(Paths) /\ Len(a) \in Nat /\ Len(b) \in Nat /\ Len(t) = Len(a) + Len(b)
        /\ DOMAIN a = 1 .. Len(a) /\ DOMAIN b = 1 .. Len(b) /\ DOMAIN t = 1 .. Len(a) + Len(b)
        /\ \A j \in 1 .. Len(a) + Len(b) : t[j] = IF j <= Len(a) THEN a[j] ELSE b[j - Len(a)]
    BY <2>2, <2>3
  <2>5. ASSUME NEW j \in 1 .. Len(a) + Len(b), NEW k \in 1 .. Len(a) + Len(b), t[j] = t[k]
        PROVE  j = k
    <3>1. \A m \in 1 .. Len(a) + Len(b) : m > Len(a) => m - Len(a) \in DOMAIN b
      BY <2>4
    <3>2. CASE j <= Len(a) /\ k <= Len(a)
      BY <2>3, <2>4, <2>5, <3>2 DEF IsInjective
    <3>3. CASE j > Len(a) /\ k > Len(a)
      <4>1. b[j - Len(a)] = b[k - Len(a)] /\ j - Len(a) \in DOMAIN b /\ k - Len(a) \in DOMAIN b
        BY <2>4, <2>5, <3>1, <3>3
      <4>2. j - Len(a) = k - Len(a)
        BY <2>3, <4>1 DEF IsInjective
      <4> QED
        BY <2>4, <4>2
    <3>4. CASE j <= Len(a) /\ k > Len(a)
      <4>1. t[j] = a[j] /\ j \in DOMAIN a /\ t[k] = b[k - Len(a)] /\ k - Len(a) \in DOMAIN b
        BY <2>4, <3>1, <3>4
      <4>2. t[j] \in A /\ t[k] \in B
        BY <2>3, <4>1
      <4> QED
        BY <2>1, <2>5, <4>2
    <3>5. CASE j > Len(a) /\ k <= Len(a)
      <4>1. t[k] = a[k] /\ k \in DOMAIN a /\ t[j] = b[j - Len(a)] /\ j - Len(a) \in DOMAIN b
        BY <2>4, <3>1, <3>5
      <4>2. t[k] \in A /\ t[j] \in B
        BY <2>3, <4>1
      <4> QED
        BY <2>1, <2>5, <4>2
    <3> QED
      BY <2>4, <3>2, <3>3, <3>4, <3>5
  <2> QED
    BY <2>4, <2>5 DEF IsInjective
<1>3. order(t) \in Seq(Paths)
  <2>1. CASE hinted /\ Head(hints) \in Present
    <3>1. Head(hints) \in Paths
      BY <2>1 DEF Present
    <3>2. Without(t, Head(hints)) \in Seq(Paths)
      BY <1>2, WithoutFacts
    <3> QED
      BY <2>1, <3>1, <3>2 DEF Ordered
  <2>2. CASE ~(hinted /\ Head(hints) \in Present)
    BY <1>2, <2>2 DEF Ordered
  <2> QED
    BY <2>1, <2>2
<1> HIDE DEF order
<1>4. SubSeq(order(t), 1, Min({Batch, Len(order(t))})) \in Seq(Paths)
  <2> DEFINE q == order(t)
             n == Len(q)
             m == Min({Batch, n})
  <2>1. q \in Seq(Paths)
    BY <1>3
  <2> HIDE DEF q
  <2>2. n \in Nat /\ Batch \in Nat
    BY <2>1, BoundsAssumption
  <2>3. m \in Nat /\ m <= n
    <3> HIDE DEF n
    <3> QED
      BY <2>2 DEF Min
  <2> HIDE DEF m
  <2>4. SubSeq(q, 1, m) \in Seq(Paths)
    BY <2>1, <2>3
  <2> QED
    BY <2>4 DEF q, m
<1>5. todo' \in [Roles -> Seq(Paths)]
  BY <1>1, <1>4 DEF Extents
<1>6. hints' \in Seq(Paths) /\ IsInjective(hints')
  <2>1. hints \in Seq(Paths) /\ IsInjective(hints)
    BY DEF Extents
  <2>2. CASE hinted
    <3> DEFINE t2 == Tail(hints)
    <3>1. /\ t2 \in Seq(Paths) /\ Len(hints) \in Nat \ {0}
          /\ DOMAIN hints = 1 .. Len(hints) /\ DOMAIN t2 = 1 .. Len(hints) - 1
          /\ \A j \in 1 .. Len(hints) - 1 : t2[j] = hints[j + 1]
      BY <2>1, <2>2
    <3>2. hints' = t2
      BY <2>2 DEF List
    <3> HIDE DEF t2
    <3>3. ASSUME NEW j \in 1 .. Len(hints) - 1, NEW k \in 1 .. Len(hints) - 1, t2[j] = t2[k]
          PROVE  j = k
      <4>1. /\ hints[j + 1] = hints[k + 1]
            /\ j + 1 \in DOMAIN hints /\ k + 1 \in DOMAIN hints
        BY <3>1, <3>3
      <4>2. j + 1 = k + 1
        BY <2>1, <4>1 DEF IsInjective
      <4> QED
        BY <4>2
    <3> QED
      BY <3>1, <3>2, <3>3 DEF IsInjective
  <2>3. CASE ~hinted
    BY <2>1, <2>3 DEF List
  <2> QED
    BY <2>2, <2>3
<1> QED
  BY <1>5, <1>6

\* A step keeps them so.
LEMMA StaysWithin ==
  ASSUME Types, Named, InHand, Extents, [Next]_vars PROVE Extents'
<1> USE DEF modem, helper
<1>1. CASE UNCHANGED vars
  BY <1>1 DEF vars, Extents
<1>2. ASSUME NEW c \in Contents, Arrive(c) PROVE Extents'
  <2>1. used + 1 \in Paths /\ used' = used + 1 /\ Signal(used + 1)
    BY <1>2, BoundsAssumption DEF Arrive, Types, Paths
  <2>2. hints' \in Seq(Paths) /\ IsInjective(hints') /\ faults' \in 0 .. MaxFaults
    BY <2>1, Signalled
  <2>3. UNCHANGED <<epoch, cursor, todo, at>>
    BY <1>2 DEF Arrive
  <2>4. used' <= MaxPath
    BY <2>1 DEF Paths
  <2> QED
    BY <2>2, <2>3, <2>4 DEF Extents
<1>3. ASSUME NEW p \in Paths, Complete(p) PROVE Extents'
  <2>1. hints' \in Seq(Paths) /\ IsInjective(hints') /\ faults' \in 0 .. MaxFaults
    BY <1>3, Signalled DEF Complete
  <2> QED
    BY <1>3, <2>1 DEF Extents, Complete
<1>4. CASE Restart
  <2>1. used' <= MaxPath
    BY <1>4, Renamed
  <2>2. epoch' <= MaxEpochs
    BY <1>4, BoundsAssumption DEF Restart, Types
  <2> QED
    BY <1>4, <2>1, <2>2 DEF Extents, Restart
<1>5. ASSUME NEW r \in Roles, List(r) PROVE Extents'
  <2>1. /\ todo' \in [Roles -> Seq(Paths)]
        /\ hints' \in Seq(Paths) /\ IsInjective(hints')
    BY <1>5, Listed
  <2>2. UNCHANGED <<used, epoch, cursor, at, faults>>
    BY <1>5 DEF List
  <2> QED
    BY <2>1, <2>2 DEF Extents
<1>6. ASSUME NEW r \in Roles, Advance(r) PROVE Extents'
  <2>1. Head(todo[r]) \in Paths /\ Tail(todo[r]) \in Seq(Paths)
    BY <1>6 DEF Extents, Advance
  <2>2. /\ todo' = [todo EXCEPT ![r] = Tail(todo[r])]
        /\ at' = [at EXCEPT ![r] = Head(todo[r])] /\ cursor' = Head(todo[r])
        /\ UNCHANGED <<used, epoch, hints, faults>>
    BY <1>6 DEF Advance
  <2> QED
    BY <2>1, <2>2 DEF Extents
<1>7. ASSUME NEW r \in Roles, ReadFails(r) \/ DeleteFails(r) \/ Delete(r) PROVE Extents'
  <2>1. NextLeaf(r) /\ UNCHANGED <<used, epoch, cursor, todo, hints, faults>>
    BY <1>7 DEF ReadFails, DeleteFails, Delete
  <2> QED
    BY <2>1 DEF Extents, NextLeaf
<1>8. ASSUME NEW r \in Roles, Read(r) \/ Capture(r) PROVE Extents'
  <2>1. UNCHANGED at \/ NextLeaf(r)
    BY <1>8 DEF Read, Capture
  <2>2. UNCHANGED <<used, epoch, cursor, todo, hints, faults>>
    BY <1>8 DEF Read, Capture
  <2> QED
    BY <2>1, <2>2 DEF Extents, NextLeaf
<1>9. ASSUME NEW r \in Roles, EndScan(r) \/ Abort(r) \/ Crash(r) PROVE Extents'
  <2>1. \E to \in {"collected", "idle"} : Leave(r, to)
    BY <1>9 DEF EndScan, Abort, Crash
  <2>2. UNCHANGED <<used, epoch, cursor, hints>> /\ faults' \in 0 .. MaxFaults
    BY <1>9, BoundsAssumption DEF EndScan, Abort, Crash, Extents
  <2>3. todo' \in [Roles -> Seq(Paths)] /\ at' \in [Roles -> Paths \cup {NoPath}]
    BY <2>1 DEF Extents, Leave
  <2> QED
    BY <2>2, <2>3 DEF Extents
<1>10. CASE EndPoll \/ Announce \/ ClaimAlerts
  BY <1>10 DEF Extents, EndPoll, Announce, ClaimAlerts
<1> QED
  BY <1>1, <1>2, <1>3, <1>4, <1>5, <1>6, <1>7, <1>8, <1>9, <1>10 DEF Next, Step

\* Everything keeps its type and its bound: paths, restarts, hints and passes.
THEOREM TypesHold == Spec => []TypeOK
<1>1. Init => Extents
  BY BoundsAssumption DEF Init, Extents, IsInjective
<1>2. IInv /\ Extents /\ [Next]_vars => Extents'
  BY StaysWithin DEF IInv
<1>3. IInv /\ Extents => TypeOK
  <2> SUFFICES ASSUME IInv, Extents PROVE TypeOK
    OBVIOUS
  <2>1. used \in 0 .. MaxPath /\ epoch \in 0 .. MaxEpochs
    BY BoundsAssumption DEF IInv, Types, Extents
  <2>2. owner \in [Roles -> 0 .. MaxEpochs]
    <3>1. owner \in [Roles -> Nat] /\ epoch \in Nat /\ MaxEpochs \in Nat
      BY BoundsAssumption DEF IInv, Types
    <3>2. ASSUME NEW r \in Roles PROVE owner[r] \in 0 .. MaxEpochs
      <4>1. owner[r] \in Nat /\ owner[r] <= epoch /\ epoch <= MaxEpochs
        BY <3>1 DEF IInv, Owners, Extents
      <4> QED
        BY <3>1, <4>1
    <3> QED
      BY <3>1, <3>2
  <2>3. archive \in Seq([content : Contents, claimed : BOOLEAN])
    BY DEF IInv, Types, ArchiveRow
  <2> QED
    BY <2>1, <2>2, <2>3 DEF TypeOK, IInv, Types, Extents
<1> QED
  BY <1>1, <1>2, <1>3, Inductive, PTL DEF Spec

-----------------------------------------------------------------------------
(* On to the server.  What is archived is handed over by the bridge        *)
(* (SmsHandoff), whose state is its own: the journal's rows, the polling   *)
(* thread and the batch it has in hand, the network and the server.        *)

\* A receipt is in hand until the thread sleeps, and is acked once the server has it.
InBatch ==
  /\ thread # "sleep" => batch # <<>>
  /\ thread = "ack" => Head(batch) \in server

HandoffInv == HandoffTypeOK /\ InBatch /\ AckTruthful

\* The receipt in hand has its type, and what is left of a batch is a batch.
LEMMA HeadFacts ==
  ASSUME NEW S, NEW b \in Seq(S), b # <<>>
  PROVE  /\ Head(b) \in S /\ Tail(b) \in Seq(S)
         /\ Len(b) \in Nat /\ Len(Tail(b)) = Len(b) - 1
         /\ Len(b) # 1 => Tail(b) # <<>>
<1>1. Head(b) \in S /\ Tail(b) \in Seq(S) /\ Len(b) \in Nat /\ Len(Tail(b)) = Len(b) - 1
  OBVIOUS
<1>2. Len(<<>>) = 0
  OBVIOUS
<1>3. Len(b) # 1 => Tail(b) # <<>>
  BY <1>1, <1>2
<1> QED BY <1>1, <1>3

\* A sequence with one element replaced, if it has it.
LEMMA Updated ==
  ASSUME NEW S, NEW s \in Seq(S), NEW i, NEW e, i \in DOMAIN s => e \in S
  PROVE  /\ [s EXCEPT ![i] = e] \in Seq(S) /\ Len([s EXCEPT ![i] = e]) = Len(s)
         /\ DOMAIN [s EXCEPT ![i] = e] = DOMAIN s
<1> DEFINE t == [s EXCEPT ![i] = e]
<1>1. Len(s) \in Nat /\ DOMAIN s = 1 .. Len(s)
  OBVIOUS
<1>2. t \in [1 .. Len(s) -> S]
  <2>1. s \in [1 .. Len(s) -> S]
    BY <1>1
  <2>2. \A j \in 1 .. Len(s) : t[j] \in S
    BY <1>1, <2>1
  <2> QED BY <2>1, <2>2
<1> HIDE DEF t
<1>3. t \in Seq(S) /\ Len(t) = Len(s) /\ DOMAIN t = DOMAIN s
  BY <1>1, <1>2
<1> QED BY <1>3 DEF t

\* Renumbered turns are not above the number of rows.
LEMMA Numbering ==
  ASSUME NEW n \in Nat, NEW T, NEW turn \in [1 .. n -> T]
  PROVE  /\ DOMAIN Renumbered(turn) = 1 .. n
         /\ \A i \in 1 .. n : Renumbered(turn)[i] \in 0 .. n
<1> DEFINE Turns == {turn[i] : i \in 1 .. n}
           S(i) == {t \in Turns \ {0} : t <= turn[i]}
<1>1. IsFiniteSet(1 .. n) /\ Cardinality(1 .. n) = n
  <2>1. 1 \in Int /\ n \in Int
    OBVIOUS
  <2>2. IsFiniteSet(1 .. n) /\ Cardinality(1 .. n) = IF 1 > n THEN 0 ELSE n - 1 + 1
    BY <2>1, FS_Interval, Zenon
  <2>3. (IF 1 > n THEN 0 ELSE n - 1 + 1) = n
    OBVIOUS
  <2> QED BY <2>2, <2>3
<1>2. turn \in Surjection(1 .. n, Turns)
  BY DEF Surjection
<1>3. IsFiniteSet(Turns) /\ Cardinality(Turns) <= n /\ Cardinality(Turns) \in Nat
  <2> HIDE DEF Turns
  <2> QED BY <1>1, <1>2, FS_Surjection, FS_CardinalityType
<1>4. ASSUME NEW i \in 1 .. n
      PROVE  Cardinality(S(i)) \in 0 .. n
  <2>1. S(i) \in SUBSET Turns
    OBVIOUS
  <2> HIDE DEF S, Turns
  <2>2. IsFiniteSet(S(i)) /\ Cardinality(S(i)) <= Cardinality(Turns)
    BY <1>3, <2>1, FS_Subset
  <2>3. Cardinality(S(i)) \in Nat
    BY <2>2, FS_CardinalityType
  <2> QED BY <1>3, <2>2, <2>3
<1>5. DOMAIN turn = 1 .. n
  OBVIOUS
<1>6. ASSUME NEW i \in 1 .. n
      PROVE  Renumbered(turn)[i] = Cardinality(S(i))
  BY <1>5 DEF Renumbered
<1>7. DOMAIN Renumbered(turn) = 1 .. n
  BY <1>5 DEF Renumbered
<1> HIDE DEF S
<1> QED BY <1>4, <1>6, <1>7

\* Offering rows changes their turns only.
LEMMA Offered ==
  ASSUME MaxRows \in Nat, HandoffTypeOK, NEW chosen, Offer(chosen)
  PROVE  /\ rows' \in Seq(Row) /\ Len(rows') = Len(rows)
         /\ \A i \in DOMAIN rows : rows'[i].ack = rows[i].ack /\ rows'[i].status = rows[i].status
<1>1. /\ rows \in Seq(Row) /\ Len(rows) \in Nat /\ Len(rows) <= MaxRows
      /\ DOMAIN rows = 1 .. Len(rows)
  BY DEF HandoffTypeOK
<1> DEFINE last == Max({rows[i].offered : i \in DOMAIN rows})
           turn == [i \in DOMAIN rows |->
                      IF i \in Range(chosen) THEN last + 1 ELSE rows[i].offered]
<1>2. PICK number : /\ rows' = [i \in DOMAIN rows |-> [rows[i] EXCEPT !.offered = number[i]]]
                    /\ \A i \in DOMAIN rows : number[i] \in 0 .. MaxRows
  <2>1. rows' = [i \in DOMAIN rows |->
                   [rows[i] EXCEPT !.offered = Renumbered(turn)[i]]]
    BY DEF Offer
  <2>2. turn \in [1 .. Len(rows) -> {turn[i] : i \in 1 .. Len(rows)}]
    BY <1>1
  <2> HIDE DEF turn
  <2>3. \A i \in 1 .. Len(rows) : Renumbered(turn)[i] \in 0 .. Len(rows)
    BY <1>1, <2>2, Numbering
  <2> DEFINE number == Renumbered(turn)
  <2>4. \A i \in DOMAIN rows : number[i] \in 0 .. MaxRows
    BY <1>1, <2>3
  <2>5. rows' = [i \in DOMAIN rows |-> [rows[i] EXCEPT !.offered = number[i]]]
    BY <2>1
  <2> HIDE DEF number
  <2> QED BY <2>4, <2>5
<1>3. ASSUME NEW i \in DOMAIN rows
      PROVE  /\ rows'[i] \in Row
             /\ rows'[i].ack = rows[i].ack /\ rows'[i].status = rows[i].status
  <2>1. rows[i] \in Row
    BY <1>1
  <2>2. rows'[i] = [rows[i] EXCEPT !.offered = number[i]] /\ number[i] \in 0 .. MaxRows
    BY <1>2
  <2> QED BY <2>1, <2>2 DEF Row
<1>4. rows' \in Seq(Row) /\ Len(rows') = Len(rows)
  BY <1>1, <1>2, <1>3
<1> QED BY <1>3, <1>4

\* What a step of the phone or of the bridge does to what InBatch and AckTruthful
\* are about keeps them: rows stay, and an ack that appears is of a receipt the
\* server has.
LEMMA AcksStay ==
  ASSUME HandoffTypeOK, AckTruthful,
         rows' \in Seq(Row), server \subseteq server',
         \A i \in DOMAIN rows' :
           \/ rows'[i].ack = NoAck
           \/ i \in DOMAIN rows /\ rows'[i].ack = rows[i].ack
           \/ <<i, rows'[i].ack>> \in server'
  PROVE  AckTruthful'
BY DEF AckTruthful

\* The phone's own steps.
LEMMA PhoneKeeps ==
  ASSUME HandoffInv,
         \/ \E s \in {"received", "unknown"} : NewRow(s)
         \/ \E i \in Rows, v \in {"sent", "not_sent"} : Verdict(i, v)
  PROVE  HandoffInv'
<1> USE DEF HandoffInv
<1>1. /\ thread' = thread /\ batch' = batch /\ wire' = wire /\ server' = server
      /\ losses' = losses
  BY DEF NewRow, Verdict
<1>2. InBatch'
  BY <1>1 DEF InBatch
<1>3. rows \in Seq(Row) /\ Len(rows) \in Nat
  BY DEF HandoffTypeOK
<1> DEFINE AcksStand ==
             /\ rows' \in Seq(Row) /\ Len(rows') <= MaxRows
             /\ \A i \in DOMAIN rows' :
                  \/ rows'[i].ack = NoAck
                  \/ i \in DOMAIN rows /\ rows'[i].ack = rows[i].ack
<1>4. AcksStand
  <2>1. ASSUME NEW s \in {"received", "unknown"}, NewRow(s)
        PROVE  AcksStand
    <3> DEFINE new == [status |-> s, ack |-> NoAck, offered |-> 0]
    <3>1. new \in Row /\ new.ack = NoAck
      BY HandoffAssumption DEF Row, Statuses
    <3>2. rows' = Append(rows, new) /\ Len(rows) < MaxRows
      BY <2>1 DEF NewRow
    <3> QED BY <1>3, <3>1, <3>2, HandoffAssumption
  <2>2. ASSUME NEW i \in Rows, NEW v \in {"sent", "not_sent"}, Verdict(i, v)
        PROVE  AcksStand
    <3>1. i \in DOMAIN rows /\ rows' = [rows EXCEPT ![i].status = v]
      BY <2>2 DEF Verdict
    <3>2. rows[i] \in Row
      BY <1>3, <3>1
    <3>3. [rows[i] EXCEPT !.status = v] \in Row
      BY <3>2 DEF Row, Statuses
    <3>4. \A j \in DOMAIN rows : [rows[i] EXCEPT !.status = v].ack = rows[i].ack
      BY <3>2 DEF Row
    <3> QED BY <1>3, <3>1, <3>3, <3>4 DEF HandoffTypeOK
  <2> QED BY <2>1, <2>2
<1>5. HandoffTypeOK'
  BY <1>1, <1>4 DEF HandoffTypeOK
<1>6. AckTruthful'
  BY <1>1, <1>4, AcksStay
<1> QED BY <1>2, <1>5, <1>6

\* The receipts query.
LEMMA QueryKeeps ==
  ASSUME HandoffInv, Query
  PROVE  HandoffInv'
<1> USE DEF HandoffInv
<1>1. PICK n \in 1 .. Limit : \E chosen \in FirstDue(n) :
        /\ Offer(chosen)
        /\ \/ /\ thread' = "handoff"
              /\ batch' = [k \in 1 .. n |-> <<chosen[k], rows[chosen[k]].status>>]
              /\ losses' = losses
           \/ Fault /\ thread' = thread /\ batch' = batch
  BY DEF Query
<1>2. PICK chosen \in FirstDue(n) :
        /\ Offer(chosen)
        /\ \/ /\ thread' = "handoff"
              /\ batch' = [k \in 1 .. n |-> <<chosen[k], rows[chosen[k]].status>>]
              /\ losses' = losses
           \/ Fault /\ thread' = thread /\ batch' = batch
  BY <1>1
<1>3. thread = "sleep" /\ wire' = wire /\ server' = server
  BY DEF Query
<1>4. /\ rows \in Seq(Row) /\ Len(rows) \in Nat /\ Len(rows) <= MaxRows
      /\ MaxRows \in Nat /\ Limit \in Nat /\ n \in Nat \ {0} /\ n <= Limit
  BY HandoffAssumption DEF HandoffTypeOK
<1>5. /\ rows' \in Seq(Row) /\ Len(rows') = Len(rows)
      /\ \A i \in DOMAIN rows : rows'[i].ack = rows[i].ack
  BY <1>2, <1>4, Offered
<1>6. losses' \in 0 .. MaxLosses
  BY <1>2, HandoffAssumption DEF Fault, HandoffTypeOK
<1>7. /\ batch' \in Seq(Receipt) /\ Len(batch') <= Limit
      /\ thread' = "sleep" \/ (thread' = "handoff" /\ batch' # <<>>)
  <2>1. CASE thread' = thread /\ batch' = batch
    <3>1. batch \in Seq(Receipt) /\ Len(batch) <= Limit
      BY DEF HandoffTypeOK
    <3>2. thread' = "sleep"
      BY <1>3, <2>1
    <3>3. batch' \in Seq(Receipt) /\ Len(batch') <= Limit
      BY <2>1, <3>1, Zenon
    <3> QED BY <3>2, <3>3
  <2>2. CASE thread' = "handoff"
             /\ batch' = [k \in 1 .. n |-> <<chosen[k], rows[chosen[k]].status>>]
    <3>1. chosen \in [1 .. n -> DOMAIN rows]
      BY DEF FirstDue, Due
    <3>2. ASSUME NEW k \in 1 .. n
          PROVE  <<chosen[k], rows[chosen[k]].status>> \in Receipt
      <4>1. chosen[k] \in 1 .. Len(rows) /\ rows[chosen[k]] \in Row
        BY <1>4, <3>1
      <4>2. chosen[k] \in Rows
        BY <1>4, <4>1 DEF Rows
      <4> QED BY <4>1, <4>2 DEF Row, Receipt
    <3>3. batch' \in Seq(Receipt) /\ Len(batch') = n
      BY <1>4, <2>2, <3>2
    <3>4. batch' # <<>>
      BY <1>4, <3>3
    <3> QED BY <1>4, <2>2, <3>3, <3>4
  <2> QED BY <1>2, <2>1, <2>2
<1>8. HandoffTypeOK'
  BY <1>3, <1>4, <1>5, <1>6, <1>7 DEF HandoffTypeOK
<1>9. InBatch'
  BY <1>7 DEF InBatch
<1>10. AckTruthful'
  BY <1>3, <1>4, <1>5, AcksStay
<1> QED BY <1>8, <1>9, <1>10

\* The bridge's steps with a receipt in hand.
LEMMA BridgeKeeps ==
  ASSUME HandoffInv,
         \/ Accepted \/ Unanswered \/ Ack \/ AckFails
         \/ BridgeRestart
  PROVE  HandoffInv'
<1> USE DEF HandoffInv
<1> DEFINE head == Head(batch)
<1>1. thread \in {"handoff", "ack"} /\ batch # <<>>
  BY DEF Accepted, Unanswered, Ack, AckFails,
         BridgeRestart, HandoffTypeOK, InBatch
<1>2. batch \in Seq(Receipt) /\ Len(batch) <= Limit /\ Limit \in Nat
  BY HandoffAssumption DEF HandoffTypeOK
<1>3. /\ head \in Receipt /\ Tail(batch) \in Seq(Receipt)
      /\ Len(Tail(batch)) <= Limit
      /\ Len(batch) # 1 => Tail(batch) # <<>>
  BY <1>1, <1>2, HeadFacts
<1> HIDE DEF head
<1>4. losses' \in 0 .. MaxLosses
  BY HandoffAssumption DEF Accepted, Unanswered, Ack, AckFails, BridgeRestart, Fault,
     HandoffTypeOK
<1>5. /\ batch' \in {batch, Tail(batch), <<>>}
      /\ thread' \in {"sleep", "handoff", "ack"}
      /\ InBatch'
  <2>1. CASE Accepted
    BY <1>1, <2>1 DEF Accepted, InBatch
  <2>2. CASE NextReceipt
    BY <1>3, <2>2 DEF NextReceipt, InBatch
  <2>3. CASE thread' = "sleep" /\ batch' = <<>>
    BY <2>3 DEF InBatch
  <2> QED BY <2>1, <2>2, <2>3 DEF Unanswered, Ack, AckFails,
             BridgeRestart
<1>6. batch' \in Seq(Receipt) /\ Len(batch') <= Limit
  <2>1. <<>> \in Seq(Receipt) /\ Len(<<>>) = 0
    OBVIOUS
  <2>2. Len(<<>>) <= Limit
    BY <1>2, <2>1
  <2> QED BY <1>2, <1>3, <1>5, <2>1, <2>2, Zenon
<1>7. /\ server \subseteq server' /\ server' \subseteq server \cup {head}
      /\ wire' \subseteq wire \cup {head}
  BY DEF Accepted, Unanswered, Ack, AckFails,
         BridgeRestart, head
<1>8. CASE Ack
  <2>1. server' = server /\ head \in server
    BY <1>8 DEF Ack, InBatch, head
  <2> DEFINE row == [rows[head[1]] EXCEPT !.ack =
                       IF rows[head[1]].status = head[2] THEN head[2] ELSE rows[head[1]].ack]
  <2>2. rows' = [rows EXCEPT ![head[1]] = row]
    BY <1>8 DEF Ack, AckOf, head
  <2>3. /\ rows \in Seq(Row) /\ head[1] \in Rows /\ head[2] \in Statuses
        /\ head = <<head[1], head[2]>>
    BY <1>3 DEF HandoffTypeOK, Receipt
  <2>4. rows' \in Seq(Row) /\ Len(rows') = Len(rows) /\ DOMAIN rows' = DOMAIN rows
    <3>1. ASSUME head[1] \in DOMAIN rows
          PROVE  row \in Row
      <4>1. rows[head[1]] \in Row
        BY <2>3, <3>1
      <4> QED BY <2>3, <4>1 DEF Row
    <3> HIDE DEF row
    <3> QED BY <2>2, <2>3, <3>1, Updated
  <2>5. \A i \in DOMAIN rows' :
           \/ rows'[i].ack = rows[i].ack
           \/ i = head[1] /\ rows'[i].ack = head[2]
    BY <2>2, <2>3, <2>4 DEF Row
  <2>6. AckTruthful'
    BY <2>1, <2>3, <2>4, <2>5, AcksStay
  <2>7. HandoffTypeOK'
    BY <1>3, <1>4, <1>5, <1>6, <1>7, <2>4 DEF HandoffTypeOK
  <2> QED BY <1>5, <2>6, <2>7
<1>9. CASE rows' = rows
  <2>1. AckTruthful'
    BY <1>7, <1>9, AcksStay DEF HandoffTypeOK
  <2>2. HandoffTypeOK'
    BY <1>3, <1>4, <1>5, <1>6, <1>7, <1>9 DEF HandoffTypeOK
  <2> QED BY <1>5, <2>1, <2>2
<1> QED BY <1>8, <1>9 DEF Accepted, Unanswered, AckFails,
           BridgeRestart

\* A request the network delivers late.
LEMMA LateKeeps ==
  ASSUME HandoffInv, NEW r \in Receipt, Late(r)
  PROVE  HandoffInv'
<1> USE DEF HandoffInv
<1>1. /\ rows' = rows /\ thread' = thread /\ batch' = batch /\ losses' = losses
      /\ wire' \subseteq wire /\ server \subseteq server' /\ server' \subseteq server \cup {r}
  BY DEF Late
<1>2. HandoffTypeOK'
  BY <1>1 DEF HandoffTypeOK
<1>3. AckTruthful'
  BY <1>1, AcksStay DEF HandoffTypeOK
<1> QED BY <1>1, <1>2, <1>3 DEF InBatch

\* The invariant holds in every reachable state.
THEOREM HandoffInductive == HandoffSpec => []HandoffInv
<1>1. HandoffInit => HandoffInv
  BY HandoffAssumption DEF HandoffInit, HandoffInv, HandoffTypeOK, InBatch,
         AckTruthful
<1>2. HandoffInv /\ [HandoffNext]_handoffVars => HandoffInv'
  <2> SUFFICES ASSUME HandoffInv, [HandoffNext]_handoffVars PROVE HandoffInv'
    OBVIOUS
  <2>1. CASE UNCHANGED handoffVars
    BY <2>1 DEF handoffVars, HandoffInv, HandoffTypeOK, InBatch, AckTruthful
  <2>2. CASE HandoffNext
    BY <2>1, <2>2, PhoneKeeps, QueryKeeps, BridgeKeeps, LateKeeps
    DEF HandoffNext, QueryEmpty
  <2> QED BY <2>1, <2>2
<1> QED BY <1>1, <1>2, PTL DEF HandoffSpec

\* The stated property of the bridge's loop and the ack operation: a row counts as
\* handed over in a status only if the server holds exactly that version.
THEOREM AcksAreTrue == HandoffSpec => []AckTruthful
<1>1. HandoffInv => AckTruthful
  BY DEF HandoffInv
<1> QED BY <1>1, HandoffInductive, PTL

\* Every variable has its type: a batch keeps the LIMIT, and renumbered turns stay
\* within the number of rows.
THEOREM HandoffTypesHold == HandoffSpec => []HandoffTypeOK
<1>1. HandoffInv => HandoffTypeOK
  BY DEF HandoffInv
<1> QED BY <1>1, HandoffInductive, PTL


-----------------------------------------------------------------------------
(* The whole way (SmsRelay).  A step of the composition is a step of each  *)
(* part or leaves it alone, so what holds of the parts holds of the whole. *)
(* What the whole adds is that the journal has one incoming row for each   *)
(* archived message, and that a receipt anywhere is of such a row or of an *)
(* attempt: the server can then be counted against the archive.            *)

\* The collection and the handoff are each implemented by the whole.
THEOREM RelayParts == RelaySpec => Spec /\ HandoffSpec
<1>1. RelayInit => Init /\ HandoffInit
  BY DEF RelayInit
<1>2. [RelayNext]_relayVars => [Next]_vars
  <2> SUFFICES ASSUME [RelayNext]_relayVars PROVE Next \/ UNCHANGED vars
    OBVIOUS
  <2>1. ASSUME NEW r \in Roles, Collected(r) PROVE Next
    BY <2>1 DEF Collected, Next, Step
  <2>2. CASE StartPoll
    BY <2>2 DEF StartPoll, Next, Roles
  <2>3. CASE Polled
    BY <2>3 DEF Polled, Next
  <2>4. CASE InboxStep
    <3>1. ASSUME NEW r \in Roles, PassStep(r) PROVE Next
      BY <3>1 DEF PassStep, Next, Step
    <3>2. CASE List("alert") \/ ClaimAlerts \/ Announce
      BY <3>2 DEF Next, Roles
    <3> QED
      BY <2>4, <3>1, <3>2 DEF InboxStep, Next
  <2>5. CASE HandoffStep
    BY <2>5 DEF HandoffStep
  <2>6. CASE UNCHANGED relayVars
    BY <2>6 DEF relayVars
  <2> QED
    BY <2>1, <2>2, <2>3, <2>4, <2>5, <2>6 DEF RelayNext
<1>3. [RelayNext]_relayVars => [HandoffNext]_handoffVars
  <2> SUFFICES ASSUME [RelayNext]_relayVars PROVE HandoffNext \/ UNCHANGED handoffVars
    OBVIOUS
  <2>1. ASSUME NEW r \in Roles, Collected(r) PROVE HandoffNext \/ UNCHANGED handoffVars
    BY <2>1 DEF Collected, HandoffNext
  <2>2. CASE StartPoll \/ InboxStep
    BY <2>2 DEF StartPoll, InboxStep
  <2>3. CASE Polled
    BY <2>3 DEF Polled, HandoffNext
  <2>4. CASE HandoffStep
    BY <2>4 DEF HandoffStep, HandoffNext
  <2>5. CASE UNCHANGED relayVars
    BY <2>5 DEF relayVars
  <2> QED
    BY <2>1, <2>2, <2>3, <2>4, <2>5 DEF RelayNext
<1> QED
  BY <1>1, <1>2, <1>3, PTL DEF RelaySpec, Spec, HandoffSpec


\* A receipt is of a row there is, and of an incoming message only if the row is.
Genuine(r) ==
  /\ r[1] \in DOMAIN rows
  /\ r[2] = "received" <=> rows[r[1]].status = "received"

AllGenuine ==
  /\ \A r \in server \cup wire : Genuine(r)
  /\ \A k \in DOMAIN batch : Genuine(batch[k])

RelayInv == Cardinality(Incoming) = Len(archive) /\ AllGenuine

\* Rows stay, incoming ones as incoming ones.
KindsStay ==
  /\ DOMAIN rows \subseteq DOMAIN rows'
  /\ \A i \in DOMAIN rows : rows'[i].status = "received" <=> rows[i].status = "received"

\* Only a capture adds an incoming row, and it adds one.
LEMMA NewRows ==
  ASSUME HandoffTypeOK, NEW s \in {"received", "unknown"}, NewRow(s)
  PROVE  /\ KindsStay /\ IsFiniteSet(Incoming)
         /\ s = "unknown" => Incoming' = Incoming
         /\ s = "received" => Cardinality(Incoming') = Cardinality(Incoming) + 1
<1> DEFINE new == [status |-> s, ack |-> NoAck, offered |-> 0]
           n == Len(rows)
<1>1. rows \in Seq(Row) /\ n \in Nat /\ DOMAIN rows = 1 .. n
  BY DEF HandoffTypeOK
<1>2. rows' = Append(rows, new) /\ new.status = s
  BY DEF NewRow
<1> HIDE DEF new
<1>3. /\ DOMAIN rows' = 1 .. n + 1 /\ rows'[n + 1] = new
      /\ \A i \in 1 .. n : rows'[i] = rows[i]
  BY <1>1, <1>2
<1> HIDE DEF n
<1>4. KindsStay
  BY <1>1, <1>3 DEF KindsStay
<1>5. IsFiniteSet(Incoming) /\ n + 1 \notin Incoming
  <2>1. IsFiniteSet(1 .. n)
    BY <1>1, FS_Interval
  <2>2. Incoming \subseteq 1 .. n
    BY <1>1 DEF Incoming
  <2>3. n + 1 \notin Incoming
    BY <1>1, <2>2
  <2>4. IsFiniteSet(Incoming)
    BY <2>1, <2>2, FS_Subset
  <2> QED
    BY <2>3, <2>4
<1>6. CASE s = "unknown"
  <2>1. Incoming' = Incoming
    BY <1>1, <1>2, <1>3, <1>6 DEF Incoming
  <2> QED
    BY <1>4, <1>5, <1>6, <2>1
<1>7. CASE s = "received"
  <2>1. Incoming' = Incoming \cup {n + 1}
    BY <1>1, <1>2, <1>3, <1>7 DEF Incoming
  <2>2. Cardinality(Incoming \cup {n + 1}) = Cardinality(Incoming) + 1
    BY <1>5, FS_AddElement
  <2> QED
    BY <1>4, <1>5, <1>7, <2>1, <2>2
<1> QED
  BY <1>6, <1>7

\* Every other step of the handoff keeps the incoming rows as they are.
LEMMA OldRows ==
  ASSUME HandoffTypeOK,
         \/ \E i \in Rows : Verdict(i, "sent") \/ Verdict(i, "not_sent")
         \/ Query \/ QueryEmpty \/ Accepted \/ Unanswered \/ Ack \/ AckFails \/ BridgeRestart
         \/ \E r \in Receipt : Late(r)
         \/ UNCHANGED handoffVars
  PROVE  KindsStay /\ Incoming' = Incoming
<1>1. rows \in Seq(Row) /\ Len(rows) \in Nat /\ DOMAIN rows = 1 .. Len(rows)
  BY DEF HandoffTypeOK
<1>2. /\ DOMAIN rows' = DOMAIN rows
      /\ \A i \in DOMAIN rows : rows'[i].status = "received" <=> rows[i].status = "received"
  <2>1. CASE UNCHANGED rows
    BY <2>1
  <2>2. ASSUME NEW i \in Rows, NEW v \in {"sent", "not_sent"}, Verdict(i, v)
        PROVE  /\ DOMAIN rows' = DOMAIN rows
               /\ \A j \in DOMAIN rows :
                    rows'[j].status = "received" <=> rows[j].status = "received"
    <3>1. i \in DOMAIN rows /\ rows[i].status = "unknown" /\ rows' = [rows EXCEPT ![i].status = v]
      BY <2>2 DEF Verdict
    <3>2. rows[i] \in Row
      BY <1>1, <3>1
    <3> QED
      BY <1>1, <3>1, <3>2 DEF Row
  <2>3. CASE Query
    <3>1. PICK chosen : Offer(chosen)
      BY <2>3 DEF Query
    <3> QED
      BY <1>1, <3>1, Offered, HandoffAssumption
  <2>4. CASE Ack
    <3> DEFINE i == Head(batch)[1]
    <3>1. PICK a : rows' = [rows EXCEPT ![i].ack = a]
      BY <2>4 DEF Ack, AckOf
    <3> HIDE DEF i
    <3>2. \A j \in DOMAIN rows : rows[j] \in Row
      BY <1>1
    <3> QED
      BY <1>1, <3>1, <3>2 DEF Row
  <2> QED
    BY <2>1, <2>2, <2>3, <2>4
    DEF QueryEmpty, Accepted, Unanswered, AckFails, BridgeRestart, Late, handoffVars
<1> QED
  BY <1>2 DEF KindsStay, Incoming


\* What the server, the network and the bridge hold stays genuine.
LEMMA ReceiptsGenuine ==
  ASSUME HandoffInv, AllGenuine, [HandoffNext]_handoffVars, KindsStay
  PROVE  AllGenuine'
<1> DEFINE Stays(r) == /\ r[1] \in DOMAIN rows'
                       /\ r[2] = "received" <=> rows'[r[1]].status = "received"
           Held(b) == \A k \in DOMAIN b : Stays(b[k])
<1>0. ASSUME \A r \in server' \cup wire' : Stays(r), Held(batch') PROVE AllGenuine'
  BY <1>0 DEF AllGenuine, Genuine
<1>1. ASSUME NEW r, Genuine(r) PROVE Stays(r)
  BY <1>1 DEF Genuine, KindsStay
<1>2. batch \in Seq(Receipt) /\ DOMAIN batch = 1 .. Len(batch) /\ Len(batch) \in Nat
  BY DEF HandoffInv, HandoffTypeOK
<1> HIDE DEF Stays
<1>3. Held(batch) /\ \A r \in server \cup wire : Stays(r)
  BY <1>1 DEF AllGenuine
<1>4. Held(<<>>)
  OBVIOUS
<1>5. ASSUME batch # <<>>
      PROVE  Held(Tail(batch)) /\ Stays(Head(batch))
  <2>1. 1 \in DOMAIN batch /\ Head(batch) = batch[1]
    BY <1>2, <1>5
  <2>2. \A k \in DOMAIN Tail(batch) : k + 1 \in DOMAIN batch /\ Tail(batch)[k] = batch[k + 1]
    BY <1>2, <1>5
  <2> QED
    BY <1>3, <2>1, <2>2
<1> HIDE DEF Held
<1>6. CASE \/ \E s \in {"received", "unknown"} : NewRow(s)
           \/ \E i \in Rows : Verdict(i, "sent") \/ Verdict(i, "not_sent")
           \/ QueryEmpty \/ UNCHANGED handoffVars
  <2>1. batch' = batch /\ server' = server /\ wire' = wire
    BY <1>6 DEF NewRow, Verdict, QueryEmpty, handoffVars
  <2> QED
    BY <1>0, <1>3, <2>1
<1>7. CASE Query
  <2>1. server' = server /\ wire' = wire
    BY <1>7 DEF Query
  <2>2. Held(batch')
    <3>1. CASE batch' = batch
      BY <1>3, <3>1
    <3>2. CASE batch' # batch
      <4>1. PICK n \in 1 .. Limit : \E chosen \in FirstDue(n) :
              batch' = [k \in 1 .. n |-> <<chosen[k], rows[chosen[k]].status>>]
        BY <1>7, <3>2 DEF Query
      <4>2. PICK chosen \in FirstDue(n) :
              batch' = [k \in 1 .. n |-> <<chosen[k], rows[chosen[k]].status>>]
        BY <4>1
      <4>3. chosen \in [1 .. n -> DOMAIN rows]
        BY DEF FirstDue, Due
      <4>4. ASSUME NEW i \in DOMAIN rows PROVE Genuine(<<i, rows[i].status>>)
        BY DEF Genuine
      <4>5. ASSUME NEW k \in 1 .. n PROVE Stays(<<chosen[k], rows[chosen[k]].status>>)
        BY <1>1, <4>3, <4>4
      <4> QED
        BY <4>2, <4>5 DEF Held
    <3> QED
      BY <3>1, <3>2
  <2> QED
    BY <1>0, <1>3, <2>1, <2>2
<1>8. CASE Accepted \/ Unanswered \/ Ack \/ AckFails \/ BridgeRestart
  <2>1. batch # <<>>
    BY <1>8 DEF Accepted, Unanswered, Ack, AckFails, BridgeRestart, HandoffInv, HandoffTypeOK,
                InBatch
  <2>2. batch' \in {batch, Tail(batch), <<>>}
    BY <1>8 DEF Accepted, Unanswered, Ack, AckFails, BridgeRestart, NextReceipt
  <2>3. server' \cup wire' \subseteq server \cup wire \cup {Head(batch)}
    BY <1>8 DEF Accepted, Unanswered, Ack, AckFails, BridgeRestart
  <2>4. Held(batch')
    BY <1>3, <1>4, <1>5, <2>1, <2>2
  <2> QED
    BY <1>0, <1>3, <1>5, <2>1, <2>3, <2>4
<1>9. ASSUME NEW r \in Receipt, Late(r) PROVE AllGenuine'
  <2>1. /\ batch' = batch
        /\ server' \cup wire' \subseteq server \cup wire
    BY <1>9 DEF Late
  <2> QED
    BY <1>0, <1>3, <2>1
<1> QED
  BY <1>6, <1>7, <1>8, <1>9 DEF HandoffNext

\* The whole keeps one incoming row for each archived message.
LEMMA RelayKept ==
  ASSUME IInv, HandoffInv, RelayInv, [RelayNext]_relayVars, [HandoffNext]_handoffVars
  PROVE  RelayInv'
<1> USE DEF RelayInv
<1>1. Types /\ HandoffTypeOK /\ archive \in Seq(ArchiveRow) /\ Len(archive) \in Nat
  BY DEF IInv, Types, HandoffInv
<1>2. ASSUME KindsStay, Cardinality(Incoming') = Len(archive') PROVE RelayInv'
  BY <1>2, ReceiptsGenuine
<1>3. ASSUME NEW r \in Roles, Collected(r) PROVE RelayInv'
  <2>1. CASE Archived(got[r])
    <3>1. archive' = archive /\ UNCHANGED handoffVars
      BY <1>3, <2>1 DEF Collected, Capture
    <3> QED
      BY <1>1, <1>2, <3>1, OldRows
  <2>2. CASE ~Archived(got[r])
    <3>1. archive' = Append(archive, [content |-> got[r], claimed |-> got[r] \in Old])
      BY <1>3, <2>2 DEF Collected, Capture
    <3>2. Len(archive') = Len(archive) + 1
      BY <1>1, <3>1
    <3>3. NewRow("received")
      BY <1>3, <2>2 DEF Collected
    <3> QED
      BY <1>1, <1>2, <3>2, <3>3, NewRows
  <2> QED
    BY <2>1, <2>2
<1>4. CASE StartPoll
  BY <1>1, <1>2, <1>4, OldRows DEF StartPoll, List
<1>5. CASE Polled
  BY <1>1, <1>2, <1>5, OldRows DEF Polled, EndPoll
<1>6. CASE InboxStep
  <2>1. Len(archive') = Len(archive)
    <3>1. CASE ClaimAlerts
      <4>1. archive' \in Seq(ArchiveRow) /\ DOMAIN archive' = DOMAIN archive
        BY <1>1, <3>1, Taken
      <4> QED
        BY <1>1, <4>1
    <3>2. ASSUME NEW r \in Roles, PassStep(r) PROVE archive' = archive
      BY <3>2 DEF PassStep, Advance, Read, ReadFails, EndScan, Delete, DeleteFails, Abort, Crash
    <3> QED
      BY <1>6, <3>1, <3>2 DEF InboxStep, Arrive, Complete, Restart, List, Announce
  <2> QED
    BY <1>1, <1>2, <1>6, <2>1, OldRows DEF InboxStep
<1>7. CASE HandoffStep
  <2>1. archive' = archive
    BY <1>7 DEF HandoffStep, vars
  <2>2. CASE NewRow("unknown")
    BY <1>1, <1>2, <2>1, <2>2, NewRows
  <2>3. CASE ~NewRow("unknown")
    BY <1>1, <1>2, <1>7, <2>1, <2>3, OldRows DEF HandoffStep
  <2> QED
    BY <2>2, <2>3
<1>8. CASE UNCHANGED relayVars
  BY <1>1, <1>2, <1>8, OldRows DEF relayVars, vars
<1> QED
  BY <1>3, <1>4, <1>5, <1>6, <1>7, <1>8 DEF RelayNext


\* Receipts of incoming rows are not more than the rows, and as many once none is due.
LEMMA Counted ==
  ASSUME HandoffInv, RelayInv
  PROVE  ServerMirrorsArchive
<1> DEFINE RowOf == [r \in HandedIn |-> r[1]]
<1>1. rows \in Seq(Row) /\ Len(rows) \in Nat /\ DOMAIN rows = 1 .. Len(rows)
  BY DEF HandoffInv, HandoffTypeOK
<1>2. IsFiniteSet(Incoming)
  <2>1. IsFiniteSet(1 .. Len(rows))
    BY <1>1, FS_Interval
  <2>2. Incoming \subseteq 1 .. Len(rows)
    BY <1>1 DEF Incoming
  <2> QED
    BY <2>1, <2>2, FS_Subset
<1>3. ASSUME NEW r \in HandedIn
      PROVE  r[1] \in Incoming /\ r = <<r[1], "received">>
  <2>1. r \in Receipt /\ r[2] = "received" /\ Genuine(r)
    BY DEF HandedIn, HandoffInv, HandoffTypeOK, RelayInv, AllGenuine
  <2> QED
    BY <2>1 DEF Receipt, Genuine, Incoming
<1>4. RowOf \in Injection(HandedIn, Incoming)
  <2>1. RowOf \in [HandedIn -> Incoming]
    BY <1>3
  <2>2. \A q, r \in HandedIn : q[1] = r[1] => q = r
    BY <1>3
  <2>3. IsInjective(RowOf)
    BY <2>1, <2>2 DEF IsInjective
  <2> QED
    BY <2>1, <2>3 DEF Injection
<1>5. ASSUME Due = {} PROVE RowOf \in Surjection(HandedIn, Incoming)
  <2>1. ASSUME NEW i \in Incoming
        PROVE  <<i, "received">> \in HandedIn
    <3>1. i \in DOMAIN rows /\ rows[i].status = "received" /\ rows[i].ack = "received"
      BY <1>5 DEF Incoming, Due
    <3>2. <<i, "received">> \in server
      BY <3>1 DEF HandoffInv, AckTruthful, NoAck
    <3> QED
      BY <3>2 DEF HandedIn
  <2>2. \A i \in Incoming : \E r \in HandedIn : RowOf[r] = i
    BY <2>1
  <2>3. RowOf \in [HandedIn -> Incoming]
    BY <1>3
  <2> QED
    BY <2>2, <2>3 DEF Surjection
<1> HIDE DEF RowOf
<1>6. /\ Cardinality(HandedIn) <= Cardinality(Incoming)
      /\ Due = {} => Cardinality(HandedIn) = Cardinality(Incoming)
  BY <1>2, <1>4, <1>5, FS_Injection
<1> QED
  BY <1>6 DEF RelayInv, ServerMirrorsArchive

\* The stated property of the whole way, for any messages, restarts, losses and
\* refusals: the server holds no incoming message that is not archived, and once
\* nothing is due it holds each of them by one receipt.
THEOREM ServerHoldsArchive == RelaySpec => []ServerMirrorsArchive
<1>1. RelayInit => RelayInv
  <2>1. ASSUME RelayInit PROVE Incoming = {} /\ Len(archive) = 0 /\ AllGenuine
    BY <2>1 DEF RelayInit, Init, HandoffInit, Incoming, AllGenuine
  <2> QED
    BY <2>1, FS_EmptySet DEF RelayInv
<1>2. /\ IInv /\ HandoffInv /\ RelayInv /\ [RelayNext]_relayVars /\ [HandoffNext]_handoffVars
      => RelayInv'
  BY RelayKept
<1>3. HandoffInv /\ RelayInv => ServerMirrorsArchive
  BY Counted
<1>4. RelaySpec => [](IInv /\ HandoffInv)
  BY RelayParts, Inductive, HandoffInductive, PTL
<1>5. RelaySpec => [][HandoffNext]_handoffVars
  BY RelayParts, PTL DEF HandoffSpec
<1>6. RelaySpec => []RelayInv
  BY <1>1, <1>2, <1>4, <1>5, PTL DEF RelaySpec
<1> QED
  BY <1>3, <1>4, <1>6, PTL
=============================================================================
