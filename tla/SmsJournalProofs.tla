-------------------------- MODULE SmsJournalProofs ---------------------------
(***************************************************************************)
(* SmsJournal for any number of helper processes, identities and bodies.   *)
(***************************************************************************)
EXTENDS SmsJournal, TLAPS

\* p's INSERT won the identity, whether or not main has heard of it.
Claimant(p) == pc[p] = "inserted" \/ created[p]

\* An identity has one claimant at most, and the row holds its body.
OneClaimant ==
  /\ \A p \in Procs : Claimant(p) => row[req[p].id].body = req[p].body
  /\ \A p, q \in Procs :
       Claimant(p) /\ Claimant(q) /\ req[p].id = req[q].id => p = q
  /\ \A id \in Identities : row[id].body = NoBody => row[id] = NoRow

\* Only a process that claimed its identity and raised its flag has called Send.
CallsClaimed ==
  \A p \in Procs :
    /\ pc[p] \in {"idle", "open", "begin", "inserted"} => ~created[p]
    /\ pc[p] \in {"claimed", "locked", "creating", "sending", "cleanup", "returned"}
         => created[p]
    /\ pc[p] \in {"creating", "sending", "cleanup", "returned"} => attempt[p]
    /\ attempt[p] => created[p]
    /\ call[p] # "none" =>
         /\ attempt[p]
         /\ pc[p] \in {"sending", "cleanup", "returned", "record", "emit"} \cup Ended
    /\ pc[p] \in {"cleanup", "returned"} => call[p] = "accepted"

\* The log holds the accepted calls, once each.
LogOfCalls ==
  /\ \A i \in DOMAIN log :
       \E p \in Procs : created[p] /\ call[p] = "accepted" /\ req[p] = log[i]
  /\ \A p \in Procs : call[p] = "accepted" => Transmitted(req[p].id)
  /\ AtMostOnce

\* Nothing has been printed before the end.
Quiet == \A p \in Procs : pc[p] # "done" => reply[p] = "none"

\* Until its claimant records a verdict a row says "unknown"; what the claimant
\* is about to record, and what is recorded, agrees with its call.
Verdict ==
  /\ \A p \in Procs :
       Claimant(p) /\ pc[p] \notin {"emit"} \cup Ended => row[req[p].id].status = "unknown"
  /\ \A p \in Procs : pc[p] = "record" =>
       /\ ~created[p] => outcome[p] = "unknown"
       /\ outcome[p] = "sent" => call[p] = "accepted"
       /\ outcome[p] = "not_sent" => call[p] = "none"
  /\ \A p \in Procs : pc[p] = "emit" /\ outcome[p] # "unknown" =>
       row[req[p].id] = [body |-> req[p].body, status |-> outcome[p]]
  /\ \A id \in Identities : row[id].status = "sent" => Transmitted(id)
  /\ \A p \in Procs :
       Claimant(p) /\ row[req[p].id].status = "not_sent" => call[p] = "none"

IInv ==
  /\ JournalTypeOK
  /\ OneClaimant
  /\ CallsClaimed
  /\ LogOfCalls
  /\ Verdict
  /\ HonestReply
  /\ Quiet

-----------------------------------------------------------------------------
(* Every proof below opens the invariant's parts and the frame operators;  *)
(* a leaf names the action it is about.                                    *)

\* The invariant holds before any helper has started.
LEMMA Initially == JournalInit => IInv
  BY BodiesAssumption
  DEF JournalInit, IInv, JournalTypeOK, OneClaimant, CallsClaimed, LogOfCalls, Verdict,
      Quiet, HonestReply, AtMostOnce, Claimant, Transmitted, NoRow, NoBody, Message,
      Verdicts, Ended, Timed

\* What Append does to a log: the old entries stay, the message is the last.
LEMMA AppendToLog ==
  ASSUME NEW s \in Seq(Message), NEW m \in Message
  PROVE  /\ DOMAIN s = 1 .. Len(s)
         /\ Len(s) \in Nat
         /\ DOMAIN Append(s, m) = 1 .. Len(s) + 1
         /\ Append(s, m)[Len(s) + 1] = m
         /\ \A i \in 1 .. Len(s) : Append(s, m)[i] = s[i]
  OBVIOUS

\* The modem accepting a queued call: the claimant of the identity is unique,
\* so the identity was not in the log before.
LEMMA AcceptsKeepsInv ==
  ASSUME IInv, NEW p \in Procs, ModemTakes(p)
  PROVE  IInv'
<1> USE BodiesAssumption
<1> USE DEF IInv, JournalTypeOK, OneClaimant, CallsClaimed, LogOfCalls, Verdict,
            Quiet, HonestReply, AtMostOnce, Claimant, NoRow, NoBody, Message, Verdicts,
            Ended, Timed
<1> DEFINE n == Len(log) + 1
<1>1. /\ call[p] = "queued" /\ created[p]
      /\ call' = [call EXCEPT ![p] = "accepted"]
      /\ log' = Append(log, req[p]) /\ req[p] \in Message
      /\ UNCHANGED <<row, lock, pc, req, created, attempt, outcome, reply>>
  BY DEF ModemTakes
<1>2. /\ DOMAIN log = 1 .. Len(log) /\ Len(log) \in Nat
      /\ DOMAIN log' = 1 .. n
      /\ log'[n] = req[p]
      /\ \A i \in 1 .. Len(log) : log'[i] = log[i]
  BY <1>1, AppendToLog
<1>3. ~Transmitted(req[p].id)
  <2> SUFFICES ASSUME NEW i \in DOMAIN log, log[i].id = req[p].id
               PROVE  FALSE
    BY DEF Transmitted
  <2>1. PICK q \in Procs : created[q] /\ call[q] = "accepted" /\ req[q] = log[i]
    OBVIOUS
  <2> QED
    BY <1>1, <2>1
<1>4. \A id \in Identities : (\E i \in DOMAIN log' : log'[i].id = id)
                        <=> Transmitted(id) \/ id = req[p].id
  <2>1. 1 .. n = (1 .. Len(log)) \cup {n}
    BY <1>2
  <2>2. ASSUME NEW id \in Identities
        PROVE  (\E i \in 1 .. n : log'[i].id = id)
                 <=> (\E i \in 1 .. Len(log) : log[i].id = id) \/ id = req[p].id
    <3> HIDE DEF n, IInv
    <3> QED
      BY ONLY <1>2, <2>1
  <2> QED
    BY ONLY <1>2, <2>2 DEF Transmitted
<1>5. JournalTypeOK' /\ OneClaimant' /\ CallsClaimed' /\ HonestReply' /\ Quiet'
  BY <1>1
<1>6. LogOfCalls'
  <2>1. ASSUME NEW i \in DOMAIN log'
        PROVE  \E q \in Procs : created'[q] /\ call'[q] = "accepted" /\ req'[q] = log'[i]
    <3>1. CASE i = n
      BY <1>1, <1>2, <3>1
    <3>2. CASE i # n
      <4>1. i \in DOMAIN log /\ log'[i] = log[i]
        BY <1>2, <3>2
      <4>2. PICK q \in Procs : created[q] /\ call[q] = "accepted" /\ req[q] = log[i]
        BY <4>1
      <4> QED
        BY <1>1, <4>1, <4>2
    <3> QED
      BY <3>1, <3>2
  <2>2. ASSUME NEW q \in Procs, call'[q] = "accepted"
        PROVE  \E i \in DOMAIN log' : log'[i].id = req'[q].id
    <3>1. Transmitted(req[q].id) \/ req[q].id = req[p].id
      BY <1>1, <2>2
    <3>2. req[q].id \in Identities /\ req'[q] = req[q]
      BY <1>1
    <3> QED
      BY <1>4, <3>1, <3>2
  <2>3. ASSUME NEW i \in DOMAIN log', NEW j \in DOMAIN log', log'[i].id = log'[j].id
        PROVE  i = j
    BY <1>1, <1>2, <1>3, <2>3 DEF Transmitted
  <2>4. AtMostOnce'
    BY <2>3
  <2> QED
    BY <2>1, <2>2, <2>4 DEF Transmitted
<1>7. Verdict'
  <2>1. \A q \in Procs :
          Claimant(q)' /\ row'[req'[q].id].status = "not_sent" => call'[q] = "none"
    BY <1>1
  <2>2. \A id \in Identities : row'[id].status = "sent" => \E i \in DOMAIN log' : log'[i].id = id
    BY <1>1, <1>4
  <2>3. /\ \A q \in Procs :
             Claimant(q)' /\ pc'[q] \notin {"emit"} \cup Ended
               => row'[req'[q].id].status = "unknown"
        /\ \A q \in Procs : pc'[q] = "record" =>
             /\ ~created'[q] => outcome'[q] = "unknown"
             /\ outcome'[q] = "sent" => call'[q] = "accepted"
             /\ outcome'[q] = "not_sent" => call'[q] = "none"
        /\ \A q \in Procs : pc'[q] = "emit" /\ outcome'[q] # "unknown" =>
             row'[req'[q].id] = [body |-> req'[q].body, status |-> outcome'[q]]
    BY <1>1
  <2> QED
    BY <2>1, <2>2, <2>3 DEF Transmitted
<1> QED
  BY <1>5, <1>6, <1>7

\* Every other step of a process, and of the modem on its behalf.
LEMMA StepKeepsInv ==
  ASSUME IInv, NEW p \in Procs,
         Step(p) \/ Alarm(p) \/ Crash(p) \/ ModemRefuses(p)
  PROVE  IInv'
<1> USE NoProcAssumption, BodiesAssumption
<1> USE DEF IInv, JournalTypeOK, OneClaimant, CallsClaimed, LogOfCalls, Verdict,
            Quiet, HonestReply, AtMostOnce, Claimant, Transmitted, Absent, NoRow, NoBody,
            Message, Verdicts, Ended, Timed, Goto, Finish, Uncertain, Unlocked
<1>1. CASE StartHelper(p)
  BY <1>1 DEF StartHelper
<1>2. CASE BeginFails(p)
  BY <1>2 DEF BeginFails
<1>3. CASE ClaimIdentity(p)
  BY <1>3 DEF ClaimIdentity
<1>4. CASE LearnCreated(p)
  BY <1>4 DEF LearnCreated
<1>5. CASE CallCreate(p)
  BY <1>5 DEF CallCreate
<1>6. CASE SendReturns(p)
  BY <1>6 DEF SendReturns
<1>7. CASE SendFails(p)
  BY <1>7 DEF SendFails
<1>8. CASE Cleanup(p)
  BY <1>8 DEF Cleanup
<1>9. CASE TakeSent(p)
  BY <1>9 DEF TakeSent
<1>10. CASE Emit(p)
  BY <1>10 DEF Emit
<1>11. CASE Alarm(p)
  BY <1>11 DEF Alarm
<1>12. CASE Crash(p)
  BY <1>12 DEF Crash
<1>13. CASE ModemRefuses(p)
  BY <1>13 DEF ModemRefuses
<1>14. CASE NoService(p)
  <2>1. JournalTypeOK'
    BY <1>14 DEF NoService
  <2>2. OneClaimant'
    BY <1>14 DEF NoService
  <2>3. CallsClaimed'
    BY <1>14 DEF NoService
  <2>4. LogOfCalls'
    BY <1>14 DEF NoService
  <2>5. Verdict'
    BY <1>14 DEF NoService
  <2>6. HonestReply' /\ Quiet'
    BY <1>14 DEF NoService
  <2> QED
    BY <2>1, <2>2, <2>3, <2>4, <2>5, <2>6
<1>15. CASE OpenJournal(p)
  <2>1. CASE Goto(p, "begin") /\ UNCHANGED outcome
    BY <1>15, <2>1 DEF OpenJournal
  <2>2. CASE Finish(p, Uncertain(p))
    BY <1>15, <2>2 DEF OpenJournal
  <2> QED
    BY <1>15, <2>1, <2>2 DEF OpenJournal
<1>16. CASE RepeatIdentity(p)
  <2>1. CASE row[req[p].id].body = req[p].body
    <3> DEFINE v == row[req[p].id].status
    <3>a. /\ pc[p] = "begin" /\ pc' = [pc EXCEPT ![p] = "emit"]
          /\ outcome' = [outcome EXCEPT ![p] = v]
          /\ UNCHANGED <<row, lock, log, call, req, created, attempt, reply>>
      BY <1>16, <2>1 DEF RepeatIdentity
    <3>b. v \in Verdicts /\ row[req[p].id] = [body |-> req[p].body, status |-> v]
      BY <2>1
    <3> HIDE DEF v
    <3>1. JournalTypeOK'
      BY <3>a, <3>b
    <3>2. OneClaimant'
      BY <3>a, <3>b
    <3>3. CallsClaimed'
      BY <3>a, <3>b
    <3>4. LogOfCalls'
      BY <3>a, <3>b
    <3>5. Verdict'
      BY <3>a, <3>b
    <3>6. HonestReply' /\ Quiet'
      BY <3>a, <3>b
    <3> QED
      BY <3>1, <3>2, <3>3, <3>4, <3>5, <3>6
  <2>2. CASE row[req[p].id].body # req[p].body
    <3>a. /\ pc[p] = "begin" /\ pc' = [pc EXCEPT ![p] = "record"]
          /\ outcome' = [outcome EXCEPT ![p] = "unknown"]
          /\ UNCHANGED <<row, lock, log, call, req, created, attempt, reply>>
      BY <1>16, <2>2 DEF RepeatIdentity
    <3>1. JournalTypeOK'
      BY <3>a
    <3>2. OneClaimant'
      BY <3>a
    <3>3. CallsClaimed'
      BY <3>a
    <3>4. LogOfCalls'
      BY <3>a
    <3>5. Verdict'
      BY <3>a
    <3>6. HonestReply' /\ Quiet'
      BY <3>a
    <3> QED
      BY <3>1, <3>2, <3>3, <3>4, <3>5, <3>6
  <2> QED
    BY <2>1, <2>2
<1>17. CASE TakeLock(p)
  <2>1. CASE lock = NoProc
    <3>a. /\ pc[p] = "claimed" /\ pc' = [pc EXCEPT ![p] = "locked"] /\ lock' = p
          /\ UNCHANGED <<row, outcome, log, call, req, created, attempt, reply>>
      BY <1>17, <2>1 DEF TakeLock
    <3>1. JournalTypeOK'
      BY <3>a
    <3>2. OneClaimant'
      BY <3>a
    <3>3. CallsClaimed'
      BY <3>a
    <3>4. LogOfCalls'
      BY <3>a
    <3>5. Verdict'
      BY <3>a
    <3>6. HonestReply' /\ Quiet'
      BY <3>a
    <3> QED
      BY <3>1, <3>2, <3>3, <3>4, <3>5, <3>6
  <2>2. CASE lock # NoProc
    <3>a. /\ pc[p] = "claimed" /\ pc' = [pc EXCEPT ![p] = "record"]
          /\ outcome' = [outcome EXCEPT ![p] = "not_sent"]
          /\ UNCHANGED <<row, lock, log, call, req, created, attempt, reply>>
      BY <1>17, <2>2 DEF TakeLock
    <3>1. JournalTypeOK'
      BY <3>a
    <3>2. OneClaimant'
      BY <3>a
    <3>3. CallsClaimed'
      BY <3>a
    <3>4. LogOfCalls'
      BY <3>a
    <3>5. Verdict'
      BY <3>a
    <3>6. HonestReply' /\ Quiet'
      BY <3>a
    <3> QED
      BY <3>1, <3>2, <3>3, <3>4, <3>5, <3>6
  <2> QED
    BY <2>1, <2>2
<1>18. CASE CreateReturns(p)
  <2>1. CASE Finish(p, "unknown") /\ UNCHANGED call
    BY <1>18, <2>1 DEF CreateReturns
  <2>2. CASE /\ Goto(p, "sending") /\ call' = [call EXCEPT ![p] = "queued"]
             /\ UNCHANGED outcome
    <3>a. /\ pc[p] = "creating" /\ pc' = [pc EXCEPT ![p] = "sending"]
          /\ call' = [call EXCEPT ![p] = "queued"]
          /\ UNCHANGED <<row, lock, outcome, log, req, created, attempt, reply>>
      BY <1>18, <2>2 DEF CreateReturns
    <3>1. JournalTypeOK'
      BY <3>a
    <3>2. OneClaimant'
      BY <3>a
    <3>3. CallsClaimed'
      BY <3>a
    <3>4. LogOfCalls'
      <4>1. call[p] = "none"
        BY <3>a
      <4>2. \A i \in DOMAIN log : \E q \in Procs :
              q # p /\ created[q] /\ call[q] = "accepted" /\ req[q] = log[i]
        BY <4>1
      <4> QED
        BY <3>a, <4>1, <4>2
    <3>5. Verdict'
      BY <3>a
    <3>6. HonestReply' /\ Quiet'
      BY <3>a
    <3> QED
      BY <3>1, <3>2, <3>3, <3>4, <3>5, <3>6
  <2> QED
    BY <1>18, <2>1, <2>2 DEF CreateReturns
<1>19. CASE Record(p)
  <2>1. CASE ~created[p]
    BY <1>19, <2>1 DEF Record
  <2>2. CASE created[p] /\ UNCHANGED row /\ outcome' = [outcome EXCEPT ![p] = "unknown"]
    BY <1>19, <2>2 DEF Record
  <2>3. CASE created[p] /\ UNCHANGED outcome
    <3> DEFINE id == req[p].id
               v == outcome[p]
    <3>a. /\ pc[p] = "record" /\ pc' = [pc EXCEPT ![p] = "emit"]
          /\ UNCHANGED <<lock, outcome, log, call, req, created, attempt, reply>>
      BY <1>19, <2>3 DEF Record
    <3>b. row[id] = [body |-> req[p].body, status |-> "unknown"] /\ id \in Identities /\ v \in Verdicts
      <4>1. /\ row[id].body = req[p].body /\ row[id].status = "unknown"
            /\ id \in Identities /\ v \in Verdicts
        BY <2>3, <3>a
      <4>2. row[id] \in [body : Bodies \cup {NoBody}, status : Verdicts]
        BY <4>1
      <4> QED
        BY <4>1, <4>2
    <3>c. row' = [row EXCEPT ![id] = [body |-> req[p].body, status |-> v]]
      BY <1>19, <2>3, <3>a, <3>b DEF Record
    <3>d. req[p].body \in Bodies /\ req[p].body # NoBody
      OBVIOUS
    <3>e. /\ v = "sent" => call[p] = "accepted"
          /\ v = "not_sent" => call[p] = "none"
      BY <3>a
    <3>f. \A q \in Procs : Claimant(q) /\ req[q].id = id => q = p
      BY <2>3
    <3> HIDE DEF id, v
    <3>1. JournalTypeOK'
      BY <2>3, <3>a, <3>b, <3>c, <3>d, <3>e, <3>f DEF id, v
    <3>2. OneClaimant'
      BY <2>3, <3>a, <3>b, <3>c, <3>d, <3>e, <3>f DEF id, v
    <3>3. CallsClaimed'
      BY <2>3, <3>a, <3>b, <3>c, <3>d, <3>e, <3>f DEF id, v
    <3>4. LogOfCalls'
      BY <2>3, <3>a, <3>b, <3>c, <3>d, <3>e, <3>f DEF id, v
    <3>5. Verdict'
      BY <2>3, <3>a, <3>b, <3>c, <3>d, <3>e, <3>f DEF id, v
    <3>6. HonestReply' /\ Quiet'
      BY <2>3, <3>a, <3>b, <3>c, <3>d, <3>e, <3>f DEF id, v
    <3> QED
      BY <3>1, <3>2, <3>3, <3>4, <3>5, <3>6
  <2> QED
    BY <1>19, <2>1, <2>2, <2>3 DEF Record
<1> QED
  BY <1>1, <1>2, <1>3, <1>4, <1>5, <1>6, <1>7, <1>8, <1>9, <1>10, <1>11, <1>12, <1>13, <1>14, <1>15, <1>16, <1>17, <1>18, <1>19 DEF Step

\* A step that leaves the variables alone keeps it.
LEMMA StutterKeepsInv == IInv /\ UNCHANGED journalVars => IInv'
  BY DEF journalVars, IInv, JournalTypeOK, OneClaimant, CallsClaimed, LogOfCalls, Verdict,
         Quiet, HonestReply, AtMostOnce, Claimant, Transmitted

\* The inductive invariant holds in every behaviour, killed helpers, alarms
\* and late modem calls included.
THEOREM Inductive == JournalSpec => []IInv
<1>1. IInv /\ [JournalNext]_journalVars => IInv'
  BY AcceptsKeepsInv, StepKeepsInv, StutterKeepsInv DEF JournalNext
<1> QED
  BY Initially, <1>1, PTL DEF JournalSpec

-----------------------------------------------------------------------------
(* What it buys.                                                           *)

\* The invariant is strong enough for every safety property of the runs.
LEMMA InvMeansSafe ==
  IInv => /\ JournalTypeOK /\ AtMostOnce /\ ExactBody /\ HonestVerdict /\ HonestReply
<1> SUFFICES ASSUME IInv
             PROVE  ExactBody /\ HonestVerdict
  BY DEF IInv, LogOfCalls
<1> USE DEF IInv, JournalTypeOK, OneClaimant, CallsClaimed, LogOfCalls, Verdict,
            Claimant, Transmitted, Message
<1>1. ExactBody
  BY DEF ExactBody
<1>2. HonestVerdict
  <2> SUFFICES ASSUME NEW id \in Identities, row[id].status = "not_sent"
               PROVE  /\ ~Transmitted(id)
                      /\ \A p \in Procs : req[p].id = id => call[p] # "queued"
    BY DEF HonestVerdict
  <2>1. ~Transmitted(id)
    <3> SUFFICES ASSUME NEW i \in DOMAIN log, log[i].id = id
                 PROVE  FALSE
      OBVIOUS
    <3>1. PICK q \in Procs : created[q] /\ call[q] = "accepted" /\ req[q] = log[i]
      OBVIOUS
    <3> QED
      BY <3>1
  <2> QED
    BY <2>1
<1> QED
  BY <1>1, <1>2

\* The types, for any number of helpers, identities and bodies.
THEOREM TypesHold == JournalSpec => []JournalTypeOK
  BY Inductive, InvMeansSafe, PTL

\* No identity is accepted by the modem twice.
THEOREM NeverTwice == JournalSpec => []AtMostOnce
  BY Inductive, InvMeansSafe, PTL

\* What the modem accepted is what the journal says it was asked.
THEOREM SendsWhatIsRecorded == JournalSpec => []ExactBody
  BY Inductive, InvMeansSafe, PTL

\* The journal's verdicts are true and will stay true.
THEOREM VerdictsAreTrue == JournalSpec => []HonestVerdict
  BY Inductive, InvMeansSafe, PTL

\* A caller is told no verdict the journal does not hold for its own body.
THEOREM RepliesAreRecorded == JournalSpec => []HonestReply
  BY Inductive, InvMeansSafe, PTL

\* A row keeps its body and its verdict.
THEOREM VerdictsAreFinal == JournalSpec => VerdictFinal
<1>1. ASSUME IInv, [JournalNext]_journalVars, NEW id \in Identities
      PROVE  /\ ~Absent(id) => row'[id].body = row[id].body
             /\ row[id].status # "unknown" => row'[id] = row[id]
  <2> USE DEF IInv, JournalTypeOK, OneClaimant, NoRow, NoBody, Absent, Message, Claimant
  <2>1. CASE UNCHANGED row
    BY <2>1
  <2>2. ASSUME NEW p \in Procs, ClaimIdentity(p)
        PROVE  /\ ~Absent(id) => row'[id].body = row[id].body
               /\ row[id].status # "unknown" => row'[id] = row[id]
    BY <2>2 DEF ClaimIdentity
  <2>3. ASSUME NEW p \in Procs, Record(p)
        PROVE  /\ ~Absent(id) => row'[id].body = row[id].body
               /\ row[id].status # "unknown" => row'[id] = row[id]
    <3>1. row \in [Identities -> [body : Bodies \cup {NoBody}, status : Verdicts]]
      BY <1>1
    <3>2. \/ UNCHANGED row
          \/ /\ row[req[p].id].status = "unknown"
             /\ row' = [row EXCEPT ![req[p].id].status = outcome[p]]
      BY <2>3 DEF Record
    <3>3. req[p].id = id \/ req[p].id # id
      OBVIOUS
    <3>4. row[id] \in [body : Bodies \cup {NoBody}, status : Verdicts]
      BY <3>1
    <3> QED
      BY ONLY <3>1, <3>2, <3>3, <3>4
  <2>4. \/ UNCHANGED row
        \/ \E p \in Procs : ClaimIdentity(p) \/ Record(p)
    BY <1>1 DEF journalVars, JournalNext, Step, StartHelper, OpenJournal, RepeatIdentity, BeginFails,
       LearnCreated, TakeLock, NoService, CallCreate, CreateReturns, SendReturns,
       SendFails, Cleanup, TakeSent, Emit, Alarm, Crash, ModemTakes, ModemRefuses
  <2> QED
    BY <2>1, <2>2, <2>3, <2>4
<1>2. IInv /\ [JournalNext]_journalVars =>
        [\A id \in Identities :
           /\ ~Absent(id) => row'[id].body = row[id].body
           /\ row[id].status # "unknown" => row'[id] = row[id]]_row
  BY <1>1
<1> QED
  BY Inductive, <1>2, PTL DEF JournalSpec, VerdictFinal

-----------------------------------------------------------------------------
(* The helper implements the outbox.                                       *)

claimBar == [id \in Identities |-> row[id].body]
verdictBar == [id \in Identities |-> row[id].status]
toldBar == {<<req[p].id, reply[p]>> : p \in {q \in Procs : reply[q] # "none"}}

\* A step that leaves the journal, the log and the replies alone is invisible.
LEMMA QuietStep ==
  ASSUME UNCHANGED <<row, log, req, reply>>
  PROVE  UNCHANGED <<claimBar, verdictBar, log, toldBar>>
  BY DEF claimBar, verdictBar, toldBar

\* Naming a step of the outbox.
LEMMA OutboxSteps ==
  /\ \A m \in Identities, b \in Bodies : JournalOutbox!Claim(m, b) => JournalOutbox!OutboxNext
  /\ \A m \in Identities : JournalOutbox!Accept(m) \/ JournalOutbox!Decide(m) => JournalOutbox!OutboxNext
  /\ \A m \in Identities, v \in Verdicts : JournalOutbox!Tell(m, v) => JournalOutbox!OutboxNext
  BY Zenon DEF JournalOutbox!OutboxNext, JournalOutbox!Verdicts, Verdicts

\* The steps that are not: a claim, a verdict, a reply, an acceptance.
LEMMA VisibleSteps ==
  ASSUME IInv, NEW p \in Procs,
         ClaimIdentity(p) \/ Record(p) \/ Emit(p) \/ ModemTakes(p)
  PROVE  JournalOutbox!OutboxNext \/ UNCHANGED JournalOutbox!ovars
<1>0. PICK m \in Identities, b \in Bodies, v \in Verdicts :
        /\ req[p] = [id |-> m, body |-> b] /\ req[p].id = m /\ req[p].body = b
        /\ outcome[p] = v
        /\ row \in [Identities -> [body : Bodies \cup {NoBody}, status : Verdicts]]
  BY DEF IInv, JournalTypeOK, Message
<1>1. CASE ClaimIdentity(p)
  <2>1. /\ row[m].body = "none"
        /\ row' = [row EXCEPT ![m] = [body |-> b, status |-> row[m].status]]
        /\ UNCHANGED <<log, req, reply>>
    <3>1. /\ row[m] = [body |-> "none", status |-> "unknown"]
          /\ row' = [row EXCEPT ![m] = [body |-> b, status |-> "unknown"]]
          /\ UNCHANGED <<log, req, reply>>
      BY <1>0, <1>1 DEF ClaimIdentity, Absent, NoRow, NoBody
    <3> QED
      BY <3>1
  <2>2. claimBar[m] = "none" /\ claimBar' = [claimBar EXCEPT ![m] = b]
    BY <1>0, <2>1 DEF claimBar
  <2>3. verdictBar' = verdictBar /\ toldBar' = toldBar
    BY <1>0, <2>1 DEF verdictBar, toldBar
  <2>4. JournalOutbox!Claim(m, b)
    BY <2>1, <2>2, <2>3 DEF JournalOutbox!Claim, JournalOutbox!NoBody, claimBar, verdictBar, toldBar
  <2> QED
    BY <2>4, OutboxSteps
<1>2. CASE ModemTakes(p)
  <2>1. /\ row[m].status = "unknown" /\ row[m].body = b /\ ~Transmitted(m)
        /\ b # "none"
        /\ log' = Append(log, req[p]) /\ UNCHANGED <<row, req, reply>>
    <3>1. call[p] = "queued" /\ created[p]
      BY <1>2 DEF ModemTakes, IInv, CallsClaimed
    <3>2. ~Transmitted(m)
      <4> SUFFICES ASSUME NEW i \in DOMAIN log, log[i].id = m
                   PROVE  FALSE
        BY DEF Transmitted
      <4>1. PICK q \in Procs : created[q] /\ call[q] = "accepted" /\ req[q] = log[i]
        BY DEF IInv, LogOfCalls
      <4> QED
        BY <1>0, <3>1, <4>1 DEF IInv, OneClaimant, Claimant
    <3>3. row[m].status = "unknown"
      BY <1>0, <3>1, <3>2 DEF IInv, Verdict, Claimant, Verdicts
    <3> QED
      BY <1>0, <1>2, <3>1, <3>2, <3>3, BodiesAssumption
         DEF ModemTakes, IInv, OneClaimant, Claimant
  <2>2. /\ claimBar[m] = b /\ verdictBar[m] = "unknown"
        /\ UNCHANGED <<claimBar, verdictBar, toldBar>>
    BY <1>0, <2>1 DEF claimBar, verdictBar, toldBar
  <2>3. log' = Append(log, [id |-> m, body |-> claimBar[m]])
    BY <1>0, <2>1, <2>2
  <2>4. JournalOutbox!Accept(m)
    BY <2>1, <2>2, <2>3
       DEF JournalOutbox!Accept, JournalOutbox!Accepted, JournalOutbox!NoBody, Transmitted, claimBar, verdictBar, toldBar
  <2> QED
    BY <2>4, OutboxSteps
<1>3. CASE Emit(p)
  <2>1. /\ reply' = [reply EXCEPT ![p] = v] /\ UNCHANGED <<row, log, req>>
        /\ reply[p] = "none" /\ reply \in [Procs -> Verdicts \cup {"none"}]
        /\ v \in {"unknown", row[m].status}
    <3>1. pc[p] = "emit" /\ reply' = [reply EXCEPT ![p] = v] /\ UNCHANGED <<row, log, req>>
      BY <1>0, <1>3 DEF Emit
    <3>2. v # "unknown" => row[m].status = v
      <4>1. v # "unknown" => row[m] = [body |-> b, status |-> v]
        BY <1>0, <3>1 DEF IInv, Verdict
      <4> QED
        BY <4>1
    <3> QED
      BY <3>1, <3>2 DEF IInv, JournalTypeOK, Quiet
  <2>2. toldBar' = toldBar \cup {<<m, v>>}
    BY <1>0, <2>1 DEF toldBar, Verdicts
  <2>3. v \in {"unknown", verdictBar[m]} /\ UNCHANGED <<claimBar, verdictBar>>
    BY <1>0, <2>1 DEF claimBar, verdictBar
  <2>4. JournalOutbox!Tell(m, v)
    BY <2>1, <2>2, <2>3 DEF JournalOutbox!Tell, claimBar, verdictBar, toldBar
  <2> QED
    BY <2>4, OutboxSteps
<1>4. CASE Record(p)
  <2>1. UNCHANGED <<log, req, reply>>
    BY <1>4 DEF Record
  <2>2. CASE UNCHANGED row
    BY <2>1, <2>2, QuietStep DEF JournalOutbox!ovars, claimBar, verdictBar, toldBar
  <2>3. CASE ~UNCHANGED row
    <3>1. /\ created[p] /\ pc[p] = "record" /\ row[m].status = "unknown"
          /\ row' = [row EXCEPT ![m].status = v]
      BY <1>0, <1>4, <2>3 DEF Record
    <3>2. /\ row[m].body = b /\ b # "none"
      BY <1>0, <3>1, BodiesAssumption DEF IInv, OneClaimant, Claimant
    <3>3. v # "unknown"
      BY <1>0, <2>3, <3>1
    <3>4. v = IF Transmitted(m) THEN "sent" ELSE "not_sent"
      <4>1. CASE v = "sent"
        BY <1>0, <3>1, <4>1 DEF IInv, Verdict, LogOfCalls
      <4>2. CASE v = "not_sent"
        <5>1. call[p] = "none"
          BY <1>0, <3>1, <4>2 DEF IInv, Verdict
        <5> SUFFICES ASSUME NEW i \in DOMAIN log, log[i].id = m
                     PROVE  FALSE
          BY <4>2 DEF Transmitted
        <5>2. PICK q \in Procs : created[q] /\ call[q] = "accepted" /\ req[q] = log[i]
          BY DEF IInv, LogOfCalls
        <5> QED
          BY <1>0, <3>1, <5>1, <5>2 DEF IInv, OneClaimant, Claimant
      <4> QED
        BY <1>0, <3>3, <4>1, <4>2 DEF Verdicts
    <3>5. /\ claimBar[m] # "none" /\ verdictBar[m] = "unknown"
          /\ verdictBar' = [verdictBar EXCEPT ![m] = v]
          /\ UNCHANGED <<claimBar, toldBar>>
      BY <1>0, <2>1, <3>1, <3>2 DEF claimBar, verdictBar, toldBar
    <3>6. JournalOutbox!Decide(m)
      BY <2>1, <3>4, <3>5
         DEF JournalOutbox!Decide, JournalOutbox!Accepted, JournalOutbox!NoBody, Transmitted, claimBar, verdictBar, toldBar
    <3> QED
      BY <3>6, OutboxSteps
  <2> QED
    BY <2>2, <2>3
<1> QED
  BY <1>1, <1>2, <1>3, <1>4

\* Every behaviour of the helpers is one of the outbox: the promise the callers
\* build on is kept.
THEOREM HelpersImplementOutbox == JournalSpec => ImplementsOutbox
<1>1. JournalInit => JournalOutbox!OutboxInit
  BY DEF JournalInit, JournalOutbox!OutboxInit, JournalOutbox!NoBody, NoRow, NoBody
<1>2. IInv /\ [JournalNext]_journalVars => [JournalOutbox!OutboxNext]_(JournalOutbox!ovars)
  <2> SUFFICES ASSUME IInv, [JournalNext]_journalVars
               PROVE  JournalOutbox!OutboxNext \/ UNCHANGED JournalOutbox!ovars
    OBVIOUS
  <2>1. CASE UNCHANGED <<row, log, req, reply>>
    BY <2>1, QuietStep DEF JournalOutbox!ovars, claimBar, verdictBar, toldBar
  <2>2. \/ UNCHANGED <<row, log, req, reply>>
        \/ \E p \in Procs :
             ClaimIdentity(p) \/ Record(p) \/ Emit(p) \/ ModemTakes(p)
    BY DEF journalVars, JournalNext, Step, StartHelper, OpenJournal, RepeatIdentity, BeginFails,
       LearnCreated, TakeLock, NoService, CallCreate, CreateReturns, SendReturns,
       SendFails, Cleanup, TakeSent, Alarm, Crash, ModemRefuses
  <2> QED
    BY <2>1, <2>2, VisibleSteps
<1> QED
  BY Inductive, <1>1, <1>2, PTL DEF JournalSpec, ImplementsOutbox, JournalOutbox!OutboxSpec

=============================================================================
