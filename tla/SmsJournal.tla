------------------------------ MODULE SmsJournal -----------------------------
(***************************************************************************)
(* The send path of the root SMS helper, deploy/pinephone/openrc-sms-root. *)
(* Every caller (the phone's own Send button, the HTTP transport) starts a *)
(* fresh helper process; the processes share a SQLite journal, one flock   *)
(* and the modem.  A process can be killed, or interrupted by its SIGALRM, *)
(* between any two steps, and a Send call it has issued outlives it.       *)
(***************************************************************************)
EXTENDS Naturals, Sequences

CONSTANTS
  Procs,       \* helper processes, each run once
  Identities,  \* message identities (chosen by the callers, so they repeat)
  Bodies,      \* number and text, compared as one value
  NoProc       \* nobody holds the lock

ASSUME NoProcAssumption == NoProc \notin Procs
ASSUME BodiesAssumption == "none" \notin Bodies

VARIABLES
  row,      \* the journal: row[id], durable
  lock,     \* the holder of LOCK_PATH
  log,      \* what the modem accepted for transmission, in order
  call,     \* call[p]: the Send call of p on the bus
  pc,       \* where p is
  req,      \* p's parsed request
  created,  \* main's local: p claimed the identity
  attempt,  \* attempt["create"]: p may have reached the modem
  outcome,  \* p's status, as the verdict it stands for
  reply     \* the line p printed

journalVars == <<row, lock, log, call, pc, req, created, attempt, outcome, reply>>

NoBody == "none"
NoRow == [body |-> NoBody, status |-> "unknown"]
Message == [id : Identities, body : Bodies]
Verdicts == {"unknown", "sent", "not_sent"}

Ended == {"done", "dead"}
\* The steps signal.alarm(60) covers, where InputTimeout ends the attempt.
Timed == {"open", "begin", "inserted", "claimed", "locked", "creating",
          "sending", "returned"}

Absent(id) == row[id] = NoRow
Transmitted(id) == \E i \in DOMAIN log : log[i].id = id

JournalTypeOK ==
  /\ row \in [Identities -> [body : Bodies \cup {NoBody}, status : Verdicts]]
  /\ lock \in Procs \cup {NoProc}
  /\ log \in Seq(Message)
  /\ call \in [Procs -> {"none", "queued", "accepted", "refused"}]
  /\ pc \in [Procs -> Timed \cup Ended \cup {"idle", "cleanup", "record", "emit"}]
  /\ req \in [Procs -> Message]
  /\ created \in [Procs -> BOOLEAN]
  /\ attempt \in [Procs -> BOOLEAN]
  /\ outcome \in [Procs -> Verdicts]
  /\ reply \in [Procs -> Verdicts \cup {"none"}]

\* A request is fixed when its process starts; which one is the caller's choice.
JournalInit ==
  /\ row = [id \in Identities |-> NoRow]
  /\ lock = NoProc
  /\ log = <<>>
  /\ call = [p \in Procs |-> "none"]
  /\ pc = [p \in Procs |-> "idle"]
  /\ req \in [Procs -> Message]
  /\ created = [p \in Procs |-> FALSE]
  /\ attempt = [p \in Procs |-> FALSE]
  /\ outcome = [p \in Procs |-> "unknown"]
  /\ reply = [p \in Procs |-> "none"]

-----------------------------------------------------------------------------
(* One process.                                                            *)

Goto(p, to) == pc' = [pc EXCEPT ![p] = to]

\* The attempt is over with verdict v; main goes on to the final UPDATE.
Finish(p, v) ==
  /\ Goto(p, "record")
  /\ outcome' = [outcome EXCEPT ![p] = v]

\* Mutant of Uncertain: the status is kept as the helper prints it.
UncertainRaw(p) == IF ~created[p] \/ attempt[p] THEN "unknown" ELSE "not-sent:time-limit"

\* The verdict of main's two catch-all handlers: nothing was sent only if this
\* process owns the identity and had not yet turned to the modem.
Uncertain(p) == IF ~created[p] \/ attempt[p] THEN "unknown" ELSE "not_sent"

\* A request that parses; the second alarm starts.
StartHelper(p) ==
  /\ pc[p] = "idle"
  /\ Goto(p, "open")
  /\ UNCHANGED <<row, lock, log, call, req, created, attempt, outcome, reply>>

\* journal() opens the database, or fails (unsafe directory, locked, full).
OpenJournal(p) ==
  /\ pc[p] = "open"
  /\ \/ /\ Goto(p, "begin")
        /\ UNCHANGED outcome
     \/ Finish(p, Uncertain(p))
  /\ UNCHANGED <<row, lock, log, call, req, created, attempt, reply>>

\* begin_attempt on a new identity: the INSERT is committed, but main has not
\* yet received the return value.
ClaimIdentity(p) ==
  /\ pc[p] = "begin"
  /\ Absent(req[p].id)
  /\ row' = [row EXCEPT ![req[p].id] = [body |-> req[p].body, status |-> "unknown"]]
  /\ Goto(p, "inserted")
  /\ UNCHANGED <<lock, log, call, req, created, attempt, outcome, reply>>

\* Mutant of RepeatIdentity: an attempt left unknown is taken up again.
RepeatResumes(p) ==
  /\ pc[p] = "begin"
  /\ ~Absent(req[p].id)
  /\ IF row[req[p].id] = [body |-> req[p].body, status |-> "unknown"]
       THEN /\ Goto(p, "inserted")
            /\ UNCHANGED outcome
       ELSE Finish(p, Uncertain(p))
  /\ UNCHANGED <<row, lock, log, call, req, created, attempt, reply>>

\* begin_attempt on an identity the journal has: the recorded verdict is
\* printed, or a different body is a conflict and raises.
RepeatIdentity(p) ==
  /\ pc[p] = "begin"
  /\ ~Absent(req[p].id)
  /\ IF row[req[p].id].body = req[p].body
       THEN /\ Goto(p, "emit")
            /\ outcome' = [outcome EXCEPT ![p] = row[req[p].id].status]
       ELSE Finish(p, Uncertain(p))
  /\ UNCHANGED <<row, lock, log, call, req, created, attempt, reply>>

\* The transaction fails and is rolled back.
BeginFails(p) ==
  /\ pc[p] = "begin"
  /\ Finish(p, Uncertain(p))
  /\ UNCHANGED <<row, lock, log, call, req, created, attempt, reply>>

\* previous, created = begin_attempt(...)
LearnCreated(p) ==
  /\ pc[p] = "inserted"
  /\ created' = [created EXCEPT ![p] = TRUE]
  /\ Goto(p, "claimed")
  /\ UNCHANGED <<row, lock, log, call, req, attempt, outcome, reply>>

\* flock(LOCK_EX | LOCK_NB): another send in progress is "not-sent:busy".
TakeLock(p) ==
  /\ pc[p] = "claimed"
  /\ IF lock = NoProc
       THEN /\ lock' = p
            /\ Goto(p, "locked")
            /\ UNCHANGED outcome
       ELSE /\ Finish(p, "not_sent")
            /\ UNCHANGED lock
  /\ UNCHANGED <<row, log, call, req, created, attempt, reply>>

\* No bus, no modem, several modems, no service: every "not-sent" of send_sms.
NoService(p) ==
  /\ pc[p] = "locked"
  /\ Finish(p, "not_sent")
  /\ UNCHANGED <<row, lock, log, call, req, created, attempt, reply>>

\* Mutant of CallCreate: the flag is forgotten.
CallCreateUnflagged(p) ==
  /\ pc[p] = "locked"
  /\ Goto(p, "creating")
  /\ UNCHANGED <<row, lock, log, call, req, created, attempt, outcome, reply>>

\* The flag goes up before Messaging.Create is called.
CallCreate(p) ==
  /\ pc[p] = "locked"
  /\ attempt' = [attempt EXCEPT ![p] = TRUE]
  /\ Goto(p, "creating")
  /\ UNCHANGED <<row, lock, log, call, req, created, outcome, reply>>

\* Create answers with an object path and Send is called, or it fails.
CreateReturns(p) ==
  /\ pc[p] = "creating"
  /\ \/ /\ Goto(p, "sending")
        /\ call' = [call EXCEPT ![p] = "queued"]
        /\ UNCHANGED outcome
     \/ /\ Finish(p, "unknown")
        /\ UNCHANGED call
  /\ UNCHANGED <<row, lock, log, req, created, attempt, reply>>

SendReturns(p) ==
  /\ pc[p] = "sending"
  /\ call[p] = "accepted"
  /\ Goto(p, "cleanup")
  /\ UNCHANGED <<row, lock, log, call, req, created, attempt, outcome, reply>>

\* Mutant of SendFails: a lost reply counts as not sent.
SendFailsForSure(p) ==
  /\ pc[p] = "sending"
  /\ Finish(p, "not_sent")
  /\ UNCHANGED <<row, lock, log, call, req, created, attempt, reply>>

\* An error reply, a lost one, or the 30 s call timeout, which may come while
\* the call is still queued.
SendFails(p) ==
  /\ pc[p] = "sending"
  /\ Finish(p, "unknown")
  /\ UNCHANGED <<row, lock, log, call, req, created, attempt, reply>>

\* Messaging.Delete: any failure, the alarm's too, is swallowed.
Cleanup(p) ==
  /\ pc[p] = "cleanup"
  /\ Goto(p, "returned")
  /\ UNCHANGED <<row, lock, log, call, req, created, attempt, outcome, reply>>

\* status = send_sms(...) is "sent", and the alarm is switched off.
TakeSent(p) ==
  /\ pc[p] = "returned"
  /\ Finish(p, "sent")
  /\ UNCHANGED <<row, lock, log, call, req, created, attempt, reply>>

Alarm(p) ==
  /\ pc[p] \in Timed
  /\ Finish(p, Uncertain(p))
  /\ UNCHANGED <<row, lock, log, call, req, created, attempt, reply>>

\* Only the claimant updates its row, and only while it is still unknown; an
\* update that fails leaves the row unknown and says so.
Record(p) ==
  /\ pc[p] = "record"
  /\ Goto(p, "emit")
  /\ IF created[p]
       THEN \/ /\ row' = IF row[req[p].id].status = "unknown"
                           THEN [row EXCEPT ![req[p].id].status = outcome[p]]
                           ELSE row
               /\ UNCHANGED outcome
            \/ /\ outcome' = [outcome EXCEPT ![p] = "unknown"]
               /\ UNCHANGED row
       ELSE UNCHANGED <<row, outcome>>
  /\ UNCHANGED <<lock, log, call, req, created, attempt, reply>>

\* The kernel drops the flock with the process.
Unlocked(p) == IF lock = p THEN NoProc ELSE lock

Emit(p) ==
  /\ pc[p] = "emit"
  /\ reply' = [reply EXCEPT ![p] = outcome[p]]
  /\ lock' = Unlocked(p)
  /\ Goto(p, "done")
  /\ UNCHANGED <<row, log, call, req, created, attempt, outcome>>

\* The process is killed, or the phone loses power: a queued call lives on.
Crash(p) ==
  /\ pc[p] \notin Ended \cup {"idle"}
  /\ lock' = Unlocked(p)
  /\ Goto(p, "dead")
  /\ UNCHANGED <<row, log, call, req, created, attempt, outcome, reply>>

-----------------------------------------------------------------------------
(* ModemManager.                                                           *)

ModemTakes(p) ==
  /\ call[p] = "queued"
  /\ call' = [call EXCEPT ![p] = "accepted"]
  /\ log' = Append(log, req[p])
  /\ UNCHANGED <<row, lock, pc, req, created, attempt, outcome, reply>>

ModemRefuses(p) ==
  /\ call[p] = "queued"
  /\ call' = [call EXCEPT ![p] = "refused"]
  /\ UNCHANGED <<row, lock, log, pc, req, created, attempt, outcome, reply>>

-----------------------------------------------------------------------------
Step(p) ==
  \/ StartHelper(p) \/ OpenJournal(p)
  \/ ClaimIdentity(p) \/ RepeatIdentity(p) \/ BeginFails(p) \/ LearnCreated(p)
  \/ TakeLock(p) \/ NoService(p) \/ CallCreate(p) \/ CreateReturns(p)
  \/ SendReturns(p) \/ SendFails(p) \/ Cleanup(p) \/ TakeSent(p)
  \/ Record(p) \/ Emit(p)

JournalNext ==
  \E p \in Procs :
    \/ Step(p) \/ Alarm(p) \/ Crash(p)
    \/ ModemTakes(p) \/ ModemRefuses(p)

JournalSpec == JournalInit /\ [][JournalNext]_journalVars

-----------------------------------------------------------------------------
(* Properties.                                                             *)

\* The modem accepts no identity twice, across repeats, conflicts, timeouts
\* and kills (begin_attempt: only the first durable claimant may mutate the
\* modem for this id).
AtMostOnce ==
  \A i, j \in DOMAIN log : log[i].id = log[j].id => i = j

\* What the modem accepted is what the journal holds for that identity, to the
\* letter, even when another caller asked for another body.
ExactBody ==
  \A i \in DOMAIN log : row[log[i].id].body = log[i].body

\* A recorded verdict is true: "sent" was accepted, "not_sent" was not and
\* cannot be any more (no call of it is still queued at the modem).
HonestVerdict ==
  \A id \in Identities :
    /\ row[id].status = "sent" => Transmitted(id)
    /\ row[id].status = "not_sent" =>
         /\ ~Transmitted(id)
         /\ \A p \in Procs : req[p].id = id => call[p] # "queued"

\* A caller hears "sent" or "not sent" of its own body only, and only once the
\* journal says so: a verdict is durable before it is printed.
HonestReply ==
  \A p \in Procs :
    reply[p] \in {"sent", "not_sent"} =>
      row[req[p].id] = [body |-> req[p].body, status |-> reply[p]]

\* A journal row is never rewritten except from "unknown" to its verdict.
VerdictFinal ==
  [][\A id \in Identities :
       /\ ~Absent(id) => row'[id].body = row[id].body
       /\ row[id].status # "unknown" => row'[id] = row[id]]_row

-----------------------------------------------------------------------------
(* The helper implements the outbox it promises.                           *)

JournalOutbox == INSTANCE SmsOutbox WITH
  Ids <- Identities,
  claim <- [id \in Identities |-> row[id].body],
  verdict <- [id \in Identities |-> row[id].status],
  accepted <- log,
  told <- {<<req[p].id, reply[p]>> : p \in {q \in Procs : reply[q] # "none"}}

ImplementsOutbox == JournalOutbox!OutboxSpec
=============================================================================
