---------------------------- MODULE ConfigChannel ----------------------------
(***************************************************************************)
(* The phone's persistent config, written to the phone and recorded in the *)
(* server's git repository: channel.py's tools and release migration,      *)
(* apply.py's phone write, config_repo.py's history and app.py's /rollback.*)
(* One operation runs at a time (module StreamTurn).  A config body is a   *)
(* text and whether it still holds legacy symbols; the texts in Torn are   *)
(* incomplete Lisp, which the migration's scanner refuses.                 *)
(***************************************************************************)
EXTENDS Naturals, Sequences, SequencesExt, FiniteSetsExt

CONSTANTS
  Texts,      \* config texts
  Empty,      \* the scaffold's
  Torn,       \* the incomplete ones
  MaxCommits, \* bound: commits before tools and rollbacks stop
  MaxFaults   \* bound: unconfirmed writes, git failures, server crashes

ASSUME ChannelAssumption ==
  /\ Empty \in Texts /\ Torn \subseteq Texts \ {Empty}
  /\ MaxCommits \in Nat \ {0, 1} /\ MaxFaults \in Nat

Body == {b \in [text : Texts, legacy : BOOLEAN] : b.text = Empty => ~b.legacy}
Scaffold == [text |-> Empty, legacy |-> FALSE]

VARIABLES
  git,         \* the repository's history, oldest first; <<>> before the scaffold
  tree,        \* agent.el in the server's working tree
  marker,      \* the durable reconciliation mark of the namespace migration
  phone,       \* agent.el on the phone
  wire,        \* writes the server gave up on that the phone may still perform
  turn,        \* who holds the stream lock: "idle", "migrate", "agent", "rollback"
  op,          \* the transaction under way
  outstanding, \* a result was unconfirmed, unrecorded or lost, and not reconciled
  owed,        \* a migration was sent and not yet loaded and recorded cleanly
  faults

vars == <<git, tree, marker, phone, wire, turn, op, outstanding, owed, faults>>
repo == <<git, tree>>

Kinds == {"migrate", "write", "undo"}
NoOp == [kind |-> "none", step |-> "none", body |-> Scaffold, clean |-> FALSE]
Op == {NoOp} \cup
  [kind : Kinds, step : {"send", "record", "clear"}, body : Body, clean : BOOLEAN]

TypeOK ==
  /\ git \in Seq(Body) /\ Len(git) <= MaxCommits + 1
  /\ tree \in Body /\ phone \in Body
  /\ wire \subseteq Body
  /\ turn \in {"idle", "migrate", "agent", "rollback"}
  /\ op \in Op
  /\ marker \in BOOLEAN /\ outstanding \in BOOLEAN /\ owed \in BOOLEAN
  /\ faults \in 0 .. MaxFaults

\* A new server, or one whose last config still has the legacy symbols.
Init ==
  /\ git \in {<<>>, <<Scaffold>>} \cup
       {<<Scaffold, b>> : b \in {c \in Body : c.legacy /\ c.text \notin Torn}}
  /\ tree = (IF git = <<>> THEN Scaffold ELSE Last(git))
  /\ phone = tree
  /\ wire = {}
  /\ turn = "idle"
  /\ op = NoOp
  /\ marker = FALSE /\ outstanding = FALSE /\ owed = FALSE
  /\ faults = 0

-----------------------------------------------------------------------------
(* The repository.                                                         *)

\* ensure(): scaffold a repository without commits, else hard-reset to HEAD.
History == IF git = <<>> THEN <<Scaffold>> ELSE git
Current == Last(History)

Ensure == git' = History /\ tree' = Current

Migrated(b) == [b EXCEPT !.legacy = FALSE]

\* What two bodies are compared by, and what a historical one is written as;
\* an incomplete body keeps its bytes.
Comparable(b) == IF b.text \in Torn THEN b ELSE Migrated(b)

\* migrate_historical_emacos_symbols raises on the others.
Restorable(b) == b.text \in Torn => ~b.legacy

\* Mutant of Prior: by exact bytes.
PriorBytes(h) == {k \in 1 .. Len(h) - 1 : h[k] # Last(h)}

\* Prior versions with another meaning; rollback_body takes the nearest.
Prior(h) == {k \in 1 .. Len(h) - 1 : Comparable(h[k]) # Comparable(Last(h))}

CanUndo(h) == Prior(h) # {} /\ Restorable(h[Max(Prior(h))])
Undo(h) == Comparable(h[Max(Prior(h))])

\* Mutant of Committed: without the check for a difference.
CommittedAlways(b) == Append(History, b)

Committed(b) == IF Current = b THEN History ELSE Append(History, b)

-----------------------------------------------------------------------------
(* What begins a transaction.                                              *)

Begin(kind, b) == op' = [kind |-> kind, step |-> "send", body |-> b, clean |-> FALSE]

Room == Len(git) < MaxCommits

\* The body is incomplete: the turn ends with an error and no agent.
ChatBlocked ==
  /\ turn = "idle" /\ Current.text \in Torn
  /\ Ensure
  /\ UNCHANGED <<marker, phone, wire, turn, op, outstanding, owed, faults>>

ChatUnchanged ==
  /\ turn = "idle" /\ Current.text \notin Torn
  /\ ~Current.legacy /\ ~marker
  /\ Ensure
  /\ turn' = "agent"
  /\ UNCHANGED <<marker, phone, wire, op, outstanding, owed, faults>>

\* Mutant of ChatMigrates: not marked before the write.
ChatMigratesUnmarked ==
  /\ turn = "idle" /\ Current.text \notin Torn
  /\ Current.legacy \/ marker
  /\ Ensure
  /\ turn' = "migrate"
  /\ Begin("migrate", Migrated(Current))
  /\ UNCHANGED <<marker, phone, wire, outstanding, owed, faults>>

\* A new migration, or the retry of one that did not end cleanly.
ChatMigrates ==
  /\ turn = "idle" /\ Current.text \notin Torn
  /\ Current.legacy \/ marker
  /\ Ensure
  /\ marker' = TRUE
  /\ turn' = "migrate"
  /\ Begin("migrate", Migrated(Current))
  /\ UNCHANGED <<phone, wire, outstanding, owed, faults>>

\* apply_config with the agent's own text, or revert_config to a version.
ToolApply(b) ==
  /\ turn = "agent" /\ op = NoOp /\ Room
  /\ Begin("write", b)
  /\ UNCHANGED <<repo, marker, phone, wire, turn, outstanding, owed, faults>>

ToolRestore(k) ==
  /\ turn = "agent" /\ op = NoOp /\ Room
  /\ k \in DOMAIN git /\ Restorable(git[k])
  /\ Ensure
  /\ Begin("write", Comparable(git[k]))
  /\ UNCHANGED <<marker, phone, wire, turn, outstanding, owed, faults>>

\* revert_config without a target, and the phone's /rollback.
ToolUndo ==
  /\ turn = "agent" /\ op = NoOp /\ Room
  /\ CanUndo(History)
  /\ Ensure
  /\ Begin("undo", Undo(History))
  /\ UNCHANGED <<marker, phone, wire, turn, outstanding, owed, faults>>

Rollback ==
  /\ turn = "idle" /\ Room
  /\ CanUndo(History)
  /\ Ensure
  /\ turn' = "rollback"
  /\ Begin("undo", Undo(History))
  /\ UNCHANGED <<marker, phone, wire, outstanding, owed, faults>>

EndTurn ==
  /\ turn = "agent" /\ op = NoOp
  /\ turn' = "idle"
  /\ UNCHANGED <<repo, marker, phone, wire, op, outstanding, owed, faults>>

-----------------------------------------------------------------------------
(* The transaction: the phone first, then the record.                      *)

Fault == faults < MaxFaults /\ faults' = faults + 1

\* The caller gets the result: the agent goes on, a chat or rollback ends.
Finish ==
  /\ op' = NoOp
  /\ turn' = IF turn = "agent" THEN "agent" ELSE "idle"

\* Too large, or the phone was never reached.
NotSent ==
  /\ op.step = "send"
  /\ Finish
  /\ UNCHANGED <<repo, marker, phone, wire, outstanding, owed, faults>>

\* Of a write without an answer nobody knows whether, or when, it happens.
Uncertain ==
  \/ phone' = phone /\ wire' = wire
  \/ phone' = op.body /\ wire' = wire
  \/ phone' = phone /\ wire' = wire \cup {op.body}

\* Mutant of Unconfirmed: recorded as if received.
UnconfirmedRecorded ==
  /\ op.step = "send" /\ Fault
  /\ Uncertain
  /\ op' = [op EXCEPT !.step = "record"]
  /\ owed' = (owed \/ op.kind = "migrate")
  /\ UNCHANGED <<repo, marker, turn, outstanding>>

Unconfirmed ==
  /\ op.step = "send" /\ Fault
  /\ Uncertain
  /\ outstanding' = TRUE
  /\ owed' = (owed \/ op.kind = "migrate")
  /\ Finish
  /\ UNCHANGED <<repo, marker>>

\* The file is on the phone, whether or not it loaded.
Received(clean) ==
  /\ op.step = "send"
  /\ op.body.text \in Torn => ~clean
  /\ phone' = op.body
  /\ op' = [op EXCEPT !.step = "record", !.clean = clean]
  /\ owed' = (owed \/ op.kind = "migrate")
  /\ UNCHANGED <<repo, marker, wire, turn, outstanding, faults>>

Recorded ==
  /\ op.step = "record"
  /\ git' = Committed(op.body)
  /\ tree' = op.body
  /\ IF op.kind = "migrate" /\ op.clean
       THEN op' = [op EXCEPT !.step = "clear"] /\ owed' = FALSE /\ UNCHANGED turn
       ELSE Finish /\ UNCHANGED owed
  /\ UNCHANGED <<marker, phone, wire, outstanding, faults>>

\* A git command fails, with the new body in the working tree or not.  Every
\* such result is outstanding: that of an undo, which only says that retrying is
\* safe, too.
Unrecorded ==
  /\ op.step = "record" /\ Fault
  /\ git' = History
  /\ tree' \in {Current, op.body}
  /\ outstanding' = TRUE
  /\ Finish
  /\ UNCHANGED <<marker, phone, wire, owed>>

\* After a clean migration the mark goes and the agent runs.
Cleared ==
  /\ op.step = "clear"
  /\ marker' = FALSE
  /\ op' = NoOp
  /\ turn' = "agent"
  /\ UNCHANGED <<repo, phone, wire, outstanding, owed, faults>>

NotCleared ==
  /\ op.step = "clear" /\ Fault
  /\ Finish
  /\ UNCHANGED <<repo, marker, phone, wire, outstanding, owed>>

-----------------------------------------------------------------------------
(* The surroundings.                                                       *)

\* The server dies: by a crash, or by its own exit for a wedged worker.
Crash ==
  /\ turn # "idle" /\ Fault
  /\ turn' = "idle"
  /\ op' = NoOp
  /\ outstanding' = (outstanding \/ op.step \in {"send", "record"})
  /\ IF op.step = "send" THEN Uncertain ELSE UNCHANGED <<phone, wire>>
  /\ owed' = (owed \/ (op.step = "send" /\ op.kind = "migrate"))
  /\ \/ UNCHANGED repo
     \/ op.step = "record" /\ tree' = op.body /\ git' \in {git, Committed(op.body)}
  /\ marker' \in (IF op.step = "clear" THEN {marker, FALSE} ELSE {marker})

Late(b) ==
  /\ b \in wire
  /\ phone' = b
  /\ wire' = wire \ {b}
  /\ UNCHANGED <<repo, marker, turn, op, outstanding, owed, faults>>

\* The user, told to, puts the recorded body back on a phone at rest.
Reconcile ==
  /\ turn = "idle" /\ outstanding /\ wire = {}
  /\ phone' = Current
  /\ outstanding' = FALSE
  /\ UNCHANGED <<repo, marker, wire, turn, op, owed, faults>>

-----------------------------------------------------------------------------
Next ==
  \/ ChatBlocked \/ ChatUnchanged \/ ChatMigrates
  \/ \E b \in Body : ToolApply(b) \/ Late(b)
  \/ \E k \in 1 .. MaxCommits : ToolRestore(k)
  \/ ToolUndo \/ Rollback \/ EndTurn
  \/ NotSent \/ Unconfirmed \/ Recorded \/ Unrecorded
  \/ \E clean \in BOOLEAN : Received(clean)
  \/ Cleared \/ NotCleared \/ Crash \/ Reconcile

Spec == Init /\ [][Next]_vars

-----------------------------------------------------------------------------
(* Properties.                                                             *)

\* Between operations the phone's file is the recorded one: whatever mix of
\* applies, undos, restores, migrations, load errors and refusals went before,
\* unless some result called an operation unconfirmed or unrecorded.  (What the
\* agent is told then is to reconcile in the docstrings of get_config and
\* apply_config; the results of revert_config say less.)
Aligned ==
  (op = NoOp /\ ~outstanding) => phone = Current

\* Once a migration may have written the phone, no agent runs until a retry
\* loaded and was recorded cleanly, across crashes, rollbacks and commits that
\* leave nothing lexically to migrate.
ChatFenced == turn = "agent" => ~owed

\* An undo that is recorded changes what the config means, although a migration
\* may have rewritten the version it undoes.
UndoMoves ==
  [][(op.kind = "undo" /\ Recorded) => Comparable(Last(git')) # Comparable(Current)]_vars

\* The history after n undos in a row, all of them received and recorded.
AfterUndos[n \in Nat] ==
  IF n = 0 THEN History
  ELSE LET h == AfterUndos[n - 1] IN IF CanUndo(h) THEN Append(h, Undo(h)) ELSE h

\* "use exact bytes so undo can still escape the broken config" (config_repo.py,
\* rollback_body): from an incomplete config, and a history that holds nothing
\* undo could not write, some number of undos leads to one the agent can run on.
UndoEscapes ==
  (turn = "idle" /\ Current.text \in Torn /\ \A k \in DOMAIN git : Restorable(git[k])) =>
    \E n \in 1 .. 2 * MaxCommits : Last(AfterUndos[n]).text \notin Torn
=============================================================================
