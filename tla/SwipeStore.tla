------------------------------ MODULE SwipeStore -----------------------------
(***************************************************************************)
(* The swipe-learning store (swipe-learning-collector.py): one collector   *)
(* process per UI session and the short commands enable, disable, export   *)
(* and erase share a private directory under one lock.  Each of them is a  *)
(* plan of file-system steps; an error, a kill or a power cut may come     *)
(* between any two of them, and inside a write.                            *)
(*                                                                         *)
(* "dir" is the directory as the processes see it, "held" every directory  *)
(* a power cut may leave: what was seen since the last fsync of the        *)
(* directory, in order, where a file keeps any prefix until its own fsync. *)
(***************************************************************************)
EXTENDS Integers, Sequences, SequencesExt, FiniteSets

CONSTANTS
  Datagrams,    \* what the keyboard may send
  High, Low,    \* lines in the journal before and after a compaction
  Feedbacks,    \* entries of the feedback aggregate
  ExportHigh, ExportLow, \* completed exports before and after pruning
  ExportBudget, \* lines of export written between two erasures
  WriteBudget,  \* lines one collector may write
  DatagramBudget, \* datagrams one collector may receive
  MaxEpochs, MaxSessions, MaxCommands, MaxFaults, \* bounds of the model
  Absent, Torn  \* no such file; what is left of a line that was cut

IsGesture(l) == l.type = "gesture"
IsFeedback(d) == d.type = "feedback"
Pending(g) == [type |-> "pending", id |-> g.id]

\* What a correction is about.
Keys == {d.key : d \in {x \in Datagrams : IsFeedback(x)}}

\* What a status may say of a session.
Kinds == {"invalid", "unsent", "capturing"}

\* A file that does not exist is not one with some content, and what is left of
\* a cut line is neither a line nor an aggregate.
ASSUME StoreAssumption ==
  /\ Low \in 1..High /\ ExportLow \in 1..ExportHigh /\ Feedbacks \in Nat \ {0}
  /\ {High, ExportHigh, ExportBudget, WriteBudget, DatagramBudget} \subseteq Nat
  /\ Absent \notin Nat \cup Seq(Keys) \cup [kind : Kinds, epoch : Nat]
  /\ Torn \notin Datagrams \cup {Pending(g) : g \in {d \in Datagrams : IsGesture(d)}}
  /\ Torn \notin Seq(Keys) \cup {Absent}

VARIABLES
  dir,     \* the files: Absent or what they hold
  held,    \* the directories that a power cut may leave
  coll,    \* the collector; it holds collector.lock unless "off"
  holder,  \* the operation that has the store's lock, or Free
  spent,   \* history: export lines written since an erase began
  wiped,   \* history: erased, and no collector is ready since
  count    \* how much of each bound is used

vars == <<dir, held, coll, holder, spent, wiped, count>>

Files == {"journal", "jtmp", "feedback", "ftmp", "budget", "btmp", "xtmp",
          "latch", "enabled", "status"}

Off == [pc |-> "off", epoch |-> 0, d |-> Absent, snap |-> FALSE,
        exhausted |-> FALSE, written |-> 0, received |-> 0]

Free == [job |-> "none", next |-> "end", plan |-> <<>>, leave |-> FALSE,
         changed |-> FALSE]

\* An empty directory, where capture may have been armed.
Init ==
  /\ \E armed \in {0, 1} :
       /\ dir = [f \in Files \cup {"exports"} |->
                  CASE f = "exports" -> <<>>
                    [] f = "enabled" /\ armed = 1 -> 1
                    [] OTHER -> Absent]
       /\ count = [epochs |-> armed, sessions |-> 0, commands |-> 0, faults |-> 0]
  /\ held = {dir}
  /\ coll = Off
  /\ holder = Free
  /\ spent = 0
  /\ wiped = FALSE

-----------------------------------------------------------------------------
(* What the files hold.                                                    *)

\* Gestures carry how many candidates were shown; the schema of a datagram
\* and its bounds are the difference between "malformed" and the rest.
ValidRecord(d) == d.type # "malformed"

ValidPair(g, r) ==
  CASE r.outcome = "alternate-selected" -> r.rank <= g.cands
    [] r.outcome \in {"explicit-lookup-failure", "explicit-user-misswipe"} -> g.cands = 0
    [] OTHER -> g.cands > 0

\* Reading drops a torn last line.
Lines(c) == IF c = Absent THEN <<>>
            ELSE IF c # <<>> /\ Last(c) = Torn THEN Front(c) ELSE c

\* A journal is accepted when its lines pair up in order, repeats aside.
Indexes(c) ==
  \A j \in DOMAIN c :
    /\ \A i \in 1..(j - 1) :
         c[i].id = c[j].id /\ IsGesture(c[i]) = IsGesture(c[j]) => c[i] = c[j]
    /\ \/ IsGesture(c[j])
       \/ \E i \in 1..(j - 1) :
            c[i].id = c[j].id /\ IsGesture(c[i]) /\ ValidPair(c[i], c[j])

\* Where the episode of an identity begins.
Born(c, id) == Min({i \in DOMAIN c : IsGesture(c[i]) /\ c[i].id = id})

\* The lines S in the order of their episodes in c, each gesture before its outcome.
ByEpisode(c, S) ==
  {s \in SetToSeqs(S) :
     \A i, j \in DOMAIN s : i < j =>
       \/ Born(c, s[i].id) < Born(c, s[j].id)
       \/ s[i].id = s[j].id /\ IsGesture(s[i])}

\* The newest episodes, as many as fit.
Compacted(c) ==
  LET From(k) == {l \in ToSet(c) : Born(c, l.id) >= k}
  IN ByEpisode(c, From(Min({k \in 1..(Len(c) + 1) : Cardinality(From(k)) <= Low})))

\* Every episode, those without an outcome marked as pending.
Snapshot(c) ==
  LET open == {g \in ToSet(c) : IsGesture(g) /\ \A l \in ToSet(c) : l.id = g.id => IsGesture(l)}
  IN ByEpisode(c, ToSet(c) \cup {Pending(g) : g \in open})

\* A temporary export is whole when every gesture is followed by one outcome
\* or one pending mark.
WholeExport(c) ==
  /\ Torn \notin ToSet(c)
  /\ \A i, j \in DOMAIN c : c[i].id = c[j].id /\ (IsGesture(c[i]) <=> IsGesture(c[j])) => i = j
  /\ \A j \in DOMAIN c :
       IF IsGesture(c[j]) THEN \E k \in DOMAIN c : c[k].id = c[j].id /\ ~IsGesture(c[k])
       ELSE \E i \in 1..(j - 1) :
              /\ IsGesture(c[i]) /\ c[i].id = c[j].id
              /\ c[j].type = "pending" \/ ValidPair(c[i], c[j])

\* An aggregate has one entry for a key; the newest is the last.
Corrected(fb, key) ==
  LET old == IF fb = Absent THEN <<>> ELSE fb
      same == {i \in DOMAIN old : old[i] = key}
      kept == IF same = {} THEN old ELSE RemoveAt(old, CHOOSE i \in same : TRUE)
  IN Append(IF Len(kept) = Feedbacks THEN Tail(kept) ELSE kept, key)

\* An aggregate that was cut does not parse.
ValidFeedback == dir.feedback # Torn

Number(c) == IF c = Absent THEN 0 ELSE c

Exported == DOMAIN dir.exports
Largest(S) == CHOOSE x \in S \cup {0} : \A y \in S : y <= x

-----------------------------------------------------------------------------
(* File-system steps.                                                      *)

Write(f, full, cuts) == [op |-> "write", file |-> f, to |-> f, full |-> full, cuts |-> cuts]
Unlink(f) == Write(f, Absent, {})
Fsync(f) == [op |-> "fsync", file |-> f, to |-> f, full |-> Absent, cuts |-> {}]
Rename(f, t) == [op |-> "rename", file |-> f, to |-> t, full |-> Absent, cuts |-> {}]
Do(op) == [op |-> op, file |-> "exports", to |-> "exports", full |-> Absent, cuts |-> {}]
Sync == Do("sync")

\* The whole lines, and the cut line, that an interrupted append leaves.
Cuts(old, new) ==
  UNION {{old \o p, Append(old \o p, Torn)} : p \in Prefixes(new) \ {new}}

Numbers == {Torn} \cup 0..(ExportBudget - 1)

\* Mutant: the directory is not synced.
ReplaceUnsynced(tmp, f, full, cuts) == <<Write(tmp, full, cuts), Fsync(tmp), Rename(tmp, f)>>

Replace(tmp, f, full, cuts) ==
  <<Write(tmp, full, cuts), Fsync(tmp), Rename(tmp, f), Sync>>

\* Markers are replaced through a temporary that nothing reads.
Mark(f, v) == <<Write(f, v, {}), Sync>>

Latch == <<Write("latch", TRUE, {}), Sync>>

Managed == Files \ {"enabled"}
Without(d, S) ==
  [f \in DOMAIN d |-> IF f \in S THEN Absent ELSE d[f]]
Cleared(S, X) ==
  [Without(dir, S) EXCEPT !.exports = [n \in Exported \ X |-> dir.exports[n]]]

After(st) ==
  CASE st.op = "write" -> [dir EXCEPT ![st.file] = st.full]
    [] st.op = "rename" -> [dir EXCEPT ![st.to] = dir[st.file], ![st.file] = Absent]
    [] st.op = "publish" -> [dir EXCEPT
                             !.exports = [n \in Exported \cup {dir.xtmp.seq} |->
                                            IF n = dir.xtmp.seq THEN dir.xtmp.lines ELSE @[n]],
                             !.xtmp = Absent]
    [] st.op = "prune" -> Cleared({}, {n \in Exported : \A m \in Exported : n <= m})
    [] st.op = "wipe" -> Cleared(Managed, Exported)
    [] OTHER -> dir

\* The directories an interruption of the step may leave.
Midway(st) ==
  CASE st.op = "write" -> {[dir EXCEPT ![st.file] = c] : c \in st.cuts}
    [] st.op = "wipe" -> {Cleared(S, X) : S \in SUBSET {f \in Managed : dir[f] # Absent},
                                          X \in SUBSET Exported}
    [] OTHER -> {}

Durable(st) ==
  CASE st.op = "sync" -> {dir}
    [] st.op = "fsync" -> {IF s[st.file] = Absent THEN s
                           ELSE [s EXCEPT ![st.file] = dir[st.file]] : s \in held}
    [] OTHER -> held \cup Midway(st) \cup {After(st)}

Wrote(st) ==
  CASE st.op = "write" /\ st.file = "xtmp" /\ st.full # Absent -> spent + Len(st.full.lines)
    [] st.op = "wipe" -> 0
    [] OTHER -> spent

-----------------------------------------------------------------------------
(* The lock and the commands.  The lock is never waited for, except by a   *)
(* collector that starts.                                                  *)

Take(job, next, plan, leave) ==
  holder' = [job |-> job, next |-> next, plan |-> plan, leave |-> leave,
             changed |-> FALSE]

Then(next, plan) == holder' = [holder EXCEPT !.next = next, !.plan = plan]

Use(kinds) ==
  LET Limit == [epochs |-> MaxEpochs, sessions |-> MaxSessions,
                commands |-> MaxCommands, faults |-> MaxFaults]
  IN /\ \A k \in kinds : count[k] < Limit[k]
     /\ count' = [k \in DOMAIN count |-> IF k \in kinds THEN count[k] + 1 ELSE count[k]]

\* collector.lock is held.
Running == coll.pc # "off"

Enable ==
  /\ holder = Free
  /\ Use({"commands", "epochs"})
  /\ Take("enable", "end", Mark("enabled", count.epochs + 1)
                           \o <<Unlink("status"), Sync>>, FALSE)
  /\ UNCHANGED <<dir, held, coll, spent, wiped>>

Disable ==
  /\ holder = Free
  /\ Use({"commands"})
  /\ Take("disable", "end", <<Unlink("enabled"), Unlink("status"), Sync>>, FALSE)
  /\ UNCHANGED <<dir, held, coll, spent, wiped>>

Export ==
  /\ holder = Free
  /\ Use({"commands"})
  /\ Take("export", "recover", <<>>, FALSE)
  /\ UNCHANGED <<dir, held, coll, spent, wiped>>

Erase ==
  /\ holder = Free
  /\ dir.enabled = Absent /\ ~Running
  /\ Use({"commands"})
  /\ Take("erase", "recover", <<>>, FALSE)
  /\ UNCHANGED <<dir, held, coll, spent, wiped>>

-----------------------------------------------------------------------------
(* The collector.                                                          *)

\* The launcher read the marker some time ago.
Launch(e) ==
  /\ ~Running
  /\ Use({"sessions"})
  /\ coll' = [Off EXCEPT !.pc = "starting", !.epoch = e]
  /\ UNCHANGED <<dir, held, holder, spent, wiped>>

GiveUp ==
  /\ coll.pc = "starting"
  /\ \/ holder # Free /\ holder.job # "start"
     \/ holder = Free /\ dir.enabled # coll.epoch
  /\ coll' = Off
  /\ UNCHANGED <<dir, held, holder, spent, wiped, count>>

NewSession == IF dir.latch = Absent THEN <<>> ELSE <<Unlink("latch"), Sync>>

\* The aggregate cannot be read, the snapshot or the readiness byte cannot be
\* sent, or the session starts.
Start ==
  /\ coll.pc = "starting" /\ holder = Free /\ dir.enabled = coll.epoch
  /\ \E kind \in Kinds, ready \in BOOLEAN :
       /\ ValidFeedback \/ kind = "invalid"
       /\ Take("start", "end", NewSession \o Mark("status", [kind |-> kind, epoch |-> coll.epoch]),
               kind # "capturing" \/ ~ready)
       /\ coll' = [coll EXCEPT !.snap = kind = "capturing"]
  /\ UNCHANGED <<dir, held, spent, wiped, count>>

Drained(c) == [c EXCEPT !.pc = "draining", !.d = Absent]

\* One datagram is taken and admitted under the lock, which is then released.
Receive(d) ==
  /\ coll.pc = "draining" /\ coll.received < DatagramBudget
  /\ LET got == [coll EXCEPT !.received = @ + 1]
     IN coll' = IF holder # Free
                THEN IF IsFeedback(d) THEN Off ELSE got
                ELSE IF dir.enabled # coll.epoch THEN Off
                ELSE IF ValidRecord(d) /\ ~coll.exhausted
                THEN [got EXCEPT !.pc = "admitted", !.d = d]
                ELSE got
  /\ UNCHANGED <<dir, held, holder, spent, wiped, count>>

Overflow ==
  /\ coll.pc = "draining" /\ coll.received = DatagramBudget
  /\ IF holder = Free /\ dir.enabled = coll.epoch
     THEN /\ Take("latch", "end", Latch, TRUE)
          /\ coll' = [coll EXCEPT !.pc = "storing", !.exhausted = TRUE]
     ELSE coll' = Off /\ UNCHANGED holder
  /\ UNCHANGED <<dir, held, spent, wiped, count>>

\* The keyboard has gone, and takes the collector with it.
Close ==
  /\ coll.pc \in {"draining", "admitted"}
  /\ coll' = Off
  /\ UNCHANGED <<dir, held, holder, spent, wiped, count>>

AppendBusy ==
  /\ coll.pc = "admitted" /\ holder # Free
  /\ coll' = IF IsFeedback(coll.d) THEN Off ELSE Drained(coll)
  /\ UNCHANGED <<dir, held, holder, spent, wiped, count>>

AppendTakes ==
  /\ coll.pc = "admitted" /\ holder = Free
  /\ Take("append", "recover", <<>>, FALSE)
  /\ coll' = [coll EXCEPT !.pc = "storing"]
  /\ UNCHANGED <<dir, held, spent, wiped, count>>

-----------------------------------------------------------------------------
(* What the lock's holder does.  A plan is computed when the one before it *)
(* has been carried out.                                                   *)

At(next) == holder # Free /\ holder.plan = <<>> /\ holder.next = next

RecoverOne(f) ==
  CASE f = "btmp" ->
         <<Write("budget", ExportBudget, Numbers), Fsync("budget"), Unlink(f), Sync>>
    [] f = "xtmp" /\ WholeExport(dir.xtmp.lines) /\ dir.xtmp.seq \notin Exported ->
         <<Fsync(f), Do("publish"), Sync>>
    [] OTHER -> <<Unlink(f)>>

\* n exports are completed; only so many of the newest are kept.
Prune(n) ==
  IF n <= ExportHigh THEN <<>> ELSE [i \in 1..(n - ExportLow) |-> Do("prune")] \o <<Sync>>

Recover ==
  /\ At("recover")
  /\ LET left == {f \in {"jtmp", "ftmp", "btmp", "xtmp"} : dir[f] # Absent}
     IN \/ \E f \in left :
             holder' = [holder EXCEPT !.plan = RecoverOne(f), !.changed = TRUE]
        \/ left = {} /\ Then("body", Prune(Cardinality(Exported))
                                     \o (IF holder.changed THEN <<Sync>> ELSE <<>>))
  /\ UNCHANGED <<dir, held, coll, spent, wiped, count>>

\* Mutant: admission was fence enough.
FencedBefore == FALSE

Fenced == holder.job = "append" /\ dir.enabled # coll.epoch

Reads ==
  \/ holder.job = "export"
  \/ holder.job = "append" /\ ~Fenced /\ ~IsFeedback(coll.d)

\* The journal is read to be indexed; a torn tail is cut off first.
Repair ==
  /\ At("body") /\ Reads
  /\ dir.journal # Absent /\ dir.journal # Lines(dir.journal)
  /\ Then("body", <<Write("journal", Lines(dir.journal), {}), Fsync("journal"), Sync>>)
  /\ UNCHANGED <<dir, held, coll, spent, wiped, count>>

\* Mutant: writes behind a torn tail.
ReadableTorn == TRUE

Readable == dir.journal = Absent \/ dir.journal = Lines(dir.journal)

\* The budget is charged before the first byte is written.
ExportBody ==
  /\ At("body") /\ holder.job = "export" /\ Readable
  /\ \E lines \in Snapshot(Lines(dir.journal)) :
     LET seq == Largest(Exported) + 1
         total == Number(dir.budget) + Len(lines)
     IN IF dir.budget # Torn /\ Len(lines) \in 0..(ExportBudget - Number(dir.budget))
        THEN Then("end", Replace("btmp", "budget", total, {Torn} \cup 0..(total - 1))
                         \o <<Write("xtmp", [seq |-> seq, lines |-> lines],
                                    {[seq |-> seq, lines |-> c] : c \in Cuts(<<>>, lines)}),
                              Fsync("xtmp"), Do("publish"), Sync>>
                         \o Prune(Cardinality(Exported) + 1))
        ELSE holder' = Free
  /\ UNCHANGED <<dir, held, coll, spent, wiped, count>>

\* Mutant: reports before the directory is synced.
EraseUnsynced ==
  /\ At("body") /\ holder.job = "erase"
  /\ Then("end", <<Do("wipe")>>)
  /\ UNCHANGED <<dir, held, coll, spent, wiped, count>>

EraseBody ==
  /\ At("body") /\ holder.job = "erase"
  /\ Then("end", <<Do("wipe"), Sync>>)
  /\ UNCHANGED <<dir, held, coll, spent, wiped, count>>

\* Mutant: the collector lives on.
AppendFencedStays ==
  /\ At("body") /\ Fenced
  /\ holder' = Free
  /\ UNCHANGED <<dir, held, coll, spent, wiped, count>>

AppendFenced ==
  /\ At("body") /\ Fenced
  /\ coll' = Off /\ holder' = Free
  /\ UNCHANGED <<dir, held, spent, wiped, count>>

\* Mutant: a correction over the budget is dropped like evidence.
ChargedForgiving(lines, plan) ==
  IF coll.exhausted \/ coll.written + lines > WriteBudget
  THEN /\ coll' = [coll EXCEPT !.exhausted = TRUE]
       /\ Then("end", Latch)
  ELSE /\ coll' = [coll EXCEPT !.written = @ + lines]
       /\ Then("end", plan)

\* The plan goes ahead if the collector's write budget allows its lines.
Charged(lines, plan) ==
  IF coll.exhausted \/ lines \notin 0..(WriteBudget - coll.written)
  THEN /\ coll' = [coll EXCEPT !.exhausted = TRUE]
       /\ holder' = [holder EXCEPT !.next = "end", !.plan = Latch,
                                   !.leave = IsFeedback(coll.d)]
  ELSE /\ coll' = [coll EXCEPT !.written = @ + lines]
       /\ Then("end", plan)

AppendFeedback ==
  /\ At("body") /\ holder.job = "append" /\ ~Fenced /\ IsFeedback(coll.d)
  /\ LET new == Corrected(dir.feedback, coll.d.key)
     IN IF ValidFeedback THEN Charged(Len(new), Replace("ftmp", "feedback", new, {Torn}))
        ELSE coll' = Off /\ holder' = Free
  /\ UNCHANGED <<dir, held, spent, wiped, count>>

\* The first gesture of an identity, or the first outcome that fits it.
Accepts(d) ==
  LET known == {l \in ToSet(Lines(dir.journal)) : l.id = d.id}
  IN /\ \A l \in known : ~(IsGesture(l) <=> IsGesture(d))
     /\ IsGesture(d) \/ \E g \in known : IsGesture(g) /\ ValidPair(g, d)

AppendEvidence ==
  /\ At("body") /\ holder.job = "append" /\ Reads /\ Readable
  /\ LET old == IF dir.journal = Absent THEN <<>> ELSE dir.journal
         new == Append(old, coll.d)
     IN IF ~Accepts(coll.d) THEN Then("end", <<>>) /\ UNCHANGED coll
        ELSE IF Len(new) > High
        THEN \E small \in Compacted(new) :
               Charged(Len(small), Replace("jtmp", "journal", small, Cuts(<<>>, small)))
        ELSE Charged(1, <<Write("journal", new, Cuts(old, <<coll.d>>)), Fsync("journal")>>
                        \o IF dir.journal = Absent THEN <<Sync>> ELSE <<>>)
  /\ UNCHANGED <<dir, held, spent, wiped, count>>

Step ==
  /\ holder # Free /\ holder.plan # <<>>
  /\ LET st == Head(holder.plan)
     IN dir' = After(st) /\ held' = Durable(st) /\ spent' = Wrote(st)
  /\ holder' = [holder EXCEPT !.plan = Tail(@)]
  /\ UNCHANGED <<coll, wiped, count>>

Collecting(job) == job \in {"start", "append", "latch"}

Finish ==
  /\ At("end")
  /\ holder' = Free
  /\ coll' = IF ~Collecting(holder.job) THEN coll
             ELSE IF holder.leave THEN Off ELSE Drained(coll)
  /\ wiped' = \/ holder.job = "erase"
              \/ wiped /\ (holder.job = "start" => holder.leave)
  /\ UNCHANGED <<dir, held, spent, count>>

-----------------------------------------------------------------------------
(* What goes wrong.                                                        *)

\* The step at hand is left undone, or half done.
Cut ==
  LET st == Head(holder.plan)
  IN IF holder = Free \/ holder.plan = <<>> THEN UNCHANGED <<dir, held, spent>>
     ELSE /\ dir' \in {dir} \cup Midway(st)
          /\ held' = held \cup {dir'}
          /\ spent' = IF dir' = dir THEN spent ELSE Wrote(st)

\* An operation fails at a step.  Of a datagram only an error in the
\* feedback's own replacement ends the collector.
Fail ==
  /\ holder # Free /\ holder.plan # <<>>
  /\ Use({"faults"})
  /\ Cut
  /\ holder' = Free
  /\ coll' = IF ~Collecting(holder.job) THEN coll
             ELSE IF holder.job = "append" /\ ~(holder.next = "end" /\ IsFeedback(coll.d))
             THEN Drained(coll) ELSE Off
  /\ UNCHANGED wiped

\* Whoever holds the lock is killed.
Kill ==
  /\ holder # Free
  /\ Use({"faults"})
  /\ Cut
  /\ holder' = Free
  /\ coll' = IF Collecting(holder.job) THEN Off ELSE coll
  /\ UNCHANGED wiped

PowerCut ==
  /\ Use({"faults"})
  /\ dir' \in held
  /\ held' = {dir'}
  /\ coll' = Off /\ holder' = Free
  /\ UNCHANGED <<spent, wiped>>

Next ==
  \/ Enable \/ Disable \/ Export \/ Erase
  \/ \E e \in 1..count.epochs : Launch(e)
  \/ GiveUp \/ Start \/ (\E d \in Datagrams : Receive(d)) \/ Overflow \/ Close
  \/ AppendBusy \/ AppendTakes
  \/ Recover \/ Repair \/ ExportBody \/ EraseBody
  \/ AppendFenced \/ AppendFeedback \/ AppendEvidence
  \/ Step \/ Finish
  \/ Fail \/ Kill \/ PowerCut

Spec == Init /\ [][Next]_vars

-----------------------------------------------------------------------------
(* What the store promises.                                                *)

Jobs == {"enable", "disable", "export", "erase", "start", "append", "latch"}

\* The shape of the variables.
TypeOK ==
  /\ held # {} /\ \A s \in held \cup {dir} : DOMAIN s = Files \cup {"exports"}
  /\ coll.pc \in {"off", "starting", "draining", "admitted", "storing"}
  /\ coll.d \in Datagrams \cup {Absent}
  /\ coll.written \in 0..WriteBudget /\ coll.received \in 0..DatagramBudget
  /\ holder # Free =>
       /\ holder.job \in Jobs /\ holder.next \in {"recover", "body", "end"}
       /\ coll.pc = "storing" <=> holder.job \in {"append", "latch"}
  /\ coll.pc = "storing" => holder # Free

Possible == held \cup {dir}

\* Whatever stops whoever writes, at any step, the journal that is left can
\* be indexed once a torn tail is dropped, nothing stands behind a torn line,
\* and the aggregate and every published export are whole (_index,
\* _read_feedback, _validate_export_temporary).
Recoverable ==
  \A s \in Possible :
    /\ Torn \notin ToSet(Lines(s.journal))
    /\ Indexes(Lines(s.journal))
    /\ s.feedback # Torn
    /\ \A n \in DOMAIN s.exports : WholeExport(s.exports[n])

Captured(s) ==
  \/ Lines(s.journal) # <<>> \/ Lines(s.jtmp) # <<>>
  \/ s.feedback # Absent \/ s.ftmp # Absent
  \/ s.xtmp # Absent /\ s.xtmp.lines # <<>>
  \/ \E n \in DOMAIN s.exports : s.exports[n] # <<>>

\* Erased data is gone for good: until a collector is ready again no file
\* holds any of it, and no power cut or recovery brings it back (erase).
ErasedStaysErased == wiped => \A s \in Possible : ~Captured(s)

\* The durable budget covers every line ever written to an export since the
\* last erase began to delete, whichever step of charging, writing,
\* publishing or recovering is interrupted (export, _recover_temporaries).
BudgetCovers ==
  /\ spent <= ExportBudget
  /\ \A s \in Possible :
       s.btmp = Absent /\ s.budget # Torn => spent <= Number(s.budget)

Is(kind) == dir.status = [kind |-> kind, epoch |-> dir.enabled]

\* What Show says of the capture.
Shown ==
  IF dir.enabled = Absent THEN "off"
  ELSE CASE Is("capturing") -> IF Running THEN "capturing" ELSE "stopped"
         [] Is("invalid") \/ Is("unsent") -> "failed"
         [] OTHER -> "armed"

\* Show is wrong about a capture only while a collector starts: past its fence
\* it has sent its snapshot and is of the enabled epoch (_capture_status_unlocked).
MistakenOnlyAtStart ==
  holder = Free /\ Shown = "capturing" /\ coll.pc # "starting" =>
    coll.snap /\ coll.epoch = dir.enabled

\* docs/2026-09-18-swipe-correction-feedback-integration.org: "Neither =capturing=
\* nor =ready= is observable before the complete snapshot is queued."  A collector
\* that starts is shown by its predecessor's status.
CapturingIsReady == holder = Free /\ Shown = "capturing" => coll.snap

\* Nothing a collector received is stored once its epoch is disabled or
\* replaced, also when that happens between admission and append (append).
EpochFence ==
  [][Step /\ holder.job = "append"
     /\ <<dir'.journal, dir'.feedback>> # <<dir.journal, dir.feedback>>
     => coll.epoch = dir.enabled]_vars

\* The collector goes on after a correction's own replacement only if that
\* correction is durable as the newest entry (_append_feedback).
FeedbackKept ==
  [][holder # Free /\ holder.job = "append" /\ holder.next = "end"
     /\ IsFeedback(coll.d) /\ coll'.pc = "draining"
     => \A s \in held' : s.feedback # Absent /\ Last(s.feedback) = coll.d.key]_vars

\* docs/2026-09-18-swipe-correction-feedback-integration.org: "Every
\* persistence exception for a valid admitted feedback record is fatal."
FeedbackIsFatal ==
  [][holder # Free /\ holder.job = "append" /\ IsFeedback(coll.d)
     /\ coll'.pc = "draining"
     => dir'.feedback # Absent /\ Last(dir'.feedback) = coll.d.key]_vars
=============================================================================
