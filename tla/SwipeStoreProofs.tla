-------------------------- MODULE SwipeStoreProofs ---------------------------
(***************************************************************************)
(* Proofs about SwipeStore: nothing stale is stored, nothing erased comes  *)
(* back, the export budget is never overdrawn, Show is honest, a           *)
(* correction the collector survives is durable, and what is left of the   *)
(* files can be read.  The invariant says of every directory a power cut   *)
(* may leave that it is sound, and of the plan of the lock's holder what   *)
(* is still ahead of it.                                                   *)
(***************************************************************************)
EXTENDS SwipeStore, FiniteSetTheorems, TLAPS

Plan == holder.plan

(***************************************************************************)
(* The directories a power cut may leave.                                  *)
(***************************************************************************)

Statuses == [kind : Kinds, epoch : 1 .. count.epochs]

\* A directory with nothing captured in it.
Clean(s) ==
  /\ s.journal = Absent /\ s.jtmp = Absent /\ s.feedback = Absent /\ s.ftmp = Absent
  /\ s.xtmp = Absent \/ s.xtmp.lines = <<>>
  /\ \A n \in DOMAIN s.exports : s.exports[n] = <<>>

Whole(s) ==
  /\ s = [f \in Files \cup {"exports"} |-> s[f]]
  /\ s.enabled \in {Absent} \cup 1 .. count.epochs
  /\ s.status \in {Absent} \cup Statuses
  /\ s.budget \in {Absent, Torn} \cup 0 .. ExportBudget
  /\ s.feedback \in {Absent, Torn} \cup Seq(Keys)
  /\ IsFiniteSet(DOMAIN s.exports)

\* n lines of export are paid for.
Covers(s, n) == s.btmp = Absent /\ s.budget # Torn => n <= Number(s.budget)

Fine(s, n) == Whole(s) /\ Covers(s, n) /\ (wiped => Clean(s))

Sound ==
  /\ held # {}
  /\ \A s \in Possible : Fine(s, spent)
  /\ spent \in 0 .. ExportBudget
  /\ wiped \in BOOLEAN

(***************************************************************************)
(* The collector and the lock.                                             *)
(***************************************************************************)

Collector ==
  /\ coll \in [pc : {"off", "starting", "draining", "admitted", "storing"},
               epoch : Nat, d : Datagrams \cup {Absent}, snap : BOOLEAN,
               exhausted : BOOLEAN, written : 0 .. WriteBudget,
               received : 0 .. DatagramBudget]
  /\ coll.pc = "admitted" => coll.d \in Datagrams
  /\ coll.pc \in {"draining", "admitted", "storing"} =>
       /\ coll.snap /\ ~wiped
       /\ dir.enabled # Absent /\ Is("capturing") => coll.epoch = dir.enabled

Lock ==
  /\ holder = [job |-> holder.job, next |-> holder.next, plan |-> Plan,
               leave |-> holder.leave, changed |-> holder.changed]
  /\ holder.job \in Jobs \cup {"none"} /\ (holder.job = "none" <=> holder = Free)
  /\ holder.next \in {"recover", "body", "end"}
  /\ holder.leave \in BOOLEAN /\ holder.changed \in BOOLEAN
  /\ Plan \in Seq(ToSet(Plan))

Matched ==
  /\ coll.pc = "storing" <=> holder.job \in {"append", "latch"}
  /\ holder.job = "append" =>
       coll.d \in Datagrams /\ (holder.next # "end" => ~holder.leave)
  /\ holder.job = "start" =>
       /\ coll.pc = "starting" /\ coll.epoch = dir.enabled
       /\ holder.leave \/ coll.snap
  /\ holder.job = "erase" => coll.pc \in {"off", "starting"}

(***************************************************************************)
(* The plans.                                                              *)
(***************************************************************************)

\* Steps that are safe at any time.
Harmless(st) ==
  \/ st.op \in {"sync", "prune"}
  \/ st.op = "fsync" /\ st.file \in {"jtmp", "xtmp", "journal"}
  \/ /\ st.op = "write" /\ st.cuts = {}
     /\ \/ st.file = "latch"
        \/ st.full = Absent /\ st.file \in {"jtmp", "ftmp", "xtmp", "status"}

\* Steps that only touch the journal.
Evidence(st) ==
  /\ st.op \in {"write", "fsync", "rename"}
  /\ st.file \in {"journal", "jtmp"} /\ st.to \in {"journal", "jtmp"}

Rest(k) == Len(Plan) >= k /\ \A i \in k + 1 .. Len(Plan) : Harmless(Plan[i])

Goes(i, st) == Plan[i] = st

\* Publishing cannot bring erased data back.
Publishable == wiped => dir.xtmp.lines = <<>>

\* The last k steps of a file's replacement are the next ones.
Replacing(k, tmp, f, v) ==
  \/ k = 0 /\ \A s \in Possible : s[f] = v
  \/ k = 1 /\ Goes(1, Sync) /\ dir[f] = v
  \/ k = 2 /\ Goes(1, Rename(tmp, f)) /\ Goes(2, Sync) /\ dir[tmp] = v
  \/ k = 3 /\ Goes(1, Fsync(tmp)) /\ Goes(2, Rename(tmp, f)) /\ Goes(3, Sync)
     /\ dir[tmp] = v
  \/ k = 4 /\ Plan[1].op = "write" /\ Plan[1].file = tmp /\ Plan[1].full = v
     /\ Goes(2, Fsync(tmp)) /\ Goes(3, Rename(tmp, f)) /\ Goes(4, Sync)

Recovering ==
  \/ Rest(0)
  \/ Rest(2) /\ Goes(1, Fsync("xtmp")) /\ Goes(2, Do("publish")) /\ Publishable
  \/ Rest(1) /\ Goes(1, Do("publish")) /\ Publishable
  \/ Rest(3) /\ Goes(1, Write("budget", ExportBudget, Numbers)) /\ Goes(2, Fsync("budget"))
     /\ Goes(3, Unlink("btmp")) /\ dir.btmp # Absent
  \/ Rest(2) /\ Goes(1, Fsync("budget")) /\ Goes(2, Unlink("btmp"))
     /\ dir.btmp # Absent /\ dir.budget = ExportBudget
  \/ Rest(1) /\ Goes(1, Unlink("btmp")) /\ dir.budget = ExportBudget

Preparing ==
  /\ dir.btmp = Absent
  /\ \/ Rest(0)
     \/ /\ Rest(1) /\ Plan[1] = Write("journal", Plan[1].full, {})
        /\ ~wiped /\ (holder.job = "append" => coll.epoch = dir.enabled)

Enabling ==
  \/ Rest(0)
  \/ /\ Rest(1) /\ Goes(1, Write("enabled", count.epochs, {}))
     /\ count.epochs > 0
     /\ dir.status # Absent => dir.status.epoch < count.epochs

Disabling == Rest(0) \/ (Rest(1) /\ Goes(1, Unlink("enabled")))

Starting ==
  \A i \in DOMAIN Plan :
    \/ Harmless(Plan[i])
    \/ \E kind \in Kinds :
         Goes(i, Write("status", [kind |-> kind, epoch |-> coll.epoch], {}))

\* The k-th step writes the export: what it holds is paid for by then.
Spending(k, total) ==
  /\ Rest(k + 2)
  /\ Plan[k].op = "write" /\ Plan[k].file = "xtmp"
  /\ Goes(k + 1, Fsync("xtmp")) /\ Goes(k + 2, Do("publish"))
  /\ wiped => Plan[k].full.lines = <<>> /\ Plan[k].cuts = {}
  /\ Len(Plan[k].full.lines) \in Nat
  /\ total \in 0 .. ExportBudget
  /\ spent + Len(Plan[k].full.lines) <= total

Exporting ==
  \/ Rest(0)
  \/ Rest(2) /\ Goes(1, Fsync("xtmp")) /\ Goes(2, Do("publish")) /\ Publishable
  \/ Rest(1) /\ Goes(1, Do("publish")) /\ Publishable
  \/ \E k \in 1 .. 5, total \in 0 .. ExportBudget :
       /\ Spending(k, total) /\ Replacing(k - 1, "btmp", "budget", total)
       /\ k = 5 => dir.btmp = Absent

Erasing ==
  \/ Len(Plan) = 2 /\ Goes(1, Do("wipe")) /\ Goes(2, Sync)
  \/ Len(Plan) = 1 /\ Goes(1, Sync) /\ Clean(dir)
  \/ Len(Plan) = 0 /\ \A s \in Possible : Clean(s)

Correcting ==
  \E v \in Seq(Keys) :
    /\ v # <<>> /\ Last(v) = coll.d.key
    /\ Replacing(Len(Plan), "ftmp", "feedback", v)

Appending ==
  /\ coll.epoch = dir.enabled
  /\ IF IsFeedback(coll.d) /\ ~holder.leave THEN Correcting
     ELSE \A i \in DOMAIN Plan : Harmless(Plan[i]) \/ Evidence(Plan[i])

\* What an operation has before it.
Planned ==
  /\ holder.next = "recover" =>
       holder.job \in {"export", "erase", "append"} /\ Recovering
  /\ holder.next = "body" =>
       holder.job \in {"export", "erase", "append"} /\ Preparing
  /\ holder.next = "end" =>
       CASE holder.job = "enable" -> Enabling
         [] holder.job = "disable" -> Disabling
         [] holder.job = "export" -> Exporting
         [] holder.job = "erase" -> Erasing
         [] holder.job = "start" -> Starting
         [] holder.job = "append" -> Appending
         [] OTHER -> Rest(0)

Counted ==
  /\ count = [k \in {"epochs", "sessions", "commands", "faults"} |-> count[k]]
  /\ count.epochs \in Nat

IInv == Counted /\ Sound /\ Collector /\ Lock /\ Matched /\ Planned

-----------------------------------------------------------------------------
(* Sequences and finite sets.                                              *)

\* What is left of a sequence once its first element is gone.
LEMMA TailOf ==
  ASSUME NEW S, NEW p \in Seq(S), p # <<>>
  PROVE  /\ Len(p) \in Nat \ {0} /\ Head(p) = p[1]
         /\ Tail(p) \in Seq(S) /\ Len(Tail(p)) = Len(p) - 1
         /\ \A i \in 1 .. Len(p) - 1 : Tail(p)[i] = p[i + 1]
  OBVIOUS

\* A sequence is one over its own elements.
LEMMA OwnElements ==
  ASSUME NEW S, NEW p \in Seq(S)
  PROVE  p \in Seq(ToSet(p))
<1>1. Len(p) \in Nat /\ DOMAIN p = 1 .. Len(p) /\ p \in [1 .. Len(p) -> S]
  OBVIOUS
<1>2. p \in [1 .. Len(p) -> ToSet(p)]
  BY <1>1 DEF ToSet
<1> QED
  BY <1>1, <1>2

-----------------------------------------------------------------------------
(* Steps of the file system.                                               *)

\* A step that leaves only sound directories, whole or interrupted.
Good(st) ==
  /\ Wrote(st) \in 0 .. ExportBudget
  /\ \A s \in Durable(st) \cup {After(st)} : Fine(s, Wrote(st))

\* Whether a directory is sound depends on the bounds and on wiped only.
LEMMA FineNext ==
  ASSUME wiped' = wiped, count'.epochs = count.epochs, NEW s, NEW n, Fine(s, n)
  PROVE  Fine(s, n)'
  BY DEF Fine, Whole, Covers, Clean, Statuses

\* A good step keeps the directories sound.
LEMMA StepSound ==
  ASSUME Sound, NEW st, Good(st), dir' = After(st), held' = Durable(st),
         spent' = Wrote(st), wiped' = wiped, count'.epochs = count.epochs
  PROVE  Sound'
<1>1. held' # {}
  BY DEF Sound, Durable
<1>2. \A s \in held' \cup {dir'} : Fine(s, spent')
  BY DEF Good
<1>3. \A s \in held' \cup {dir'} : Fine(s, spent)'
  BY <1>2 DEF Fine, Whole, Covers, Clean, Statuses
<1> QED
  BY <1>1, <1>3 DEF Sound, Good, Possible

\* An interruption in the middle of a good step does, too.
LEMMA CutSound ==
  ASSUME Sound, holder # Free /\ Plan # <<>> => Good(Head(Plan)),
         Cut, wiped' = wiped, count'.epochs = count.epochs
  PROVE  Sound'
<1>1. CASE dir' = dir /\ spent' = spent /\ held' \subseteq held \cup {dir} /\ held' # {}
  <2>1. \A s \in held' \cup {dir'} : Fine(s, spent')
    BY <1>1 DEF Sound, Possible
  <2>2. \A s \in held' \cup {dir'} : Fine(s, spent)'
    BY <2>1 DEF Fine, Whole, Covers, Clean, Statuses
  <2> QED
    BY <1>1, <2>2 DEF Sound, Possible
<1>2. CASE ~(dir' = dir /\ spent' = spent /\ held' \subseteq held \cup {dir} /\ held' # {})
  <2> DEFINE st == Head(Plan)
  <2>1. holder # Free /\ Plan # <<>> /\ dir' # dir
    BY <1>2 DEF Cut, Sound, Plan
  <2>2. dir' \in Midway(st) /\ held' = held \cup {dir'} /\ spent' = Wrote(st)
    BY <2>1 DEF Cut, Plan
  <2>3. held \cup Midway(st) \subseteq Durable(st)
    BY <2>2 DEF Midway, Durable
  <2>4. Good(st)
    BY <2>1
  <2> HIDE DEF st
  <2>5. \A s \in held' \cup {dir'} : Fine(s, spent')
    BY <2>2, <2>3, <2>4 DEF Good
  <2>6. \A s \in held' \cup {dir'} : Fine(s, spent)'
    BY <2>5 DEF Fine, Whole, Covers, Clean, Statuses
  <2> QED
    BY <2>2, <2>4, <2>6 DEF Sound, Possible, Good
<1> QED
  BY <1>1, <1>2

\* What a write changes.
LEMMA Written ==
  ASSUME NEW s, NEW f \in Files \cup {"exports"}, NEW c,
         s = [g \in Files \cup {"exports"} |-> s[g]]
  PROVE  /\ [s EXCEPT ![f] = c] =
              [g \in Files \cup {"exports"} |-> [s EXCEPT ![f] = c][g]]
         /\ [s EXCEPT ![f] = c][f] = c
         /\ \A g \in Files \cup {"exports"} : g # f => [s EXCEPT ![f] = c][g] = s[g]
<1> DEFINE t == [s EXCEPT ![f] = c]
<1>1. t = [g \in DOMAIN s |-> IF g = f THEN c ELSE s[g]]
  OBVIOUS
<1>2. DOMAIN s = Files \cup {"exports"}
  OBVIOUS
<1>3. t = [g \in Files \cup {"exports"} |-> IF g = f THEN c ELSE s[g]]
  BY <1>1, <1>2
<1> QED
  BY <1>3

\* Files the bounds do not speak of may be written freely while nothing is
\* to stay erased, and with nothing in them at any time.
LEMMA FreeWrite ==
  ASSUME NEW s, NEW n, Fine(s, n), NEW c,
         NEW f \in {"journal", "jtmp", "ftmp", "latch", "xtmp"},
         wiped => \/ c = Absent \/ f = "latch"
                  \/ f = "xtmp" /\ c.lines = <<>>
  PROVE  Fine([s EXCEPT ![f] = c], n)
<1> DEFINE t == [s EXCEPT ![f] = c]
<1>1. f \in Files
  BY DEF Files
<1>2. /\ t = [g \in Files \cup {"exports"} |-> t[g]] /\ t[f] = c
      /\ \A g \in Files \cup {"exports"} : g # f => t[g] = s[g]
  BY <1>1, Written DEF Fine, Whole
<1> HIDE DEF t
<1>3. /\ t.enabled = s.enabled /\ t.status = s.status /\ t.budget = s.budget
      /\ t.feedback = s.feedback /\ t.exports = s.exports /\ t.btmp = s.btmp
  BY <1>2 DEF Files
<1>4. wiped => Clean(t)
  <2> SUFFICES ASSUME wiped PROVE Clean(t)
    OBVIOUS
  <2>1. Clean(s)
    BY DEF Fine
  <2>2. t.journal = Absent /\ t.jtmp = Absent /\ t.ftmp = Absent
    BY <1>2, <2>1 DEF Clean, Files
  <2>3. t.xtmp = Absent \/ t.xtmp.lines = <<>>
    <3>1. CASE f = "xtmp"
      BY <1>2, <3>1
    <3>2. CASE f # "xtmp"
      BY <1>2, <2>1, <3>2 DEF Clean, Files
    <3> QED
      BY <3>1, <3>2
  <2> QED
    BY <1>3, <2>1, <2>2, <2>3 DEF Clean
<1>5. Whole(t)
  BY <1>2, <1>3 DEF Fine, Whole
<1>6. Covers(t, n)
  BY <1>3 DEF Fine, Covers
<1>7. Fine(t, n)
  BY <1>4, <1>5, <1>6 DEF Fine
<1> QED
  BY <1>7 DEF t

\* A write is good when whatever it may leave is.
LEMMA WriteGood ==
  ASSUME NEW st, st.op = "write", Wrote(st) \in 0 .. ExportBudget,
         \A s \in held : Fine(s, Wrote(st)),
         \A c \in st.cuts \cup {st.full} : Fine([dir EXCEPT ![st.file] = c], Wrote(st))
  PROVE  Good(st)
<1>1. After(st) = [dir EXCEPT ![st.file] = st.full]
  BY DEF After
<1>2. Midway(st) = {[dir EXCEPT ![st.file] = c] : c \in st.cuts}
  BY DEF Midway
<1>3. Durable(st) = held \cup Midway(st) \cup {After(st)}
  BY DEF Durable
<1> QED
  BY <1>1, <1>2, <1>3 DEF Good

\* Only a write of an export spends, and only a wipe starts again.
LEMMA SpendsNothing ==
  ASSUME NEW st, st.op # "wipe",
         st.op = "write" => st.file # "xtmp" \/ st.full = Absent
  PROVE  Wrote(st) = spent
  BY DEF Wrote

\* A sync of one file is good when its contents fit every directory.
LEMMA FsyncGood ==
  ASSUME Sound, NEW st, st.op = "fsync",
         \A s \in held : s[st.file] # Absent =>
                           Fine([s EXCEPT ![st.file] = dir[st.file]], spent)
  PROVE  Good(st)
<1>1. Wrote(st) = spent /\ After(st) = dir
  BY DEF Wrote, After
<1>2. Durable(st) = {IF s[st.file] = Absent THEN s
                     ELSE [s EXCEPT ![st.file] = dir[st.file]] : s \in held}
  BY DEF Durable
<1>3. spent \in 0 .. ExportBudget /\ \A s \in held \cup {dir} : Fine(s, spent)
  BY DEF Sound, Possible
<1> QED
  BY <1>1, <1>2, <1>3 DEF Good

\* What is left when files and exports are removed.
LEMMA Removed ==
  ASSUME Sound, NEW S \in SUBSET Managed, NEW X, NEW n, n = spent \/ n = 0,
         n = 0 \/ S \cap {"btmp", "budget"} = {}
  PROVE  /\ Fine(Cleared(S, X), n)
         /\ \A f \in Files : Cleared(S, X)[f] = IF f \in S THEN Absent ELSE dir[f]
         /\ Cleared(S, X).exports = [m \in Exported \ X |-> dir.exports[m]]
<1> DEFINE t == Cleared(S, X)
<1>1. Fine(dir, spent)
  BY DEF Sound, Possible
<1>2. dir = [f \in Files \cup {"exports"} |-> dir[f]]
  BY <1>1 DEF Fine, Whole
<1>3. "exports" \notin S /\ S \subseteq Files /\ "enabled" \notin S
  BY DEF Managed, Files
<1>4. Without(dir, S) = [f \in Files \cup {"exports"} |-> IF f \in S THEN Absent ELSE dir[f]]
  BY <1>2 DEF Without
<1>5. t = [f \in Files \cup {"exports"} |->
             IF f = "exports" THEN [m \in Exported \ X |-> dir.exports[m]]
             ELSE IF f \in S THEN Absent ELSE dir[f]]
  BY <1>4 DEF Cleared
<1> HIDE DEF t
<1>6. /\ t = [f \in Files \cup {"exports"} |-> t[f]]
      /\ \A f \in Files : t[f] = IF f \in S THEN Absent ELSE dir[f]
      /\ t.exports = [m \in Exported \ X |-> dir.exports[m]]
  BY <1>5 DEF Files
<1>7. /\ t.enabled = dir.enabled /\ t.status \in {Absent, dir.status}
      /\ t.budget \in {Absent, dir.budget} /\ t.feedback \in {Absent, dir.feedback}
  BY <1>3, <1>6 DEF Files
<1>8. IsFiniteSet(DOMAIN t.exports)
  <2>1. IsFiniteSet(Exported)
    BY <1>1 DEF Fine, Whole, Exported
  <2>2. DOMAIN t.exports = Exported \ X
    BY <1>6
  <2> QED
    BY <2>1, <2>2, FS_Subset
<1>9. Whole(t)
  BY <1>1, <1>6, <1>7, <1>8 DEF Fine, Whole
<1>10. Covers(t, n)
  <2>1. n \in Nat /\ ExportBudget \in Nat
    BY StoreAssumption DEF Sound
  <2>2. CASE n = 0
    BY <1>9, <2>1, <2>2 DEF Covers, Whole, Number
  <2>3. CASE n # 0
    <3>1. t.btmp = dir.btmp /\ n = spent
      BY <1>6, <2>3 DEF Files
    <3>2. t.budget = dir.budget
      BY <1>6, <2>3 DEF Files
    <3> QED
      BY <3>1, <3>2, <1>1 DEF Fine, Covers, Number
  <2> QED
    BY <2>2, <2>3
<1>11. wiped => Clean(t)
  BY <1>1, <1>6 DEF Fine, Clean, Files, Exported
<1> QED
  BY <1>6, <1>9, <1>10, <1>11 DEF Fine, t

\* Once the wipe is complete nothing captured is left.
LEMMA WipedClean ==
  ASSUME Sound
  PROVE  Clean(Cleared(Managed, Exported))
<1> DEFINE t == Cleared(Managed, Exported)
<1>1. /\ \A f \in Files : t[f] = IF f \in Managed THEN Absent ELSE dir[f]
      /\ t.exports = [m \in Exported \ Exported |-> dir.exports[m]]
  <2>1. \A S \in SUBSET Managed :
          /\ \A f \in Files : Cleared(S, Exported)[f] = IF f \in S THEN Absent ELSE dir[f]
          /\ Cleared(S, Exported).exports = [m \in Exported \ Exported |-> dir.exports[m]]
    BY Removed
  <2> QED
    BY <2>1
<1> HIDE DEF t
<1>2. /\ t.journal = Absent /\ t.jtmp = Absent /\ t.feedback = Absent
      /\ t.ftmp = Absent /\ t.xtmp = Absent
  BY <1>1 DEF Files, Managed
<1>3. DOMAIN t.exports = {}
  BY <1>1
<1>4. Clean(t)
  BY <1>2, <1>3 DEF Clean
<1> QED
  BY <1>4 DEF t

\* Harmless steps are good.
LEMMA HarmlessGood ==
  ASSUME Sound, NEW st, Harmless(st)
  PROVE  Good(st)
<1>0. spent \in 0 .. ExportBudget /\ Fine(dir, spent) /\ \A s \in held : Fine(s, spent)
  BY DEF Sound, Possible
<1>1. CASE st.op = "sync"
  <2>1. Wrote(st) = spent /\ Durable(st) = {dir} /\ After(st) = dir
    BY <1>1 DEF Wrote, Durable, After
  <2> QED
    BY <1>0, <2>1 DEF Good
<1>2. CASE st.op = "prune"
  <2> DEFINE X == {n \in Exported : \A m \in Exported : n <= m}
  <2>1. Wrote(st) = spent /\ Durable(st) = held \cup {After(st)} /\ After(st) = Cleared({}, X)
    BY <1>2 DEF Wrote, Durable, After, Midway
  <2>2. Fine(Cleared({}, X), spent)
    <3> HIDE DEF X
    <3>1. \A S \in SUBSET Managed : S \cap {"btmp", "budget"} = {} =>
                                      Fine(Cleared(S, X), spent)
      BY Removed
    <3> QED
      BY <3>1
  <2> QED
    BY <1>0, <2>1, <2>2 DEF Good
<1>3. CASE st.op = "fsync" /\ st.file \in {"jtmp", "xtmp", "journal"}
  <2>1. \A s \in held : Fine([s EXCEPT ![st.file] = dir[st.file]], spent)
    <3> TAKE s \in held
    <3>1. wiped => \/ dir[st.file] = Absent
                   \/ st.file = "xtmp" /\ dir[st.file].lines = <<>>
      BY <1>0, <1>3 DEF Fine, Clean
    <3>2. Fine(s, spent) /\ st.file \in {"journal", "jtmp", "ftmp", "latch", "xtmp"}
      BY <1>0, <1>3
    <3> QED
      BY <3>1, <3>2, FreeWrite
  <2> QED
    BY <1>3, <2>1, FsyncGood
<1>4. CASE /\ st.op = "write" /\ st.cuts = {}
           /\ \/ st.file = "latch"
              \/ st.full = Absent /\ st.file \in {"jtmp", "ftmp", "xtmp"}
  <2>1. Wrote(st) = spent
    BY <1>4, SpendsNothing
  <2>2. Fine([dir EXCEPT ![st.file] = st.full], spent)
    BY <1>0, <1>4, FreeWrite
  <2> QED
    BY <1>0, <1>4, <2>1, <2>2, WriteGood
<1>5. CASE st.op = "write" /\ st.cuts = {} /\ st.file = "status" /\ st.full = Absent
  <2> DEFINE S == {"status"}
             t == [dir EXCEPT !["status"] = Absent]
  <2>1. Wrote(st) = spent
    BY <1>5, SpendsNothing
  <2>2. /\ t = [g \in Files \cup {"exports"} |-> t[g]] /\ t["status"] = Absent
        /\ \A g \in Files \cup {"exports"} : g # "status" => t[g] = dir[g]
    <3>1. "status" \in Files
      BY DEF Files
    <3> QED
      BY <1>0, <3>1, Written DEF Fine, Whole
  <2> HIDE DEF t
  <2>3. Fine(t, spent)
    BY <1>0, <2>2 DEF Fine, Whole, Covers, Clean, Files
  <2> QED
    BY <1>0, <1>5, <2>1, <2>3, WriteGood DEF t
<1> QED
  BY <1>1, <1>2, <1>3, <1>4, <1>5 DEF Harmless

\* So are the steps of an append, while nothing is to stay erased.
LEMMA EvidenceGood ==
  ASSUME Sound, NEW st, Evidence(st), ~wiped
  PROVE  Good(st)
<1>0. spent \in 0 .. ExportBudget /\ Fine(dir, spent) /\ \A s \in held : Fine(s, spent)
  BY DEF Sound, Possible
<1>1. Wrote(st) = spent
  BY SpendsNothing DEF Evidence
<1>2. CASE st.op = "write"
  <2>1. \A c \in st.cuts \cup {st.full} : Fine([dir EXCEPT ![st.file] = c], spent)
    BY <1>0, FreeWrite DEF Evidence
  <2> QED
    BY <1>0, <1>1, <1>2, <2>1, WriteGood
<1>3. CASE st.op = "fsync"
  <2>1. \A s \in held : Fine([s EXCEPT ![st.file] = dir[st.file]], spent)
    BY <1>0, FreeWrite DEF Evidence
  <2> QED
    BY <1>3, <2>1, FsyncGood
<1>4. CASE st.op = "rename"
  <2> DEFINE t == [dir EXCEPT ![st.to] = dir[st.file]]
  <2>1. Fine(t, spent)
    BY <1>0, FreeWrite DEF Evidence
  <2> HIDE DEF t
  <2>2. Fine([t EXCEPT ![st.file] = Absent], spent)
    BY <2>1, FreeWrite DEF Evidence
  <2>3. After(st) = [t EXCEPT ![st.file] = Absent]
    BY <1>4 DEF After, t
  <2>4. Durable(st) = held \cup {After(st)}
    BY <1>4 DEF Durable, Midway
  <2> QED
    BY <1>0, <1>1, <2>2, <2>3, <2>4 DEF Good
<1> QED
  BY <1>2, <1>3, <1>4 DEF Evidence

\* A wipe is good however far it gets.
LEMMA WipeGood ==
  ASSUME Sound, NEW st, st.op = "wipe"
  PROVE  Good(st)
<1>0. spent \in 0 .. ExportBudget /\ \A s \in held : Fine(s, spent)
  BY DEF Sound, Possible
<1>1. Wrote(st) = 0 /\ 0 \in 0 .. ExportBudget
  BY <1>0, StoreAssumption DEF Wrote
<1>2. \A S \in SUBSET Managed, X \in SUBSET Exported : Fine(Cleared(S, X), 0)
  BY Removed
<1>3. After(st) = Cleared(Managed, Exported)
  BY DEF After
<1>4. Midway(st) = {Cleared(S, X) : S \in SUBSET {f \in Managed : dir[f] # Absent},
                                    X \in SUBSET Exported}
  BY DEF Midway
<1>5. Durable(st) = held \cup Midway(st) \cup {After(st)}
  BY DEF Durable
<1>6. \A s \in held : Fine(s, 0)
  <2> SUFFICES ASSUME NEW s \in held PROVE Fine(s, 0)
    OBVIOUS
  <2>1. Fine(s, spent) /\ ExportBudget \in Nat
    BY <1>0, StoreAssumption
  <2>2. Covers(s, 0)
    BY <2>1 DEF Fine, Whole, Covers, Number
  <2> QED
    BY <2>1, <2>2 DEF Fine
<1>7. \A s \in Midway(st) \cup {After(st)} : Fine(s, 0)
  <2>1. Fine(After(st), 0)
    BY <1>2, <1>3
  <2>2. \A s \in Midway(st) : Fine(s, 0)
    BY <1>2, <1>4
  <2> QED
    BY <2>1, <2>2
<1> QED
  BY <1>1, <1>5, <1>6, <1>7 DEF Good

\* A marker is replaced by a value of its kind.
LEMMA MarkGood ==
  ASSUME Sound, NEW f \in {"enabled", "status"}, NEW v,
         f = "enabled" => v \in {Absent} \cup 1 .. count.epochs,
         f = "status" => v \in {Absent} \cup Statuses
  PROVE  Good(Write(f, v, {}))
<1>0. Fine(dir, spent) /\ \A s \in held : Fine(s, spent)
  BY DEF Sound, Possible
<1> DEFINE st == Write(f, v, {})
           t == [dir EXCEPT ![f] = v]
<1>1. /\ st.op = "write" /\ st.file = f /\ st.full = v /\ st.cuts = {}
      /\ Wrote(st) = spent
  BY DEF Write, Wrote
<1>2. /\ t = [g \in Files \cup {"exports"} |-> t[g]] /\ t[f] = v
      /\ \A g \in Files \cup {"exports"} : g # f => t[g] = dir[g]
  <2>1. f \in Files
    BY DEF Files
  <2> QED
    BY <1>0, <2>1, Written DEF Fine, Whole
<1> HIDE DEF st, t
<1>3. Fine(t, spent)
  BY <1>0, <1>2 DEF Fine, Whole, Covers, Clean, Files
<1>4. spent \in 0 .. ExportBudget
  BY DEF Sound
<1>5. Good(st)
  BY <1>0, <1>1, <1>3, <1>4, WriteGood DEF t
<1> QED
  BY <1>5 DEF st

\* The temporary of the budget may hold anything before it is renamed, but
\* that it was Absent.
LEMMA BudgetOpened ==
  ASSUME Sound, NEW st, st.op = "write", st.file = "btmp", dir.btmp = Absent
  PROVE  Good(st)
<1>0. spent \in 0 .. ExportBudget /\ Fine(dir, spent) /\ \A s \in held : Fine(s, spent)
  BY DEF Sound, Possible
<1>1. Wrote(st) = spent
  BY SpendsNothing
<1>2. ASSUME NEW c PROVE Fine([dir EXCEPT !["btmp"] = c], spent)
  <2> DEFINE t == [dir EXCEPT !["btmp"] = c]
  <2>1. /\ t = [g \in Files \cup {"exports"} |-> t[g]]
        /\ \A g \in Files \cup {"exports"} : g # "btmp" => t[g] = dir[g]
    <3>1. "btmp" \in Files
      BY DEF Files
    <3> QED
      BY <1>0, <3>1, Written DEF Fine, Whole
  <2> HIDE DEF t
  <2>2. Fine(t, spent)
    BY <1>0, <2>1 DEF Fine, Whole, Covers, Clean, Files
  <2> QED
    BY <2>2 DEF t
<1> QED
  BY <1>0, <1>1, <1>2, WriteGood

\* The new budget is fsynced before anything depends on it.
LEMMA BudgetSynced ==
  ASSUME Sound, NEW total \in 0 .. ExportBudget, dir.btmp = total
  PROVE  Good(Fsync("btmp"))
<1>0. \A s \in held : Fine(s, spent)
  BY DEF Sound, Possible
<1>1. ASSUME NEW s \in held PROVE Fine([s EXCEPT !["btmp"] = total], spent)
  <2> DEFINE t == [s EXCEPT !["btmp"] = total]
  <2>1. /\ t = [g \in Files \cup {"exports"} |-> t[g]] /\ t["btmp"] = total
        /\ \A g \in Files \cup {"exports"} : g # "btmp" => t[g] = s[g]
    <3>1. "btmp" \in Files
      BY DEF Files
    <3> QED
      BY <1>0, <3>1, Written DEF Fine, Whole
  <2> HIDE DEF t
  <2>2. total # Absent
    BY StoreAssumption
  <2>3. Covers(t, spent)
    BY <2>1, <2>2 DEF Covers
  <2>4. Fine(t, spent)
    BY <1>0, <2>1, <2>3 DEF Fine, Whole, Clean, Files
  <2> QED
    BY <2>4 DEF t
<1> DEFINE st == Fsync("btmp")
<1>2. st.op = "fsync" /\ st.file = "btmp"
  BY DEF Fsync
<1> HIDE DEF st
<1>3. Good(st)
  BY <1>1, <1>2, FsyncGood
<1> QED
  BY <1>3 DEF st

\* The new budget takes the place of the old one: it covers what was spent.
LEMMA BudgetRenamed ==
  ASSUME Sound, NEW total \in 0 .. ExportBudget, dir.btmp = total, spent <= total
  PROVE  Good(Rename("btmp", "budget"))
<1>0. spent \in 0 .. ExportBudget /\ Fine(dir, spent) /\ \A s \in held : Fine(s, spent)
  BY DEF Sound, Possible
<1> DEFINE st == Rename("btmp", "budget")
           u == [dir EXCEPT !["budget"] = dir["btmp"]]
           t == [u EXCEPT !["btmp"] = Absent]
<1>1. /\ After(st) = t /\ Wrote(st) = spent /\ Durable(st) = held \cup {After(st)}
  <2>1. st.op = "rename" /\ st.file = "btmp" /\ st.to = "budget"
    BY DEF Rename
  <2> HIDE DEF st
  <2>2. After(st) = t
    BY <2>1 DEF After
  <2> QED
    BY <2>1, <2>2 DEF Wrote, Durable, Midway
<1>2. /\ u = [g \in Files \cup {"exports"} |-> u[g]] /\ u["budget"] = total
      /\ \A g \in Files \cup {"exports"} : g # "budget" => u[g] = dir[g]
  <2>1. "budget" \in Files
    BY DEF Files
  <2> QED
    BY <1>0, <2>1, Written DEF Fine, Whole
<1>3. /\ t = [g \in Files \cup {"exports"} |-> t[g]] /\ t["btmp"] = Absent
      /\ \A g \in Files \cup {"exports"} : g # "btmp" => t[g] = u[g]
  <2> HIDE DEF u
  <2>1. "btmp" \in Files
    BY DEF Files
  <2> QED
    BY <1>2, <2>1, Written
<1> HIDE DEF st, u, t
<1>4. t.budget = total /\ total # Absent
  BY <1>2, <1>3, StoreAssumption DEF Files
<1>5. \A g \in (Files \cup {"exports"}) \ {"btmp", "budget"} : t[g] = dir[g]
  BY <1>2, <1>3
<1>6. Fine(t, spent)
  <2>1. Whole(t)
    BY <1>0, <1>3, <1>4, <1>5 DEF Fine, Whole, Files
  <2>2. Covers(t, spent)
    BY <1>4 DEF Covers, Number
  <2>3. wiped => Clean(t)
    BY <1>0, <1>5 DEF Fine, Clean, Files
  <2> QED
    BY <2>1, <2>2, <2>3 DEF Fine
<1>7. Good(st)
  BY <1>0, <1>1, <1>6 DEF Good
<1> QED
  BY <1>7 DEF st

\* The recovery of the budget: all of it counts as spent before its temporary
\* goes.
LEMMA BudgetFilled ==
  ASSUME Sound, dir.btmp # Absent
  PROVE  Good(Write("budget", ExportBudget, Numbers))
<1>0. spent \in 0 .. ExportBudget /\ Fine(dir, spent) /\ \A s \in held : Fine(s, spent)
  BY DEF Sound, Possible
<1> DEFINE st == Write("budget", ExportBudget, Numbers)
<1>1. /\ st.op = "write" /\ st.file = "budget" /\ Wrote(st) = spent
      /\ \A c \in st.cuts \cup {st.full} : c \in {Torn} \cup 0 .. ExportBudget
  BY StoreAssumption DEF Write, Wrote, Numbers
<1> HIDE DEF st
<1>2. ASSUME NEW c \in {Torn} \cup 0 .. ExportBudget
      PROVE  Fine([dir EXCEPT !["budget"] = c], spent)
  <2> DEFINE t == [dir EXCEPT !["budget"] = c]
  <2>1. /\ t = [g \in Files \cup {"exports"} |-> t[g]] /\ t["budget"] = c
        /\ \A g \in Files \cup {"exports"} : g # "budget" => t[g] = dir[g]
    <3>1. "budget" \in Files
      BY DEF Files
    <3> QED
      BY <1>0, <3>1, Written DEF Fine, Whole
  <2> HIDE DEF t
  <2>2. Fine(t, spent)
    BY <1>0, <2>1 DEF Fine, Whole, Covers, Clean, Files
  <2> QED
    BY <2>2 DEF t
<1>3. Good(st)
  BY <1>0, <1>1, <1>2, WriteGood
<1> QED
  BY <1>3 DEF st

\* Recovery fills the budget up, and fsyncs it where it stands.
LEMMA FilledSynced ==
  ASSUME Sound, dir.budget = ExportBudget
  PROVE  Good(Fsync("budget"))
<1>0. \A s \in held : Fine(s, spent)
  BY DEF Sound, Possible
<1>1. ASSUME NEW s \in held PROVE Fine([s EXCEPT !["budget"] = ExportBudget], spent)
  <2> DEFINE t == [s EXCEPT !["budget"] = ExportBudget]
  <2>1. /\ t = [g \in Files \cup {"exports"} |-> t[g]] /\ t["budget"] = ExportBudget
        /\ \A g \in Files \cup {"exports"} : g # "budget" => t[g] = s[g]
    <3>1. "budget" \in Files
      BY DEF Files
    <3> QED
      BY <1>0, <3>1, Written DEF Fine, Whole
  <2> HIDE DEF t
  <2>2. ExportBudget \in Nat /\ ExportBudget # Absent /\ spent <= ExportBudget
    BY StoreAssumption DEF Sound
  <2>3. Fine(t, spent)
    BY <1>0, <2>1, <2>2 DEF Fine, Whole, Covers, Number, Clean, Files
  <2> QED
    BY <2>3 DEF t
<1> DEFINE st == Fsync("budget")
<1>2. st.op = "fsync" /\ st.file = "budget"
  BY DEF Fsync
<1> HIDE DEF st
<1>3. Good(st)
  BY <1>1, <1>2, FsyncGood
<1> QED
  BY <1>3 DEF st

\* The temporary budget goes only when the budget is full.
LEMMA FilledKept ==
  ASSUME Sound, dir.budget = ExportBudget
  PROVE  Good(Unlink("btmp"))
<1>0. spent \in 0 .. ExportBudget /\ Fine(dir, spent) /\ \A s \in held : Fine(s, spent)
  BY DEF Sound, Possible
<1> DEFINE st == Unlink("btmp")
           t == [dir EXCEPT !["btmp"] = Absent]
<1>1. /\ st.op = "write" /\ st.file = "btmp" /\ st.full = Absent /\ st.cuts = {}
      /\ Wrote(st) = spent
  BY DEF Unlink, Write, Wrote
<1>2. /\ t = [g \in Files \cup {"exports"} |-> t[g]]
      /\ \A g \in Files \cup {"exports"} : g # "btmp" => t[g] = dir[g]
  <2>1. "btmp" \in Files
    BY DEF Files
  <2> QED
    BY <1>0, <2>1, Written DEF Fine, Whole
<1> HIDE DEF st, t
<1>3. ExportBudget \in Nat /\ ExportBudget # Absent
  BY StoreAssumption
<1>4. Fine(t, spent)
  BY <1>0, <1>2, <1>3 DEF Fine, Whole, Covers, Number, Clean, Files
<1>5. Good(st)
  BY <1>0, <1>1, <1>4, WriteGood DEF t
<1> QED
  BY <1>5 DEF st

\* An export is written when every directory that may be left has paid for it.
LEMMA ExportWritten ==
  ASSUME Sound, NEW st, st.op = "write", st.file = "xtmp",
         NEW total \in 0 .. ExportBudget, \A s \in Possible : s["budget"] = total,
         Len(st.full.lines) \in Nat, spent + Len(st.full.lines) <= total,
         wiped => st.full.lines = <<>> /\ st.cuts = {}
  PROVE  Good(st)
<1> DEFINE n == Wrote(st)
<1>1. n \in {spent, spent + Len(st.full.lines)}
  BY DEF Wrote
<1> DEFINE k == Len(st.full.lines)
<1>2. k \in Nat /\ spent + k <= total /\ n \in {spent, spent + k}
  BY <1>1
<1>3. ExportBudget \in Nat /\ spent \in 0 .. ExportBudget
  BY StoreAssumption DEF Sound
<1> HIDE DEF n, k
<1>4. n \in 0 .. ExportBudget /\ n <= total
  BY <1>2, <1>3
<1>5. total # Absent
  <2>1. total \in Nat /\ Absent \notin Nat
    BY <1>3, StoreAssumption
  <2> QED
    BY <2>1
<1>6. n \in 0 .. ExportBudget /\ n <= total /\ total # Absent
  BY <1>4, <1>5
<1>7. ASSUME NEW s \in held \cup {dir} PROVE Fine(s, n)
  <2>1. Fine(s, spent) /\ s.budget = total
    BY <1>7 DEF Sound, Possible
  <2>2. Covers(s, n)
    BY <1>6, <2>1 DEF Covers, Number
  <2> QED
    BY <2>1, <2>2 DEF Fine
<1>8. \A c \in st.cuts \cup {st.full} : Fine([dir EXCEPT !["xtmp"] = c], n)
  BY <1>7, FreeWrite
<1> QED
  BY <1>6, <1>7, <1>8, WriteGood DEF n

\* What is published was in the temporary.
LEMMA PublishGood ==
  ASSUME Sound, Publishable
  PROVE  Good(Do("publish"))
<1>0. spent \in 0 .. ExportBudget /\ Fine(dir, spent) /\ \A s \in held : Fine(s, spent)
  BY DEF Sound, Possible
<1> DEFINE st == Do("publish")
           all == [n \in Exported \cup {dir.xtmp.seq} |->
                     IF n = dir.xtmp.seq THEN dir.xtmp.lines ELSE dir.exports[n]]
           u == [dir EXCEPT !["exports"] = all]
           t == [u EXCEPT !["xtmp"] = Absent]
<1>1. /\ After(st) = t /\ Wrote(st) = spent /\ Durable(st) = held \cup {After(st)}
  <2>1. st.op = "publish"
    BY DEF Do
  <2> HIDE DEF st
  <2>2. After(st) = t
    BY <2>1 DEF After
  <2> QED
    BY <2>1, <2>2 DEF Wrote, Durable, Midway
<1>2. /\ u = [g \in Files \cup {"exports"} |-> u[g]] /\ u["exports"] = all
      /\ \A g \in Files \cup {"exports"} : g # "exports" => u[g] = dir[g]
  <2> HIDE DEF all
  <2> QED
    BY <1>0, Written DEF Fine, Whole
<1>3. /\ t = [g \in Files \cup {"exports"} |-> t[g]] /\ t["xtmp"] = Absent
      /\ \A g \in Files \cup {"exports"} : g # "xtmp" => t[g] = u[g]
  <2> HIDE DEF u
  <2>1. "xtmp" \in Files
    BY DEF Files
  <2> QED
    BY <1>2, <2>1, Written
<1>4. IsFiniteSet(DOMAIN all)
  <2>1. IsFiniteSet(Exported)
    BY <1>0 DEF Fine, Whole, Exported
  <2>2. IsFiniteSet(Exported \cup {dir.xtmp.seq})
    BY <2>1, FS_AddElement
  <2> QED
    BY <2>2
<1>5. wiped => \A n \in DOMAIN all : all[n] = <<>>
  BY <1>0 DEF Fine, Clean, Exported, Publishable
<1> HIDE DEF st, all, u, t
<1>6. t.exports = all /\ t.xtmp = Absent
  BY <1>2, <1>3 DEF Files
<1>7. \A g \in (Files \cup {"exports"}) \ {"exports", "xtmp"} : t[g] = dir[g]
  BY <1>2, <1>3
<1>8. Fine(t, spent)
  <2>1. Whole(t)
    BY <1>0, <1>3, <1>4, <1>6, <1>7 DEF Fine, Whole, Files
  <2>2. Covers(t, spent)
    BY <1>0, <1>7 DEF Fine, Covers, Number, Files
  <2>3. wiped => Clean(t)
    BY <1>0, <1>5, <1>6, <1>7 DEF Fine, Clean, Files
  <2> QED
    BY <2>1, <2>2, <2>3 DEF Fine
<1>9. Good(st)
  BY <1>0, <1>1, <1>8 DEF Good
<1> QED
  BY <1>9 DEF st

\* The three steps that replace the aggregate.
LEMMA CorrectionGood ==
  ASSUME Sound, ~wiped, NEW st,
         \/ st.op \in {"write", "fsync"} /\ st.file = "ftmp"
         \/ st = Rename("ftmp", "feedback") /\ dir["ftmp"] \in Seq(Keys)
  PROVE  Good(st)
<1>0. spent \in 0 .. ExportBudget /\ Fine(dir, spent) /\ \A s \in held : Fine(s, spent)
  BY DEF Sound, Possible
<1>1. CASE st.op = "write" /\ st.file = "ftmp"
  <2>1. Wrote(st) = spent
    BY <1>1, SpendsNothing
  <2>2. \A c \in st.cuts \cup {st.full} : Fine([dir EXCEPT ![st.file] = c], spent)
    BY <1>0, <1>1, FreeWrite
  <2> QED
    BY <1>0, <1>1, <2>1, <2>2, WriteGood
<1>2. CASE st.op = "fsync" /\ st.file = "ftmp"
  <2>1. \A s \in held : Fine([s EXCEPT ![st.file] = dir[st.file]], spent)
    BY <1>0, <1>2, FreeWrite
  <2> QED
    BY <1>2, <2>1, FsyncGood
<1>3. CASE st = Rename("ftmp", "feedback") /\ dir["ftmp"] \in Seq(Keys)
  <2> DEFINE u == [dir EXCEPT !["feedback"] = dir["ftmp"]]
             t == [u EXCEPT !["ftmp"] = Absent]
  <2>1. st.op = "rename" /\ st.file = "ftmp" /\ st.to = "feedback"
    BY <1>3 DEF Rename
  <2>2. After(st) = t
    BY <2>1 DEF After
  <2>3. Wrote(st) = spent /\ Durable(st) = held \cup {After(st)}
    BY <2>1 DEF Wrote, Durable, Midway
  <2>4. /\ u = [g \in Files \cup {"exports"} |-> u[g]] /\ u["feedback"] = dir["ftmp"]
        /\ \A g \in Files \cup {"exports"} : g # "feedback" => u[g] = dir[g]
    <3>1. "feedback" \in Files
      BY DEF Files
    <3> QED
      BY <1>0, <3>1, Written DEF Fine, Whole
  <2> HIDE DEF u, t
  <2>5. Fine(u, spent)
    BY <1>0, <1>3, <2>4 DEF Fine, Whole, Covers, Files
  <2>6. Fine(t, spent)
    BY <2>5, FreeWrite DEF t
  <2> QED
    BY <1>0, <2>2, <2>3, <2>6 DEF Good
<1> QED
  BY <1>1, <1>2, <1>3

-----------------------------------------------------------------------------
(* Whatever an operation does next is good.                                *)

\* The next step of a recovery is good.
LEMMA RecoveryGood ==
  ASSUME Sound, Recovering, Len(Plan) \in Nat \ {0}
  PROVE  Good(Plan[1])
<1>1. CASE Rest(0)
  BY <1>1, HarmlessGood DEF Rest
<1>2. CASE Goes(1, Fsync("xtmp"))
  BY <1>2, HarmlessGood DEF Goes, Fsync, Harmless
<1>3. CASE Goes(1, Do("publish")) /\ Publishable
  BY <1>3, PublishGood DEF Goes
<1>4. CASE Goes(1, Write("budget", ExportBudget, Numbers)) /\ dir.btmp # Absent
  BY <1>4, BudgetFilled DEF Goes
<1>5. CASE Goes(1, Fsync("budget")) /\ dir.budget = ExportBudget
  BY <1>5, FilledSynced DEF Goes
<1>6. CASE Goes(1, Unlink("btmp")) /\ dir.budget = ExportBudget
  BY <1>6, FilledKept DEF Goes
<1> QED
  BY <1>1, <1>2, <1>3, <1>4, <1>5, <1>6 DEF Recovering

\* The next step before the body of an operation is good.
LEMMA PreparationGood ==
  ASSUME Sound, Preparing, Len(Plan) \in Nat \ {0}
  PROVE  Good(Plan[1])
<1>1. CASE Rest(0)
  BY <1>1, HarmlessGood DEF Rest
<1>2. CASE Plan[1] = Write("journal", Plan[1].full, {}) /\ ~wiped
  <2>1. Evidence(Plan[1])
    BY <1>2 DEF Write, Evidence
  <2> QED
    BY <1>2, <2>1, EvidenceGood
<1> QED
  BY <1>1, <1>2 DEF Preparing

\* The next step of an export is good: it spends no more than was charged.
LEMMA ExportGood ==
  ASSUME Sound, Exporting, Len(Plan) \in Nat \ {0}
  PROVE  Good(Plan[1])
<1>1. CASE Rest(0)
  BY <1>1, HarmlessGood DEF Rest
<1>2. CASE Goes(1, Fsync("xtmp"))
  BY <1>2, HarmlessGood DEF Goes, Fsync, Harmless
<1>3. CASE Goes(1, Do("publish")) /\ Publishable
  BY <1>3, PublishGood DEF Goes
<1>4. ASSUME NEW k \in 1 .. 5, NEW total \in 0 .. ExportBudget,
             Spending(k, total), Replacing(k - 1, "btmp", "budget", total),
             k = 5 => dir.btmp = Absent
      PROVE  Good(Plan[1])
  <2>1. CASE k = 1
    <3>1. \A s \in Possible : s["budget"] = total
      BY <1>4, <2>1 DEF Replacing
    <3> QED
      BY <1>4, <2>1, <3>1, ExportWritten DEF Spending
  <2>2. CASE k = 2
    <3>1. Harmless(Plan[1])
      BY <1>4, <2>2 DEF Replacing, Goes, Sync, Do, Harmless
    <3> QED
      BY <3>1, HarmlessGood
  <2>3. CASE k = 3
    <3>1. Plan[1] = Rename("btmp", "budget") /\ dir.btmp = total
      BY <1>4, <2>3 DEF Replacing, Goes
    <3>2. spent <= total
      <4> DEFINE n == Len(Plan[k].full.lines)
      <4>1. n \in Nat /\ spent + n <= total
        BY <1>4 DEF Spending
      <4>2. spent \in Nat /\ total \in Nat
        BY StoreAssumption DEF Sound
      <4> HIDE DEF n
      <4> QED
        BY <4>1, <4>2
    <3> QED
      BY <3>1, <3>2, BudgetRenamed
  <2>4. CASE k = 4
    <3>1. Plan[1] = Fsync("btmp") /\ dir.btmp = total
      BY <1>4, <2>4 DEF Replacing, Goes
    <3> QED
      BY <3>1, BudgetSynced
  <2>5. CASE k = 5
    <3>1. Plan[1].op = "write" /\ Plan[1].file = "btmp"
      BY <1>4, <2>5 DEF Replacing
    <3> QED
      BY <1>4, <2>5, <3>1, BudgetOpened
  <2> QED
    BY <1>4, <2>1, <2>2, <2>3, <2>4, <2>5
<1> QED
  BY <1>1, <1>2, <1>3, <1>4 DEF Exporting

\* The next step of an append is good: nothing is to stay erased then.
LEMMA AppendGood ==
  ASSUME Sound, Appending, ~wiped, Len(Plan) \in Nat \ {0},
         DOMAIN Plan = 1 .. Len(Plan)
  PROVE  Good(Plan[1])
<1>1. CASE IsFeedback(coll.d) /\ ~holder.leave
  <2>1. PICK v \in Seq(Keys) : Replacing(Len(Plan), "ftmp", "feedback", v)
    BY <1>1 DEF Appending, Correcting
  <2>2. \/ Plan[1] = Sync
        \/ Plan[1].op \in {"write", "fsync"} /\ Plan[1].file = "ftmp"
        \/ Plan[1] = Rename("ftmp", "feedback") /\ dir["ftmp"] \in Seq(Keys)
    BY <2>1 DEF Replacing, Goes, Fsync
  <2>3. CASE Plan[1] = Sync
    <3>1. Harmless(Plan[1])
      BY <2>3 DEF Sync, Do, Harmless
    <3> QED
      BY <3>1, HarmlessGood
  <2>4. CASE Plan[1] # Sync
    BY <2>2, <2>4, CorrectionGood
  <2> QED
    BY <2>3, <2>4
<1>2. CASE ~(IsFeedback(coll.d) /\ ~holder.leave)
  <2>1. Harmless(Plan[1]) \/ Evidence(Plan[1])
    BY <1>2 DEF Appending
  <2> QED
    BY <2>1, HarmlessGood, EvidenceGood
<1> QED
  BY <1>1, <1>2

\* Whatever the holder of the lock does next is good.
LEMMA PlanGood ==
  ASSUME Sound, Counted, Collector, Lock, Matched, Planned, Plan # <<>>
  PROVE  Good(Head(Plan))
<1>1. /\ Len(Plan) \in Nat \ {0} /\ Head(Plan) = Plan[1] /\ DOMAIN Plan = 1 .. Len(Plan)
  <2>1. Plan \in Seq(ToSet(Plan))
    BY DEF Lock
  <2> HIDE DEF Plan
  <2> QED
    BY <2>1, TailOf
<1>2. Rest(0) => Good(Plan[1])
  BY <1>1, HarmlessGood DEF Rest
<1>3. CASE holder.next = "recover"
  BY <1>1, <1>3, RecoveryGood DEF Planned
<1>4. CASE holder.next = "body"
  BY <1>1, <1>4, PreparationGood DEF Planned
<1>5. CASE holder.next = "end"
  <2>1. CASE holder.job = "enable"
    <3>1. CASE Goes(1, Write("enabled", count.epochs, {})) /\ count.epochs > 0
      <4>1. count.epochs \in 1 .. count.epochs
        BY <3>1 DEF Counted
      <4> QED
        BY <1>1, <3>1, <4>1, MarkGood DEF Goes
    <3> QED
      BY <1>2, <1>1, <1>5, <2>1, <3>1 DEF Planned, Enabling
  <2>2. CASE holder.job = "disable"
    <3>1. CASE Goes(1, Unlink("enabled"))
      BY <1>1, <3>1, MarkGood DEF Goes, Unlink
    <3> QED
      BY <1>2, <1>1, <1>5, <2>2, <3>1 DEF Planned, Disabling
  <2>3. CASE holder.job = "export"
    BY <1>1, <1>5, <2>3, ExportGood DEF Planned
  <2>4. CASE holder.job = "erase"
    <3>1. Erasing
      BY <1>5, <2>4 DEF Planned
    <3>2. CASE Goes(1, Do("wipe"))
      <4>1. Plan[1].op = "wipe"
        BY <3>2 DEF Goes, Do
      <4> QED
        BY <1>1, <4>1, WipeGood
    <3>3. CASE Goes(1, Sync)
      <4>1. Harmless(Plan[1])
        BY <3>3 DEF Goes, Sync, Do, Harmless
      <4> QED
        BY <1>1, <4>1, HarmlessGood
    <3> QED
      BY <1>1, <3>1, <3>2, <3>3 DEF Erasing
  <2>5. CASE holder.job = "start"
    <3>1. Starting /\ coll.epoch = dir.enabled /\ coll.epoch \in Nat
      BY <1>5, <2>5 DEF Planned, Matched, Collector
    <3>2. CASE Harmless(Plan[1])
      BY <1>1, <3>2, HarmlessGood
    <3>3. ASSUME NEW kind \in Kinds,
                 Goes(1, Write("status", [kind |-> kind, epoch |-> coll.epoch], {}))
          PROVE  Good(Plan[1])
      <4>1. coll.epoch \in 1 .. count.epochs
        BY <3>1, StoreAssumption DEF Sound, Possible, Fine, Whole
      <4>2. [kind |-> kind, epoch |-> coll.epoch] \in Statuses
        BY <4>1 DEF Statuses
      <4> QED
        BY <3>3, <4>2, MarkGood DEF Goes
    <3>4. \/ Harmless(Plan[1])
          \/ \E kind \in Kinds :
               Goes(1, Write("status", [kind |-> kind, epoch |-> coll.epoch], {}))
      <4>1. 1 \in DOMAIN Plan
        BY <1>1
      <4> QED
        BY <3>1, <4>1 DEF Starting
    <3> QED
      BY <1>1, <3>2, <3>3, <3>4
  <2>6. CASE holder.job = "append"
    <3>1. ~wiped
      BY <2>6 DEF Matched, Collector
    <3> QED
      BY <1>1, <1>5, <2>6, <3>1, AppendGood DEF Planned
  <2>7. CASE holder.job \in {"latch", "none"}
    BY <1>1, <1>2, <1>5, <2>7 DEF Planned
  <2> QED
    BY <2>1, <2>2, <2>3, <2>4, <2>5, <2>6, <2>7 DEF Lock, Jobs
<1> QED
  BY <1>3, <1>4, <1>5 DEF Lock

-----------------------------------------------------------------------------
(* What a step leaves alone.                                               *)

\* A write changes its file and no other.
LEMMA AfterWrite ==
  ASSUME Sound, NEW st, st.op = "write", st.file \in Files
  PROVE  /\ After(st)[st.file] = st.full
         /\ \A g \in Files \cup {"exports"} : g # st.file => After(st)[g] = dir[g]
<1>1. dir = [g \in Files \cup {"exports"} |-> dir[g]]
  BY DEF Sound, Possible, Fine, Whole
<1>2. After(st) = [dir EXCEPT ![st.file] = st.full]
  BY DEF After
<1> QED
  BY <1>1, <1>2, Written

\* A rename moves one file over another.
LEMMA AfterRename ==
  ASSUME Sound, NEW st, st.op = "rename", st.file \in Files, st.to \in Files,
         st.file # st.to
  PROVE  /\ After(st)[st.to] = dir[st.file] /\ After(st)[st.file] = Absent
         /\ \A g \in Files \cup {"exports"} :
              g \notin {st.file, st.to} => After(st)[g] = dir[g]
<1>1. dir = [g \in Files \cup {"exports"} |-> dir[g]]
  BY DEF Sound, Possible, Fine, Whole
<1> DEFINE u == [dir EXCEPT ![st.to] = dir[st.file]]
<1>2. After(st) = [u EXCEPT ![st.file] = Absent]
  BY DEF After
<1>3. /\ u = [g \in Files \cup {"exports"} |-> u[g]] /\ u[st.to] = dir[st.file]
      /\ \A g \in Files \cup {"exports"} : g # st.to => u[g] = dir[g]
  BY <1>1, Written
<1> HIDE DEF u
<1>4. /\ After(st)[st.file] = Absent
      /\ \A g \in Files \cup {"exports"} : g # st.file => After(st)[g] = u[g]
  BY <1>2, <1>3, Written
<1> QED
  BY <1>3, <1>4

\* Publishing touches the exports and their temporary only.
LEMMA AfterPublish ==
  ASSUME Sound
  PROVE  \A g \in Files : g # "xtmp" => After(Do("publish"))[g] = dir[g]
<1> DEFINE all == [n \in Exported \cup {dir.xtmp.seq} |->
                     IF n = dir.xtmp.seq THEN dir.xtmp.lines ELSE dir.exports[n]]
           st == Do("publish")
<1>1. dir = [g \in Files \cup {"exports"} |-> dir[g]]
  BY DEF Sound, Possible, Fine, Whole
<1>2. st.op = "publish"
  BY DEF Do
<1> HIDE DEF st
<1>3. After(st) = [dir EXCEPT !["exports"] = all, !["xtmp"] = Absent]
  BY <1>2 DEF After
<1> HIDE DEF all
<1>4. \A g \in Files : g # "xtmp" => After(st)[g] = dir[g]
  BY <1>1, <1>3 DEF Files
<1> QED
  BY <1>4 DEF st

\* A harmless step changes neither the markers, except that it may clear the
\* status, nor the budget, nor what is stored.
LEMMA HarmlessLeaves ==
  ASSUME Sound, NEW st, Harmless(st)
  PROVE  /\ \A g \in {"enabled", "btmp", "budget", "journal", "feedback"} :
              After(st)[g] = dir[g]
         /\ After(st)["status"] \in {dir["status"], Absent}
<1>1. CASE st.op \in {"sync", "fsync"}
  BY <1>1 DEF After
<1>2. CASE st.op = "prune"
  <2> DEFINE X == {n \in Exported : \A m \in Exported : n <= m}
  <2>1. After(st) = Cleared({}, X)
    BY <1>2 DEF After
  <2> HIDE DEF X
  <2>2. \A S \in SUBSET Managed :
          /\ \A f \in Files : Cleared(S, X)[f] = IF f \in S THEN Absent ELSE dir[f]
          /\ Cleared(S, X).exports = [m \in Exported \ X |-> dir.exports[m]]
    BY Removed
  <2>3. {} \in SUBSET Managed
    OBVIOUS
  <2>4. \A f \in Files : Cleared({}, X)[f] = IF f \in {} THEN Absent ELSE dir[f]
    BY <2>2, <2>3
  <2>5. \A f \in Files : After(st)[f] = dir[f]
    BY <2>1, <2>4
  <2> QED
    BY <2>5 DEF Files
<1>3. CASE st.op = "write"
  <2>1. st.file \in Files /\ (st.file = "status" => st.full = Absent)
        /\ st.file \notin {"enabled", "btmp", "budget", "journal", "feedback"}
    BY <1>3 DEF Harmless, Files
  <2> QED
    BY <1>3, <2>1, AfterWrite DEF Files
<1> QED
  BY <1>1, <1>2, <1>3 DEF Harmless

\* What a step does to the plan.
LEMMA PlanStep ==
  ASSUME Lock, Step
  PROVE  /\ Plan # <<>> /\ Len(Plan) \in Nat \ {0} /\ DOMAIN Plan = 1 .. Len(Plan)
         /\ Len(Plan') = Len(Plan) - 1 /\ DOMAIN Plan' = 1 .. Len(Plan')
         /\ \A i \in 1 .. Len(Plan) - 1 : Plan'[i] = Plan[i + 1]
         /\ dir' = After(Plan[1]) /\ held' = Durable(Plan[1]) /\ spent' = Wrote(Plan[1])
         /\ holder'.job = holder.job /\ holder'.next = holder.next
         /\ holder'.leave = holder.leave
         /\ UNCHANGED <<coll, wiped, count>>
         /\ Lock'
<1>1. holder # Free /\ Plan # <<>>
  BY DEF Step, Plan
<1>2. holder' = [holder EXCEPT !.plan = Tail(Plan)]
  BY DEF Step, Plan
<1>3. /\ holder'.job = holder.job /\ holder'.next = holder.next
      /\ holder'.leave = holder.leave /\ holder'.changed = holder.changed
      /\ Plan' = Tail(Plan)
      /\ holder' = [job |-> holder'.job, next |-> holder'.next, plan |-> Plan',
                    leave |-> holder'.leave, changed |-> holder'.changed]
  BY <1>2 DEF Lock, Plan
<1>4. Plan \in Seq(ToSet(Plan))
  BY DEF Lock
<1> DEFINE S == ToSet(Plan)
           p == Plan
           q == Tail(p)
<1>5. p \in Seq(S) /\ p # <<>>
  BY <1>1, <1>4
<1> HIDE DEF S, p
<1>6. /\ Len(p) \in Nat \ {0} /\ Head(p) = p[1] /\ q \in Seq(S) /\ Len(q) = Len(p) - 1
      /\ \A i \in 1 .. Len(p) - 1 : q[i] = p[i + 1]
      /\ DOMAIN p = 1 .. Len(p) /\ DOMAIN q = 1 .. Len(q)
  BY <1>5, TailOf
<1>7. q \in Seq(ToSet(q))
  BY <1>6, OwnElements
<1>8. holder'.job # "none" /\ holder' # Free
  <2>1. holder.job # "none"
    BY <1>1 DEF Lock
  <2> QED
    BY <1>3, <2>1 DEF Free
<1>9. Lock'
  <2>1. Plan' \in Seq(ToSet(Plan'))
    BY <1>3, <1>7 DEF p
  <2> QED
    BY <1>3, <1>8, <2>1 DEF Lock
<1>10. dir' = After(Head(p)) /\ held' = Durable(Head(p)) /\ spent' = Wrote(Head(p))
  BY DEF Step, p, Plan
<1>11. UNCHANGED <<coll, wiped, count>>
  BY DEF Step
<1> QED
  BY <1>1, <1>3, <1>6, <1>9, <1>10, <1>11 DEF p

\* One step less, and the rest of the plan is as harmless as it was.
LEMMA RestStep ==
  ASSUME Lock, Step
  PROVE  /\ \A k \in 1 .. 8 : Rest(k) => Rest(k - 1)'
         /\ Rest(0) => Rest(0)'
         /\ \A k \in 1 .. 8 : \A st : Goes(k + 1, st) /\ k < Len(Plan) => Goes(k, st)'
<1>1. /\ Len(Plan) \in Nat \ {0} /\ Len(Plan') = Len(Plan) - 1
      /\ \A i \in 1 .. Len(Plan) - 1 : Plan'[i] = Plan[i + 1]
  BY PlanStep
<1> DEFINE p == Plan
           q == Plan'
<1>2. /\ Len(p) \in Nat \ {0} /\ Len(q) = Len(p) - 1
      /\ \A i \in 1 .. Len(p) - 1 : q[i] = p[i + 1]
  BY <1>1
<1> HIDE DEF p, q
<1>3. ASSUME NEW k \in 1 .. 8, Len(p) >= k, \A i \in k + 1 .. Len(p) : Harmless(p[i])
      PROVE  Len(q) >= k - 1 /\ \A i \in (k - 1) + 1 .. Len(q) : Harmless(q[i])
  BY <1>2, <1>3
<1>4. ASSUME \A i \in 0 + 1 .. Len(p) : Harmless(p[i])
      PROVE  Len(q) >= 0 /\ \A i \in 0 + 1 .. Len(q) : Harmless(q[i])
  BY <1>2, <1>4
<1>5. \A k \in 1 .. 8 : \A st : p[k + 1] = st /\ k < Len(p) => q[k] = st
  BY <1>2
<1>6. \A k \in 1 .. 8 : Rest(k) => Rest(k - 1)'
  BY <1>3 DEF Rest, Harmless, p, q
<1>7. Rest(0) => Rest(0)'
  BY <1>4 DEF Rest, Harmless, p, q
<1>8. \A k \in 1 .. 8 : \A st : Goes(k + 1, st) /\ k < Len(Plan) => Goes(k, st)'
  BY <1>5 DEF Goes, p, q
<1> QED
  BY <1>6, <1>7, <1>8

\* The markers stay, but that the status may be cleared.
MarkersStay == dir'.enabled = dir.enabled /\ dir'.status \in {dir.status, Absent}

\* What was captured and corrected stays.
StoredStay == dir'.journal = dir.journal /\ dir'.feedback = dir.feedback

\* A harmless step leaves the markers, the journal and the aggregate, except
\* that it may remove the status.
LEMMA HarmlessStep ==
  ASSUME Sound, Lock, Step, Harmless(Plan[1])
  PROVE  MarkersStay /\ StoredStay /\ dir'.btmp = dir.btmp /\ dir'.budget = dir.budget
<1>1. dir' = After(Plan[1])
  BY PlanStep
<1> QED
  BY <1>1, HarmlessLeaves DEF MarkersStay, StoredStay

\* A recovery goes on; it stores nothing and changes no marker.
LEMMA RecoveryStep ==
  ASSUME Sound, Lock, Step, Recovering
  PROVE  Recovering' /\ MarkersStay /\ StoredStay
<1>1. dir' = After(Plan[1]) /\ wiped' = wiped /\ Len(Plan) \in Nat \ {0}
  BY PlanStep
<1>2. /\ \A k \in 1 .. 8 : Rest(k) => Rest(k - 1)' /\ Len(Plan) >= k
      /\ Rest(0) => Rest(0)'
      /\ \A k \in 1 .. 8 : \A st : Goes(k + 1, st) /\ k < Len(Plan) => Goes(k, st)'
  BY RestStep DEF Rest
<1>3. CASE Rest(0)
  <2>1. Harmless(Plan[1])
    BY <1>1, <1>3 DEF Rest
  <2> QED
    BY <1>2, <1>3, <2>1, HarmlessStep DEF Recovering
<1>4. CASE Rest(2) /\ Goes(1, Fsync("xtmp")) /\ Goes(2, Do("publish")) /\ Publishable
  <2>1. Plan[1].op = "fsync" /\ Plan[1].file = "xtmp"
    BY <1>4 DEF Goes, Fsync
  <2>2. dir' = dir
    BY <1>1, <2>1 DEF After
  <2>3. Rest(1)'
    BY <1>2, <1>4
  <2>4. Goes(1, Do("publish"))'
    BY <1>2, <1>4
  <2>5. Publishable'
    BY <1>1, <1>4, <2>2 DEF Publishable
  <2> QED
    BY <2>2, <2>3, <2>4, <2>5 DEF Recovering, MarkersStay, StoredStay
<1>5. CASE Rest(1) /\ Goes(1, Do("publish")) /\ Publishable
  <2>1. dir' = After(Do("publish"))
    BY <1>1, <1>5 DEF Goes
  <2>2. MarkersStay /\ StoredStay
    BY <2>1, AfterPublish DEF MarkersStay, StoredStay, Files
  <2>3. Rest(0)'
    BY <1>2, <1>5
  <2> QED
    BY <2>2, <2>3 DEF Recovering
<1>6. CASE /\ Rest(3) /\ Goes(1, Write("budget", ExportBudget, Numbers))
           /\ Goes(2, Fsync("budget")) /\ Goes(3, Unlink("btmp")) /\ dir.btmp # Absent
  <2>1. Plan[1].op = "write" /\ Plan[1].file = "budget" /\ Plan[1].full = ExportBudget
    BY <1>6 DEF Goes, Write
  <2>2. /\ dir'.budget = ExportBudget
        /\ \A g \in Files \cup {"exports"} : g # "budget" => dir'[g] = dir[g]
    <3>1. "budget" \in Files
      BY DEF Files
    <3> QED
      BY <1>1, <2>1, <3>1, AfterWrite
  <2>3. Rest(2)'
    BY <1>2, <1>6
  <2>4. Goes(1, Fsync("budget"))' /\ Goes(2, Unlink("btmp"))'
    BY <1>2, <1>6
  <2>5. dir'.btmp # Absent /\ MarkersStay /\ StoredStay
    BY <1>6, <2>2 DEF MarkersStay, StoredStay, Files
  <2> QED
    BY <2>2, <2>3, <2>4, <2>5 DEF Recovering
<1>7. CASE /\ Rest(2) /\ Goes(1, Fsync("budget")) /\ Goes(2, Unlink("btmp"))
           /\ dir.btmp # Absent /\ dir.budget = ExportBudget
  <2>1. Plan[1].op = "fsync"
    BY <1>7 DEF Goes, Fsync
  <2>2. dir' = dir
    BY <1>1, <2>1 DEF After
  <2>3. Rest(1)' /\ Goes(1, Unlink("btmp"))'
    BY <1>2, <1>7
  <2> QED
    BY <1>7, <2>2, <2>3 DEF Recovering, MarkersStay, StoredStay
<1>8. CASE Rest(1) /\ Goes(1, Unlink("btmp")) /\ dir.budget = ExportBudget
  <2>1. Plan[1].op = "write" /\ Plan[1].file = "btmp"
    BY <1>8 DEF Goes, Unlink, Write
  <2>2. \A g \in Files \cup {"exports"} : g # "btmp" => dir'[g] = dir[g]
    <3>1. "btmp" \in Files
      BY DEF Files
    <3> QED
      BY <1>1, <2>1, <3>1, AfterWrite
  <2>3. MarkersStay /\ StoredStay
    BY <2>2 DEF MarkersStay, StoredStay, Files
  <2>4. Rest(0)'
    BY <1>2, <1>8
  <2> QED
    BY <2>3, <2>4 DEF Recovering
<1> QED
  BY <1>3, <1>4, <1>5, <1>6, <1>7, <1>8 DEF Recovering

\* While a plan is prepared only the repair of the journal stores anything,
\* and an append repairs in its own epoch only.
LEMMA PreparationStep ==
  ASSUME Sound, Lock, Step, Preparing
  PROVE  /\ Preparing' /\ MarkersStay
         /\ StoredStay \/ (holder.job = "append" => coll.epoch = dir.enabled)
<1>1. /\ dir' = After(Plan[1]) /\ wiped' = wiped /\ Len(Plan) \in Nat \ {0}
      /\ coll' = coll /\ holder'.job = holder.job
  BY PlanStep
<1>2. (Rest(1) => Rest(0)') /\ (Rest(0) => Rest(0)')
  BY RestStep
<1>3. dir.btmp = Absent
  BY DEF Preparing
<1>4. CASE Rest(0)
  <2>1. Harmless(Plan[1])
    BY <1>1, <1>4 DEF Rest
  <2> QED
    BY <1>2, <1>3, <1>4, <2>1, HarmlessStep DEF Preparing
<1>5. CASE /\ Rest(1) /\ Plan[1] = Write("journal", Plan[1].full, {})
           /\ ~wiped /\ (holder.job = "append" => coll.epoch = dir.enabled)
  <2>1. Plan[1].op = "write" /\ Plan[1].file = "journal"
    BY <1>5 DEF Write
  <2>2. \A g \in Files \cup {"exports"} : g # "journal" => dir'[g] = dir[g]
    <3>1. "journal" \in Files
      BY DEF Files
    <3> QED
      BY <1>1, <2>1, <3>1, AfterWrite
  <2>3. MarkersStay /\ dir'.btmp = Absent
    BY <1>3, <2>2 DEF MarkersStay, Files
  <2> QED
    BY <1>2, <1>5, <2>3 DEF Preparing
<1> QED
  BY <1>4, <1>5 DEF Preparing

\* A replacement advances, and touches its two files only.
LEMMA ReplacingStep ==
  ASSUME Sound, Lock, Step, NEW k \in 1 .. 4, Len(Plan) >= k,
         NEW v \in Nat \cup Seq(Keys),
         NEW tmp \in Files, NEW f \in Files, tmp # f, Replacing(k, tmp, f, v)
  PROVE  /\ Replacing(k - 1, tmp, f, v)'
         /\ \A g \in Files : g \notin {tmp, f} => dir'[g] = dir[g]
<1>1. dir' = After(Plan[1]) /\ held' = Durable(Plan[1]) /\ Len(Plan) \in Nat \ {0}
  BY PlanStep
<1>2. \A i \in 1 .. 8 : \A st : Goes(i + 1, st) /\ i < Len(Plan) => Goes(i, st)'
  BY RestStep
<1>3. CASE k = 1
  <2>1. Plan[1].op = "sync" /\ dir[f] = v
    BY <1>3 DEF Replacing, Goes, Sync, Do
  <2>2. dir' = dir /\ held' = {dir}
    BY <1>1, <2>1 DEF After, Durable
  <2>3. \A s \in Possible' : s[f] = v
    BY <2>1, <2>2 DEF Possible
  <2> QED
    BY <1>3, <2>2, <2>3 DEF Replacing
<1>4. CASE k = 2
  <2>1. /\ Plan[1].op = "rename" /\ Plan[1].file = tmp /\ Plan[1].to = f
        /\ dir[tmp] = v /\ Goes(2, Sync)
    BY <1>4 DEF Replacing, Goes, Rename
  <2>2. dir'[f] = v /\ \A g \in Files : g \notin {tmp, f} => dir'[g] = dir[g]
    BY <1>1, <2>1, AfterRename
  <2>3. Goes(1, Sync)'
    BY <1>2, <1>4, <2>1
  <2> QED
    BY <1>4, <2>2, <2>3 DEF Replacing
<1>5. CASE k = 3
  <2>1. /\ Plan[1].op = "fsync" /\ dir[tmp] = v
        /\ Goes(2, Rename(tmp, f)) /\ Goes(3, Sync)
    BY <1>5 DEF Replacing, Goes, Fsync
  <2>2. dir' = dir
    BY <1>1, <2>1 DEF After
  <2>3. Goes(1, Rename(tmp, f))' /\ Goes(2, Sync)'
    BY <1>2, <1>5, <2>1
  <2> QED
    BY <1>5, <2>1, <2>2, <2>3 DEF Replacing
<1>6. CASE k = 4
  <2>1. /\ Plan[1].op = "write" /\ Plan[1].file = tmp /\ Plan[1].full = v
        /\ Goes(2, Fsync(tmp)) /\ Goes(3, Rename(tmp, f)) /\ Goes(4, Sync)
    BY <1>6 DEF Replacing
  <2>2. dir'[tmp] = v /\ \A g \in Files : g # tmp => dir'[g] = dir[g]
    BY <1>1, <2>1, AfterWrite
  <2>3. Goes(1, Fsync(tmp))' /\ Goes(2, Rename(tmp, f))' /\ Goes(3, Sync)'
    BY <1>2, <1>6, <2>1
  <2> QED
    BY <1>6, <2>2, <2>3 DEF Replacing
<1> QED
  BY <1>3, <1>4, <1>5, <1>6

\* The k-th step of an export's plan becomes the one before.
LEMMA SpendingStep ==
  ASSUME Lock, Step, Sound, NEW k \in 2 .. 5, NEW total \in 0 .. ExportBudget,
         Spending(k, total), spent' = spent
  PROVE  Spending(k - 1, total)'
<1>1. /\ Len(Plan) \in Nat \ {0} /\ wiped' = wiped
      /\ \A i \in 1 .. Len(Plan) - 1 : Plan'[i] = Plan[i + 1]
  BY PlanStep
<1>2. Rest(k + 2) => Rest((k + 2) - 1)'
  BY RestStep
<1>3. (k + 2) - 1 = (k - 1) + 2
  OBVIOUS
<1>4. Rest((k - 1) + 2)' /\ Len(Plan) >= k + 2
  BY <1>2, <1>3 DEF Spending, Rest
<1>5. /\ Plan'[k - 1] = Plan[k] /\ Plan'[(k - 1) + 1] = Plan[k + 1]
      /\ Plan'[(k - 1) + 2] = Plan[k + 2]
  <2>1. {k - 1, k, k + 1} \subseteq 1 .. Len(Plan) - 1
    BY <1>1, <1>4
  <2>2. (k - 1) + 1 = k /\ (k - 1) + 2 = k + 1 /\ (k + 1) + 1 = k + 2
    OBVIOUS
  <2> QED
    BY <1>1, <2>1, <2>2
<1> QED
  BY <1>1, <1>4, <1>5 DEF Spending, Goes

\* Nothing is written for an export before it is paid for.
LEMMA ExportStep ==
  ASSUME Sound, Lock, Step, Exporting
  PROVE  Exporting' /\ MarkersStay /\ StoredStay
<1>1. dir' = After(Plan[1]) /\ wiped' = wiped /\ Len(Plan) \in Nat \ {0}
      /\ spent' = Wrote(Plan[1])
  BY PlanStep
<1>2. /\ \A k \in 1 .. 8 : Rest(k) => Rest(k - 1)' /\ Len(Plan) >= k
      /\ Rest(0) => Rest(0)'
      /\ \A k \in 1 .. 8 : \A st : Goes(k + 1, st) /\ k < Len(Plan) => Goes(k, st)'
  BY RestStep DEF Rest
<1>3. CASE Rest(0)
  <2>1. Harmless(Plan[1])
    BY <1>1, <1>3 DEF Rest
  <2> QED
    BY <1>2, <1>3, <2>1, HarmlessStep DEF Exporting
<1>4. CASE Rest(2) /\ Goes(1, Fsync("xtmp")) /\ Goes(2, Do("publish")) /\ Publishable
  <2>1. Plan[1].op = "fsync"
    BY <1>4 DEF Goes, Fsync
  <2>2. dir' = dir
    BY <1>1, <2>1 DEF After
  <2>3. Rest(1)' /\ Goes(1, Do("publish"))'
    BY <1>2, <1>4
  <2>4. Publishable'
    BY <1>1, <1>4, <2>2 DEF Publishable
  <2> QED
    BY <2>2, <2>3, <2>4 DEF Exporting, MarkersStay, StoredStay
<1>5. CASE Rest(1) /\ Goes(1, Do("publish")) /\ Publishable
  <2>1. dir' = After(Do("publish"))
    BY <1>1, <1>5 DEF Goes
  <2>2. MarkersStay /\ StoredStay
    BY <2>1, AfterPublish DEF MarkersStay, StoredStay, Files
  <2>3. Rest(0)'
    BY <1>2, <1>5
  <2> QED
    BY <2>2, <2>3 DEF Exporting
<1>6. ASSUME NEW k \in 1 .. 5, NEW total \in 0 .. ExportBudget,
             Spending(k, total), Replacing(k - 1, "btmp", "budget", total),
             k = 5 => dir.btmp = Absent
      PROVE  Exporting' /\ MarkersStay /\ StoredStay
  <2>1. Rest(k + 2) /\ Len(Plan) >= k + 2
    BY <1>2, <1>6 DEF Spending
  <2>2. CASE k = 1
    <3>1. /\ Plan[1].op = "write" /\ Plan[1].file = "xtmp"
          /\ Goes(2, Fsync("xtmp")) /\ Goes(3, Do("publish")) /\ Rest(3)
          /\ wiped => Plan[1].full.lines = <<>>
      BY <1>6, <2>2 DEF Spending
    <3>2. /\ dir'["xtmp"] = Plan[1].full
          /\ \A g \in Files \cup {"exports"} : g # "xtmp" => dir'[g] = dir[g]
      <4>1. "xtmp" \in Files
        BY DEF Files
      <4> QED
        BY <1>1, <3>1, <4>1, AfterWrite
    <3>3. MarkersStay /\ StoredStay
      BY <3>2 DEF MarkersStay, StoredStay, Files
    <3>4. Publishable'
      BY <1>1, <3>1, <3>2 DEF Publishable
    <3>5. Rest(2)' /\ Goes(1, Fsync("xtmp"))' /\ Goes(2, Do("publish"))'
      BY <1>2, <3>1
    <3> QED
      BY <3>3, <3>4, <3>5 DEF Exporting
  <2>3. CASE k \in 2 .. 5
    <3>1. k - 1 \in 1 .. 4 /\ (k - 1) - 1 = k - 2 /\ Len(Plan) >= k - 1
      BY <2>1, <2>3, <1>1
    <3>2. "btmp" \in Files /\ "budget" \in Files
      BY DEF Files
    <3>3. /\ Replacing((k - 1) - 1, "btmp", "budget", total)'
          /\ \A g \in Files : g \notin {"btmp", "budget"} => dir'[g] = dir[g]
      <4>1. PICK j \in 1 .. 4 : j = k - 1
        BY <3>1
      <4>2. Len(Plan) >= j /\ Replacing(j, "btmp", "budget", total) /\ "btmp" # "budget"
        BY <1>6, <3>1, <4>1
      <4> total \in Nat \cup Seq(Keys)
        BY StoreAssumption
      <4>3. /\ Replacing(j - 1, "btmp", "budget", total)'
            /\ \A g \in Files : g \notin {"btmp", "budget"} => dir'[g] = dir[g]
        BY <3>2, <4>2, ReplacingStep
      <4> QED
        BY <4>1, <4>3
    <3>4. MarkersStay /\ StoredStay
      BY <3>3 DEF MarkersStay, StoredStay, Files
    <3>5. spent' = spent
      <4>1. \/ Plan[1].op \in {"sync", "fsync", "rename"}
            \/ Plan[1].op = "write" /\ Plan[1].file = "btmp"
        BY <1>6, <2>3 DEF Replacing, Goes, Sync, Do, Rename, Fsync
      <4> QED
        BY <1>1, <4>1, SpendsNothing
    <3>6. Spending(k - 1, total)'
      BY <1>6, <2>3, <3>5, SpendingStep
    <3>7. k - 1 \in 1 .. 5 /\ k - 1 # 5
      BY <2>3
    <3> QED
      BY <3>3, <3>4, <3>6, <3>7 DEF Exporting
  <2> QED
    BY <2>2, <2>3
<1> QED
  BY <1>3, <1>4, <1>5, <1>6 DEF Exporting

\* An append that stores something does so in its own epoch.
LEMMA AppendStep ==
  ASSUME Sound, Lock, Step, Appending
  PROVE  Appending' /\ MarkersStay
<1>1. /\ dir' = After(Plan[1]) /\ Len(Plan) \in Nat \ {0} /\ coll' = coll
      /\ holder'.leave = holder.leave /\ Len(Plan') = Len(Plan) - 1
      /\ DOMAIN Plan = 1 .. Len(Plan) /\ DOMAIN Plan' = 1 .. Len(Plan')
      /\ \A i \in 1 .. Len(Plan) - 1 : Plan'[i] = Plan[i + 1]
  BY PlanStep
<1>2. CASE IsFeedback(coll.d) /\ ~holder.leave
  <2>1. PICK v \in Seq(Keys) : /\ v # <<>> /\ Last(v) = coll.d.key
                               /\ Replacing(Len(Plan), "ftmp", "feedback", v)
    BY <1>2 DEF Appending, Correcting
  <2>2. Len(Plan) \in 1 .. 4
    BY <1>1, <2>1 DEF Replacing
  <2>3. PICK k \in 1 .. 4 : k = Len(Plan)
    BY <2>2
  <2>4. /\ Len(Plan) >= k /\ Replacing(k, "ftmp", "feedback", v)
        /\ "ftmp" \in Files /\ "feedback" \in Files /\ "ftmp" # "feedback"
        /\ v \in Nat \cup Seq(Keys)
    BY <2>1, <2>3 DEF Files
  <2>5. /\ Replacing(k - 1, "ftmp", "feedback", v)'
        /\ \A g \in Files : g \notin {"ftmp", "feedback"} => dir'[g] = dir[g]
    BY <2>4, ReplacingStep
  <2>6. k - 1 = Len(Plan')
    BY <1>1, <2>3
  <2>7. Replacing(Len(Plan), "ftmp", "feedback", v)'
    BY <2>5, <2>6
  <2>8. Correcting'
    BY <1>1, <2>1, <2>7 DEF Correcting
  <2>9. MarkersStay
    BY <2>5 DEF MarkersStay, Files
  <2>10. IsFeedback(coll'.d) /\ ~holder'.leave
    BY <1>1, <1>2
  <2> QED
    BY <1>1, <2>8, <2>9, <2>10 DEF Appending, MarkersStay, IsFeedback
<1>3. CASE ~(IsFeedback(coll.d) /\ ~holder.leave)
  <2>1. \A i \in DOMAIN Plan : Harmless(Plan[i]) \/ Evidence(Plan[i])
    BY <1>3 DEF Appending
  <2>2. \A i \in DOMAIN Plan' : Harmless(Plan'[i]) \/ Evidence(Plan'[i])
    BY <1>1, <2>1
  <2>3. MarkersStay
    <3>1. CASE Harmless(Plan[1])
      BY <3>1, HarmlessStep
    <3>2. CASE Evidence(Plan[1])
      <4>1. CASE Plan[1].op = "write"
        <5>1. Plan[1].file \in Files
          BY <3>2 DEF Evidence, Files
        <5> QED
          BY <1>1, <3>2, <4>1, <5>1, AfterWrite DEF Evidence, MarkersStay, Files
      <4>2. CASE Plan[1].op = "fsync"
        BY <1>1, <4>2 DEF After, MarkersStay
      <4>3. CASE Plan[1].op = "rename"
        <5> DEFINE u == [dir EXCEPT ![Plan[1].to] = dir[Plan[1].file]]
        <5>1. dir' = [u EXCEPT ![Plan[1].file] = Absent]
          BY <1>1, <4>3 DEF After
        <5>2. dir = [g \in Files \cup {"exports"} |-> dir[g]]
          BY DEF Sound, Possible, Fine, Whole
        <5>3. Plan[1].to \notin {"enabled", "status"} /\ Plan[1].to \in Files
              /\ Plan[1].file \notin {"enabled", "status"} /\ Plan[1].file \in Files
          BY <3>2 DEF Evidence, Files
        <5>4. /\ u = [g \in Files \cup {"exports"} |-> u[g]]
              /\ \A g \in Files \cup {"exports"} : g # Plan[1].to => u[g] = dir[g]
          BY <5>2, <5>3, Written
        <5> HIDE DEF u
        <5>5. \A g \in Files \cup {"exports"} : g # Plan[1].file => dir'[g] = u[g]
          BY <5>1, <5>3, <5>4, Written
        <5> QED
          BY <5>3, <5>4, <5>5 DEF MarkersStay, Files
      <4> QED
        BY <3>2, <4>1, <4>2, <4>3 DEF Evidence
    <3> QED
      BY <1>1, <2>1, <3>1, <3>2
  <2>4. \A i \in DOMAIN Plan' : Harmless(Plan[i])' \/ Evidence(Plan[i])'
    BY <2>2 DEF Harmless, Evidence
  <2> QED
    BY <1>1, <1>3, <2>3, <2>4 DEF Appending, MarkersStay, IsFeedback
<1> QED
  BY <1>2, <1>3

\* What an erasure leaves is clean, and durable at its end.
LEMMA EraseStep ==
  ASSUME Sound, Lock, Step, Erasing
  PROVE  Erasing' /\ MarkersStay
<1>1. /\ dir' = After(Plan[1]) /\ held' = Durable(Plan[1]) /\ Len(Plan) \in Nat \ {0}
      /\ Len(Plan') = Len(Plan) - 1
      /\ \A i \in 1 .. Len(Plan) - 1 : Plan'[i] = Plan[i + 1]
  BY PlanStep
<1>2. CASE Len(Plan) = 2 /\ Goes(1, Do("wipe")) /\ Goes(2, Sync)
  <2>1. Plan[1].op = "wipe"
    BY <1>2 DEF Goes, Do
  <2>2. dir' = Cleared(Managed, Exported)
    BY <1>1, <2>1 DEF After
  <2>3. Clean(dir')
    BY <2>2, WipedClean
  <2>4. \A S \in SUBSET Managed :
          /\ \A f \in Files : Cleared(S, Exported)[f] = IF f \in S THEN Absent ELSE dir[f]
          /\ Cleared(S, Exported).exports = [m \in Exported \ Exported |-> dir.exports[m]]
    BY Removed
  <2>5. \A f \in Files : dir'[f] = IF f \in Managed THEN Absent ELSE dir[f]
    BY <2>2, <2>4
  <2>6. MarkersStay
    BY <2>5 DEF MarkersStay, Managed, Files
  <2>7. Len(Plan') = 1 /\ Goes(1, Sync)'
    BY <1>1, <1>2 DEF Goes
  <2>8. Clean(dir)'
    BY <2>3 DEF Clean
  <2> QED
    BY <2>6, <2>7, <2>8 DEF Erasing
<1>3. CASE Len(Plan) = 1 /\ Goes(1, Sync) /\ Clean(dir)
  <2>1. Plan[1].op = "sync"
    BY <1>3 DEF Goes, Sync, Do
  <2>2. dir' = dir /\ held' = {dir}
    BY <1>1, <2>1 DEF After, Durable
  <2>3. Len(Plan') = 0 /\ \A s \in Possible' : Clean(s)'
    BY <1>1, <1>3, <2>2 DEF Possible, Clean
  <2> QED
    BY <2>2, <2>3 DEF Erasing, MarkersStay
<1> QED
  BY <1>1, <1>2, <1>3 DEF Erasing

\* A session that starts writes its status and leaves the epoch alone.
LEMMA StartStep ==
  ASSUME Sound, Lock, Step, Starting
  PROVE  Starting' /\ dir'.enabled = dir.enabled
<1>1. /\ dir' = After(Plan[1]) /\ Len(Plan) \in Nat \ {0} /\ coll' = coll
      /\ Len(Plan') = Len(Plan) - 1
      /\ DOMAIN Plan = 1 .. Len(Plan) /\ DOMAIN Plan' = 1 .. Len(Plan')
      /\ \A i \in 1 .. Len(Plan) - 1 : Plan'[i] = Plan[i + 1]
  BY PlanStep
<1>2. \A i \in DOMAIN Plan' :
        \/ Harmless(Plan'[i])
        \/ \E kind \in Kinds :
             Plan'[i] = Write("status", [kind |-> kind, epoch |-> coll'.epoch], {})
  <2> SUFFICES ASSUME NEW i \in 1 .. Len(Plan) - 1
               PROVE  \/ Harmless(Plan[i + 1])
                      \/ \E kind \in Kinds :
                           Plan[i + 1] =
                             Write("status", [kind |-> kind, epoch |-> coll.epoch], {})
    BY <1>1
  <2>1. i + 1 \in DOMAIN Plan
    BY <1>1
  <2> QED
    BY <2>1 DEF Starting, Goes
<1>3. Starting'
  BY <1>2 DEF Starting, Goes, Harmless, Write
<1>4. CASE Harmless(Plan[1])
  BY <1>3, <1>4, HarmlessStep DEF MarkersStay
<1>5. CASE \E kind \in Kinds :
             Goes(1, Write("status", [kind |-> kind, epoch |-> coll.epoch], {}))
  <2>1. Plan[1].op = "write" /\ Plan[1].file = "status" /\ "status" \in Files
    BY <1>5 DEF Goes, Write, Files
  <2> QED
    BY <1>1, <1>3, <2>1, AfterWrite DEF Files
<1> QED
  BY <1>1, <1>4, <1>5 DEF Starting

\* A status is not a missing file.
LEMMA StatusPresent ==
  ASSUME NEW e \in Nat
  PROVE  [kind |-> "capturing", epoch |-> e] # Absent
<1>1. [kind |-> "capturing", epoch |-> e] \in [kind : Kinds, epoch : Nat]
  BY DEF Kinds
<1>2. Absent \notin [kind : Kinds, epoch : Nat]
  BY StoreAssumption
<1> QED
  BY <1>1, <1>2

\* Show cannot start to say "capturing" when no marker is written.
LEMMA MarkersCollector ==
  ASSUME Sound, Collector, MarkersStay, coll' = coll, wiped' = wiped
  PROVE  Collector'
<1>1. dir.enabled \in {Absent} \cup 1 .. count.epochs
  BY DEF Sound, Possible, Fine, Whole
<1>2. ASSUME dir'.enabled # Absent, Is("capturing")'
      PROVE  dir.enabled # Absent /\ Is("capturing") /\ dir'.enabled = dir.enabled
  <2>1. dir'.enabled = dir.enabled /\ dir.enabled \in Nat
    BY <1>1, <1>2 DEF MarkersStay
  <2>2. dir'.status = [kind |-> "capturing", epoch |-> dir.enabled]
    BY <1>2, <2>1 DEF Is
  <2>3. dir'.status # Absent
    BY <2>1, <2>2, StatusPresent
  <2> QED
    BY <1>2, <2>1, <2>2, <2>3 DEF MarkersStay, Is
<1> QED
  BY <1>2 DEF Collector

\* A new epoch is not the one that was shown.
LEMMA EnableStep ==
  ASSUME Sound, Counted, Collector, Lock, Step, Enabling
  PROVE  Enabling' /\ Collector'
<1>1. /\ dir' = After(Plan[1]) /\ Len(Plan) \in Nat \ {0} /\ coll' = coll
      /\ wiped' = wiped /\ count' = count
  BY PlanStep
<1>2. (Rest(1) => Rest(0)') /\ (Rest(0) => Rest(0)')
  BY RestStep
<1>3. CASE Rest(0)
  <2>1. Harmless(Plan[1])
    BY <1>1, <1>3 DEF Rest
  <2> QED
    BY <1>1, <1>2, <1>3, <2>1, HarmlessStep, MarkersCollector DEF Enabling
<1>4. CASE /\ Rest(1) /\ Goes(1, Write("enabled", count.epochs, {})) /\ count.epochs > 0
           /\ dir.status # Absent => dir.status.epoch < count.epochs
  <2>1. /\ Plan[1].op = "write" /\ Plan[1].file = "enabled" /\ Plan[1].full = count.epochs
        /\ "enabled" \in Files
    BY <1>4 DEF Goes, Write, Files
  <2>2. dir'.enabled = count.epochs /\ dir'.status = dir.status
    BY <1>1, <2>1, AfterWrite DEF Files
  <2>3. count.epochs \in Nat
    BY DEF Counted
  <2>4. ~Is("capturing")'
    <3> SUFFICES ASSUME dir.status = [kind |-> "capturing", epoch |-> count.epochs]
                 PROVE  FALSE
      BY <2>2 DEF Is
    <3>1. dir.status # Absent
      BY <2>3, StatusPresent
    <3>2. dir.status.epoch = count.epochs
      OBVIOUS
    <3> QED
      BY <1>4, <2>3, <3>1, <3>2
  <2> QED
    BY <1>1, <1>2, <1>4, <2>4 DEF Enabling, Collector
<1> QED
  BY <1>3, <1>4 DEF Enabling

\* Without a marker Show says "off".
LEMMA DisableStep ==
  ASSUME Sound, Collector, Lock, Step, Disabling
  PROVE  Disabling' /\ Collector'
<1>1. /\ dir' = After(Plan[1]) /\ Len(Plan) \in Nat \ {0} /\ coll' = coll
      /\ wiped' = wiped
  BY PlanStep
<1>2. (Rest(1) => Rest(0)') /\ (Rest(0) => Rest(0)')
  BY RestStep
<1>3. CASE Rest(0)
  <2>1. Harmless(Plan[1])
    BY <1>1, <1>3 DEF Rest
  <2> QED
    BY <1>1, <1>2, <1>3, <2>1, HarmlessStep, MarkersCollector DEF Disabling
<1>4. CASE Rest(1) /\ Goes(1, Unlink("enabled"))
  <2>1. /\ Plan[1].op = "write" /\ Plan[1].file = "enabled" /\ Plan[1].full = Absent
        /\ "enabled" \in Files
    BY <1>4 DEF Goes, Unlink, Write, Files
  <2>2. dir'.enabled = Absent
    BY <1>1, <2>1, AfterWrite
  <2> QED
    BY <1>1, <1>2, <1>4, <2>2 DEF Disabling, Collector
<1> QED
  BY <1>3, <1>4 DEF Disabling

\* A step of the holder's plan preserves the invariant.
LEMMA StepKeeps ==
  ASSUME IInv, Step
  PROVE  IInv'
<1> USE DEF IInv
<1>1. /\ Plan # <<>> /\ Len(Plan) \in Nat \ {0} /\ Lock'
      /\ dir' = After(Plan[1]) /\ held' = Durable(Plan[1]) /\ spent' = Wrote(Plan[1])
      /\ holder'.job = holder.job /\ holder'.next = holder.next
      /\ holder'.leave = holder.leave /\ coll' = coll /\ wiped' = wiped /\ count' = count
  BY PlanStep
<1>2. Good(Plan[1])
  <2>1. Plan \in Seq(ToSet(Plan))
    BY DEF Lock
  <2> DEFINE S == ToSet(Plan)
             p == Plan
  <2>2. p \in Seq(S) /\ p # <<>>
    BY <1>1, <2>1
  <2> HIDE DEF S, p
  <2>3. Head(p) = p[1]
    BY <2>2, TailOf
  <2> QED
    BY <1>1, <2>3, PlanGood DEF p
<1>3. Sound' /\ Counted'
  <2>1. count'.epochs = count.epochs
    BY <1>1
  <2> QED
    BY <1>1, <1>2, <2>1, StepSound DEF Counted
<1>4. ASSUME Collector', Planned', holder.job = "start" => dir'.enabled = dir.enabled
      PROVE  IInv'
  BY <1>1, <1>3, <1>4 DEF Matched
<1>5. CASE holder.next = "recover"
  <2>1. holder.job \in {"export", "erase", "append"} /\ Recovering' /\ MarkersStay
    BY <1>5, RecoveryStep DEF Planned
  <2>2. Collector'
    BY <1>1, <2>1, MarkersCollector
  <2>3. Planned'
    BY <1>1, <1>5, <2>1 DEF Planned
  <2> QED
    BY <1>4, <2>1, <2>2, <2>3
<1>6. CASE holder.next = "body"
  <2>1. holder.job \in {"export", "erase", "append"} /\ Preparing' /\ MarkersStay
    BY <1>6, PreparationStep DEF Planned
  <2>2. Collector'
    BY <1>1, <2>1, MarkersCollector
  <2>3. Planned'
    BY <1>1, <1>6, <2>1 DEF Planned
  <2> QED
    BY <1>4, <2>1, <2>2, <2>3
<1>7. CASE holder.next = "end"
  <2>0. holder'.next = "end"
    BY <1>1, <1>7
  <2>1. CASE holder.job = "enable"
    <3>1. Enabling' /\ Collector'
      BY <1>7, <2>1, EnableStep DEF Planned
    <3>2. Planned'
      BY <1>1, <2>0, <2>1, <3>1 DEF Planned
    <3> QED
      BY <1>4, <2>1, <3>1, <3>2
  <2>2. CASE holder.job = "disable"
    <3>1. Disabling' /\ Collector'
      BY <1>7, <2>2, DisableStep DEF Planned
    <3>2. Planned'
      BY <1>1, <2>0, <2>2, <3>1 DEF Planned
    <3> QED
      BY <1>4, <2>2, <3>1, <3>2
  <2>3. CASE holder.job = "export"
    <3>1. Exporting' /\ MarkersStay
      BY <1>7, <2>3, ExportStep DEF Planned
    <3>2. Planned'
      BY <1>1, <2>0, <2>3, <3>1 DEF Planned
    <3>3. Collector'
      BY <1>1, <3>1, MarkersCollector
    <3> QED
      BY <1>4, <2>3, <3>2, <3>3
  <2>4. CASE holder.job = "erase"
    <3>1. Erasing' /\ MarkersStay
      BY <1>7, <2>4, EraseStep DEF Planned
    <3>2. Planned'
      BY <1>1, <2>0, <2>4, <3>1 DEF Planned
    <3>3. Collector'
      BY <1>1, <3>1, MarkersCollector
    <3> QED
      BY <1>4, <2>4, <3>2, <3>3
  <2>5. CASE holder.job = "start"
    <3>1. Starting' /\ dir'.enabled = dir.enabled
      BY <1>7, <2>5, StartStep DEF Planned
    <3>2. Planned'
      BY <1>1, <2>0, <2>5, <3>1 DEF Planned
    <3>3. Collector'
      BY <1>1, <2>5 DEF Collector, Matched
    <3> QED
      BY <1>4, <3>1, <3>2, <3>3
  <2>6. CASE holder.job = "append"
    <3>1. Appending' /\ MarkersStay
      BY <1>7, <2>6, AppendStep DEF Planned
    <3>2. Planned'
      BY <1>1, <2>0, <2>6, <3>1 DEF Planned
    <3>3. Collector'
      BY <1>1, <3>1, MarkersCollector
    <3> QED
      BY <1>4, <2>6, <3>2, <3>3
  <2>7. CASE holder.job \in {"latch", "none"}
    <3>1. Rest(0)
      BY <1>7, <2>7 DEF Planned
    <3>2. Harmless(Plan[1]) /\ Rest(0)'
      BY <1>1, <3>1, RestStep DEF Rest
    <3>3. Collector'
      BY <1>1, <3>2, HarmlessStep, MarkersCollector
    <3>4. Planned'
      BY <1>1, <2>0, <2>7, <3>2 DEF Planned
    <3> QED
      BY <1>4, <2>7, <3>3, <3>4
  <2> QED
    BY <2>1, <2>2, <2>3, <2>4, <2>5, <2>6, <2>7 DEF Lock, Jobs
<1> QED
  BY <1>5, <1>6, <1>7 DEF Lock

-----------------------------------------------------------------------------
(* The lock is taken and given back.                                       *)

\* Where nothing happens to the directory it stays sound, also for the next
\* epoch.
LEMMA SoundStays ==
  ASSUME Sound, Counted, UNCHANGED <<dir, held, spent, wiped>>,
         count'.epochs \in {count.epochs, count.epochs + 1}
  PROVE  Sound'
<1>1. count.epochs \in Nat
  BY DEF Counted
<1>2. 1 .. count.epochs \subseteq 1 .. count'.epochs
  BY <1>1
<1>3. ASSUME NEW s, Whole(s) PROVE Whole(s)'
  <2>1. /\ s = [f \in Files \cup {"exports"} |-> s[f]]
        /\ s.enabled \in {Absent} \cup 1 .. count.epochs
        /\ s.status \in {Absent} \cup [kind : Kinds, epoch : 1 .. count.epochs]
        /\ s.budget \in {Absent, Torn} \cup 0 .. ExportBudget
        /\ s.feedback \in {Absent, Torn} \cup Seq(Keys)
        /\ IsFiniteSet(DOMAIN s.exports)
    BY <1>3 DEF Whole, Statuses
  <2>2. /\ s.enabled \in {Absent} \cup 1 .. count'.epochs
        /\ s.status \in {Absent} \cup [kind : Kinds, epoch : 1 .. count'.epochs]
    BY <1>2, <2>1
  <2> QED
    BY <2>1, <2>2 DEF Whole, Statuses
<1>4. ASSUME NEW s \in Possible PROVE Fine(s, spent)'
  <2>1. Fine(s, spent)
    BY <1>4 DEF Sound
  <2> QED
    BY <1>3, <2>1 DEF Fine, Covers, Clean
<1> QED
  BY <1>4 DEF Sound, Possible

\* An operation that counts against a bound leaves the epochs alone, unless
\* it enables a new one.
LEMMA UseCounts ==
  ASSUME Counted, NEW kinds \in SUBSET {"epochs", "sessions", "commands", "faults"},
         Use(kinds)
  PROVE  /\ Counted'
         /\ count'.epochs = IF "epochs" \in kinds THEN count.epochs + 1 ELSE count.epochs
<1>1. count' = [k \in DOMAIN count |-> IF k \in kinds THEN count[k] + 1 ELSE count[k]]
  BY DEF Use
<1>2. DOMAIN count = {"epochs", "sessions", "commands", "faults"}
  BY DEF Counted
<1>3. /\ count' = [k \in {"epochs", "sessions", "commands", "faults"} |-> count'[k]]
      /\ count'["epochs"] = IF "epochs" \in kinds THEN count["epochs"] + 1
                            ELSE count["epochs"]
  BY <1>1, <1>2
<1> QED
  BY <1>3 DEF Counted

\* A well-formed holder has the lock.
LEMMA LockTaken ==
  ASSUME holder' = [job |-> holder'.job, next |-> holder'.next, plan |-> Plan',
                    leave |-> holder'.leave, changed |-> holder'.changed],
         holder'.job \in Jobs, holder'.next \in {"recover", "body", "end"},
         holder'.leave \in BOOLEAN, holder'.changed \in BOOLEAN,
         Plan' \in Seq(ToSet(Plan'))
  PROVE  Lock'
<1>1. holder'.job # "none" /\ holder' # Free
  BY DEF Jobs, Free
<1> QED
  BY <1>1 DEF Lock

\* With the lock free nothing is planned.
LEMMA LockFreed ==
  ASSUME holder' = Free
  PROVE  Lock' /\ Planned' /\ holder'.job = "none"
<1>1. Plan' = <<>> /\ holder'.job = "none" /\ holder'.next = "end"
  BY DEF Free, Plan
<1>2. <<>> \in Seq(ToSet(<<>>))
  OBVIOUS
<1>3. Lock'
  BY <1>1, <1>2 DEF Free, Lock, Plan
<1>4. Len(<<>>) = 0
  OBVIOUS
<1>5. Rest(0)'
  BY <1>1, <1>4 DEF Rest
<1> QED
  BY <1>1, <1>3, <1>5 DEF Planned

\* A list of two or four steps is a plan.
LEMMA ShortPlans ==
  ASSUME NEW a, NEW b, NEW c, NEW d
  PROVE  /\ <<>> \in Seq(ToSet(<<>>)) /\ <<a>> \in Seq(ToSet(<<a>>))
         /\ <<a, b>> \in Seq(ToSet(<<a, b>>)) /\ <<a, b, c>> \in Seq(ToSet(<<a, b, c>>))
         /\ <<a, b, c, d>> \in Seq(ToSet(<<a, b, c, d>>))
<1>1. <<>> \in Seq({a, b, c, d}) /\ <<a>> \in Seq({a, b, c, d})
  OBVIOUS
<1>2. <<a, b>> \in Seq({a, b, c, d}) /\ <<a, b, c>> \in Seq({a, b, c, d})
  OBVIOUS
<1>3. <<a, b, c, d>> \in Seq({a, b, c, d})
  OBVIOUS
<1> QED
  BY <1>1, <1>2, <1>3, OwnElements

\* Two plans make a plan.
LEMMA Joined ==
  ASSUME NEW S1, NEW S2, NEW p \in Seq(S1), NEW q \in Seq(S2)
  PROVE  /\ p \o q \in Seq(ToSet(p \o q)) /\ Len(p \o q) = Len(p) + Len(q)
         /\ Len(p) \in Nat /\ Len(q) \in Nat
         /\ \A i \in 1 .. Len(p) : (p \o q)[i] = p[i]
         /\ \A i \in Len(p) + 1 .. Len(p) + Len(q) : (p \o q)[i] = q[i - Len(p)]
<1> DEFINE S == S1 \cup S2
           r == p \o q
<1>1. p \in Seq(S) /\ q \in Seq(S)
  <2>1. S1 \subseteq S /\ S2 \subseteq S
    OBVIOUS
  <2> HIDE DEF S
  <2> QED
    BY <2>1
<1> HIDE DEF S
<1>2. /\ r \in Seq(S) /\ Len(r) = Len(p) + Len(q)
      /\ Len(p) \in Nat /\ Len(q) \in Nat
      /\ \A i \in 1 .. Len(p) : r[i] = p[i]
      /\ \A i \in Len(p) + 1 .. Len(p) + Len(q) : r[i] = q[i - Len(p)]
  BY <1>1
<1>3. r \in Seq(ToSet(r))
  BY <1>2, OwnElements
<1> QED
  BY <1>2, <1>3

\* Two plans of four steps are one of eight.
LEMMA FourAndFour ==
  ASSUME NEW S1, NEW S2, NEW p \in Seq(S1), NEW q \in Seq(S2)
  PROVE  Len(p) = 4 /\ Len(q) = 4 =>
           /\ p \o q \in Seq(ToSet(p \o q)) /\ Len(p \o q) = 8
           /\ (p \o q)[1] = p[1] /\ (p \o q)[2] = p[2]
           /\ (p \o q)[3] = p[3] /\ (p \o q)[4] = p[4]
           /\ (p \o q)[5] = q[1] /\ (p \o q)[6] = q[2]
           /\ (p \o q)[7] = q[3] /\ (p \o q)[8] = q[4]
<1> DEFINE pq == p \o q
<1>0. /\ pq \in Seq(ToSet(pq)) /\ Len(pq) = Len(p) + Len(q)
      /\ \A i \in 1 .. Len(p) : pq[i] = p[i]
      /\ \A i \in Len(p) + 1 .. Len(p) + Len(q) : pq[i] = q[i - Len(p)]
  BY Joined
<1> SUFFICES ASSUME Len(p) = 4, Len(q) = 4
             PROVE  /\ pq \in Seq(ToSet(pq)) /\ Len(pq) = 8
                    /\ pq[1] = p[1] /\ pq[2] = p[2] /\ pq[3] = p[3] /\ pq[4] = p[4]
                    /\ pq[5] = q[1] /\ pq[6] = q[2] /\ pq[7] = q[3] /\ pq[8] = q[4]
  OBVIOUS
<1> HIDE DEF pq
<1>1. /\ Len(pq) = 8
      /\ \A i \in 1 .. 4 : pq[i] = p[i]
      /\ \A i \in 5 .. 8 : pq[i] = q[i - 4]
  BY <1>0
<1>3. pq[1] = p[1] /\ pq[2] = p[2] /\ pq[3] = p[3] /\ pq[4] = p[4]
  BY <1>1
<1>4. pq[5] = q[1] /\ pq[6] = q[2] /\ pq[7] = q[3] /\ pq[8] = q[4]
  BY <1>1
<1> QED
  BY <1>0, <1>1, <1>3, <1>4

\* The first eight steps of a longer plan.
LEMMA EightSteps ==
  ASSUME NEW S1, NEW S2, NEW p \in Seq(S1), NEW r \in Seq(S2)
  PROVE  Len(p) = 8 =>
           /\ p \o r \in Seq(ToSet(p \o r)) /\ Len(p \o r) = 8 + Len(r) /\ Len(r) \in Nat
           /\ \A i \in 1 .. 8 : (p \o r)[i] = p[i]
           /\ \A i \in 9 .. 8 + Len(r) : (p \o r)[i] = r[i - 8]
<1>1. /\ p \o r \in Seq(ToSet(p \o r)) /\ Len(p \o r) = Len(p) + Len(r)
      /\ Len(r) \in Nat
      /\ \A i \in 1 .. Len(p) : (p \o r)[i] = p[i]
      /\ \A i \in Len(p) + 1 .. Len(p) + Len(r) : (p \o r)[i] = r[i - Len(p)]
  BY Joined
<1> DEFINE pr == p \o r
<1>2. /\ pr \in Seq(ToSet(pr)) /\ Len(pr) = Len(p) + Len(r) /\ Len(r) \in Nat
      /\ \A i \in 1 .. Len(p) : pr[i] = p[i]
      /\ \A i \in Len(p) + 1 .. Len(p) + Len(r) : pr[i] = r[i - Len(p)]
  BY <1>1
<1> SUFFICES ASSUME Len(p) = 8
             PROVE  /\ pr \in Seq(ToSet(pr)) /\ Len(pr) = 8 + Len(r) /\ Len(r) \in Nat
                    /\ \A i \in 1 .. 8 : pr[i] = p[i]
                    /\ \A i \in 9 .. 8 + Len(r) : pr[i] = r[i - 8]
  OBVIOUS
<1> HIDE DEF pr
<1>3. /\ pr \in Seq(ToSet(pr)) /\ Len(pr) = 8 + Len(r) /\ Len(r) \in Nat
      /\ \A i \in 1 .. 8 : pr[i] = p[i]
      /\ \A i \in 9 .. 8 + Len(r) : pr[i] = r[i - 8]
  BY <1>2
<1> QED
  BY <1>3

\* The plan of Enable names the next epoch and removes the status.
LEMMA EnableKeeps ==
  ASSUME IInv, Enable
  PROVE  IInv'
<1> USE DEF IInv
<1>1. /\ UNCHANGED <<dir, held, coll, spent, wiped>> /\ holder = Free
      /\ Use({"commands", "epochs"})
  BY DEF Enable
<1>2. Counted' /\ count'.epochs = count.epochs + 1 /\ count.epochs \in Nat
  <2>1. {"commands", "epochs"} \in SUBSET {"epochs", "sessions", "commands", "faults"}
    OBVIOUS
  <2> QED
    BY <1>1, <2>1, UseCounts DEF Counted
<1>3. Sound'
  BY <1>1, <1>2, SoundStays
<1>4. /\ Plan' \in Seq(ToSet(Plan')) /\ Len(Plan') = 4
      /\ Plan'[1] = Write("enabled", count'.epochs, {})
      /\ \A i \in 1 + 1 .. Len(Plan') : Plan'[i] \in {Sync, Unlink("status")}
  <2> DEFINE p == <<Write("enabled", count.epochs + 1, {}), Sync>>
             q == <<Unlink("status"), Sync>>
  <2>1. Plan' = p \o q
    BY DEF Enable, Take, Plan, Mark
  <2>2. p \in Seq(ToSet(p)) /\ q \in Seq(ToSet(q))
    BY ShortPlans
  <2>3. Len(p) = 2 /\ Len(q) = 2 /\ p[1] = Write("enabled", count'.epochs, {})
        /\ p[2] = Sync /\ q[1] = Unlink("status") /\ q[2] = Sync
    BY <1>2
  <2> HIDE DEF p, q
  <2>4. /\ p \o q \in Seq(ToSet(p \o q)) /\ Len(p \o q) = Len(p) + Len(q)
        /\ \A i \in 1 .. Len(p) : (p \o q)[i] = p[i]
        /\ \A i \in Len(p) + 1 .. Len(p) + Len(q) : (p \o q)[i] = q[i - Len(p)]
    BY <2>2, Joined
  <2> QED
    BY <2>1, <2>3, <2>4
<1>5. Lock' /\ holder'.job = "enable" /\ holder'.next = "end"
  <2>1. Plan' \in Seq(ToSet(Plan'))
    BY <1>4
  <2>2. holder' = [job |-> "enable", next |-> "end", plan |-> Plan', leave |-> FALSE,
                   changed |-> FALSE]
    BY DEF Enable, Take, Plan
  <2> QED
    BY <2>1, <2>2, LockTaken DEF Jobs
<1>6. dir.status # Absent => dir.status.epoch < count'.epochs
  BY <1>2 DEF Sound, Possible, Fine, Whole, Statuses
<1>7. Enabling'
  <2> DEFINE p == Plan'
  <2>1. Len(p) = 4 /\ p[1] = Write("enabled", count'.epochs, {})
    BY <1>4
  <2>2. \A i \in 1 + 1 .. Len(p) : p[i] \in {Sync, Unlink("status")}
    BY <1>4
  <2>3. Harmless(Sync) /\ Harmless(Unlink("status"))
    BY DEF Harmless, Sync, Do, Unlink, Write
  <2> HIDE DEF p
  <2>4. Len(p) >= 1 /\ \A i \in 1 + 1 .. Len(p) : Harmless(p[i])
    BY <2>1, <2>2, <2>3
  <2>5. Rest(1)'
    BY <2>4 DEF Rest, Harmless, p
  <2>6. Goes(1, Write("enabled", count.epochs, {}))'
    BY <2>1 DEF Goes, Write, p
  <2> QED
    BY <1>1, <1>2, <1>6, <2>5, <2>6 DEF Enabling
<1>8. Planned'
  BY <1>5, <1>7 DEF Planned
<1>9. Collector'
  BY <1>1 DEF Collector, Is
<1>10. Matched'
  BY <1>1, <1>5 DEF Matched, Free
<1> QED
  BY <1>2, <1>3, <1>5, <1>8, <1>9, <1>10

\* The collector's own steps leave the plans of others as they are.
LEMMA PlansStay ==
  ASSUME Planned, Lock, UNCHANGED <<dir, held, holder, spent, wiped>>,
         count'.epochs = count.epochs,
         holder.job \in {"append", "start"} => coll'.epoch = coll.epoch /\ coll'.d = coll.d
  PROVE  Planned' /\ Lock'
<1>1. Plan' = Plan /\ Lock'
  BY DEF Plan, Lock
<1>2. \A k \in 0 .. 8 : Rest(k) => Rest(k)'
  BY <1>1 DEF Rest, Harmless
<1>3. \A i \in Nat : \A st : Goes(i, st) => Goes(i, st)'
  BY <1>1 DEF Goes
<1>4. Recovering => Recovering'
  BY <1>2, <1>3 DEF Recovering, Publishable, Write, Unlink, Fsync, Do, Numbers
<1>5. holder.job \in {"export", "erase", "append"} /\ Preparing => Preparing'
  BY <1>1, <1>2 DEF Preparing, Write
<1>6. Enabling => Enabling'
  BY <1>1, <1>2 DEF Enabling, Goes, Write
<1>7. Disabling => Disabling'
  BY <1>1, <1>2 DEF Disabling, Goes, Unlink, Write
<1>8. Exporting => Exporting'
  <2>1. \A k \in 1 .. 5, total \in 0 .. ExportBudget :
          Spending(k, total) => Spending(k, total)'
    <3> SUFFICES ASSUME NEW k \in 1 .. 5, NEW total \in 0 .. ExportBudget,
                        Spending(k, total)
                 PROVE  Spending(k, total)'
      OBVIOUS
    <3>1. Rest(k + 2) => Rest(k + 2)'
      BY <1>2
    <3> QED
      BY <1>1, <3>1 DEF Spending, Goes, Fsync, Do
  <2>2. \A k \in 1 .. 5, total \in 0 .. ExportBudget :
          Replacing(k - 1, "btmp", "budget", total) =>
            Replacing(k - 1, "btmp", "budget", total)'
    BY <1>1 DEF Replacing, Possible, Goes, Sync, Do, Rename, Fsync
  <2>3. Rest(0) => Rest(0)'
    BY <1>2
  <2>4. Rest(2) /\ Goes(1, Fsync("xtmp")) /\ Goes(2, Do("publish")) /\ Publishable =>
          (Rest(2) /\ Goes(1, Fsync("xtmp")) /\ Goes(2, Do("publish")) /\ Publishable)'
    BY <1>1, <1>2 DEF Goes, Fsync, Do, Publishable
  <2>5. Rest(1) /\ Goes(1, Do("publish")) /\ Publishable =>
          (Rest(1) /\ Goes(1, Do("publish")) /\ Publishable)'
    BY <1>1, <1>2 DEF Goes, Do, Publishable
  <2>6. ASSUME NEW k \in 1 .. 5, NEW total \in 0 .. ExportBudget,
               Spending(k, total) /\ Replacing(k - 1, "btmp", "budget", total)
               /\ (k = 5 => dir.btmp = Absent)
        PROVE  Exporting'
    <3>1. /\ Spending(k, total)' /\ Replacing(k - 1, "btmp", "budget", total)'
          /\ k = 5 => dir'.btmp = Absent
      BY <2>1, <2>2, <2>6
    <3> QED
      BY <3>1 DEF Exporting
  <2> QED
    BY <2>3, <2>4, <2>5, <2>6 DEF Exporting
<1>9. Erasing => Erasing'
  BY <1>1 DEF Erasing, Goes, Do, Sync, Clean, Possible
<1>10. holder.job = "start" /\ Starting => Starting'
  BY <1>1 DEF Starting, Goes, Harmless, Write
<1>11. holder.job = "append" /\ Appending => Appending'
  <2> SUFFICES ASSUME holder.job = "append", Appending PROVE Appending'
    OBVIOUS
  <2>1. coll'.epoch = dir'.enabled
    BY DEF Appending
  <2>2. CASE IsFeedback(coll.d) /\ ~holder.leave
    <3>1. Correcting
      BY <2>2 DEF Appending
    <3>2. Correcting'
      BY <1>1, <3>1 DEF Correcting, Replacing, Possible, Goes, Sync, Do, Rename, Fsync
    <3> QED
      BY <2>1, <2>2, <3>2 DEF Appending, IsFeedback
  <2>3. CASE ~(IsFeedback(coll.d) /\ ~holder.leave)
    <3>1. \A i \in DOMAIN Plan : Harmless(Plan[i]) \/ Evidence(Plan[i])
      BY <2>3 DEF Appending
    <3> QED
      BY <1>1, <2>1, <2>3, <3>1 DEF Appending, IsFeedback, Harmless, Evidence
  <2> QED
    BY <2>2, <2>3
<1>12. Planned'
  BY <1>2, <1>4, <1>5, <1>6, <1>7, <1>8, <1>9, <1>10, <1>11 DEF Planned
<1> QED
  BY <1>1, <1>12

\* Where the directory stays, so does everything said of it.
LEMMA QuietKeeps ==
  ASSUME IInv, UNCHANGED <<dir, held, spent, wiped>>, Counted',
         count'.epochs = count.epochs, Collector', Lock', Matched', Planned'
  PROVE  IInv'
<1>1. Sound'
  BY SoundStays DEF IInv
<1> QED
  BY <1>1 DEF IInv

\* A step of the collector alone.
LEMMA CollectorKeeps ==
  ASSUME IInv, UNCHANGED <<dir, held, holder, spent, wiped>>, Counted',
         count'.epochs = count.epochs,
         holder.job \in {"append", "start"} => coll'.epoch = coll.epoch /\ coll'.d = coll.d,
         Collector', Matched'
  PROVE  IInv'
<1>1. Planned' /\ Lock'
  BY PlansStay DEF IInv
<1> QED
  BY <1>1, QuietKeeps

\* An operation that begins with its first plan.
LEMMA TakeKeeps ==
  ASSUME IInv, UNCHANGED <<dir, held, spent, wiped>>, Counted',
         count'.epochs = count.epochs,
         NEW job \in Jobs, NEW next \in {"recover", "end"}, NEW leave \in BOOLEAN,
         NEW plan, plan \in Seq(ToSet(plan)), Take(job, next, plan, leave),
         Collector', Matched', Planned'
  PROVE  IInv'
<1>1. holder' = [job |-> job, next |-> next, plan |-> plan, leave |-> leave,
                 changed |-> FALSE] /\ Plan' = plan
  BY DEF Take, Plan
<1>2. Lock'
  BY <1>1, LockTaken
<1> QED
  BY <1>2, QuietKeeps

\* A collector that is off or waits to start.
LEMMA Stopped ==
  ASSUME NEW e \in Nat, NEW pc \in {"off", "starting"},
         coll' = [pc |-> pc, epoch |-> e, d |-> Absent, snap |-> FALSE,
                  exhausted |-> FALSE, written |-> 0, received |-> 0]
  PROVE  Collector' /\ coll'.pc = pc /\ coll'.epoch = e
<1>1. 0 \in 0 .. WriteBudget /\ 0 \in 0 .. DatagramBudget
  BY StoreAssumption
<1>2. coll' \in [pc : {"off", "starting", "draining", "admitted", "storing"},
                epoch : Nat, d : Datagrams \cup {Absent}, snap : BOOLEAN,
                exhausted : BOOLEAN, written : 0 .. WriteBudget,
                received : 0 .. DatagramBudget]
  BY <1>1
<1>3. coll'.pc = pc /\ coll'.epoch = e
  OBVIOUS
<1> QED
  BY <1>2, <1>3 DEF Collector

\* A collector that is off.
LEMMA Gone ==
  ASSUME coll' = Off
  PROVE  Collector' /\ coll'.pc = "off"
<1>1. coll' = [pc |-> "off", epoch |-> 0, d |-> Absent, snap |-> FALSE,
               exhausted |-> FALSE, written |-> 0, received |-> 0]
  BY DEF Off
<1> QED
  BY <1>1, Stopped

\* A command that counts against its bound and leaves the collector alone.
LEMMA CommandKeeps ==
  ASSUME IInv, UNCHANGED <<dir, held, coll, spent, wiped>>, holder = Free,
         Use({"commands"}),
         NEW job \in {"disable", "export", "erase"}, NEW next \in {"recover", "end"},
         NEW plan, plan \in Seq(ToSet(plan)), Take(job, next, plan, FALSE),
         job = "erase" => coll.pc = "off",
         Planned'
  PROVE  IInv'
<1>1. Counted' /\ count'.epochs = count.epochs
  <2>1. {"commands"} \in SUBSET {"epochs", "sessions", "commands", "faults"}
    OBVIOUS
  <2> QED
    BY <2>1, UseCounts DEF IInv
<1>2. Collector'
  BY DEF IInv, Collector, Is
<1>3. holder'.job = job
  BY DEF Take
<1>4. Matched'
  BY <1>3 DEF IInv, Matched, Free
<1>5. job \in Jobs
  BY DEF Jobs
<1> QED
  BY <1>1, <1>2, <1>4, <1>5, TakeKeeps

\* The plan of Disable removes both markers.
LEMMA DisableKeeps ==
  ASSUME IInv, Disable
  PROVE  IInv'
<1> DEFINE p == <<Unlink("enabled"), Unlink("status"), Sync>>
<1>1. p \in Seq(ToSet(p))
  BY ShortPlans
<1>2. Take("disable", "end", p, FALSE)
  BY DEF Disable
<1>3. Len(p) = 3 /\ p[1] = Unlink("enabled") /\ p[2] = Unlink("status") /\ p[3] = Sync
  OBVIOUS
<1> HIDE DEF p
<1>4. Plan' = p /\ holder'.job = "disable" /\ holder'.next = "end"
  BY <1>2 DEF Take, Plan
<1>5. Harmless(p[2]) /\ Harmless(p[3])
  BY <1>3 DEF Harmless, Sync, Do, Unlink, Write
<1>6. Rest(1)'
  <2>1. Len(p) >= 1 /\ \A i \in 1 + 1 .. Len(p) : Harmless(p[i])
    BY <1>3, <1>5
  <2> QED
    BY <1>4, <2>1 DEF Rest, Harmless
<1>7. Goes(1, Unlink("enabled"))'
  BY <1>3, <1>4 DEF Goes, Unlink, Write
<1>8. Planned'
  BY <1>4, <1>6, <1>7 DEF Planned, Disabling
<1> QED
  BY <1>1, <1>2, <1>8, CommandKeeps DEF Disable

\* Operations that recover first begin with an empty plan.
LEMMA BeginsEmpty ==
  ASSUME NEW job \in {"export", "erase", "append"}, Take(job, "recover", <<>>, FALSE)
  PROVE  Planned' /\ <<>> \in Seq(ToSet(<<>>)) /\ holder'.job = job
<1>1. <<>> \in Seq(ToSet(<<>>))
  OBVIOUS
<1>2. Plan' = <<>> /\ holder'.job = job /\ holder'.next = "recover"
  BY DEF Take, Plan
<1>3. Len(<<>>) = 0
  OBVIOUS
<1>4. Rest(0)'
  BY <1>2, <1>3 DEF Rest
<1> QED
  BY <1>1, <1>2, <1>4 DEF Planned, Recovering

\* An export takes the lock, and recovers first.
LEMMA ExportKeeps ==
  ASSUME IInv, Export
  PROVE  IInv'
<1>1. Take("export", "recover", <<>>, FALSE)
  BY DEF Export
<1>2. Planned' /\ <<>> \in Seq(ToSet(<<>>))
  BY <1>1, BeginsEmpty
<1> QED
  BY <1>1, <1>2, CommandKeeps DEF Export

\* An erasure takes the lock while no collector runs.
LEMMA EraseKeeps ==
  ASSUME IInv, Erase
  PROVE  IInv'
<1>1. Take("erase", "recover", <<>>, FALSE)
  BY DEF Erase
<1>2. Planned' /\ <<>> \in Seq(ToSet(<<>>))
  BY <1>1, BeginsEmpty
<1> QED
  BY <1>1, <1>2, CommandKeeps DEF Erase, Running

\* A collector is launched, and waits to start.
LEMMA LaunchKeeps ==
  ASSUME IInv, NEW e \in 1 .. count.epochs, Launch(e)
  PROVE  IInv'
<1>1. /\ UNCHANGED <<dir, held, holder, spent, wiped>> /\ coll.pc = "off"
      /\ Use({"sessions"}) /\ coll' = [Off EXCEPT !.pc = "starting", !.epoch = e]
  BY DEF Launch, Running
<1>2. Counted' /\ count'.epochs = count.epochs
  <2>1. {"sessions"} \in SUBSET {"epochs", "sessions", "commands", "faults"}
    OBVIOUS
  <2> QED
    BY <1>1, <2>1, UseCounts DEF IInv
<1>3. Collector' /\ coll'.pc = "starting"
  <2>1. e \in Nat
    BY DEF IInv, Counted
  <2>2. coll' = [pc |-> "starting", epoch |-> e, d |-> Absent, snap |-> FALSE,
                 exhausted |-> FALSE, written |-> 0, received |-> 0]
    BY <1>1 DEF Off
  <2> QED
    BY <2>1, <2>2, Stopped
<1>4. holder.job \notin {"append", "start", "latch"}
  BY <1>1 DEF IInv, Matched
<1>5. Matched'
  BY <1>1, <1>3, <1>4 DEF IInv, Matched
<1> QED
  BY <1>1, <1>2, <1>3, <1>4, <1>5, CollectorKeeps

\* A collector that ends while others hold the lock.
LEMMA LeaveKeeps ==
  ASSUME IInv, UNCHANGED <<dir, held, holder, spent, wiped, count>>, coll' = Off,
         holder.job \notin {"append", "start", "latch"}
  PROVE  IInv'
<1>1. Collector' /\ coll'.pc = "off"
  BY Gone
<1>2. Matched'
  BY <1>1 DEF IInv, Matched
<1>3. Counted'
  BY DEF IInv, Counted
<1> QED
  BY <1>1, <1>2, <1>3, CollectorKeeps

\* A collector that cannot start ends.
LEMMA GiveUpKeeps ==
  ASSUME IInv, GiveUp
  PROVE  IInv'
<1>1. holder.job \notin {"append", "start", "latch"}
  BY DEF GiveUp, IInv, Matched, Free
<1> QED
  BY <1>1, LeaveKeeps DEF GiveUp

\* A collector whose keyboard has gone ends.
LEMMA CloseKeeps ==
  ASSUME IInv, Close
  PROVE  IInv'
<1>1. holder.job \notin {"append", "start", "latch"}
  BY DEF Close, IInv, Matched
<1> QED
  BY <1>1, LeaveKeeps DEF Close

\* A collector that has started stays the one the keyboard knows.
LEMMA GoesOn ==
  ASSUME Collector, coll.pc \in {"draining", "admitted", "storing"},
         coll'.snap = coll.snap, coll'.epoch = coll.epoch, dir' = dir, wiped' = wiped,
         coll' \in [pc : {"off", "starting", "draining", "admitted", "storing"},
                    epoch : Nat, d : Datagrams \cup {Absent}, snap : BOOLEAN,
                    exhausted : BOOLEAN, written : 0 .. WriteBudget,
                    received : 0 .. DatagramBudget],
         coll'.pc = "admitted" => coll'.d \in Datagrams
  PROVE  Collector'
  BY DEF Collector, Is

\* A datagram is taken, and perhaps admitted.
LEMMA ReceiveKeeps ==
  ASSUME IInv, NEW d \in Datagrams, Receive(d)
  PROVE  IInv'
<1> DEFINE got == [coll EXCEPT !.received = @ + 1]
           kept == [got EXCEPT !.pc = "admitted", !.d = d]
<1>1. /\ UNCHANGED <<dir, held, holder, spent, wiped, count>> /\ coll.pc = "draining"
      /\ coll.received < DatagramBudget /\ coll' \in {Off, got, kept}
  BY DEF Receive
<1>2. holder.job \notin {"append", "start", "latch"}
  BY <1>1 DEF IInv, Matched
<1>3. CASE coll' = Off
  BY <1>1, <1>2, <1>3, LeaveKeeps
<1>4. CASE coll' \in {got, kept}
  <2>0. Collector
    BY DEF IInv
  <2>1. DatagramBudget \in Nat
    BY StoreAssumption
  <2>2. coll.received + 1 \in 0 .. DatagramBudget
    BY <1>1, <2>0, <2>1 DEF Collector
  <2>3. /\ coll' \in [pc : {"off", "starting", "draining", "admitted", "storing"},
                      epoch : Nat, d : Datagrams \cup {Absent}, snap : BOOLEAN,
                      exhausted : BOOLEAN, written : 0 .. WriteBudget,
                      received : 0 .. DatagramBudget]
        /\ coll'.snap = coll.snap /\ coll'.epoch = coll.epoch
        /\ coll'.pc \in {"draining", "admitted"}
        /\ coll'.pc = "admitted" => coll'.d \in Datagrams
    <3>1. CASE coll' = got
      BY <1>1, <2>0, <2>2, <3>1 DEF Collector
    <3>2. CASE coll' = kept
      BY <1>1, <2>0, <2>2, <3>2 DEF Collector
    <3> QED
      BY <1>4, <3>1, <3>2
  <2>4. Collector'
    BY <1>1, <2>0, <2>3, GoesOn
  <2>5. Matched'
    BY <1>1, <1>2, <2>3 DEF IInv, Matched
  <2>6. Counted'
    BY <1>1 DEF IInv, Counted
  <2> QED
    BY <1>1, <1>2, <2>4, <2>5, <2>6, CollectorKeeps
<1> QED
  BY <1>1, <1>3, <1>4

\* Nothing is ahead but harmless steps.
LEMMA AllHarmless ==
  ASSUME NEW p, Plan' = p, Len(p) \in Nat, \A i \in 1 .. Len(p) : Harmless(p[i])
  PROVE  Rest(0)'
<1>1. Len(p) >= 0 /\ \A i \in 0 + 1 .. Len(p) : Harmless(p[i])
  OBVIOUS
<1> QED
  BY <1>1 DEF Rest, Harmless

\* A collector that has had its datagrams says so, and leaves.
LEMMA OverflowKeeps ==
  ASSUME IInv, Overflow
  PROVE  IInv'
<1>1. UNCHANGED <<dir, held, spent, wiped, count>> /\ coll.pc = "draining"
  BY DEF Overflow
<1>2. CASE coll' = Off /\ UNCHANGED holder
  <2>1. holder.job \notin {"append", "start", "latch"}
    BY <1>1 DEF IInv, Matched
  <2> QED
    BY <1>1, <1>2, <2>1, LeaveKeeps
<1>3. CASE /\ holder = Free /\ Take("latch", "end", Latch, TRUE)
           /\ coll' = [coll EXCEPT !.pc = "storing", !.exhausted = TRUE]
  <2> DEFINE p == Latch
  <2>1. p \in Seq(ToSet(p)) /\ Len(p) = 2
        /\ p[1] = Write("latch", TRUE, {}) /\ p[2] = Sync
    BY ShortPlans DEF Latch
  <2>2. Harmless(p[1]) /\ Harmless(p[2])
    BY <2>1 DEF Harmless, Sync, Do, Write
  <2>3. Len(p) = 2
    BY <2>1
  <2> HIDE DEF p
  <2>4. holder'.job = "latch" /\ holder'.next = "end" /\ Plan' = p
    BY <1>3 DEF Take, Plan, p
  <2>5. Rest(0)'
    BY <2>2, <2>3, <2>4, AllHarmless
  <2>6. Planned'
    BY <2>4, <2>5 DEF Planned
  <2>7. Collector' /\ coll'.pc = "storing"
    <3>1. Collector
      BY DEF IInv
    <3>2. /\ coll' \in [pc : {"off", "starting", "draining", "admitted", "storing"},
                        epoch : Nat, d : Datagrams \cup {Absent}, snap : BOOLEAN,
                        exhausted : BOOLEAN, written : 0 .. WriteBudget,
                        received : 0 .. DatagramBudget]
          /\ coll'.snap = coll.snap /\ coll'.epoch = coll.epoch /\ coll'.pc = "storing"
      BY <1>3, <3>1 DEF Collector
    <3> QED
      BY <1>1, <3>1, <3>2, GoesOn
  <2>8. Matched'
    BY <2>4, <2>7 DEF Matched
  <2>9. Counted' /\ "latch" \in Jobs
    BY <1>1 DEF IInv, Counted, Jobs
  <2> QED
    BY <1>1, <1>3, <2>1, <2>6, <2>7, <2>8, <2>9, TakeKeeps DEF p
<1> QED
  BY <1>2, <1>3 DEF Overflow

\* The collector that finds the lock taken drops evidence, and dies of a
\* correction.
LEMMA AppendBusyKeeps ==
  ASSUME IInv, AppendBusy
  PROVE  IInv'
<1>1. /\ UNCHANGED <<dir, held, holder, spent, wiped, count>> /\ coll.pc = "admitted"
      /\ coll' \in {Off, Drained(coll)}
  BY DEF AppendBusy
<1>2. holder.job \notin {"append", "start", "latch"}
  BY <1>1 DEF IInv, Matched
<1>3. CASE coll' = Off
  BY <1>1, <1>2, <1>3, LeaveKeeps
<1>4. CASE coll' = Drained(coll)
  <2>1. Collector
    BY DEF IInv
  <2>2. /\ coll' \in [pc : {"off", "starting", "draining", "admitted", "storing"},
                      epoch : Nat, d : Datagrams \cup {Absent}, snap : BOOLEAN,
                      exhausted : BOOLEAN, written : 0 .. WriteBudget,
                      received : 0 .. DatagramBudget]
        /\ coll'.snap = coll.snap /\ coll'.epoch = coll.epoch /\ coll'.pc = "draining"
    BY <1>4, <2>1 DEF Collector, Drained
  <2>3. Collector'
    BY <1>1, <2>1, <2>2, GoesOn
  <2>4. Matched'
    BY <1>1, <1>2, <2>2 DEF IInv, Matched
  <2>5. Counted'
    BY <1>1 DEF IInv, Counted
  <2> QED
    BY <1>1, <1>2, <2>3, <2>4, <2>5, CollectorKeeps
<1> QED
  BY <1>1, <1>3, <1>4

\* An admitted datagram is about to be stored.
LEMMA AppendTakesKeeps ==
  ASSUME IInv, AppendTakes
  PROVE  IInv'
<1>1. /\ UNCHANGED <<dir, held, spent, wiped, count>> /\ coll.pc = "admitted"
      /\ Take("append", "recover", <<>>, FALSE) /\ coll' = [coll EXCEPT !.pc = "storing"]
  BY DEF AppendTakes
<1>2. Collector
  BY DEF IInv
<1>3. /\ coll' \in [pc : {"off", "starting", "draining", "admitted", "storing"},
                    epoch : Nat, d : Datagrams \cup {Absent}, snap : BOOLEAN,
                    exhausted : BOOLEAN, written : 0 .. WriteBudget,
                    received : 0 .. DatagramBudget]
      /\ coll'.snap = coll.snap /\ coll'.epoch = coll.epoch /\ coll'.pc = "storing"
      /\ coll'.d \in Datagrams
  BY <1>1, <1>2 DEF Collector
<1>4. Collector'
  BY <1>1, <1>2, <1>3, GoesOn
<1>5. /\ Planned' /\ <<>> \in Seq(ToSet(<<>>))
      /\ holder'.job = "append" /\ ~holder'.leave
  BY <1>1, BeginsEmpty DEF Take
<1>6. Matched'
  BY <1>3, <1>5 DEF Matched
<1>7. Counted' /\ "append" \in Jobs
  BY <1>1 DEF IInv, Counted, Jobs
<1> QED
  BY <1>1, <1>4, <1>5, <1>6, <1>7, TakeKeeps

-----------------------------------------------------------------------------
(* The plans that the holder of the lock makes.                            *)

\* A new plan under the same lock.
LEMMA Replanned ==
  ASSUME Lock, holder # Free, NEW next \in {"recover", "body", "end"},
         NEW leave \in BOOLEAN, NEW changed \in BOOLEAN,
         NEW p, p \in Seq(ToSet(p)),
         holder' = [job |-> holder.job, next |-> next, plan |-> p, leave |-> leave,
                    changed |-> changed]
  PROVE  /\ Lock' /\ Plan' = p /\ holder'.job = holder.job /\ holder'.next = next
         /\ holder'.leave = leave /\ holder'.job # "none"
<1>1. holder.job \in Jobs /\ holder.job # "none"
  BY DEF Lock
<1>2. Plan' = p
  BY DEF Plan
<1> QED
  BY <1>1, <1>2, LockTaken

\* Most often nothing but the stage changes with the plan.
LEMMA ThenPlans ==
  ASSUME Lock, holder # Free, NEW next \in {"recover", "body", "end"},
         NEW p, p \in Seq(ToSet(p)), Then(next, p)
  PROVE  /\ Lock' /\ Plan' = p /\ holder'.job = holder.job /\ holder'.next = next
         /\ holder'.leave = holder.leave /\ holder'.job # "none"
<1>1. holder' = [job |-> holder.job, next |-> next, plan |-> p, leave |-> holder.leave,
                 changed |-> holder.changed]
  BY DEF Then, Lock
<1>2. holder.leave \in BOOLEAN /\ holder.changed \in BOOLEAN
  BY DEF Lock
<1> QED
  BY <1>1, <1>2, Replanned

\* The collector, and what the lock has to do with it, does not change.
LEMMA ReplanKeeps ==
  ASSUME IInv, UNCHANGED <<dir, held, coll, spent, wiped, count>>,
         holder'.job = holder.job, holder'.leave = holder.leave,
         holder.next # "end", Lock', Planned'
  PROVE  IInv'
<1>1. Counted' /\ Collector' /\ Matched'
  BY DEF IInv, Counted, Collector, Matched, Is
<1> QED
  BY <1>1, QuietKeeps

\* Pruning is harmless.
LEMMA PruneHarmless ==
  ASSUME NEW n \in Nat
  PROVE  \E S : Prune(n) \in Seq(S) /\ \A i \in 1 .. Len(Prune(n)) : Harmless(Prune(n)[i])
<1>1. CASE n <= ExportHigh
  <2>1. Prune(n) = <<>> /\ <<>> \in Seq({Sync})
    BY <1>1 DEF Prune
  <2>2. Len(<<>>) = 0
    OBVIOUS
  <2>3. \A i \in 1 .. Len(Prune(n)) : Harmless(Prune(n)[i])
    BY <2>1, <2>2
  <2> QED
    BY <2>1, <2>3
<1>2. CASE ~(n <= ExportHigh)
  <2> DEFINE p == [i \in 1 .. (n - ExportLow) |-> Do("prune")]
             q == <<Sync>>
  <2>1. n - ExportLow \in Nat
    BY <1>2, StoreAssumption
  <2>2. p \in Seq({Do("prune")}) /\ Len(p) = n - ExportLow
        /\ \A i \in 1 .. Len(p) : p[i] = Do("prune")
    BY <2>1
  <2>3. q \in Seq({Sync}) /\ Len(q) = 1 /\ q[1] = Sync
    OBVIOUS
  <2>4. Prune(n) = p \o q
    BY <1>2 DEF Prune
  <2> HIDE DEF p, q
  <2>5. /\ p \o q \in Seq(ToSet(p \o q)) /\ Len(p \o q) = Len(p) + Len(q)
        /\ Len(p) \in Nat
        /\ \A i \in 1 .. Len(p) : (p \o q)[i] = p[i]
        /\ \A i \in Len(p) + 1 .. Len(p) + Len(q) : (p \o q)[i] = q[i - Len(p)]
    <3>1. p \in Seq(ToSet(p)) /\ q \in Seq(ToSet(q))
      BY <2>2, <2>3, OwnElements
    <3> QED
      BY <3>1, Joined
  <2>6. Harmless(Do("prune")) /\ Harmless(Sync)
    BY DEF Harmless, Do, Sync
  <2>7. \A i \in 1 .. Len(Prune(n)) : Harmless(Prune(n)[i])
    BY <2>2, <2>3, <2>4, <2>5, <2>6
  <2> QED
    BY <2>4, <2>5, <2>7
<1> QED
  BY <1>1, <1>2

\* So is pruning before a sync.
LEMMA PrunedHarmless ==
  ASSUME NEW n \in Nat, NEW q \in {<<>>, <<Sync>>}, NEW p, p = Prune(n) \o q
  PROVE  /\ p \in Seq(ToSet(p)) /\ Len(p) \in Nat
         /\ \A i \in 1 .. Len(p) : Harmless(p[i])
<1> DEFINE r == Prune(n)
<1>1. q \in Seq({Sync})
  <2>1. <<Sync>> \in Seq({Sync}) /\ <<>> \in Seq({Sync})
    OBVIOUS
  <2> QED
    BY <2>1
<1>2. \A i \in 1 .. Len(q) : Harmless(q[i])
  <2>1. Harmless(Sync)
    BY DEF Harmless, Sync, Do
  <2>2. \A i \in 1 .. Len(q) : q[i] = Sync
    BY <1>1
  <2> QED
    BY <2>1, <2>2
<1>3. PICK S : r \in Seq(S) /\ \A i \in 1 .. Len(r) : Harmless(r[i])
  BY PruneHarmless
<1> HIDE DEF r
<1>4. /\ p \in Seq(ToSet(p)) /\ Len(p) = Len(r) + Len(q)
      /\ Len(r) \in Nat /\ Len(q) \in Nat
      /\ \A i \in 1 .. Len(r) : p[i] = r[i]
      /\ \A i \in Len(r) + 1 .. Len(r) + Len(q) : p[i] = q[i - Len(r)]
  <2>1. r \in Seq(ToSet(r)) /\ q \in Seq(ToSet(q)) /\ p = r \o q
    BY <1>1, <1>3, OwnElements DEF r
  <2> QED
    BY <2>1, Joined
<1>5. ASSUME NEW i \in 1 .. Len(p) PROVE Harmless(p[i])
  <2>1. CASE i <= Len(r)
    BY <1>3, <1>4, <2>1
  <2>2. CASE ~(i <= Len(r))
    <3>1. i - Len(r) \in 1 .. Len(q) /\ p[i] = q[i - Len(r)]
      BY <1>4, <2>2
    <3> QED
      BY <1>2, <3>1
  <2> QED
    BY <2>1, <2>2
<1> QED
  BY <1>4, <1>5

\* One temporary is recovered, or with none left the body begins.
LEMMA RecoverKeeps ==
  ASSUME IInv, Recover
  PROVE  IInv'
<1> DEFINE left == {f \in {"jtmp", "ftmp", "btmp", "xtmp"} : dir[f] # Absent}
<1>1. /\ UNCHANGED <<dir, held, coll, spent, wiped, count>> /\ holder # Free
      /\ holder.next = "recover" /\ Lock /\ Sound
  BY DEF Recover, At, IInv
<1>2. holder.job \in {"export", "erase", "append"}
  BY <1>1 DEF IInv, Planned
<1>3. ASSUME NEW f \in left,
             holder' = [holder EXCEPT !.plan = RecoverOne(f), !.changed = TRUE]
      PROVE  IInv'
  <2> DEFINE p == RecoverOne(f)
  <2>1. ASSUME p \in Seq(ToSet(p))
        PROVE  /\ Lock' /\ Plan' = p /\ holder'.job = holder.job
               /\ holder'.next = "recover" /\ holder'.leave = holder.leave
    <3>1. holder' = [job |-> holder.job, next |-> "recover", plan |-> p,
                     leave |-> holder.leave, changed |-> TRUE]
      BY <1>1, <1>3 DEF Lock
    <3>2. holder.leave \in BOOLEAN /\ TRUE \in BOOLEAN
      BY <1>1 DEF Lock
    <3> HIDE DEF p
    <3> QED
      BY <1>1, <2>1, <3>1, <3>2, Replanned
  <2>2. ASSUME p \in Seq(ToSet(p)), Recovering'
        PROVE  IInv'
    <3>1. Planned'
      BY <1>2, <2>1, <2>2 DEF Planned
    <3> HIDE DEF p
    <3> QED
      BY <1>1, <2>1, <2>2, <3>1, ReplanKeeps
  <2>3. CASE f = "btmp"
    <3> DEFINE a == Write("budget", ExportBudget, Numbers)
               b == Fsync("budget")
               c == Unlink("btmp")
    <3>1. p = <<a, b, c, Sync>>
      BY <2>3 DEF RecoverOne
    <3>2. Harmless(Sync)
      BY DEF Harmless, Sync, Do
    <3> HIDE DEF a, b, c, p
    <3>3. p \in Seq(ToSet(p))
      BY <3>1, ShortPlans
    <3>4. Plan' = p
      BY <2>1, <3>3
    <3>5. Len(p) = 4 /\ p[1] = a /\ p[2] = b /\ p[3] = c /\ p[4] = Sync
      BY <3>1
    <3>6. Len(p) >= 3 /\ \A i \in 3 + 1 .. Len(p) : Harmless(p[i])
      BY <3>2, <3>5
    <3>7. Rest(3)'
      BY <3>4, <3>6 DEF Rest, Harmless
    <3>8. dir'["btmp"] # Absent
      BY <1>1, <1>3, <2>3
    <3>9. /\ Goes(1, Write("budget", ExportBudget, Numbers))'
          /\ Goes(2, Fsync("budget"))' /\ Goes(3, Unlink("btmp"))'
      BY <3>4, <3>5 DEF Goes, a, b, c, Write, Fsync, Unlink, Numbers
    <3>10. Recovering'
      BY <3>7, <3>8, <3>9 DEF Recovering
    <3> QED
      BY <2>2, <3>3, <3>10
  <2>4. CASE f = "xtmp" /\ WholeExport(dir.xtmp.lines) /\ dir.xtmp.seq \notin Exported
    <3> DEFINE a == Fsync("xtmp")
               b == Do("publish")
    <3>1. p = <<a, b, Sync>>
      BY <2>4 DEF RecoverOne
    <3>2. Harmless(Sync)
      BY DEF Harmless, Sync, Do
    <3> HIDE DEF a, b, p
    <3>3. p \in Seq(ToSet(p))
      BY <3>1, ShortPlans
    <3>4. Plan' = p
      BY <2>1, <3>3
    <3>5. Len(p) = 3 /\ p[1] = a /\ p[2] = b /\ p[3] = Sync
      BY <3>1
    <3>6. Len(p) >= 2 /\ \A i \in 2 + 1 .. Len(p) : Harmless(p[i])
      BY <3>2, <3>5
    <3>7. Rest(2)'
      BY <3>4, <3>6 DEF Rest, Harmless
    <3>8. Publishable'
      <4>1. dir.xtmp # Absent
        BY <1>3, <2>4
      <4>2. wiped => Clean(dir)
        BY <1>1 DEF Sound, Possible, Fine
      <4> QED
        BY <1>1, <4>1, <4>2 DEF Clean, Publishable
    <3>9. Goes(1, Fsync("xtmp"))' /\ Goes(2, Do("publish"))'
      BY <3>4, <3>5 DEF Goes, a, b, Fsync, Do
    <3>10. Recovering'
      BY <3>7, <3>8, <3>9 DEF Recovering
    <3> QED
      BY <2>2, <3>3, <3>10
  <2>5. CASE /\ f # "btmp"
             /\ ~(f = "xtmp" /\ WholeExport(dir.xtmp.lines) /\ dir.xtmp.seq \notin Exported)
    <3>1. p = <<Unlink(f)>>
      BY <2>5 DEF RecoverOne
    <3>2. Harmless(Unlink(f))
      BY <2>5 DEF Harmless, Unlink, Write
    <3>3. p \in Seq(ToSet(p))
      BY <3>1, ShortPlans
    <3> HIDE DEF p
    <3>4. Len(p) = 1 /\ p[1] = Unlink(f) /\ Plan' = p
      BY <2>1, <3>1, <3>3
    <3>5. Len(p) \in Nat /\ \A i \in 1 .. Len(p) : Harmless(p[i])
      BY <3>2, <3>4
    <3>6. Rest(0)'
      BY <3>4, <3>5, AllHarmless
    <3> QED
      BY <2>2, <3>3, <3>6 DEF Recovering
  <2> QED
    BY <2>3, <2>4, <2>5
<1>4. ASSUME left = {},
             Then("body", Prune(Cardinality(Exported))
                          \o (IF holder.changed THEN <<Sync>> ELSE <<>>))
      PROVE  IInv'
  <2> DEFINE n == Cardinality(Exported)
             q == IF holder.changed THEN <<Sync>> ELSE <<>>
             p == Prune(n) \o q
  <2>1. n \in Nat
    <3>1. IsFiniteSet(Exported)
      BY <1>1 DEF Sound, Possible, Fine, Whole, Exported
    <3> QED
      BY <3>1, FS_CardinalityType
  <2>2. q \in {<<>>, <<Sync>>}
    OBVIOUS
  <2>3. Then("body", p)
    BY <1>4
  <2> HIDE DEF q, n
  <2>4. /\ p \in Seq(ToSet(p)) /\ Len(p) \in Nat
        /\ \A i \in 1 .. Len(p) : Harmless(p[i])
    BY <2>1, <2>2, PrunedHarmless
  <2> HIDE DEF p
  <2>5. /\ Lock' /\ Plan' = p /\ holder'.job = holder.job /\ holder'.next = "body"
        /\ holder'.leave = holder.leave
    BY <1>1, <2>3, <2>4, ThenPlans
  <2>6. Rest(0)'
    BY <2>4, <2>5, AllHarmless
  <2>7. dir'.btmp = Absent
    BY <1>1, <1>4
  <2>8. Planned'
    BY <1>2, <2>5, <2>6, <2>7 DEF Planned, Preparing
  <2> QED
    BY <1>1, <2>5, <2>8, ReplanKeeps
<1> QED
  BY <1>3, <1>4 DEF Recover

\* The journal is cut to its whole lines before it is read.
LEMMA RepairKeeps ==
  ASSUME IInv, Repair
  PROVE  IInv'
<1> DEFINE c == Lines(dir.journal)
           a == Write("journal", c, {})
           b == Fsync("journal")
           p == <<a, b, Sync>>
<1>1. /\ UNCHANGED <<dir, held, coll, spent, wiped, count>> /\ holder # Free
      /\ holder.next = "body" /\ Lock /\ Sound /\ Reads /\ dir.journal # Absent
      /\ Then("body", p)
  BY DEF Repair, At, IInv
<1>2. holder.job \in {"export", "erase", "append"} /\ dir.btmp = Absent
  BY <1>1 DEF IInv, Planned, Preparing
<1>3. ~wiped
  BY <1>1 DEF Sound, Possible, Fine, Clean
<1>4. holder.job = "append" => coll.epoch = dir.enabled
  BY <1>1 DEF Reads, Fenced
<1>5. Harmless(b) /\ Harmless(Sync)
  BY DEF Harmless, Fsync, Sync, Do
<1>6. /\ a.op = "write" /\ a.full = c
  BY DEF Write
<1>7. a = Write("journal", a.full, {})
  BY DEF Write
<1> HIDE DEF a, b, c
<1>8. p \in Seq(ToSet(p)) /\ Len(p) = 3 /\ p[1] = a /\ p[2] = b /\ p[3] = Sync
  BY ShortPlans
<1> HIDE DEF p
<1>9. /\ Lock' /\ Plan' = p /\ holder'.job = holder.job /\ holder'.next = "body"
      /\ holder'.leave = holder.leave
  BY <1>1, <1>8, ThenPlans
<1>10. Len(p) >= 1 /\ \A i \in 1 + 1 .. Len(p) : Harmless(p[i])
  BY <1>5, <1>8
<1>11. Rest(1)'
  BY <1>9, <1>10 DEF Rest, Harmless
<1>12. Plan'[1] = Write("journal", Plan'[1].full, {})
  BY <1>7, <1>8, <1>9
<1>13. Preparing'
  BY <1>1, <1>2, <1>3, <1>4, <1>9, <1>11, <1>12 DEF Preparing, Write
<1>14. Planned'
  BY <1>2, <1>9, <1>13 DEF Planned
<1> QED
  BY <1>1, <1>9, <1>14, ReplanKeeps

\* The erasure has one step, and is made durable.
LEMMA EraseBodyKeeps ==
  ASSUME IInv, EraseBody
  PROVE  IInv'
<1> DEFINE a == Do("wipe")
           p == <<a, Sync>>
<1>1. /\ UNCHANGED <<dir, held, coll, spent, wiped, count>> /\ holder # Free
      /\ holder.job = "erase" /\ holder.next = "body" /\ Lock /\ Then("end", p)
  BY DEF EraseBody, At, IInv
<1> HIDE DEF a
<1>2. p \in Seq(ToSet(p)) /\ Len(p) = 2 /\ p[1] = a /\ p[2] = Sync
  BY ShortPlans
<1> HIDE DEF p
<1>3. /\ Lock' /\ Plan' = p /\ holder'.job = holder.job /\ holder'.next = "end"
      /\ holder'.leave = holder.leave
  BY <1>1, <1>2, ThenPlans
<1>4. Goes(1, Do("wipe"))' /\ Goes(2, Sync)'
  BY <1>2, <1>3 DEF Goes, Sync, Do, a
<1>5. Len(Plan') = 2
  BY <1>2, <1>3
<1>6. Planned'
  BY <1>1, <1>3, <1>4, <1>5 DEF Planned, Erasing
<1> QED
  BY <1>1, <1>3, <1>6, ReplanKeeps

\* A collector that gives the lock back and ends.
LEMMA EndKeeps ==
  ASSUME IInv, UNCHANGED <<dir, held, spent, wiped, count>>, coll' = Off, holder' = Free
  PROVE  IInv'
<1>1. Collector' /\ coll'.pc = "off"
  BY Gone
<1>2. Lock' /\ Planned' /\ holder'.job = "none"
  BY LockFreed
<1>3. Matched' /\ Counted'
  BY <1>1, <1>2 DEF IInv, Matched, Counted
<1> QED
  BY <1>1, <1>2, <1>3, QuietKeeps

\* A collector whose epoch is over stores nothing and ends.
LEMMA AppendFencedKeeps ==
  ASSUME IInv, AppendFenced
  PROVE  IInv'
  BY EndKeeps DEF AppendFenced

\* A command that gives the lock back.
LEMMA ReleaseKeeps ==
  ASSUME IInv, UNCHANGED <<dir, held, coll, spent, wiped, count>>, holder' = Free,
         holder.job \notin {"append", "latch"}
  PROVE  IInv'
<1>1. Lock' /\ Planned' /\ holder'.job = "none"
  BY LockFreed
<1>2. Matched' /\ Counted' /\ Collector'
  BY <1>1 DEF IInv, Matched, Counted, Collector, Is
<1> QED
  BY <1>1, <1>2, QuietKeeps

\* An empty export has nothing that could be cut.
LEMMA NothingCut ==
  Cuts(<<>>, <<>>) = {}
<1>1. Prefixes(<<>>) = {<<>>}
  <2>1. Len(<<>>) = 0 /\ 0 .. 0 = {0}
    OBVIOUS
  <2>2. SubSeq(<<>>, 1, 0) = <<>>
    OBVIOUS
  <2>3. Prefixes(<<>>) = {SubSeq(<<>>, 1, l) : l \in 0 .. 0}
    BY <2>1 DEF Prefixes
  <2> QED
    BY <2>1, <2>2, <2>3
<1> QED
  BY <1>1 DEF Cuts

\* Nor does a journal without lines show any.
LEMMA NothingShown ==
  ASSUME NEW s \in Snapshot(<<>>)
  PROVE  s = <<>>
<1>1. ToSet(<<>>) = {}
  BY DEF ToSet
<1>2. s \in SetToSeqs({})
  BY <1>1 DEF Snapshot, ByEpisode
<1>3. Cardinality({}) = 0
  BY FS_EmptySet
<1>4. DOMAIN s = {} /\ s = [i \in {} |-> s[i]]
  BY <1>2, <1>3 DEF SetToSeqs
<1>5. s \in Seq({}) /\ Len(s) = 0
  BY <1>4
<1> QED
  BY <1>5

\* The budget is replaced before the export is written, and covers it.
LEMMA ExportBodyKeeps ==
  ASSUME IInv, ExportBody
  PROVE  IInv'
<1>0. PICK lines \in Snapshot(Lines(dir.journal)) :
        LET seq == Largest(Exported) + 1
            total == Number(dir.budget) + Len(lines)
        IN IF dir.budget # Torn /\ Len(lines) \in 0..(ExportBudget - Number(dir.budget))
           THEN Then("end", Replace("btmp", "budget", total, {Torn} \cup 0..(total - 1))
                            \o <<Write("xtmp", [seq |-> seq, lines |-> lines],
                                       {[seq |-> seq, lines |-> c] : c \in Cuts(<<>>, lines)}),
                                 Fsync("xtmp"), Do("publish"), Sync>>
                            \o Prune(Cardinality(Exported) + 1))
           ELSE holder' = Free
  BY DEF ExportBody
<1> DEFINE seq == Largest(Exported) + 1
           spentBefore == Number(dir.budget)
           total == spentBefore + Len(lines)
           cuts == {[seq |-> seq, lines |-> c] : c \in Cuts(<<>>, lines)}
           a1 == Write("btmp", total, {Torn} \cup 0..(total - 1))
           a2 == Fsync("btmp")
           a3 == Rename("btmp", "budget")
           b1 == Write("xtmp", [seq |-> seq, lines |-> lines], cuts)
           b2 == Fsync("xtmp")
           b3 == Do("publish")
           p == <<a1, a2, a3, Sync>>
           q == <<b1, b2, b3, Sync>>
           r == Prune(Cardinality(Exported) + 1)
           full == (p \o q) \o r
<1>1. /\ UNCHANGED <<dir, held, coll, spent, wiped, count>> /\ holder # Free
      /\ holder.next = "body" /\ holder.job = "export" /\ Lock /\ Sound
  BY DEF ExportBody, At, IInv
<1>2. CASE holder' = Free
  BY <1>1, <1>2, ReleaseKeeps
<1>3. CASE /\ dir.budget # Torn /\ Len(lines) \in 0..(ExportBudget - spentBefore)
           /\ Then("end", full)
  <2>1. dir.btmp = Absent
    BY <1>1 DEF IInv, Planned, Preparing
  <2>2. /\ spentBefore \in 0 .. ExportBudget /\ spent <= spentBefore
        /\ spent \in 0 .. ExportBudget /\ ExportBudget \in Nat
    BY <1>1, <1>3, <2>1, StoreAssumption DEF Sound, Possible, Fine, Covers, Whole, Number
  <2>3. Len(lines) \in 0..(ExportBudget - spentBefore)
    BY <1>3
  <2>4. wiped => lines = <<>> /\ cuts = {}
    <3> SUFFICES ASSUME wiped PROVE lines = <<>> /\ cuts = {}
      OBVIOUS
    <3>1. dir.journal = Absent
      BY <1>1 DEF Sound, Possible, Fine, Clean
    <3>2. lines = <<>>
      BY <1>0, <3>1, NothingShown DEF Lines
    <3> QED
      BY <3>2, NothingCut
  <2>5. /\ a1.op = "write" /\ a1.file = "btmp" /\ a1.full = total
        /\ b1.op = "write" /\ b1.file = "xtmp" /\ b1.full.lines = lines
        /\ b1.cuts = cuts
    BY DEF Write
  <2>6. IsFiniteSet(Exported)
    BY <1>1 DEF Sound, Possible, Fine, Whole, Exported
  <2>7. Cardinality(Exported) + 1 \in Nat
    BY <2>6, FS_CardinalityType
  <2>8. PICK S : r \in Seq(S) /\ \A i \in 1 .. Len(r) : Harmless(r[i])
    BY <2>7, PruneHarmless
  <2>9. Then("end", full)
    BY <1>3
  <2>10. total \in 0 .. ExportBudget /\ spent + Len(lines) <= total
    <3> DEFINE n == Len(lines)
    <3>1. n \in 0 .. (ExportBudget - spentBefore)
      BY <2>3
    <3> HIDE DEF n, spentBefore
    <3>2. spentBefore + n \in 0 .. ExportBudget /\ spent + n <= spentBefore + n
      BY <2>2, <3>1
    <3> QED
      BY <3>2 DEF n
  <2>11. Len(lines) \in Nat
    BY <2>2, <2>3
  <2>12. PICK t \in 0 .. ExportBudget : t = total
    BY <2>10
  <2> HIDE DEF seq, spentBefore, total, cuts
  <2> HIDE DEF a1, a2, a3, b1, b2, b3
  <2> HIDE DEF r
  <2>13. /\ full \in Seq(ToSet(full)) /\ Len(full) = 8 + Len(r) /\ Len(r) \in Nat
         /\ full[1] = a1 /\ full[2] = a2 /\ full[3] = a3 /\ full[4] = Sync
         /\ full[5] = b1 /\ full[6] = b2 /\ full[7] = b3 /\ full[8] = Sync
         /\ \A i \in 9 .. 8 + Len(r) : full[i] = r[i - 8]
    <3>1. p \in Seq(ToSet(p)) /\ Len(p) = 4 /\ q \in Seq(ToSet(q)) /\ Len(q) = 4
      BY ShortPlans
    <3>2. /\ p[1] = a1 /\ p[2] = a2 /\ p[3] = a3 /\ p[4] = Sync
          /\ q[1] = b1 /\ q[2] = b2 /\ q[3] = b3 /\ q[4] = Sync
      OBVIOUS
    <3> DEFINE pq == p \o q
    <3>3. full = pq \o r
      OBVIOUS
    <3> HIDE DEF full
    <3>4. /\ pq \in Seq(ToSet(pq)) /\ Len(pq) = 8
          /\ pq[1] = a1 /\ pq[2] = a2 /\ pq[3] = a3 /\ pq[4] = Sync
          /\ pq[5] = b1 /\ pq[6] = b2 /\ pq[7] = b3 /\ pq[8] = Sync
      <4> HIDE DEF p, q
      <4> QED
        BY <3>1, <3>2, FourAndFour
    <3> HIDE DEF pq
    <3>5. /\ pq \o r \in Seq(ToSet(pq \o r)) /\ Len(pq \o r) = 8 + Len(r) /\ Len(r) \in Nat
          /\ \A i \in 1 .. 8 : (pq \o r)[i] = pq[i]
          /\ \A i \in 9 .. 8 + Len(r) : (pq \o r)[i] = r[i - 8]
      BY <2>8, <3>4, EightSteps
    <3> QED
      BY <3>3, <3>4, <3>5
  <2> HIDE DEF full
  <2>14. /\ Lock' /\ Plan' = full /\ holder'.job = holder.job /\ holder'.next = "end"
         /\ holder'.leave = holder.leave
    BY <1>1, <2>9, <2>13, ThenPlans
  <2>15. Len(full) >= 7 /\ \A i \in 7 + 1 .. Len(full) : Harmless(full[i])
    <3>1. Harmless(Sync)
      BY DEF Harmless, Sync, Do
    <3>2. ASSUME NEW i \in 7 + 1 .. Len(full) PROVE Harmless(full[i])
      <4>1. CASE i = 8
        BY <2>13, <3>1, <4>1
      <4>2. CASE i # 8
        <5>1. i - 8 \in 1 .. Len(r) /\ full[i] = r[i - 8]
          BY <2>13, <4>2
        <5> QED
          BY <2>8, <5>1
      <4> QED
        BY <4>1, <4>2
    <3> QED
      BY <2>13, <3>2
  <2>16. Rest(7)'
    BY <2>14, <2>15 DEF Rest, Harmless
  <2>17. Spending(5, t)'
    <3>1. Rest(5 + 2)'
      BY <2>16
    <3>2. Plan'[5] = b1 /\ Plan'[6] = b2 /\ Plan'[7] = b3
      BY <2>14, <2>13
    <3>3. Goes(5 + 1, Fsync("xtmp"))' /\ Goes(5 + 2, Do("publish"))'
      BY <3>2 DEF Goes, b2, b3, Fsync, Do
    <3>4. spent' = spent /\ wiped' = wiped
      BY <1>1
    <3>5. /\ Plan'[5].op = "write" /\ Plan'[5].file = "xtmp"
          /\ Plan'[5].full.lines = lines /\ Plan'[5].cuts = cuts
      BY <2>5, <3>2
    <3> QED
      BY <2>4, <2>10, <2>11, <2>12, <3>1, <3>3, <3>4, <3>5 DEF Spending
  <2>18. Replacing(4, "btmp", "budget", t)'
    <3>1. /\ Plan'[1] = a1 /\ Plan'[2] = a2 /\ Plan'[3] = a3 /\ Plan'[4] = Sync
      BY <2>14, <2>13
    <3> QED
      BY <2>5, <2>12, <3>1 DEF Replacing, Goes, a2, a3, Fsync, Rename, Sync, Do
  <2>19. Exporting'
    <3>1. 5 - 1 = 4 /\ 5 \in 1 .. 5
      OBVIOUS
    <3>2. Replacing(5 - 1, "btmp", "budget", t)'
      BY <2>18, <3>1
    <3>3. dir'.btmp = Absent
      BY <1>1, <2>1
    <3> QED
      BY <2>12, <2>17, <3>1, <3>2, <3>3 DEF Exporting
  <2>20. Planned'
    BY <1>1, <2>14, <2>19 DEF Planned
  <2> QED
    BY <1>1, <2>14, <2>20, ReplanKeeps
<1> QED
  BY <1>0, <1>2, <1>3 DEF Replace

\* A corrected aggregate ends with the newest correction.
LEMMA CorrectedLast ==
  ASSUME NEW fb \in {Absent} \cup Seq(Keys), NEW key \in Keys
  PROVE  /\ Corrected(fb, key) \in Seq(Keys) /\ Corrected(fb, key) # <<>>
         /\ Last(Corrected(fb, key)) = key /\ Len(Corrected(fb, key)) \in Nat
<1> DEFINE old == IF fb = Absent THEN <<>> ELSE fb
           same == {i \in DOMAIN old : old[i] = key}
           kept == IF same = {} THEN old ELSE RemoveAt(old, CHOOSE i \in same : TRUE)
           base == IF Len(kept) = Feedbacks THEN Tail(kept) ELSE kept
<1>1. old \in Seq(Keys)
  OBVIOUS
<1>2. kept \in Seq(Keys)
  <2>1. CASE same = {}
    BY <1>1, <2>1
  <2>2. CASE same # {}
    <3>1. PICK j : j = CHOOSE i \in same : TRUE
      OBVIOUS
    <3>2. j \in DOMAIN old
      BY <2>2, <3>1
    <3> HIDE DEF old
    <3>3. /\ j \in 1 .. Len(old) /\ Len(old) \in Nat
      BY <1>1, <3>2
    <3>4. RemoveAt(old, j) \in Seq(Keys)
      <4>1. SubSeq(old, 1, j - 1) \in Seq(Keys)
        BY <1>1, <3>3
      <4>2. SubSeq(old, j + 1, Len(old)) \in Seq(Keys)
        BY <1>1, <3>3
      <4> QED
        BY <4>1, <4>2 DEF RemoveAt
    <3> QED
      BY <2>2, <3>1, <3>4
  <2> QED
    BY <2>1, <2>2
<1> HIDE DEF kept
<1>3. base \in Seq(Keys)
  <2>1. Feedbacks \in Nat \ {0}
    BY StoreAssumption
  <2>2. CASE Len(kept) = Feedbacks
    <3>1. kept # <<>>
      BY <2>1, <2>2
    <3> QED
      BY <1>2, <2>2, <3>1
  <2>3. CASE Len(kept) # Feedbacks
    BY <1>2, <2>3
  <2> QED
    BY <2>2, <2>3
<1>4. Corrected(fb, key) = Append(base, key)
  BY DEF Corrected, kept
<1> HIDE DEF base
<1>5. /\ Append(base, key) \in Seq(Keys) /\ Len(Append(base, key)) = Len(base) + 1
      /\ Append(base, key)[Len(base) + 1] = key /\ Len(base) \in Nat
  BY <1>3
<1> QED
  BY <1>4, <1>5 DEF Last

\* Storing goes as planned, or the collector has exhausted its bytes.
LEMMA ChargedKeeps ==
  ASSUME IInv, UNCHANGED <<dir, held, spent, wiped, count>>, At("body"),
         holder.job = "append", coll.epoch = dir.enabled,
         NEW n, NEW p, p \in Seq(ToSet(p)), Charged(n, p),
         IsFeedback(coll.d) => \E v \in Seq(Keys) :
           /\ v # <<>> /\ Last(v) = coll.d.key
           /\ p = Replace("ftmp", "feedback", v, {Torn}),
         ~IsFeedback(coll.d) => \A i \in 1 .. Len(p) : Harmless(p[i]) \/ Evidence(p[i])
  PROVE  IInv'
<1>1. /\ holder # Free /\ holder.next = "body" /\ Lock /\ Collector /\ Matched
      /\ coll.pc = "storing" /\ ~holder.leave /\ coll.d \in Datagrams
  BY DEF At, IInv, Matched
<1>2. Counted'
  BY DEF IInv, Counted
<1>3. ASSUME coll' \in [pc : {"off", "starting", "draining", "admitted", "storing"},
                        epoch : Nat, d : Datagrams \cup {Absent}, snap : BOOLEAN,
                        exhausted : BOOLEAN, written : 0 .. WriteBudget,
                        received : 0 .. DatagramBudget],
             coll'.snap = coll.snap, coll'.epoch = coll.epoch, coll'.pc = coll.pc,
             coll'.d = coll.d, Lock', holder'.job = holder.job, holder'.next = "end",
             IF IsFeedback(coll.d) /\ ~holder'.leave THEN Correcting'
             ELSE \A i \in DOMAIN Plan' : Harmless(Plan'[i]) \/ Evidence(Plan'[i])
      PROVE  IInv'
  <2>1. Collector'
    BY <1>1, <1>3, GoesOn
  <2>2. Matched'
    BY <1>1, <1>3 DEF Matched
  <2>3. Appending'
    BY <1>3 DEF Appending, IsFeedback, Harmless, Evidence
  <2>4. Planned'
    BY <1>3, <2>3 DEF Planned
  <2> QED
    BY <1>2, <1>3, <2>1, <2>2, <2>4, QuietKeeps
<1>4. CASE /\ coll' = [coll EXCEPT !.exhausted = TRUE]
           /\ holder' = [holder EXCEPT !.next = "end", !.plan = Latch,
                                       !.leave = IsFeedback(coll.d)]
  <2> DEFINE q == Latch
  <2>1. q \in Seq(ToSet(q)) /\ Len(q) = 2
        /\ q[1] = Write("latch", TRUE, {}) /\ q[2] = Sync
    BY ShortPlans DEF Latch
  <2>2. Harmless(q[1]) /\ Harmless(q[2])
    BY <2>1 DEF Harmless, Sync, Do, Write
  <2>3. Len(q) = 2 /\ q \in Seq(ToSet(q))
    BY <2>1
  <2>4. holder' = [job |-> holder.job, next |-> "end", plan |-> q,
                   leave |-> IsFeedback(coll.d), changed |-> holder.changed]
    BY <1>1, <1>4 DEF Lock
  <2> HIDE DEF q
  <2>5. holder.changed \in BOOLEAN /\ IsFeedback(coll.d) \in BOOLEAN
    BY <1>1 DEF Lock, IsFeedback
  <2>6. /\ Lock' /\ Plan' = q /\ holder'.job = holder.job /\ holder'.next = "end"
        /\ holder'.leave = IsFeedback(coll.d)
    BY <1>1, <2>3, <2>4, <2>5, Replanned
  <2>7. \A i \in DOMAIN q : Harmless(q[i])
    <3>1. DOMAIN q = {1, 2}
      BY <2>3
    <3> QED
      BY <2>2, <3>1
  <2>8. /\ coll' \in [pc : {"off", "starting", "draining", "admitted", "storing"},
                      epoch : Nat, d : Datagrams \cup {Absent}, snap : BOOLEAN,
                      exhausted : BOOLEAN, written : 0 .. WriteBudget,
                      received : 0 .. DatagramBudget]
        /\ coll'.snap = coll.snap /\ coll'.epoch = coll.epoch /\ coll'.pc = coll.pc
        /\ coll'.d = coll.d
    BY <1>1, <1>4 DEF Collector
  <2>9. ~(IsFeedback(coll.d) /\ ~holder'.leave)
    BY <2>6
  <2> QED
    BY <1>3, <2>6, <2>7, <2>8, <2>9
<1>5. CASE /\ n \in 0 .. (WriteBudget - coll.written)
           /\ coll' = [coll EXCEPT !.written = @ + n] /\ Then("end", p)
  <2>1. /\ Lock' /\ Plan' = p /\ holder'.job = holder.job /\ holder'.next = "end"
        /\ holder'.leave = holder.leave
    BY <1>1, <1>5, ThenPlans
  <2>2. coll.written + n \in 0 .. WriteBudget
    BY <1>1, <1>5, StoreAssumption DEF Collector
  <2>3. /\ coll' \in [pc : {"off", "starting", "draining", "admitted", "storing"},
                      epoch : Nat, d : Datagrams \cup {Absent}, snap : BOOLEAN,
                      exhausted : BOOLEAN, written : 0 .. WriteBudget,
                      received : 0 .. DatagramBudget]
        /\ coll'.snap = coll.snap /\ coll'.epoch = coll.epoch /\ coll'.pc = coll.pc
        /\ coll'.d = coll.d
    BY <1>1, <1>5, <2>2 DEF Collector
  <2>4. CASE IsFeedback(coll.d)
    <3>1. PICK v \in Seq(Keys) : /\ v # <<>> /\ Last(v) = coll.d.key
                                 /\ p = Replace("ftmp", "feedback", v, {Torn})
      BY <2>4
    <3> DEFINE a == Write("ftmp", v, {Torn})
               b == Fsync("ftmp")
               c == Rename("ftmp", "feedback")
    <3>2. a.op = "write" /\ a.file = "ftmp" /\ a.full = v
      BY DEF Write
    <3>3. Plan' = <<a, b, c, Sync>>
      BY <2>1, <3>1 DEF Replace
    <3> HIDE DEF a, b, c
    <3>4. Len(Plan') = 4 /\ Plan'[1] = a /\ Plan'[2] = b /\ Plan'[3] = c /\ Plan'[4] = Sync
      BY <3>3
    <3>5. Replacing(4, "ftmp", "feedback", v)'
      BY <3>2, <3>4 DEF Replacing, Goes, b, c, Fsync, Rename, Sync, Do
    <3>6. Replacing(Len(Plan), "ftmp", "feedback", v)'
      BY <3>4, <3>5
    <3>7. Correcting'
      BY <2>3, <3>1, <3>6 DEF Correcting
    <3> QED
      BY <1>1, <1>3, <2>1, <2>3, <2>4, <3>7
  <2>5. CASE ~IsFeedback(coll.d)
    <3>1. DOMAIN p = 1 .. Len(p)
      OBVIOUS
    <3>2. \A i \in DOMAIN Plan' : Harmless(Plan'[i]) \/ Evidence(Plan'[i])
      BY <2>1, <2>5, <3>1
    <3> QED
      BY <1>3, <2>1, <2>3, <2>5, <3>2
  <2> QED
    BY <2>4, <2>5
<1> QED
  BY <1>4, <1>5 DEF Charged

\* A correction is about to replace the aggregate.
LEMMA AppendFeedbackKeeps ==
  ASSUME IInv, AppendFeedback
  PROVE  IInv'
<1> DEFINE new == Corrected(dir.feedback, coll.d.key)
           p == Replace("ftmp", "feedback", new, {Torn})
<1>1. /\ UNCHANGED <<dir, held, spent, wiped, count>> /\ At("body")
      /\ holder.job = "append" /\ coll.epoch = dir.enabled /\ IsFeedback(coll.d)
      /\ Matched /\ Sound
  BY DEF AppendFeedback, Fenced, IInv
<1>2. CASE coll' = Off /\ holder' = Free
  BY <1>1, <1>2, EndKeeps
<1>3. CASE ValidFeedback /\ Charged(Len(new), p)
  <2>1. coll.d \in Datagrams /\ coll.d.key \in Keys
    BY <1>1 DEF Matched, Keys
  <2>2. dir.feedback \in {Absent} \cup Seq(Keys)
    BY <1>1, <1>3 DEF Sound, Possible, Fine, Whole, ValidFeedback
  <2>3. new \in Seq(Keys) /\ new # <<>> /\ Last(new) = coll.d.key /\ Len(new) \in Nat
    BY <2>1, <2>2, CorrectedLast
  <2> HIDE DEF new
  <2>4. p \in Seq(ToSet(p))
    BY ShortPlans DEF Replace
  <2>5. Charged(Len(new), p)
    BY <1>3
  <2>6. \E v \in Seq(Keys) : /\ v # <<>> /\ Last(v) = coll.d.key
                             /\ p = Replace("ftmp", "feedback", v, {Torn})
    BY <2>3
  <2> HIDE DEF p
  <2> QED
    BY <1>1, <2>3, <2>4, <2>5, <2>6, ChargedKeeps
<1> QED
  BY <1>2, <1>3 DEF AppendFeedback

\* What a step on the journal is.
LEMMA EvidenceSteps ==
  ASSUME NEW full, NEW cuts
  PROVE  /\ \A f \in {"journal", "jtmp"} : Evidence(Write(f, full, cuts)) /\ Evidence(Fsync(f))
         /\ Evidence(Rename("jtmp", "journal")) /\ Harmless(Sync)
  BY DEF Evidence, Write, Fsync, Rename, Harmless, Sync, Do

\* Evidence is refused, appended, or compacts the journal.
LEMMA AppendEvidenceKeeps ==
  ASSUME IInv, AppendEvidence
  PROVE  IInv'
<1> DEFINE old == IF dir.journal = Absent THEN <<>> ELSE dir.journal
           new == Append(old, coll.d)
           d == Write("journal", new, Cuts(old, <<coll.d>>))
           e == Fsync("journal")
           tail == IF dir.journal = Absent THEN <<Sync>> ELSE <<>>
           q == <<d, e>> \o tail
<1>1. /\ UNCHANGED <<dir, held, spent, wiped, count>> /\ At("body")
      /\ holder.job = "append" /\ coll.epoch = dir.enabled /\ ~IsFeedback(coll.d)
  BY DEF AppendEvidence, Fenced, Reads
<1>2. CASE Then("end", <<>>) /\ UNCHANGED coll
  <2>1. holder # Free /\ holder.next = "body" /\ Lock
    BY <1>1 DEF At, IInv
  <2>2. <<>> \in Seq(ToSet(<<>>))
    BY ShortPlans
  <2>3. /\ Lock' /\ Plan' = <<>> /\ holder'.job = holder.job /\ holder'.next = "end"
        /\ holder'.leave = holder.leave
    BY <1>2, <2>1, <2>2, ThenPlans
  <2>4. DOMAIN Plan' = {}
    BY <2>3
  <2>5. Appending'
    BY <1>1, <1>2, <2>4 DEF Appending, IsFeedback
  <2>6. Planned'
    BY <1>1, <2>3, <2>5 DEF Planned
  <2> QED
    BY <1>1, <1>2, <2>1, <2>3, <2>6, ReplanKeeps
<1>3. ASSUME NEW small,
             Charged(Len(small), Replace("jtmp", "journal", small, Cuts(<<>>, small)))
      PROVE  IInv'
  <2> DEFINE a == Write("jtmp", small, Cuts(<<>>, small))
             b == Fsync("jtmp")
             c == Rename("jtmp", "journal")
             p == <<a, b, c, Sync>>
  <2>0. Charged(Len(small), p)
    BY <1>3 DEF Replace
  <2>1. Evidence(a) /\ Evidence(b) /\ Evidence(c) /\ Harmless(Sync)
    BY EvidenceSteps
  <2> HIDE DEF a, b, c
  <2>2. p \in Seq(ToSet(p)) /\ Len(p) = 4 /\ p[1] = a /\ p[2] = b /\ p[3] = c
        /\ p[4] = Sync
    BY ShortPlans
  <2>3. \A i \in 1 .. 4 : i = 1 \/ i = 2 \/ i = 3 \/ i = 4
    OBVIOUS
  <2>4. Charged(Len(small), p)
    BY <2>0 DEF a, b, c
  <2> HIDE DEF p
  <2>5. \A i \in 1 .. Len(p) : Harmless(p[i]) \/ Evidence(p[i])
    BY <2>1, <2>2, <2>3
  <2> QED
    BY <1>1, <2>2, <2>4, <2>5, ChargedKeeps
<1>4. CASE Charged(1, q)
  <2>1. Evidence(d) /\ Evidence(e) /\ Harmless(Sync)
    BY EvidenceSteps
  <2>2. tail = <<>> \/ tail = <<Sync>>
    OBVIOUS
  <2>3. Charged(1, q)
    BY <1>4
  <2> DEFINE de == <<d, e>>
  <2> HIDE DEF d, e
  <2>4. de \in Seq(ToSet(de)) /\ Len(de) = 2 /\ de[1] = d /\ de[2] = e
    BY ShortPlans
  <2>5. q = de \o tail
    OBVIOUS
  <2> HIDE DEF tail, de, q
  <2>6. /\ tail \in Seq(ToSet(tail)) /\ \A i \in 1 .. Len(tail) : tail[i] = Sync
    <3>1. CASE tail = <<>>
      BY <3>1, ShortPlans
    <3>2. CASE tail = <<Sync>>
      <4>1. tail \in Seq(ToSet(tail))
        BY <3>2, ShortPlans
      <4>2. Len(tail) = 1 /\ tail[1] = Sync /\ \A i \in 1 .. 1 : i = 1
        BY <3>2
      <4> QED
        BY <4>1, <4>2
    <3> QED
      BY <2>2, <3>1, <3>2
  <2>7. /\ q \in Seq(ToSet(q)) /\ Len(q) = Len(de) + Len(tail)
        /\ Len(de) \in Nat /\ Len(tail) \in Nat
        /\ \A i \in 1 .. Len(de) : q[i] = de[i]
        /\ \A i \in Len(de) + 1 .. Len(de) + Len(tail) : q[i] = tail[i - Len(de)]
    <3>1. de \in Seq(ToSet(de)) /\ tail \in Seq(ToSet(tail))
      BY <2>4, <2>6
    <3>2. /\ de \o tail \in Seq(ToSet(de \o tail)) /\ Len(de \o tail) = Len(de) + Len(tail)
          /\ Len(de) \in Nat /\ Len(tail) \in Nat
          /\ \A i \in 1 .. Len(de) : (de \o tail)[i] = de[i]
          /\ \A i \in Len(de) + 1 .. Len(de) + Len(tail) :
               (de \o tail)[i] = tail[i - Len(de)]
      BY <3>1, Joined
    <3> QED
      BY <2>5, <3>2
  <2>8. \A i \in 1 .. Len(q) : Harmless(q[i]) \/ Evidence(q[i])
    <3> SUFFICES ASSUME NEW i \in 1 .. Len(q) PROVE Harmless(q[i]) \/ Evidence(q[i])
      OBVIOUS
    <3>1. CASE i \in 1 .. 2
      BY <2>1, <2>4, <2>7, <3>1
    <3>2. CASE i \notin 1 .. 2
      <4>1. i - 2 \in 1 .. Len(tail) /\ q[i] = tail[i - 2]
        BY <2>4, <2>7, <3>2
      <4>2. q[i] = Sync
        BY <2>6, <4>1
      <4> QED
        BY <2>1, <4>2
    <3> QED
      BY <3>1, <3>2
  <2> QED
    BY <1>1, <2>3, <2>7, <2>8, ChargedKeeps
<1> QED
  BY <1>2, <1>3, <1>4 DEF AppendEvidence, Replace

-----------------------------------------------------------------------------
(* What is left when an operation ends, or is interrupted.                 *)

\* A marker is written whole.
LEMMA UncutMarkers ==
  ASSUME IInv, Plan # <<>>, Plan[1].op = "write", Plan[1].file \in {"enabled", "status"}
  PROVE  Plan[1].cuts = {}
<1>1. Len(Plan) \in Nat \ {0} /\ DOMAIN Plan = 1 .. Len(Plan)
  <2>1. Plan \in Seq(ToSet(Plan))
    BY DEF IInv, Lock
  <2> HIDE DEF Plan
  <2> QED
    BY <2>1, TailOf
<1>2. Harmless(Plan[1]) => Plan[1].cuts = {}
  BY DEF Harmless
<1>3. Rest(0) => Plan[1].cuts = {}
  BY <1>1, <1>2 DEF Rest
<1>4. Recovering => Plan[1].cuts = {}
  BY <1>3 DEF Recovering, Goes, Fsync, Do, Write, Unlink
<1>5. Preparing => Plan[1].cuts = {}
  BY <1>3 DEF Preparing, Write
<1>6. Enabling \/ Disabling => Plan[1].cuts = {}
  BY <1>3 DEF Enabling, Disabling, Goes, Unlink, Write
<1>7. Exporting => Plan[1].cuts = {}
  <2>1. ASSUME NEW k \in 1 .. 5, NEW total \in 0 .. ExportBudget,
               Spending(k, total), Replacing(k - 1, "btmp", "budget", total)
        PROVE  FALSE
    <3>1. CASE k = 1
      BY <2>1, <3>1 DEF Spending
    <3>2. CASE k = 2
      BY <2>1, <3>2 DEF Replacing, Goes, Sync, Do
    <3>3. CASE k = 3
      BY <2>1, <3>3 DEF Replacing, Goes, Rename
    <3>4. CASE k = 4
      BY <2>1, <3>4 DEF Replacing, Goes, Fsync
    <3>5. CASE k = 5
      BY <2>1, <3>5 DEF Replacing
    <3> QED
      BY <2>1, <3>1, <3>2, <3>3, <3>4, <3>5
  <2>2. ~ Goes(1, Fsync("xtmp")) /\ ~ Goes(1, Do("publish"))
    BY DEF Goes, Fsync, Do
  <2> QED
    BY <1>3, <2>1, <2>2 DEF Exporting
<1>8. ~Erasing
  BY <1>1 DEF Erasing, Goes, Do, Sync
<1>9. Starting => Plan[1].cuts = {}
  <2> SUFFICES ASSUME Starting PROVE Plan[1].cuts = {}
    OBVIOUS
  <2>1. 1 \in DOMAIN Plan
    BY <1>1
  <2>2. \/ Harmless(Plan[1])
        \/ \E kind \in Kinds :
             Goes(1, Write("status", [kind |-> kind, epoch |-> coll.epoch], {}))
    BY <2>1 DEF Starting
  <2>3. ASSUME NEW v, Goes(1, Write("status", v, {}))
        PROVE  Plan[1].cuts = {}
    BY <2>3 DEF Goes, Write
  <2> QED
    BY <1>2, <2>2, <2>3
<1>10. Appending => Plan[1].cuts = {}
  <2> SUFFICES ASSUME Appending PROVE Plan[1].cuts = {}
    OBVIOUS
  <2>1. CASE IsFeedback(coll.d) /\ ~holder.leave
    <3>1. PICK v \in Seq(Keys) : Replacing(Len(Plan), "ftmp", "feedback", v)
      BY <2>1 DEF Appending, Correcting
    <3> QED
      BY <1>1, <3>1 DEF Replacing, Goes, Sync, Do, Rename, Fsync
  <2>2. CASE ~(IsFeedback(coll.d) /\ ~holder.leave)
    <3>1. Harmless(Plan[1]) \/ Evidence(Plan[1])
      BY <1>1, <2>2 DEF Appending
    <3> QED
      BY <1>2, <3>1 DEF Evidence
  <2> QED
    BY <2>1, <2>2
<1> QED
  BY <1>3, <1>4, <1>5, <1>6, <1>7, <1>8, <1>9, <1>10 DEF IInv, Planned, Lock, Jobs

\* An interruption changes no marker, except that it may remove the status.
LEMMA CutMarkers ==
  ASSUME IInv, Cut
  PROVE  MarkersStay
<1>1. CASE dir' = dir
  BY <1>1 DEF MarkersStay
<1>2. CASE dir' # dir
  <2> DEFINE st == Head(holder.plan)
  <2>1. Plan # <<>> /\ st = Plan[1] /\ dir' \in Midway(st)
    <3>1. Plan # <<>> /\ dir' \in Midway(st)
      BY <1>2 DEF Cut, Plan
    <3>2. Plan \in Seq(ToSet(Plan))
      BY DEF IInv, Lock
    <3>3. st = Head(Plan)
      BY DEF Plan
    <3> HIDE DEF Plan, st
    <3>4. Head(Plan) = Plan[1]
      BY <3>1, <3>2, TailOf
    <3> QED
      BY <3>1, <3>3, <3>4
  <2> HIDE DEF st
  <2>2. dir = [f \in Files \cup {"exports"} |-> dir[f]] /\ Sound
    BY DEF IInv, Sound, Possible, Fine, Whole
  <2>3. CASE st.op = "write"
    <3>1. PICK c \in st.cuts : dir' = [dir EXCEPT ![st.file] = c]
      BY <2>1, <2>3 DEF Midway
    <3>2. st.file \notin {"enabled", "status"}
      BY <2>1, <2>3, <3>1, UncutMarkers
    <3>3. "enabled" \in DOMAIN dir /\ "status" \in DOMAIN dir
      BY <2>2 DEF Files
    <3>4. dir'["enabled"] = dir["enabled"] /\ dir'["status"] = dir["status"]
      BY <3>1, <3>2, <3>3
    <3> QED
      BY <3>4 DEF MarkersStay
  <2>4. CASE st.op = "wipe"
    <3>1. PICK S \in SUBSET {f \in Managed : dir[f] # Absent}, X \in SUBSET Exported :
            dir' = Cleared(S, X)
      BY <2>1, <2>4 DEF Midway
    <3>2. S \in SUBSET Managed
      OBVIOUS
    <3>3. \A f \in Files : Cleared(S, X)[f] = IF f \in S THEN Absent ELSE dir[f]
      <4>1. \A T \in SUBSET Managed :
              /\ Fine(Cleared(T, X), 0)
              /\ \A f \in Files : Cleared(T, X)[f] = IF f \in T THEN Absent ELSE dir[f]
              /\ Cleared(T, X).exports = [m \in Exported \ X |-> dir.exports[m]]
        BY <2>2, Removed
      <4> QED
        BY <3>2, <4>1
    <3>4. "enabled" \notin S /\ "enabled" \in Files /\ "status" \in Files
      BY <3>2 DEF Managed, Files
    <3>5. dir'["enabled"] = dir["enabled"] /\ dir'["status"] \in {dir["status"], Absent}
      BY <3>1, <3>3, <3>4
    <3> QED
      BY <3>5 DEF MarkersStay
  <2> QED
    BY <2>1, <2>3, <2>4 DEF Midway
<1> QED
  BY <1>1, <1>2

\* A collector that was storing drains the socket again.
LEMMA DrainsAgain ==
  ASSUME Sound, Collector, MarkersStay, wiped' = wiped, coll.pc = "storing",
         coll' = Drained(coll)
  PROVE  Collector' /\ coll'.pc = "draining"
<1>1. /\ coll' \in [pc : {"off", "starting", "draining", "admitted", "storing"},
                    epoch : Nat, d : Datagrams \cup {Absent}, snap : BOOLEAN,
                    exhausted : BOOLEAN, written : 0 .. WriteBudget,
                    received : 0 .. DatagramBudget]
      /\ coll'.snap = coll.snap /\ coll'.epoch = coll.epoch /\ coll'.pc = "draining"
  BY DEF Collector, Drained
<1>2. dir.enabled \in {Absent} \cup 1 .. count.epochs
  BY DEF Sound, Possible, Fine, Whole
<1>3. ASSUME dir'.enabled # Absent, Is("capturing")'
      PROVE  dir.enabled # Absent /\ Is("capturing") /\ dir'.enabled = dir.enabled
  <2>1. dir'.enabled = dir.enabled /\ dir.enabled \in Nat
    BY <1>2, <1>3 DEF MarkersStay
  <2>2. dir'.status = [kind |-> "capturing", epoch |-> dir.enabled]
    BY <1>3, <2>1 DEF Is
  <2>3. dir'.status # Absent
    BY <2>1, <2>2, StatusPresent
  <2> QED
    BY <1>3, <2>1, <2>2, <2>3 DEF MarkersStay, Is
<1>4. coll.snap /\ ~wiped
  BY DEF Collector
<1>5. (dir.enabled # Absent /\ Is("capturing")) => coll.epoch = dir.enabled
  BY DEF Collector
<1> QED
  BY <1>1, <1>3, <1>4, <1>5 DEF Collector

\* An interrupted operation leaves sound directories and a free lock.
LEMMA InterruptKeeps ==
  ASSUME IInv, Cut, Use({"faults"}), holder' = Free, wiped' = wiped,
         \/ coll' = Off
         \/ coll' = coll /\ coll.pc # "storing"
         \/ coll' = Drained(coll) /\ coll.pc = "storing"
  PROVE  IInv'
<1>1. Counted' /\ count'.epochs = count.epochs
  <2>1. {"faults"} \in SUBSET {"epochs", "sessions", "commands", "faults"}
    OBVIOUS
  <2> QED
    BY <2>1, UseCounts DEF IInv
<1>2. Sound'
  <2>1. holder # Free /\ Plan # <<>> => Good(Head(Plan))
    BY PlanGood DEF IInv
  <2> QED
    BY <1>1, <2>1, CutSound DEF IInv
<1>3. MarkersStay
  BY CutMarkers
<1>4. Collector' /\ coll'.pc # "storing"
  <2>1. CASE coll' = Off
    BY <2>1, Gone
  <2>2. CASE coll' = coll /\ coll.pc # "storing"
    BY <1>3, <2>2, MarkersCollector DEF IInv
  <2>3. CASE coll' = Drained(coll) /\ coll.pc = "storing"
    BY <1>3, <2>3, DrainsAgain DEF IInv
  <2> QED
    BY <2>1, <2>2, <2>3
<1>5. Lock' /\ Planned' /\ holder'.job = "none"
  BY LockFreed
<1>6. Matched'
  BY <1>4, <1>5 DEF Matched
<1> QED
  BY <1>1, <1>2, <1>4, <1>5, <1>6 DEF IInv

\* An operation fails.
LEMMA FailKeeps ==
  ASSUME IInv, Fail
  PROVE  IInv'
<1>1. coll.pc = "storing" <=> holder.job \in {"append", "latch"}
  BY DEF IInv, Matched
<1>2. \/ coll' = Off
      \/ coll' = coll /\ coll.pc # "storing"
      \/ coll' = Drained(coll) /\ coll.pc = "storing"
  BY <1>1 DEF Fail, Collecting
<1> QED
  BY <1>2, InterruptKeeps DEF Fail

\* The holder of the lock is killed; a collector dies with its operation.
LEMMA KillKeeps ==
  ASSUME IInv, Kill
  PROVE  IInv'
<1>1. coll.pc = "storing" <=> holder.job \in {"append", "latch"}
  BY DEF IInv, Matched
<1>2. coll' = Off \/ (coll' = coll /\ coll.pc # "storing")
  BY <1>1 DEF Kill, Collecting
<1> QED
  BY <1>2, InterruptKeeps DEF Kill

\* Whatever directory a power cut leaves was sound before it.
LEMMA PowerCutKeeps ==
  ASSUME IInv, PowerCut
  PROVE  IInv'
<1>1. /\ Use({"faults"}) /\ dir' \in held /\ held' = {dir'} /\ coll' = Off
      /\ holder' = Free /\ UNCHANGED <<spent, wiped>>
  BY DEF PowerCut
<1>2. Counted' /\ count'.epochs = count.epochs
  <2>1. {"faults"} \in SUBSET {"epochs", "sessions", "commands", "faults"}
    OBVIOUS
  <2> QED
    BY <1>1, <2>1, UseCounts DEF IInv
<1>3. Fine(dir', spent)
  BY <1>1 DEF IInv, Sound, Possible
<1>4. Sound'
  <2>1. spent' = spent /\ wiped' = wiped
    BY <1>1
  <2>2. \A s \in Possible' : s = dir'
    BY <1>1 DEF Possible
  <2>3. Whole(dir') /\ Covers(dir', spent) /\ (wiped => Clean(dir'))
    BY <1>3 DEF Fine
  <2>4. \A s \in Possible' : Fine(s, spent)'
    BY <1>2, <2>1, <2>2, <2>3 DEF Fine, Whole, Covers, Clean, Statuses
  <2> QED
    BY <1>1, <2>1, <2>4 DEF IInv, Sound
<1>5. Collector' /\ coll'.pc = "off"
  BY <1>1, Gone
<1>6. Lock' /\ Planned' /\ holder'.job = "none"
  BY <1>1, LockFreed
<1>7. Matched'
  BY <1>5, <1>6 DEF Matched
<1> QED
  BY <1>2, <1>4, <1>5, <1>6, <1>7 DEF IInv

\* A session publishes its status; it starts only with a snapshot sent.
LEMMA StartKeeps ==
  ASSUME IInv, Start
  PROVE  IInv'
<1>1. /\ UNCHANGED <<dir, held, spent, wiped, count>> /\ coll.pc = "starting"
      /\ holder = Free /\ dir.enabled = coll.epoch
  BY DEF Start
<1>2. PICK kind \in Kinds, ready \in BOOLEAN :
        /\ Take("start", "end",
                NewSession \o Mark("status", [kind |-> kind, epoch |-> coll.epoch]),
                kind # "capturing" \/ ~ready)
        /\ coll' = [coll EXCEPT !.snap = kind = "capturing"]
  BY DEF Start
<1> DEFINE st == Write("status", [kind |-> kind, epoch |-> coll.epoch], {})
           p == NewSession
           q == <<st, Sync>>
           full == p \o q
           leave == kind # "capturing" \/ ~ready
<1>3. Harmless(Sync) /\ Harmless(Unlink("latch"))
  BY DEF Harmless, Sync, Do, Unlink, Write
<1>4. p \in Seq(ToSet(p)) /\ \A i \in 1 .. Len(p) : Harmless(p[i])
  <2>1. CASE p = <<>>
    <3>1. Len(<<>>) = 0 /\ <<>> \in Seq(ToSet(<<>>))
      BY ShortPlans
    <3> HIDE DEF p
    <3> QED
      BY <2>1, <3>1
  <2>2. CASE p = <<Unlink("latch"), Sync>>
    <3> DEFINE u == Unlink("latch")
    <3> HIDE DEF u, p
    <3>1. <<u, Sync>> \in Seq(ToSet(<<u, Sync>>))
      BY ShortPlans
    <3>2. p = <<u, Sync>>
      BY <2>2 DEF u
    <3>3. Len(p) = 2 /\ p[1] = u /\ p[2] = Sync
      BY <3>2
    <3>4. \A i \in 1 .. 2 : i = 1 \/ i = 2
      OBVIOUS
    <3>5. Harmless(p[1]) /\ Harmless(p[2])
      BY <1>3, <3>3 DEF u
    <3> QED
      BY <3>1, <3>2, <3>3, <3>4, <3>5
  <2> QED
    BY <2>1, <2>2 DEF NewSession
<1> HIDE DEF st
<1>5. q \in Seq(ToSet(q)) /\ Len(q) = 2 /\ q[1] = st /\ q[2] = Sync
  BY ShortPlans
<1>6. leave \in BOOLEAN /\ (kind # "capturing" => leave)
  OBVIOUS
<1>7. Take("start", "end", full, leave)
  BY <1>2 DEF Mark, st
<1> HIDE DEF p, q, leave
<1>8. /\ p \o q \in Seq(ToSet(p \o q)) /\ Len(p \o q) = Len(p) + Len(q)
      /\ Len(p) \in Nat /\ Len(q) \in Nat
      /\ \A i \in 1 .. Len(p) : (p \o q)[i] = p[i]
      /\ \A i \in Len(p) + 1 .. Len(p) + Len(q) : (p \o q)[i] = q[i - Len(p)]
  <2>1. p \in Seq(ToSet(p)) /\ q \in Seq(ToSet(q))
    BY <1>4, <1>5
  <2> QED
    BY <2>1, Joined
<1> HIDE DEF full
<1>9. full \in Seq(ToSet(full)) /\ \A i \in 1 .. Len(full) : Harmless(full[i]) \/ full[i] = st
  <2>1. /\ full \in Seq(ToSet(full)) /\ Len(full) = Len(p) + 2 /\ Len(p) \in Nat
        /\ \A i \in 1 .. Len(p) : full[i] = p[i]
        /\ \A i \in Len(p) + 1 .. Len(p) + 2 : full[i] = q[i - Len(p)]
    BY <1>5, <1>8 DEF full
  <2>2. ASSUME NEW i \in 1 .. Len(full) PROVE Harmless(full[i]) \/ full[i] = st
    <3>1. CASE i <= Len(p)
      BY <1>4, <2>1, <3>1
    <3>2. CASE ~(i <= Len(p))
      <4>1. i - Len(p) \in 1 .. 2 /\ full[i] = q[i - Len(p)]
        BY <2>1, <3>2
      <4>2. q[i - Len(p)] \in {st, Sync}
        BY <1>5, <4>1
      <4> QED
        BY <1>3, <4>1, <4>2
    <3> QED
      BY <3>1, <3>2
  <2> QED
    BY <2>1, <2>2
<1>10. DOMAIN full = 1 .. Len(full)
  BY <1>9
<1>11. Plan' = full /\ holder'.job = "start" /\ holder'.next = "end" /\ holder'.leave = leave
  BY <1>7 DEF Take, Plan
<1>12. /\ Collector' /\ coll'.pc = "starting" /\ coll'.epoch = coll.epoch
       /\ leave \/ coll'.snap
  <2>1. CASE kind = "capturing"
    <3>1. coll' = [coll EXCEPT !.snap = TRUE]
      BY <1>2, <2>1
    <3> QED
      BY <1>1, <3>1 DEF IInv, Collector
  <2>2. CASE kind # "capturing"
    <3>1. coll' = [coll EXCEPT !.snap = FALSE]
      BY <1>2, <2>2
    <3> QED
      BY <1>1, <1>6, <2>2, <3>1 DEF IInv, Collector
  <2> QED
    BY <2>1, <2>2
<1>13. Starting'
  <2>1. ASSUME NEW i \in DOMAIN full
        PROVE  \/ Harmless(full[i])
               \/ full[i] = Write("status", [kind |-> kind, epoch |-> coll'.epoch], {})
    BY <1>9, <1>10, <1>12, <2>1 DEF st
  <2>2. \A i \in DOMAIN Plan' :
           \/ Harmless(Plan'[i])
           \/ \E k \in Kinds :
                Plan'[i] = Write("status", [kind |-> k, epoch |-> coll'.epoch], {})
    BY <1>11, <2>1
  <2> QED
    BY <2>2 DEF Starting, Goes, Harmless, Write
<1>14. Planned'
  BY <1>11, <1>13 DEF Planned
<1>15. Matched'
  BY <1>1, <1>11, <1>12 DEF Matched
<1>16. Counted' /\ "start" \in Jobs /\ "end" \in {"recover", "end"}
  BY <1>1 DEF IInv, Counted, Jobs
<1> QED
  BY <1>1, <1>6, <1>7, <1>9, <1>12, <1>14, <1>15, <1>16, TakeKeeps

\* An operation ends: an erasure has erased, a session has begun.
LEMMA FinishKeeps ==
  ASSUME IInv, Finish
  PROVE  IInv'
<1>1. /\ UNCHANGED <<dir, held, spent, count>> /\ holder # Free /\ Plan = <<>>
      /\ holder.next = "end" /\ holder' = Free
      /\ wiped' = (holder.job = "erase" \/ (wiped /\ (holder.job = "start" => holder.leave)))
  BY DEF Finish, At, Plan
<1>2. Lock' /\ Planned' /\ holder'.job = "none"
  BY <1>1, LockFreed
<1>3. Counted'
  BY <1>1 DEF IInv, Counted
<1>4. Sound'
  <2>1. wiped' => \A s \in Possible : Clean(s)
    <3>1. CASE holder.job = "erase"
      <4>1. Erasing
        BY <1>1, <3>1 DEF IInv, Planned
      <4>2. Len(<<>>) = 0
        OBVIOUS
      <4> QED
        BY <1>1, <4>1, <4>2 DEF Erasing
    <3>2. CASE holder.job # "erase"
      BY <1>1, <3>2 DEF IInv, Sound, Fine
    <3> QED
      BY <3>1, <3>2
  <2>2. \A s \in Possible : Whole(s) /\ Covers(s, spent)
    BY DEF IInv, Sound, Fine
  <2>3. \A s \in Possible' : Whole(s)' /\ Covers(s, spent)' /\ (wiped' => Clean(s)')
    BY <1>1, <2>1, <2>2 DEF Whole, Covers, Clean, Statuses, Possible
  <2>4. wiped' \in BOOLEAN
    BY <1>1
  <2> QED
    BY <1>1, <2>3, <2>4 DEF IInv, Sound, Fine
<1>5. Collector' /\ coll'.pc # "storing"
  <2>1. CASE ~Collecting(holder.job)
    <3>1. coll' = coll /\ coll.pc # "storing"
      BY <2>1 DEF Finish, Collecting, IInv, Matched
    <3>2. CASE holder.job = "erase"
      <4>1. coll.pc \in {"off", "starting"}
        BY <3>2 DEF IInv, Matched
      <4> QED
        BY <3>1, <4>1 DEF IInv, Collector
    <3>3. CASE holder.job # "erase"
      <4>1. wiped' = wiped
        BY <1>1, <2>1, <3>3 DEF Collecting, IInv, Sound
      <4> QED
        BY <1>1, <3>1, <4>1 DEF IInv, Collector, Is
    <3> QED
      BY <3>2, <3>3
  <2>2. CASE Collecting(holder.job) /\ holder.leave
    BY <2>2, Gone DEF Finish
  <2>3. CASE Collecting(holder.job) /\ ~holder.leave
    <3>1. coll' = Drained(coll)
      BY <2>3 DEF Finish
    <3>2. /\ coll' \in [pc : {"off", "starting", "draining", "admitted", "storing"},
                        epoch : Nat, d : Datagrams \cup {Absent}, snap : BOOLEAN,
                        exhausted : BOOLEAN, written : 0 .. WriteBudget,
                        received : 0 .. DatagramBudget]
          /\ coll'.snap = coll.snap /\ coll'.epoch = coll.epoch /\ coll'.pc = "draining"
      BY <3>1 DEF IInv, Collector, Drained
    <3>3. CASE holder.job = "start"
      <4>1. coll.snap /\ coll.epoch = dir.enabled
        BY <2>3, <3>3 DEF IInv, Matched
      <4>2. wiped' = FALSE
        BY <1>1, <2>3, <3>3
      <4> QED
        BY <1>1, <3>2, <4>1, <4>2 DEF Collector
    <3>4. CASE holder.job # "start"
      <4>1. coll.pc = "storing" /\ holder.job # "erase"
        BY <2>3, <3>4 DEF Collecting, IInv, Matched
      <4>2. wiped' = wiped
        BY <1>1, <3>4, <4>1 DEF IInv, Sound
      <4>3. MarkersStay
        BY <1>1 DEF MarkersStay
      <4> QED
        BY <3>1, <4>1, <4>2, <4>3, DrainsAgain DEF IInv
    <3> QED
      BY <3>2, <3>3, <3>4
  <2> QED
    BY <2>1, <2>2, <2>3
<1>6. Matched'
  BY <1>2, <1>5 DEF Matched
<1> QED
  BY <1>2, <1>3, <1>4, <1>5, <1>6 DEF IInv

\* A step that changes nothing.
LEMMA StutterKeeps ==
  ASSUME IInv, UNCHANGED vars
  PROVE  IInv'
<1>1. UNCHANGED <<dir, held, holder, spent, wiped, count, coll>>
  BY DEF vars
<1>2. Counted' /\ Matched' /\ Collector'
  BY <1>1 DEF IInv, Counted, Matched, Collector, Is
<1> QED
  BY <1>1, <1>2, CollectorKeeps

\* The empty directory, armed or not.
LEMMA Begins ==
  ASSUME Init
  PROVE  IInv
<1>1. PICK armed \in {0, 1} :
        /\ dir = [f \in Files \cup {"exports"} |->
                    CASE f = "exports" -> <<>>
                      [] f = "enabled" /\ armed = 1 -> 1
                      [] OTHER -> Absent]
        /\ count = [epochs |-> armed, sessions |-> 0, commands |-> 0, faults |-> 0]
  BY DEF Init
<1>2. /\ held = {dir} /\ coll = Off /\ holder = Free /\ spent = 0 /\ wiped = FALSE
  BY DEF Init
<1>3. count.epochs = armed /\ Counted
  BY <1>1 DEF Counted
<1>4. /\ dir = [f \in Files \cup {"exports"} |-> dir[f]]
      /\ dir.exports = <<>> /\ dir.status = Absent /\ dir.budget = Absent
      /\ dir.feedback = Absent /\ dir.enabled \in {Absent} \cup 1 .. armed
  BY <1>1 DEF Files
<1>5. IsFiniteSet(DOMAIN dir.exports)
  <2>1. DOMAIN <<>> = {}
    OBVIOUS
  <2> QED
    BY <1>4, <2>1, FS_EmptySet
<1>6. Fine(dir, 0)
  <2>1. Whole(dir)
    BY <1>3, <1>4, <1>5 DEF Whole
  <2>2. Covers(dir, 0)
    BY <1>4 DEF Covers, Number
  <2> QED
    BY <1>2, <2>1, <2>2 DEF Fine
<1>7. Sound
  <2>1. 0 \in 0 .. ExportBudget
    BY StoreAssumption
  <2> QED
    BY <1>2, <1>6, <2>1 DEF Sound, Possible
<1>8. Collector /\ coll.pc = "off"
  <2>1. 0 \in 0 .. WriteBudget /\ 0 \in 0 .. DatagramBudget
    BY StoreAssumption
  <2>2. coll = [pc |-> "off", epoch |-> 0, d |-> Absent, snap |-> FALSE,
                exhausted |-> FALSE, written |-> 0, received |-> 0]
    BY <1>2 DEF Off
  <2>3. coll \in [pc : {"off", "starting", "draining", "admitted", "storing"},
                  epoch : Nat, d : Datagrams \cup {Absent}, snap : BOOLEAN,
                  exhausted : BOOLEAN, written : 0 .. WriteBudget,
                  received : 0 .. DatagramBudget]
    BY <2>1, <2>2
  <2>4. coll.pc = "off"
    BY <2>2
  <2> QED
    BY <2>3, <2>4 DEF Collector
<1>9. Plan = <<>> /\ holder.job = "none" /\ holder.next = "end"
  BY <1>2 DEF Plan, Free
<1>10. Lock
  <2>1. <<>> \in Seq(ToSet(<<>>))
    BY ShortPlans
  <2> QED
    BY <1>2, <1>9, <2>1 DEF Lock, Free, Plan
<1>11. Matched
  BY <1>8, <1>9 DEF Matched
<1>12. Planned
  <2>1. Len(<<>>) = 0
    OBVIOUS
  <2>2. Rest(0)
    BY <1>9, <2>1 DEF Rest
  <2> QED
    BY <1>9, <2>2 DEF Planned
<1> QED
  BY <1>3, <1>7, <1>8, <1>10, <1>11, <1>12 DEF IInv

\* Every step of the store preserves the invariant.
LEMMA NextKeeps ==
  ASSUME IInv, [Next]_vars
  PROVE  IInv'
<1>1. CASE Enable \/ Disable \/ Export \/ Erase
  BY <1>1, EnableKeeps, DisableKeeps, ExportKeeps, EraseKeeps
<1>2. CASE \E e \in 1 .. count.epochs : Launch(e)
  BY <1>2, LaunchKeeps
<1>3. CASE GiveUp \/ Start \/ Overflow \/ Close
  BY <1>3, GiveUpKeeps, StartKeeps, OverflowKeeps, CloseKeeps
<1>4. CASE \E d \in Datagrams : Receive(d)
  BY <1>4, ReceiveKeeps
<1>5. CASE AppendBusy \/ AppendTakes
  BY <1>5, AppendBusyKeeps, AppendTakesKeeps
<1>6. CASE Recover \/ Repair \/ ExportBody \/ EraseBody
  BY <1>6, RecoverKeeps, RepairKeeps, ExportBodyKeeps, EraseBodyKeeps
<1>7. CASE AppendFenced \/ AppendFeedback \/ AppendEvidence
  BY <1>7, AppendFencedKeeps, AppendFeedbackKeeps, AppendEvidenceKeeps
<1>8. CASE Step \/ Finish
  BY <1>8, StepKeeps, FinishKeeps
<1>9. CASE Fail \/ Kill \/ PowerCut
  BY <1>9, FailKeeps, KillKeeps, PowerCutKeeps
<1>10. CASE UNCHANGED vars
  BY <1>10, StutterKeeps
<1> QED
  BY <1>1, <1>2, <1>3, <1>4, <1>5, <1>6, <1>7, <1>8, <1>9, <1>10 DEF Next

-----------------------------------------------------------------------------
(* What the store promises.                                                *)

\* The inductive invariant: every directory a power cut may leave is sound,
\* and what the holder of the lock has before it keeps them so.
THEOREM Inductive == Spec => []IInv
<1>1. Init => IInv
  BY Begins
<1>2. IInv /\ [Next]_vars => IInv'
  BY NextKeeps
<1> QED
  BY <1>1, <1>2, PTL DEF Spec

\* The variables keep their shape (Store, main).
THEOREM TypesHold == Spec => []TypeOK
<1>1. IInv => TypeOK
  <2> SUFFICES ASSUME IInv PROVE TypeOK
    OBVIOUS
  <2>1. held # {} /\ \A s \in held \cup {dir} : DOMAIN s = Files \cup {"exports"}
    BY DEF IInv, Sound, Possible, Fine, Whole
  <2>2. /\ coll.pc \in {"off", "starting", "draining", "admitted", "storing"}
        /\ coll.d \in Datagrams \cup {Absent}
        /\ coll.written \in 0..WriteBudget /\ coll.received \in 0..DatagramBudget
    BY DEF IInv, Collector
  <2>3. holder # Free => holder.job \in Jobs /\ holder.next \in {"recover", "body", "end"}
    BY DEF IInv, Lock
  <2>4. coll.pc = "storing" <=> holder.job \in {"append", "latch"}
    BY DEF IInv, Matched
  <2>5. coll.pc = "storing" => holder # Free
    BY <2>4 DEF Free
  <2> QED
    BY <2>1, <2>2, <2>3, <2>4, <2>5 DEF TypeOK
<1> QED
  BY <1>1, Inductive, PTL

\* When Show says "capturing" and is wrong, the collector that runs is only
\* starting: of one past its fence it says so only if that is of the enabled epoch
\* and the keyboard got its snapshot (_capture_status_unlocked).
THEOREM OnlyStartersAreMistaken == Spec => []MistakenOnlyAtStart
<1>1. IInv => MistakenOnlyAtStart
  <2> SUFFICES ASSUME IInv, Shown = "capturing", coll.pc # "starting"
               PROVE  coll.snap /\ coll.epoch = dir.enabled
    BY DEF MistakenOnlyAtStart
  <2>1. dir.enabled # Absent /\ Is("capturing") /\ Running
    <3>1. CASE dir.enabled = Absent
      <4>1. Shown = "off"
        BY <3>1 DEF Shown
      <4> QED
        BY <4>1
    <3>2. CASE dir.enabled # Absent /\ Is("capturing")
      <4>1. Shown = IF Running THEN "capturing" ELSE "stopped"
        BY <3>2 DEF Shown
      <4> QED
        BY <3>2, <4>1
    <3>3. CASE dir.enabled # Absent /\ ~Is("capturing")
      <4>1. Shown \in {"failed", "armed"}
        BY <3>3 DEF Shown
      <4> QED
        BY <4>1
    <3> QED
      BY <3>1, <3>2, <3>3
  <2>2. coll.pc \in {"draining", "admitted", "storing"}
    BY <2>1 DEF IInv, Collector, Running
  <2> QED
    BY <2>1, <2>2 DEF IInv, Collector
<1> QED
  BY <1>1, Inductive, PTL

\* No line of an export was written that the durable budget does not count,
\* wherever charging, writing, publishing or recovering was interrupted
\* (export, _recover_temporaries).
THEOREM BudgetIsCharged == Spec => []BudgetCovers
<1>1. IInv => BudgetCovers
  <2> SUFFICES ASSUME IInv PROVE BudgetCovers
    OBVIOUS
  <2>1. spent <= ExportBudget
    BY StoreAssumption DEF IInv, Sound
  <2>2. \A s \in Possible : Covers(s, spent)
    BY DEF IInv, Sound, Fine
  <2> QED
    BY <2>1, <2>2 DEF BudgetCovers, Covers
<1> QED
  BY <1>1, Inductive, PTL

\* Erased data does not come back: neither a power cut nor a recovery finds
\* any of it until a collector is ready again (erase).
THEOREM ErasureHolds == Spec => []ErasedStaysErased
<1>1. IInv => ErasedStaysErased
  <2> SUFFICES ASSUME IInv, wiped, NEW s \in Possible, Captured(s) PROVE FALSE
    BY DEF ErasedStaysErased
  <2>1. Clean(s)
    BY DEF IInv, Sound, Fine
  <2>2. Lines(s.journal) = <<>> /\ Lines(s.jtmp) = <<>>
    BY <2>1 DEF Clean, Lines
  <2> QED
    BY <2>1, <2>2 DEF Captured, Clean
<1> QED
  BY <1>1, Inductive, PTL

\* What a collector received is stored only while its own epoch is enabled,
\* whatever happened between admission and append (append).
THEOREM FenceHolds == Spec => EpochFence
<1>1. IInv /\ [Next]_vars =>
        [Step /\ holder.job = "append"
         /\ <<dir'.journal, dir'.feedback>> # <<dir.journal, dir.feedback>>
         => coll.epoch = dir.enabled]_vars
  <2> SUFFICES ASSUME IInv, Step, holder.job = "append",
                      <<dir'.journal, dir'.feedback>> # <<dir.journal, dir.feedback>>
               PROVE  coll.epoch = dir.enabled
    OBVIOUS
  <2>1. ~StoredStay
    BY DEF StoredStay
  <2>2. holder.next # "recover"
    BY <2>1, RecoveryStep DEF IInv, Planned
  <2>3. CASE holder.next = "body"
    BY <2>1, <2>3, PreparationStep DEF IInv, Planned
  <2>4. CASE holder.next = "end"
    BY <2>4 DEF IInv, Planned, Appending
  <2> QED
    BY <2>2, <2>3, <2>4 DEF IInv, Lock
<1> QED
  BY <1>1, Inductive, PTL DEF Spec, EpochFence

\* A correction that a collector survives is the newest entry of every
\* aggregate that a power cut may leave (_append_feedback).
THEOREM CorrectionsAreKept == Spec => FeedbackKept
<1>1. IInv /\ [Next]_vars =>
        [holder # Free /\ holder.job = "append" /\ holder.next = "end"
         /\ IsFeedback(coll.d) /\ coll'.pc = "draining"
         => \A s \in held' : s.feedback # Absent /\ Last(s.feedback) = coll.d.key]_vars
  <2> SUFFICES ASSUME IInv, Next, holder # Free, holder.job = "append",
                      holder.next = "end", IsFeedback(coll.d), coll'.pc = "draining"
               PROVE  \A s \in held' : s.feedback # Absent /\ Last(s.feedback) = coll.d.key
    OBVIOUS
  <2>1. coll.pc = "storing"
    BY DEF IInv, Matched
  <2>2. CASE Finish
    <3>1. Plan = <<>> /\ ~holder.leave /\ held' = held
      <4>1. Plan = <<>> /\ held' = held
        BY <2>2 DEF Finish, At, Plan
      <4>2. holder.leave => coll' = Off
        BY <2>2 DEF Finish, Collecting
      <4>3. Off.pc = "off"
        BY DEF Off
      <4> QED
        BY <4>1, <4>2, <4>3
    <3>2. Correcting
      BY <3>1 DEF IInv, Planned, Appending
    <3>3. Len(Plan) = 0
      BY <3>1
    <3>4. PICK v \in Seq(Keys) : /\ v # <<>> /\ Last(v) = coll.d.key
                                 /\ Replacing(Len(Plan), "ftmp", "feedback", v)
      BY <3>2 DEF Correcting
    <3>5. \A s \in Possible : s.feedback = v
      BY <3>3, <3>4 DEF Replacing
    <3>6. v # Absent
      BY StoreAssumption
    <3> QED
      BY <3>1, <3>4, <3>5, <3>6 DEF Possible
  <2>3. ~Fail
    <3>1. Fail => coll' = Off
      BY DEF Fail, Collecting
    <3> QED
      BY <3>1 DEF Off
  <2>4. ~Kill /\ ~PowerCut
    <3>1. Kill \/ PowerCut => coll' = Off
      BY DEF Kill, PowerCut, Collecting
    <3> QED
      BY <3>1 DEF Off
  <2>5. coll' # coll
    BY <2>1
  <2>6. ~Enable /\ ~Disable /\ ~Export /\ ~Erase /\ ~Step
    BY <2>5 DEF Enable, Disable, Export, Erase, Step
  <2>7. ~ (\E e \in 1 .. count.epochs : Launch(e))
    BY <2>1 DEF Launch, Running
  <2>8. ~GiveUp /\ ~Start /\ ~Overflow /\ ~Close /\ ~AppendBusy /\ ~AppendTakes
    BY <2>1 DEF GiveUp, Start, Overflow, Close, AppendBusy, AppendTakes
  <2>9. ~ (\E d \in Datagrams : Receive(d))
    BY <2>1 DEF Receive
  <2>10. ~Recover /\ ~Repair /\ ~ExportBody /\ ~EraseBody
    BY <2>5 DEF Recover, Repair, ExportBody, EraseBody
  <2>11. ~AppendFenced /\ ~AppendFeedback /\ ~AppendEvidence
    BY DEF AppendFenced, AppendFeedback, AppendEvidence, At
  <2> QED
    BY <2>2, <2>3, <2>4, <2>6, <2>7, <2>8, <2>9, <2>10, <2>11 DEF Next
<1> QED
  BY <1>1, Inductive, PTL DEF Spec, FeedbackKept

-----------------------------------------------------------------------------
(* What the files hold.                                                    *)

\* Two lines of the same kind about the same episode.
Twins(x, y) == x.id = y.id /\ (IsGesture(x) <=> IsGesture(y))

\* A journal has one gesture for an episode, and then at most one outcome,
\* which fits it.
Paired(c) ==
  /\ c \in Seq(Datagrams)
  /\ \A i, j \in 1 .. Len(c) : Twins(c[i], c[j]) => i = j
  /\ \A j \in 1 .. Len(c) :
       \/ IsGesture(c[j])
       \/ \E i \in 1 .. j - 1 : IsGesture(c[i]) /\ c[i].id = c[j].id /\ ValidPair(c[i], c[j])

\* The lines of a sequence of datagrams.
LEMMA LinesOf ==
  ASSUME NEW c \in Seq(Datagrams)
  PROVE  /\ Torn \notin ToSet(c) /\ Lines(c) \in {<<>>, c}
         /\ Lines(Append(c, Torn)) \in {<<>>, c}
<1>1. Torn \notin ToSet(c)
  BY StoreAssumption DEF ToSet
<1>2. Lines(c) \in {<<>>, c}
  <2>1. c # <<>> => Last(c) # Torn
    <3> SUFFICES ASSUME c # <<>> PROVE Last(c) # Torn
      OBVIOUS
    <3>1. Len(c) \in DOMAIN c
      OBVIOUS
    <3> QED
      BY <1>1, <3>1 DEF Last, ToSet
  <2> QED
    BY <2>1 DEF Lines
<1>3. Lines(Append(c, Torn)) \in {<<>>, c}
  <2> DEFINE t == Append(c, Torn)
  <2>1. /\ Len(t) = Len(c) + 1 /\ t[Len(t)] = Torn /\ t # <<>> /\ Len(c) \in Nat
        /\ \A i \in 1 .. Len(c) : t[i] = c[i]
        /\ t \in Seq(Datagrams \cup {Torn})
    OBVIOUS
  <2> HIDE DEF t
  <2>2. Front(t) = c
    <3> DEFINE f == SubSeq(t, 1, Len(t) - 1)
    <3>1. f \in Seq(Datagrams \cup {Torn}) /\ Len(f) = Len(c)
          /\ \A i \in 1 .. Len(c) : f[i] = c[i]
      BY <2>1
    <3> HIDE DEF f
    <3>2. f = c
      BY <3>1
    <3> QED
      BY <3>2 DEF Front, f
  <2> QED
    BY <2>1, <2>2 DEF Lines, Last, t
<1> QED
  BY <1>1, <1>2, <1>3

\* An empty journal is paired, and so is what is read of a paired one.
LEMMA PairedReads ==
  ASSUME NEW c, Paired(c)
  PROVE  /\ Paired(<<>>) /\ Paired(Lines(c)) /\ Paired(Lines(Append(c, Torn)))
         /\ Torn \notin ToSet(c) /\ Indexes(c) /\ Lines(c) \in {<<>>, c}
<1>1. c \in Seq(Datagrams)
  BY DEF Paired
<1>2. Paired(<<>>)
  <2>1. <<>> \in Seq(Datagrams) /\ Len(<<>>) = 0
    OBVIOUS
  <2> QED
    BY <2>1 DEF Paired
<1>3. /\ Lines(c) \in {<<>>, c} /\ Lines(Append(c, Torn)) \in {<<>>, c}
      /\ Torn \notin ToSet(c)
  BY <1>1, LinesOf
<1>4. Indexes(c)
  <2>1. DOMAIN c = 1 .. Len(c) /\ Len(c) \in Nat
    BY <1>1
  <2>2. ASSUME NEW j \in 1 .. Len(c), NEW i \in 1 .. (j - 1),
               c[i].id = c[j].id, IsGesture(c[i]) = IsGesture(c[j])
        PROVE  FALSE
    <3>1. Twins(c[i], c[j]) /\ i \in 1 .. Len(c)
      BY <2>1, <2>2 DEF Twins
    <3> QED
      BY <2>1, <3>1 DEF Paired
  <2> QED
    BY <2>1, <2>2 DEF Indexes, Paired
<1> QED
  BY <1>2, <1>3, <1>4

\* A line that is accepted fits behind what is there.
LEMMA AcceptedPairs ==
  ASSUME NEW d \in Datagrams, Paired(Lines(dir.journal)), Accepts(d)
  PROVE  Paired(Append(Lines(dir.journal), d))
<1> DEFINE c == Lines(dir.journal)
           new == Append(c, d)
<1>1. /\ Paired(c)
      /\ \A l \in ToSet(c) : l.id = d.id => ~(IsGesture(l) <=> IsGesture(d))
      /\ IsGesture(d) \/ \E g \in ToSet(c) : g.id = d.id /\ IsGesture(g) /\ ValidPair(g, d)
  BY DEF Accepts
<1> HIDE DEF c
<1>2. c \in Seq(Datagrams) /\ Len(c) \in Nat /\ DOMAIN c = 1 .. Len(c)
  BY <1>1 DEF Paired
<1>3. /\ new \in Seq(Datagrams) /\ Len(new) = Len(c) + 1 /\ new[Len(c) + 1] = d
      /\ \A i \in 1 .. Len(c) : new[i] = c[i]
  BY <1>2
<1> HIDE DEF new
<1>4. \A i \in 1 .. Len(c) : ~Twins(c[i], d) /\ ~Twins(d, c[i])
  BY <1>1, <1>2 DEF Twins, ToSet
<1>5. ASSUME NEW i \in 1 .. Len(new), NEW j \in 1 .. Len(new), Twins(new[i], new[j])
      PROVE  i = j
  <2>1. CASE i \in 1 .. Len(c) /\ j \in 1 .. Len(c)
    BY <1>1, <1>3, <1>5, <2>1 DEF Paired
  <2>2. CASE i = Len(c) + 1 /\ j \in 1 .. Len(c)
    BY <1>3, <1>4, <1>5, <2>2
  <2>3. CASE i \in 1 .. Len(c) /\ j = Len(c) + 1
    BY <1>3, <1>4, <1>5, <2>3
  <2> QED
    BY <1>2, <1>3, <2>1, <2>2, <2>3
<1>6. ASSUME NEW j \in 1 .. Len(new), ~IsGesture(new[j])
      PROVE  \E i \in 1 .. j - 1 :
               IsGesture(new[i]) /\ new[i].id = new[j].id /\ ValidPair(new[i], new[j])
  <2>1. CASE j \in 1 .. Len(c)
    <3>1. PICK i \in 1 .. j - 1 :
            IsGesture(c[i]) /\ c[i].id = c[j].id /\ ValidPair(c[i], c[j])
      BY <1>1, <1>3, <1>6, <2>1 DEF Paired
    <3>2. i \in 1 .. Len(c)
      BY <1>2, <2>1
    <3>3. new[i] = c[i] /\ new[j] = c[j]
      BY <1>3, <2>1, <3>2
    <3> QED
      BY <3>1, <3>3
  <2>2. CASE j = Len(c) + 1
    <3>1. PICK i \in 1 .. Len(c) :
            c[i].id = d.id /\ IsGesture(c[i]) /\ ValidPair(c[i], d)
      BY <1>1, <1>2, <1>3, <1>6, <2>2 DEF ToSet
    <3>2. i \in 1 .. j - 1
      BY <1>2, <2>2
    <3> QED
      BY <1>3, <2>2, <3>1, <3>2
  <2> QED
    BY <1>2, <1>3, <2>1, <2>2
<1>7. Paired(new)
  BY <1>3, <1>5, <1>6 DEF Paired
<1> QED
  BY <1>7 DEF new, c

\* The lines of a sequence are finitely many.
LEMMA FewLines ==
  ASSUME NEW T, NEW c \in Seq(T)
  PROVE  IsFiniteSet(ToSet(c)) /\ ToSet(c) \subseteq T
<1>1. /\ Len(c) \in Nat /\ DOMAIN c = 1 .. Len(c)
      /\ ToSet(c) = {c[i] : i \in 1 .. Len(c)} /\ ToSet(c) \subseteq T
  BY DEF ToSet
<1>2. IsFiniteSet(1 .. Len(c))
  BY <1>1, FS_Interval
<1> DEFINE f == [i \in 1 .. Len(c) |-> c[i]]
<1>3. f \in Surjection(1 .. Len(c), ToSet(c))
  BY <1>1 DEF Surjection
<1> HIDE DEF f
<1> QED
  BY <1>1, <1>2, <1>3, FS_Surjection

\* An episode of a paired journal begins at one place.
LEMMA BornOnce ==
  ASSUME NEW c, Paired(c), NEW id, NEW i \in DOMAIN c, IsGesture(c[i]), c[i].id = id
  PROVE  Born(c, id) \in Nat
<1>1. c \in Seq(Datagrams) /\ DOMAIN c = 1 .. Len(c) /\ i \in Nat
  BY DEF Paired
<1> DEFINE B == {k \in DOMAIN c : IsGesture(c[k]) /\ c[k].id = id}
<1>2. B = {i}
  BY <1>1 DEF Paired, Twins
<1> HIDE DEF B
<1>3. Min(B) \in Nat
  <2>1. \E x \in B : \A y \in B : x =< y
    BY <1>1, <1>2
  <2>2. Min(B) \in B
    BY <2>1 DEF Min
  <2> QED
    BY <1>1, <1>2, <2>2
<1> QED
  BY <1>3 DEF Born, B

\* Lines in the order of their episodes: each of them once, and a gesture
\* before whatever else its episode has.
LEMMA Ordered ==
  ASSUME NEW c, Paired(c), NEW S, IsFiniteSet(S), NEW s \in ByEpisode(c, S),
         \A x, y \in S : Twins(x, y) => x = y,
         \A x \in S : \E i \in DOMAIN c : IsGesture(c[i]) /\ c[i].id = x.id
  PROVE  /\ s \in Seq(S) /\ DOMAIN s = 1 .. Len(s)
         /\ \A x \in S : \E i \in 1 .. Len(s) : s[i] = x
         /\ \A i, j \in 1 .. Len(s) : Twins(s[i], s[j]) => i = j
         /\ \A i, j \in 1 .. Len(s) :
              s[i].id = s[j].id /\ IsGesture(s[i]) /\ ~IsGesture(s[j]) => i < j
<1> DEFINE n == Cardinality(S)
<1>1. n \in Nat
  BY FS_CardinalityType
<1>2. /\ s \in [1 .. n -> S]
      /\ \A i, j \in 1 .. n : i # j => s[i] # s[j]
      /\ \A i, j \in DOMAIN s : i < j =>
           \/ Born(c, s[i].id) < Born(c, s[j].id)
           \/ s[i].id = s[j].id /\ IsGesture(s[i])
  BY DEF ByEpisode, SetToSeqs
<1>3. s \in Injection(1 .. n, S)
  BY <1>2 DEF Injection, IsInjective
<1>4. Cardinality(1 .. n) = n
  BY <1>1, FS_Interval
<1>5. s \in Surjection(1 .. n, S)
  BY <1>3, <1>4, FS_Injection
<1> HIDE DEF n
<1>6. s \in Seq(S) /\ Len(s) = n /\ DOMAIN s = 1 .. n
  BY <1>1, <1>2
<1>7. \A x \in S : \E i \in 1 .. n : s[i] = x
  BY <1>5 DEF Surjection
<1>8. \A i, j \in 1 .. n : Twins(s[i], s[j]) => i = j
  BY <1>2
<1>9. ASSUME NEW i \in 1 .. n, NEW j \in 1 .. n,
             s[i].id = s[j].id, IsGesture(s[i]), ~IsGesture(s[j])
      PROVE  i < j
  <2>1. i # j
    BY <1>9
  <2>2. ~(j < i)
    <3> SUFFICES ASSUME j < i PROVE FALSE
      OBVIOUS
    <3>1. Born(c, s[j].id) < Born(c, s[i].id)
      BY <1>2, <1>6, <1>9
    <3>2. s[j] \in S
      BY <1>2
    <3>3. Born(c, s[j].id) \in Nat
      BY <3>2, BornOnce
    <3> QED
      BY <1>9, <3>1, <3>3
  <2> QED
    BY <1>1, <2>1, <2>2
<1> QED
  BY <1>6, <1>7, <1>8, <1>9

\* In a paired journal twins are one, and what is there has begun.
LEMMA PairedLines ==
  ASSUME NEW c, Paired(c)
  PROVE  /\ IsFiniteSet(ToSet(c)) /\ ToSet(c) \subseteq Datagrams
         /\ \A x, y \in ToSet(c) : Twins(x, y) => x = y
         /\ \A x \in ToSet(c) : \E i \in DOMAIN c : IsGesture(c[i]) /\ c[i].id = x.id
         /\ \A x \in ToSet(c) : IsGesture(x) \/
              \E g \in ToSet(c) : IsGesture(g) /\ g.id = x.id /\ ValidPair(g, x)
<1>1. c \in Seq(Datagrams) /\ DOMAIN c = 1 .. Len(c) /\ Len(c) \in Nat
  BY DEF Paired
<1>2. IsFiniteSet(ToSet(c)) /\ ToSet(c) \subseteq Datagrams
  BY <1>1, FewLines
<1>3. \A x, y \in ToSet(c) : Twins(x, y) => x = y
  BY <1>1 DEF Paired, ToSet
<1>4. ASSUME NEW j \in 1 .. Len(c), ~IsGesture(c[j])
      PROVE  \E i \in 1 .. Len(c) :
               IsGesture(c[i]) /\ c[i].id = c[j].id /\ ValidPair(c[i], c[j])
  <2>1. PICK i \in 1 .. j - 1 :
          IsGesture(c[i]) /\ c[i].id = c[j].id /\ ValidPair(c[i], c[j])
    BY <1>4 DEF Paired
  <2>2. i \in 1 .. Len(c)
    BY <1>1
  <2> QED
    BY <2>1, <2>2
<1>5. ASSUME NEW x \in ToSet(c)
      PROVE  /\ \E i \in DOMAIN c : IsGesture(c[i]) /\ c[i].id = x.id
             /\ IsGesture(x) \/
                  \E g \in ToSet(c) : IsGesture(g) /\ g.id = x.id /\ ValidPair(g, x)
  <2>1. PICK j \in 1 .. Len(c) : x = c[j]
    BY <1>1 DEF ToSet
  <2>2. CASE IsGesture(c[j])
    BY <1>1, <2>1, <2>2
  <2>3. CASE ~IsGesture(c[j])
    <3>1. PICK i \in 1 .. Len(c) :
            IsGesture(c[i]) /\ c[i].id = c[j].id /\ ValidPair(c[i], c[j])
      BY <1>4, <2>3
    <3>2. c[i] \in ToSet(c)
      BY <1>1 DEF ToSet
    <3> QED
      BY <1>1, <2>1, <3>1, <3>2
  <2> QED
    BY <2>2, <2>3
<1> QED
  BY <1>2, <1>3, <1>5

\* Compacting leaves whole episodes.
LEMMA CompactedPairs ==
  ASSUME NEW c, Paired(c), NEW s \in Compacted(c)
  PROVE  Paired(s)
<1>1. PICK k : s \in ByEpisode(c, {l \in ToSet(c) : Born(c, l.id) >= k})
  BY DEF Compacted
<1> DEFINE S == {l \in ToSet(c) : Born(c, l.id) >= k}
<1>2. /\ IsFiniteSet(ToSet(c)) /\ ToSet(c) \subseteq Datagrams
      /\ \A x, y \in ToSet(c) : Twins(x, y) => x = y
      /\ \A x \in ToSet(c) : \E i \in DOMAIN c : IsGesture(c[i]) /\ c[i].id = x.id
      /\ \A x \in ToSet(c) : IsGesture(x) \/
           \E g \in ToSet(c) : IsGesture(g) /\ g.id = x.id /\ ValidPair(g, x)
  BY PairedLines
<1>3. S \subseteq ToSet(c) /\ IsFiniteSet(S)
  BY <1>2, FS_Subset
<1>4. \A x \in S : \A g \in ToSet(c) : g.id = x.id => g \in S
  OBVIOUS
<1>5. s \in ByEpisode(c, S)
  BY <1>1
<1> HIDE DEF S
<1>6. /\ s \in Seq(S) /\ DOMAIN s = 1 .. Len(s)
      /\ \A x \in S : \E i \in 1 .. Len(s) : s[i] = x
      /\ \A i, j \in 1 .. Len(s) : Twins(s[i], s[j]) => i = j
      /\ \A i, j \in 1 .. Len(s) :
           s[i].id = s[j].id /\ IsGesture(s[i]) /\ ~IsGesture(s[j]) => i < j
  BY <1>2, <1>3, <1>5, Ordered
<1>7. s \in Seq(Datagrams)
  BY <1>2, <1>3, <1>6
<1>8. ASSUME NEW j \in 1 .. Len(s), ~IsGesture(s[j])
      PROVE  \E i \in 1 .. j - 1 :
               IsGesture(s[i]) /\ s[i].id = s[j].id /\ ValidPair(s[i], s[j])
  <2>1. s[j] \in S
    BY <1>6
  <2>2. PICK g \in ToSet(c) : IsGesture(g) /\ g.id = s[j].id /\ ValidPair(g, s[j])
    BY <1>2, <1>3, <1>8, <2>1
  <2>3. g \in S
    BY <1>4, <2>1, <2>2
  <2>4. PICK i \in 1 .. Len(s) : s[i] = g
    BY <1>6, <2>3
  <2>5. i < j
    BY <1>6, <1>8, <2>2, <2>4
  <2>6. i \in 1 .. j - 1
    BY <2>5
  <2> QED
    BY <2>2, <2>4, <2>6
<1> QED
  BY <1>6, <1>7, <1>8 DEF Paired

\* What is taken of a paired journal is a whole export.
LEMMA SnapshotWhole ==
  ASSUME NEW c, Paired(c), NEW s \in Snapshot(c)
  PROVE  WholeExport(s)
<1> DEFINE open == {g \in ToSet(c) : IsGesture(g)
                                     /\ \A l \in ToSet(c) : l.id = g.id => IsGesture(l)}
           P == {Pending(g) : g \in open}
           S == ToSet(c) \cup P
<1>1. /\ IsFiniteSet(ToSet(c)) /\ ToSet(c) \subseteq Datagrams
      /\ \A x, y \in ToSet(c) : Twins(x, y) => x = y
      /\ \A x \in ToSet(c) : \E i \in DOMAIN c : IsGesture(c[i]) /\ c[i].id = x.id
      /\ \A x \in ToSet(c) : IsGesture(x) \/
           \E g \in ToSet(c) : IsGesture(g) /\ g.id = x.id /\ ValidPair(g, x)
  BY PairedLines
<1>2. IsFiniteSet(S)
  <2>1. IsFiniteSet(open)
    BY <1>1, FS_Subset
  <2> DEFINE f == [g \in open |-> Pending(g)]
  <2>2. f \in Surjection(open, P)
    BY DEF Surjection
  <2> HIDE DEF f, open, P
  <2>3. IsFiniteSet(P)
    BY <2>1, <2>2, FS_Surjection
  <2> QED
    BY <1>1, <2>3, FS_Union
<1>3. \A x \in P : ~IsGesture(x) /\ x.type = "pending" /\ \E g \in open : x = Pending(g) /\ x.id = g.id
  BY DEF Pending, IsGesture
<1>4. \A g \in open : IsGesture(g) /\ g \in ToSet(c)
                      /\ \A l \in ToSet(c) : l.id = g.id => IsGesture(l)
  OBVIOUS
<1>5. \A g \in ToSet(c) : IsGesture(g) =>
        \E l \in S : l.id = g.id /\ ~IsGesture(l)
  <2> SUFFICES ASSUME NEW g \in ToSet(c), IsGesture(g)
               PROVE  \E l \in S : l.id = g.id /\ ~IsGesture(l)
    OBVIOUS
  <2>1. CASE g \in open
    <3>1. Pending(g) \in P /\ Pending(g).id = g.id
      BY <2>1 DEF Pending
    <3> QED
      BY <1>3, <3>1
  <2>2. CASE g \notin open
    BY <2>2
  <2> QED
    BY <2>1, <2>2
<1>6. s \in ByEpisode(c, S)
  BY DEF Snapshot
<1>7. \A x \in P : Torn # x
  BY <1>1, StoreAssumption
<1>8. S = ToSet(c) \cup P
  OBVIOUS
<1> HIDE DEF P, S
<1>9. \A x, y \in S : Twins(x, y) => x = y
  <2> SUFFICES ASSUME NEW x \in S, NEW y \in S, Twins(x, y) PROVE x = y
    OBVIOUS
  <2>1. CASE x \in ToSet(c) /\ y \in ToSet(c)
    BY <1>1, <2>1
  <2>2. CASE x \in P /\ y \in P
    <3>1. PICK g \in open, h \in open :
            x = Pending(g) /\ x.id = g.id /\ y = Pending(h) /\ y.id = h.id
      BY <1>3, <2>2
    <3>2. g.id = h.id
      BY <3>1 DEF Twins
    <3> QED
      BY <3>1, <3>2 DEF Pending
  <2>3. CASE x \in P /\ y \in ToSet(c)
    BY <1>3, <1>4, <2>3 DEF Twins
  <2>4. CASE x \in ToSet(c) /\ y \in P
    BY <1>3, <1>4, <2>4 DEF Twins
  <2> QED
    BY <1>8, <2>1, <2>2, <2>3, <2>4
<1>10. \A x \in S : \E i \in DOMAIN c : IsGesture(c[i]) /\ c[i].id = x.id
  BY <1>1, <1>3, <1>4, <1>8
<1>11. /\ s \in Seq(S) /\ DOMAIN s = 1 .. Len(s)
       /\ \A x \in S : \E i \in 1 .. Len(s) : s[i] = x
       /\ \A i, j \in 1 .. Len(s) : Twins(s[i], s[j]) => i = j
       /\ \A i, j \in 1 .. Len(s) :
            s[i].id = s[j].id /\ IsGesture(s[i]) /\ ~IsGesture(s[j]) => i < j
  BY <1>2, <1>6, <1>9, <1>10, Ordered
<1>12. Torn \notin ToSet(s)
  <2>1. ToSet(s) \subseteq S
    BY <1>11, FewLines
  <2>2. Torn \notin S
    BY <1>1, <1>7, <1>8, StoreAssumption
  <2> QED
    BY <2>1, <2>2
<1>13. ASSUME NEW j \in 1 .. Len(s), IsGesture(s[j])
       PROVE  \E k \in DOMAIN s : s[k].id = s[j].id /\ ~IsGesture(s[k])
  <2>1. s[j] \in ToSet(c)
    BY <1>3, <1>8, <1>11, <1>13
  <2>2. PICK l \in S : l.id = s[j].id /\ ~IsGesture(l)
    BY <1>5, <1>13, <2>1
  <2> QED
    BY <1>11, <2>2
<1>14. ASSUME NEW j \in 1 .. Len(s), ~IsGesture(s[j])
       PROVE  \E i \in 1 .. (j - 1) :
                /\ IsGesture(s[i]) /\ s[i].id = s[j].id
                /\ s[j].type = "pending" \/ ValidPair(s[i], s[j])
  <2>1. PICK g \in ToSet(c) : /\ IsGesture(g) /\ g.id = s[j].id
                              /\ s[j].type = "pending" \/ ValidPair(g, s[j])
    <3>1. CASE s[j] \in ToSet(c)
      BY <1>1, <1>14, <3>1
    <3>2. CASE s[j] \in P
      BY <1>3, <1>4, <3>2
    <3> QED
      BY <1>8, <1>11, <3>1, <3>2
  <2>2. PICK i \in 1 .. Len(s) : s[i] = g
    BY <1>8, <1>11
  <2>3. i < j
    BY <1>11, <1>14, <2>1, <2>2
  <2>4. i \in 1 .. (j - 1)
    BY <2>3
  <2> QED
    BY <2>1, <2>2, <2>4
<1>15. WholeExport(s)
  BY <1>11, <1>12, <1>13, <1>14 DEF WholeExport, Twins
<1> QED
  BY <1>15

-----------------------------------------------------------------------------
(* Nothing that is written makes the files unreadable.                     *)

\* A directory whose files can be read.
Legible(s) ==
  /\ Paired(Lines(s.journal))
  /\ s.feedback # Torn
  /\ \A n \in DOMAIN s.exports : WholeExport(s.exports[n])

\* A temporary that holds v may take the place of its file.
Fit(f, v) ==
  /\ f = "jtmp" => Paired(Lines(v))
  /\ f = "ftmp" => v # Torn
  /\ f = "xtmp" => WholeExport(v.lines)

\* It will before the i-th step of plan p: since it was written, or since now,
\* nothing has changed the directory d.
Settled(p, d, i, f) ==
  \E j \in 0 .. i - 1 :
    /\ \A m \in j + 1 .. i - 1 : p[m].op \in {"sync", "fsync"}
    /\ IF j = 0 THEN Fit(f, d[f])
       ELSE p[j].op = "write" /\ p[j].file = f /\ Fit(f, p[j].full)

\* Steps that leave what can be read readable.
Tame(st) ==
  \/ st.op \in {"sync", "prune", "wipe"}
  \/ st.op = "fsync" /\ st.file \in Files
  \/ /\ st.op = "write" /\ st.file \in Files \ {"feedback"}
     /\ st.file = "journal" => \A c \in st.cuts \cup {st.full} : Paired(Lines(c))
  \/ st.op = "rename" /\ st.file = "btmp" /\ st.to = "budget"

Replaces(st) ==
  /\ st.op = "rename"
  /\ \/ st.file = "jtmp" /\ st.to = "journal"
     \/ st.file = "ftmp" /\ st.to = "feedback"

\* A plan in which only complete temporaries are published or renamed.
Careful(p, d) ==
  \A i \in 1 .. Len(p) :
    \/ Tame(p[i])
    \/ p[i].op = "publish" /\ Settled(p, d, i, "xtmp")
    \/ Replaces(p[i]) /\ Settled(p, d, i, p[i].file)

Readability == (\A s \in Possible : Legible(s)) /\ Careful(Plan, dir)

\* A plan of steps that are tame is careful.
LEMMA TamePlans ==
  ASSUME NEW p, NEW d, \A i \in 1 .. Len(p) : Tame(p[i])
  PROVE  Careful(p, d)
  BY DEF Careful

\* Harmless steps are tame.
LEMMA HarmlessTame ==
  ASSUME NEW st, Harmless(st)
  PROVE  Tame(st)
  BY DEF Harmless, Tame, Files

\* One step on, what was settled still is.
LEMMA SettledStep ==
  ASSUME NEW p, NEW q, Len(p) \in Nat, Len(q) = Len(p) - 1,
         \A i \in 1 .. Len(p) - 1 : q[i] = p[i + 1],
         NEW d, NEW e, NEW f, NEW i \in 1 .. Len(q), Settled(p, d, i + 1, f),
         p[1].op \in {"sync", "fsync"} => e = d,
         p[1].op = "write" /\ p[1].file = f => e[f] = p[1].full
  PROVE  Settled(q, e, i, f)
<1>1. PICK j \in 0 .. i :
        /\ \A m \in j + 1 .. i : p[m].op \in {"sync", "fsync"}
        /\ IF j = 0 THEN Fit(f, d[f])
           ELSE p[j].op = "write" /\ p[j].file = f /\ Fit(f, p[j].full)
  <2>1. (i + 1) - 1 = i
    OBVIOUS
  <2> QED
    BY <2>1 DEF Settled
<1>2. \A m \in 1 .. i - 1 : q[m] = p[m + 1] /\ m + 1 \in 1 .. i
  OBVIOUS
<1>3. CASE j = 0
  <2>1. p[1].op \in {"sync", "fsync"}
    BY <1>1, <1>3
  <2>2. \A m \in 0 + 1 .. i - 1 : q[m].op \in {"sync", "fsync"}
    BY <1>1, <1>2, <1>3
  <2>3. 0 \in 0 .. i - 1 /\ Fit(f, e[f])
    BY <1>1, <1>3, <2>1
  <2> QED
    BY <2>2, <2>3 DEF Settled
<1>4. CASE j = 1
  <2>1. Fit(f, e[f]) /\ 0 \in 0 .. i - 1
    BY <1>1, <1>4
  <2>2. \A m \in 0 + 1 .. i - 1 : q[m].op \in {"sync", "fsync"}
    BY <1>1, <1>2, <1>4
  <2> QED
    BY <2>1, <2>2 DEF Settled
<1>5. CASE j > 1
  <2>1. PICK k \in 1 .. i - 1 : k = j - 1
    BY <1>5
  <2>2. q[k] = p[j] /\ k # 0 /\ k \in 0 .. i - 1
    BY <1>2, <2>1
  <2>3. \A m \in k + 1 .. i - 1 : q[m].op \in {"sync", "fsync"}
    BY <1>1, <1>2, <2>1
  <2> QED
    BY <1>1, <1>5, <2>2, <2>3 DEF Settled
<1> QED
  BY <1>3, <1>4, <1>5

\* What a step leaves can be read, whole or interrupted.
LEMMA StepLegible ==
  ASSUME Sound, \A s \in Possible : Legible(s), NEW st,
         \/ Tame(st)
         \/ st.op = "publish" /\ Fit("xtmp", dir.xtmp)
         \/ Replaces(st) /\ Fit(st.file, dir[st.file])
  PROVE  \A s \in Durable(st) \cup Midway(st) \cup {After(st)} : Legible(s)
<1>0. /\ Legible(dir) /\ \A s \in held : Legible(s)
      /\ dir = [g \in Files \cup {"exports"} |-> dir[g]]
      /\ \A s \in held : s = [g \in Files \cup {"exports"} |-> s[g]]
  BY DEF Sound, Possible, Fine, Whole
<1>1. Durable(st) \subseteq held \cup Midway(st) \cup {After(st), dir} \/ st.op = "fsync"
  BY DEF Durable
<1>2. ASSUME NEW s, Legible(s), s = [g \in Files \cup {"exports"} |-> s[g]],
             NEW f \in Files, NEW c,
             f = "journal" => Paired(Lines(c)), f = "feedback" => c # Torn
      PROVE  Legible([s EXCEPT ![f] = c])
  <2> DEFINE t == [s EXCEPT ![f] = c]
  <2>1. t[f] = c /\ \A g \in Files \cup {"exports"} : g # f => t[g] = s[g]
    BY <1>2, Written
  <2> HIDE DEF t
  <2>2. t.exports = s.exports
    BY <2>1 DEF Files
  <2>3. Paired(Lines(t.journal)) /\ t.feedback # Torn
    BY <1>2, <2>1 DEF Files, Legible
  <2>4. Legible(t)
    BY <1>2, <2>2, <2>3 DEF Legible
  <2> QED
    BY <2>4 DEF t
<1>3. \A S \in SUBSET Managed : \A X : Legible(Cleared(S, X))
  <2> SUFFICES ASSUME NEW S \in SUBSET Managed, NEW X PROVE Legible(Cleared(S, X))
    OBVIOUS
  <2> DEFINE t == Cleared(S, X)
  <2>1. /\ \A f \in Files : t[f] = IF f \in S THEN Absent ELSE dir[f]
        /\ t.exports = [m \in Exported \ X |-> dir.exports[m]]
    BY Removed
  <2> HIDE DEF t
  <2>2. t.journal \in {Absent, dir.journal} /\ t.feedback \in {Absent, dir.feedback}
    BY <2>1 DEF Files
  <2>3. Paired(Lines(Absent)) /\ Absent # Torn
    <3>1. Lines(Absent) = <<>>
      BY DEF Lines
    <3> QED
      BY <1>0, <3>1, PairedReads, StoreAssumption DEF Legible
  <2>4. \A n \in DOMAIN t.exports : WholeExport(t.exports[n])
    BY <1>0, <2>1 DEF Legible, Exported
  <2>5. Legible(t)
    BY <1>0, <2>2, <2>3, <2>4 DEF Legible
  <2> QED
    BY <2>5 DEF t
<1>4. CASE st.op = "sync"
  BY <1>0, <1>4 DEF After, Midway, Durable
<1>5. CASE st.op = "fsync" /\ st.file \in Files
  <2>1. After(st) = dir /\ Midway(st) = {}
    BY <1>5 DEF After, Midway
  <2>2. Durable(st) = {IF s[st.file] = Absent THEN s
                       ELSE [s EXCEPT ![st.file] = dir[st.file]] : s \in held}
    BY <1>5 DEF Durable
  <2>3. \A s \in held : Legible([s EXCEPT ![st.file] = dir[st.file]])
    BY <1>0, <1>2, <1>5 DEF Legible
  <2> QED
    BY <1>0, <2>1, <2>2, <2>3
<1>6. CASE st.op = "prune"
  <2>1. After(st) = Cleared({}, {n \in Exported : \A m \in Exported : n <= m})
    BY <1>6 DEF After
  <2>2. Legible(After(st))
    BY <1>3, <2>1
  <2> QED
    BY <1>0, <1>1, <1>6, <2>2 DEF Midway
<1>7. CASE st.op = "wipe"
  <2>1. After(st) = Cleared(Managed, Exported)
    BY <1>7 DEF After
  <2>2. \A s \in Midway(st) : Legible(s)
    BY <1>3, <1>7 DEF Midway
  <2>3. Legible(After(st))
    BY <1>3, <2>1
  <2> QED
    BY <1>0, <1>1, <1>7, <2>2, <2>3
<1>8. CASE /\ st.op = "write" /\ st.file \in Files \ {"feedback"}
           /\ st.file = "journal" => \A c \in st.cuts \cup {st.full} : Paired(Lines(c))
  <2>1. \A c \in st.cuts \cup {st.full} : Legible([dir EXCEPT ![st.file] = c])
    BY <1>0, <1>2, <1>8
  <2>2. /\ After(st) = [dir EXCEPT ![st.file] = st.full]
        /\ Midway(st) = {[dir EXCEPT ![st.file] = c] : c \in st.cuts}
    BY <1>8 DEF After, Midway
  <2>3. \A s \in Midway(st) : Legible(s)
    BY <2>1, <2>2
  <2>4. Legible(After(st))
    BY <2>1, <2>2
  <2> QED
    BY <1>0, <1>1, <1>8, <2>3, <2>4
<1>9. CASE /\ st.op = "rename" /\ st.file \in Files /\ st.to \in Files
           /\ st.file # st.to /\ st.file \notin {"journal", "feedback"}
           /\ st.to = "journal" => Paired(Lines(dir[st.file]))
           /\ st.to = "feedback" => dir[st.file] # Torn
  <2> DEFINE t == After(st)
  <2>1. t[st.to] = dir[st.file]
        /\ \A g \in Files \cup {"exports"} : g \notin {st.file, st.to} => t[g] = dir[g]
    BY <1>9, AfterRename
  <2> HIDE DEF t
  <2>2. t.exports = dir.exports
    BY <1>9, <2>1 DEF Files
  <2>3. Paired(Lines(t.journal)) /\ t.feedback # Torn
    BY <1>0, <1>9, <2>1 DEF Files, Legible
  <2>4. Legible(t)
    BY <1>0, <2>2, <2>3 DEF Legible
  <2> QED
    BY <1>0, <1>1, <1>9, <2>4 DEF Midway, t
<1>10. CASE st.op = "publish" /\ Fit("xtmp", dir.xtmp)
  <2> DEFINE all == [n \in Exported \cup {dir.xtmp.seq} |->
                       IF n = dir.xtmp.seq THEN dir.xtmp.lines ELSE dir.exports[n]]
             t == After(st)
  <2>1. t = [dir EXCEPT !["exports"] = all, !["xtmp"] = Absent]
    BY <1>10 DEF After
  <2>2. WholeExport(dir.xtmp.lines)
    BY <1>10 DEF Fit
  <2>3. \A n \in DOMAIN all : WholeExport(all[n])
    BY <1>0, <2>2 DEF Legible, Exported
  <2> HIDE DEF all, t
  <2>4. t.exports = all /\ t.journal = dir.journal /\ t.feedback = dir.feedback
    BY <1>0, <2>1 DEF Files
  <2>5. Legible(t)
    BY <1>0, <2>3, <2>4 DEF Legible
  <2> QED
    BY <1>0, <1>1, <1>10, <2>5 DEF Midway, t
<1> QED
  <2>1. CASE Tame(st)
    <3>1. CASE st.op = "rename" /\ st.file = "btmp" /\ st.to = "budget"
      BY <1>9, <3>1 DEF Files
    <3> QED
      BY <2>1, <3>1, <1>4, <1>5, <1>6, <1>7, <1>8 DEF Tame
  <2>2. CASE Replaces(st) /\ Fit(st.file, dir[st.file])
    <3>1. /\ st.op = "rename" /\ st.file \in Files /\ st.to \in Files
          /\ st.file # st.to /\ st.file \notin {"journal", "feedback"}
      BY <2>2 DEF Replaces, Files
    <3>2. /\ st.to = "journal" => Paired(Lines(dir[st.file]))
          /\ st.to = "feedback" => dir[st.file] # Torn
      BY <2>2 DEF Replaces, Fit
    <3> QED
      BY <1>9, <3>1, <3>2
  <2> QED
    BY <1>10, <2>1, <2>2


\* While the directory is at rest, only a new plan matters.
LEMMA ReadQuiet ==
  ASSUME Readability, UNCHANGED <<dir, held>>, Careful(Plan', dir')
  PROVE  Readability'
<1>1. \A s \in Possible' : Legible(s)
  BY DEF Readability, Possible
<1>2. \A s \in Possible' : Legible(s)'
  BY <1>1
<1>3. Careful(Plan, dir)'
  OBVIOUS
<1> QED
  BY <1>2, <1>3 DEF Readability


\* The next step of a careful plan leaves what can be read, and a careful plan.
LEMMA ReadStep ==
  ASSUME IInv, Readability, Step
  PROVE  Readability'
<1> DEFINE p == Plan
           q == Plan'
           st == Plan[1]
<1>1. /\ Len(p) \in Nat \ {0} /\ Len(q) = Len(p) - 1
      /\ \A i \in 1 .. Len(p) - 1 : q[i] = p[i + 1]
      /\ dir' = After(st) /\ held' = Durable(st) /\ Sound
  BY PlanStep DEF IInv
<1>2. (\A s \in Possible : Legible(s)) /\ Careful(p, dir)
  BY DEF Readability
<1>3. \A f : Settled(p, dir, 1, f) => Fit(f, dir[f])
  <2>1. \A j \in 0 .. 1 - 1 : j = 0
    OBVIOUS
  <2> HIDE DEF p
  <2> QED
    BY <2>1 DEF Settled
<1>4. /\ st.op \in {"sync", "fsync"} => dir' = dir
      /\ \A f \in {"jtmp", "ftmp", "xtmp"} :
           st.op = "write" /\ st.file = f => dir'[f] = st.full
  <2>1. st.op \in {"sync", "fsync"} => After(st) = dir
    BY DEF After
  <2>2. {"jtmp", "ftmp", "xtmp"} \subseteq Files
    BY DEF Files
  <2> HIDE DEF st
  <2>3. \A f \in {"jtmp", "ftmp", "xtmp"} :
          st.op = "write" /\ st.file = f => After(st)[f] = st.full
    BY <1>1, <2>2, AfterWrite
  <2> QED
    BY <1>1, <2>1, <2>3
<1>5. st = p[1]
  OBVIOUS
<1> HIDE DEF p, q, st
<1>6. \A s \in Possible' : Legible(s)
  <2>1. \/ Tame(st)
        \/ st.op = "publish" /\ Settled(p, dir, 1, "xtmp")
        \/ Replaces(st) /\ Settled(p, dir, 1, st.file)
    <3>1. 1 \in 1 .. Len(p)
      BY <1>1
    <3> QED
      BY <1>2, <1>5, <3>1 DEF Careful
  <2>2. \/ Tame(st)
        \/ st.op = "publish" /\ Fit("xtmp", dir.xtmp)
        \/ Replaces(st) /\ Fit(st.file, dir[st.file])
    BY <1>3, <2>1
  <2>3. \A s \in Durable(st) \cup Midway(st) \cup {After(st)} : Legible(s)
    BY <1>1, <1>2, <2>2, StepLegible
  <2> QED
    BY <1>1, <2>3 DEF Possible
<1>7. Careful(q, dir')
  <2> SUFFICES ASSUME NEW i \in 1 .. Len(q)
               PROVE  \/ Tame(q[i])
                      \/ q[i].op = "publish" /\ Settled(q, dir', i, "xtmp")
                      \/ Replaces(q[i]) /\ Settled(q, dir', i, q[i].file)
    BY DEF Careful
  <2>1. i + 1 \in 1 .. Len(p) /\ q[i] = p[i + 1]
    BY <1>1
  <2>2. \/ Tame(q[i])
        \/ q[i].op = "publish" /\ Settled(p, dir, i + 1, "xtmp")
        \/ Replaces(q[i]) /\ Settled(p, dir, i + 1, q[i].file)
    BY <1>2, <2>1 DEF Careful
  <2>3. \A f \in {"jtmp", "ftmp", "xtmp"} :
          Settled(p, dir, i + 1, f) => Settled(q, dir', i, f)
    BY <1>1, <1>4, <1>5, SettledStep
  <2>4. Replaces(q[i]) => q[i].file \in {"jtmp", "ftmp", "xtmp"}
    BY DEF Replaces
  <2> QED
    BY <2>2, <2>3, <2>4
<1>8. \A s \in Possible' : Legible(s)'
  BY <1>6
<1>9. Careful(Plan, dir)'
  BY <1>7 DEF q
<1> QED
  BY <1>8, <1>9 DEF Readability

\* With nothing planned, or planned no more, only the files matter.
LEMMA ReadIdle ==
  ASSUME Readability, UNCHANGED <<dir, held>>, Plan' \in {<<>>, Plan}
  PROVE  Readability'
<1>1. Len(<<>>) = 0
  OBVIOUS
<1>2. Careful(<<>>, dir)
  BY <1>1 DEF Careful
<1>3. Careful(Plan, dir)
  BY DEF Readability
<1>4. Careful(Plan', dir')
  BY <1>2, <1>3
<1> QED
  BY <1>4, ReadQuiet

\* An interruption leaves what can be read.
LEMMA ReadCut ==
  ASSUME IInv, Readability, Cut, holder' = Free
  PROVE  Readability'
<1>1. Plan' = <<>> /\ Len(<<>>) = 0
  BY DEF Free, Plan
<1>2. Careful(Plan', dir')
  BY <1>1 DEF Careful
<1>3. CASE dir' = dir
  <2>1. \A s \in Possible' : Legible(s)
    BY <1>3 DEF Cut, Possible, Readability
  <2>2. \A s \in Possible' : Legible(s)'
    BY <2>1
  <2>3. Careful(Plan, dir)'
    BY <1>2
  <2> QED
    BY <2>2, <2>3 DEF Readability
<1>4. CASE dir' # dir
  <2> DEFINE st == Head(holder.plan)
             p == Plan
  <2>1. p # <<>> /\ st = Head(p) /\ dir' \in Midway(st) /\ held' = held \cup {dir'}
        /\ p \in Seq(ToSet(p)) /\ Sound
    BY <1>4 DEF Cut, Plan, IInv, Lock
  <2>2. (\A s \in Possible : Legible(s)) /\ Careful(p, dir)
    BY DEF Readability
  <2> HIDE DEF st, p
  <2>3. st = p[1] /\ Len(p) \in Nat \ {0}
    BY <2>1, TailOf
  <2>4. \A f : Settled(p, dir, 1, f) => Fit(f, dir[f])
    <3>1. \A j \in 0 .. 1 - 1 : j = 0
      OBVIOUS
    <3> QED
      BY <3>1 DEF Settled
  <2>5. \/ Tame(st)
        \/ st.op = "publish" /\ Settled(p, dir, 1, "xtmp")
        \/ Replaces(st) /\ Settled(p, dir, 1, st.file)
    <3>1. 1 \in 1 .. Len(p)
      BY <2>3
    <3> QED
      BY <2>2, <2>3, <3>1 DEF Careful
  <2>6. \/ Tame(st)
        \/ st.op = "publish" /\ Fit("xtmp", dir.xtmp)
        \/ Replaces(st) /\ Fit(st.file, dir[st.file])
    BY <2>4, <2>5
  <2>7. \A s \in Durable(st) \cup Midway(st) \cup {After(st)} : Legible(s)
    BY <2>1, <2>2, <2>6, StepLegible
  <2>8. \A s \in Possible' : Legible(s)
    BY <2>1, <2>2, <2>7 DEF Possible
  <2>9. \A s \in Possible' : Legible(s)'
    BY <2>8
  <2>10. Careful(Plan, dir)'
    BY <1>2
  <2> QED
    BY <2>9, <2>10 DEF Readability
<1> QED
  BY <1>3, <1>4

\* So does a power cut.
LEMMA ReadPowerCut ==
  ASSUME Readability, PowerCut
  PROVE  Readability'
<1>1. Plan' = <<>> /\ Len(<<>>) = 0
  BY DEF PowerCut, Free, Plan
<1>2. Careful(Plan, dir)'
  BY <1>1 DEF Careful
<1>3. \A s \in Possible' : Legible(s)
  BY DEF PowerCut, Possible, Readability
<1>4. \A s \in Possible' : Legible(s)'
  BY <1>3
<1> QED
  BY <1>2, <1>4 DEF Readability


\* The markers and the latch are written, and erasing erases, beside what is read.
LEMMA ReadPlanned ==
  ASSUME Readability, UNCHANGED <<dir, held>>, Planned', holder'.next = "end",
         holder'.job \in {"enable", "disable", "erase", "start", "latch"},
         Lock'
  PROVE  Readability'
<1> DEFINE q == Plan'
<1>1. Len(q) \in Nat /\ DOMAIN q = 1 .. Len(q)
  <2>1. q \in Seq(ToSet(q))
    BY DEF Lock
  <2> HIDE DEF q
  <2> QED
    BY <2>1
<1>2. \A st : Harmless(st) => Tame(st)
  BY HarmlessTame
<1>3. \A f \in {"enabled", "status"} : \A v : Tame(Write(f, v, {}))
  BY DEF Tame, Write, Files
<1>4. Tame(Do("wipe")) /\ Tame(Sync)
  BY DEF Tame, Do, Sync
<1>5. Rest(0)' => \A i \in 1 .. Len(q) : Tame(q[i])
  <2>1. Rest(0)' => \A i \in 0 + 1 .. Len(q) : Harmless(q[i])
    BY DEF Rest
  <2> HIDE DEF q
  <2> QED
    BY <1>1, <1>2, <2>1
<1>6. Rest(1)' /\ Tame(q[1]) => \A i \in 1 .. Len(q) : Tame(q[i])
  <2>1. Rest(1)' => \A i \in 1 + 1 .. Len(q) : Harmless(q[i])
    BY DEF Rest
  <2> HIDE DEF q
  <2> QED
    BY <1>1, <1>2, <2>1
<1>7. \A i \in 1 .. Len(q) : Tame(q[i])
  <2>1. CASE holder'.job = "enable"
    <3>1. Rest(0)' \/ (Rest(1)' /\ q[1] = Write("enabled", count'.epochs, {}))
      BY <2>1 DEF Planned, Enabling, Goes
    <3> HIDE DEF q
    <3> QED
      BY <1>3, <1>5, <1>6, <3>1
  <2>2. CASE holder'.job = "disable"
    <3>1. Rest(0)' \/ (Rest(1)' /\ q[1] = Write("enabled", Absent, {}))
      BY <2>2 DEF Planned, Disabling, Goes, Unlink
    <3> HIDE DEF q
    <3> QED
      BY <1>3, <1>5, <1>6, <3>1
  <2>3. CASE holder'.job = "erase"
    <3>1. \/ Len(q) = 2 /\ q[1] = Do("wipe") /\ q[2] = Sync
          \/ Len(q) = 1 /\ q[1] = Sync
          \/ Len(q) = 0
      BY <2>3 DEF Planned, Erasing, Goes
    <3> HIDE DEF q
    <3> QED
      BY <1>4, <3>1
  <2>4. CASE holder'.job = "start"
    <3>1. \A i \in 1 .. Len(q) :
            Harmless(q[i]) \/ \E v : q[i] = Write("status", v, {})
      <4>1. Starting'
        BY <2>4 DEF Planned
      <4> QED
        BY <1>1, <4>1 DEF Starting, Goes
    <3> HIDE DEF q
    <3>2. "status" \in {"enabled", "status"}
      OBVIOUS
    <3> QED
      BY <1>2, <1>3, <3>1, <3>2
  <2>5. CASE holder'.job = "latch"
    <3>1. Rest(0)'
      BY <2>5 DEF Planned
    <3> QED
      BY <1>5, <3>1
  <2> QED
    BY <2>1, <2>2, <2>3, <2>4, <2>5
<1> HIDE DEF q
<1>8. Careful(q, dir')
  BY <1>7, TamePlans
<1> QED
  BY <1>8, ReadQuiet DEF q

\* So it is for the commands and for a collector that starts or overflows.
LEMMA ReadBegins ==
  ASSUME IInv, IInv', Readability,
         Enable \/ Disable \/ EraseBody \/ Start \/ Overflow
  PROVE  Readability'
<1>1. Planned' /\ Lock'
  BY DEF IInv
<1>2. CASE Enable
  BY <1>1, <1>2, ReadPlanned DEF Enable, Take
<1>3. CASE Disable
  BY <1>1, <1>3, ReadPlanned DEF Disable, Take
<1>4. CASE EraseBody
  <2>1. /\ UNCHANGED <<dir, held>> /\ holder.job = "erase"
        /\ holder' = [holder EXCEPT !.next = "end", !.plan = <<Do("wipe"), Sync>>]
    BY <1>4 DEF EraseBody, Then
  <2>2. holder'.job = "erase" /\ holder'.next = "end"
    BY <2>1 DEF IInv, Lock
  <2> QED
    BY <1>1, <2>1, <2>2, ReadPlanned
<1>5. CASE Start
  BY <1>1, <1>5, ReadPlanned DEF Start, Take
<1>6. CASE Overflow
  <2>1. UNCHANGED <<dir, held>>
        /\ (UNCHANGED holder \/ (holder'.job = "latch" /\ holder'.next = "end"))
    BY <1>6 DEF Overflow, Take
  <2>2. UNCHANGED holder => Plan' = Plan
    BY DEF Plan
  <2> QED
    BY <1>1, <2>1, <2>2, ReadPlanned, ReadIdle
<1> QED
  BY <1>2, <1>3, <1>4, <1>5, <1>6

\* Where the plan is empty or stays, there is nothing to show.
LEMMA ReadRests ==
  ASSUME Readability,
         \/ Export \/ Erase \/ (\E e \in 1 .. count.epochs : Launch(e)) \/ GiveUp
         \/ (\E d \in Datagrams : Receive(d)) \/ Close \/ AppendBusy \/ AppendTakes
         \/ AppendFenced \/ Finish \/ UNCHANGED vars
  PROVE  Readability'
<1>1. UNCHANGED <<dir, held>>
  BY DEF Export, Erase, Launch, GiveUp, Receive, Close, AppendBusy, AppendTakes,
         AppendFenced, Finish, vars
<1>2. UNCHANGED holder \/ holder' = Free \/ (\E job : Take(job, "recover", <<>>, FALSE))
  BY DEF Export, Erase, Launch, GiveUp, Receive, Close, AppendBusy, AppendTakes,
         AppendFenced, Finish, vars
<1>3. Plan' \in {<<>>, Plan}
  BY <1>2 DEF Take, Free, Plan
<1> QED
  BY <1>1, <1>3, ReadIdle


\* A file is settled once nothing but syncs follow what it holds.
LEMMA SettledNow ==
  ASSUME NEW p, NEW d, NEW f, Fit(f, d[f]), NEW i \in Nat \ {0},
         \A m \in 1 .. i - 1 : p[m].op \in {"sync", "fsync"}
  PROVE  Settled(p, d, i, f)
<1>1. 0 \in 0 .. i - 1 /\ \A m \in 0 + 1 .. i - 1 : p[m].op \in {"sync", "fsync"}
  OBVIOUS
<1> QED
  BY <1>1 DEF Settled

\* Or once it was written and synced.
LEMMA SettledThen ==
  ASSUME NEW p, NEW d, NEW f, NEW v, Fit(f, v), NEW k \in Nat \ {0},
         p[k].op = "write", p[k].file = f, p[k].full = v, p[k + 1].op = "fsync"
  PROVE  Settled(p, d, k + 2, f)
<1>1. k \in 0 .. (k + 2) - 1 /\ \A m \in k + 1 .. (k + 2) - 1 : m = k + 1
  OBVIOUS
<1>2. k # 0 /\ \A m \in k + 1 .. (k + 2) - 1 : p[m].op \in {"sync", "fsync"}
  BY <1>1
<1> QED
  BY <1>1, <1>2 DEF Settled

\* What is tame among the steps.
LEMMA TameSteps ==
  /\ Tame(Sync) /\ \A f \in Files : Tame(Fsync(f))
  /\ \A f \in Files \ {"journal", "feedback"} : \A v, cuts : Tame(Write(f, v, cuts))
  /\ Tame(Rename("btmp", "budget"))
  BY DEF Tame, Sync, Do, Fsync, Write, Rename, Files

\* Recovery publishes an export only if it is whole.
LEMMA ReadRecover ==
  ASSUME IInv, Readability, Recover
  PROVE  Readability'
<1>1. UNCHANGED <<dir, held>> /\ Lock /\ Sound
  BY DEF Recover, IInv
<1> DEFINE left == {f \in {"jtmp", "ftmp", "btmp", "xtmp"} : dir[f] # Absent}
<1>2. ASSUME NEW f \in left,
             holder' = [holder EXCEPT !.plan = RecoverOne(f), !.changed = TRUE]
      PROVE  Readability'
  <2> DEFINE p == RecoverOne(f)
  <2>1. Plan' = p
    BY <1>1, <1>2 DEF Lock, Plan
  <2>2. CASE f = "btmp"
    <3> DEFINE a == Write("budget", ExportBudget, Numbers)
               b == Fsync("budget")
               c == Write("btmp", Absent, {})
    <3>1. p = <<a, b, c, Sync>>
      BY <2>2 DEF RecoverOne, Unlink
    <3>2. Tame(a) /\ Tame(b) /\ Tame(c) /\ Tame(Sync)
      BY TameSteps DEF Files
    <3> HIDE DEF a, b, c, p
    <3>3. \A i \in 1 .. Len(p) : Tame(p[i])
      BY <3>1, <3>2
    <3>4. Careful(p, dir')
      BY <3>3, TamePlans
    <3> QED
      BY <1>1, <2>1, <3>4, ReadQuiet
  <2>3. CASE f = "xtmp" /\ WholeExport(dir.xtmp.lines) /\ dir.xtmp.seq \notin Exported
    <3> DEFINE a == Fsync("xtmp")
               b == Do("publish")
    <3>1. p = <<a, b, Sync>>
      BY <2>3 DEF RecoverOne
    <3>2. Tame(a) /\ Tame(Sync) /\ a.op = "fsync" /\ b.op = "publish"
      BY TameSteps DEF Files, Fsync, Do
    <3>3. Fit("xtmp", dir["xtmp"])
      BY <2>3 DEF Fit
    <3> HIDE DEF a, b, p
    <3>4. Len(p) = 3 /\ p[1] = a /\ p[2] = b /\ p[3] = Sync
      BY <3>1
    <3>5. Settled(p, dir, 2, "xtmp")
      <4>1. \A m \in 1 .. 2 - 1 : p[m].op \in {"sync", "fsync"}
        BY <3>2, <3>4
      <4> QED
        BY <3>3, <4>1, SettledNow
    <3>6. \A i \in 1 .. Len(p) : i = 1 \/ i = 2 \/ i = 3
      BY <3>4
    <3>7. Careful(p, dir')
      BY <1>1, <3>2, <3>4, <3>5, <3>6 DEF Careful
    <3> QED
      BY <1>1, <2>1, <3>7, ReadQuiet
  <2>4. CASE /\ f # "btmp"
             /\ ~(f = "xtmp" /\ WholeExport(dir.xtmp.lines) /\ dir.xtmp.seq \notin Exported)
    <3> DEFINE a == Write(f, Absent, {})
    <3>1. p = <<a>>
      BY <2>4 DEF RecoverOne, Unlink
    <3>2. Tame(a)
      BY TameSteps DEF Files
    <3> HIDE DEF a, p
    <3>3. \A i \in 1 .. Len(p) : Tame(p[i])
      BY <3>1, <3>2
    <3>4. Careful(p, dir')
      BY <3>3, TamePlans
    <3> QED
      BY <1>1, <2>1, <3>4, ReadQuiet
  <2> QED
    BY <2>2, <2>3, <2>4
<1>3. ASSUME Then("body", Prune(Cardinality(Exported))
                          \o (IF holder.changed THEN <<Sync>> ELSE <<>>))
      PROVE  Readability'
  <2> DEFINE n == Cardinality(Exported)
             q == IF holder.changed THEN <<Sync>> ELSE <<>>
             p == Prune(n) \o q
  <2>1. n \in Nat
    <3>1. IsFiniteSet(Exported)
      BY <1>1 DEF Sound, Possible, Fine, Whole, Exported
    <3> QED
      BY <3>1, FS_CardinalityType
  <2>2. q \in {<<>>, <<Sync>>}
    OBVIOUS
  <2>3. Plan' = p
    BY <1>1, <1>3 DEF Then, Lock, Plan
  <2> HIDE DEF q, n
  <2>4. \A i \in 1 .. Len(p) : Harmless(p[i])
    BY <2>1, <2>2, PrunedHarmless
  <2> HIDE DEF p
  <2>5. Careful(p, dir')
    BY <2>4, HarmlessTame, TamePlans
  <2> QED
    BY <1>1, <2>3, <2>5, ReadQuiet
<1> QED
  BY <1>2, <1>3 DEF Recover

\* The repair of the journal keeps the lines that are whole.
LEMMA ReadRepair ==
  ASSUME IInv, Readability, Repair
  PROVE  Readability'
<1> DEFINE c == Lines(dir.journal)
           a == Write("journal", c, {})
           b == Fsync("journal")
           p == <<a, b, Sync>>
<1>1. UNCHANGED <<dir, held>> /\ Plan' = p
  BY DEF Repair, Then, IInv, Lock, Plan
<1>2. Paired(Lines(c))
  <2>1. Paired(c)
    BY DEF Readability, Legible, Possible
  <2> HIDE DEF c
  <2> QED
    BY <2>1, PairedReads
<1>3. Tame(a)
  <2>1. a.op = "write" /\ a.file = "journal" /\ a.full = c /\ a.cuts = {}
    BY DEF Write
  <2> HIDE DEF a, c
  <2> QED
    BY <1>2, <2>1 DEF Tame, Files
<1>4. Tame(b) /\ Tame(Sync)
  BY TameSteps DEF Files
<1> HIDE DEF a, b, c
<1>5. \A i \in 1 .. Len(p) : Tame(p[i])
  BY <1>3, <1>4
<1> HIDE DEF p
<1>6. Careful(p, dir')
  BY <1>5, TamePlans
<1> QED
  BY <1>1, <1>6, ReadQuiet


\* A file is replaced by what fits.
LEMMA ReplacesWhole ==
  ASSUME NEW tmp, NEW f, <<tmp, f>> \in {<<"jtmp", "journal">>, <<"ftmp", "feedback">>},
         NEW v, Fit(tmp, v), NEW cuts, NEW d
  PROVE  Careful(Replace(tmp, f, v, cuts), d)
<1> DEFINE a == Write(tmp, v, cuts)
           b == Fsync(tmp)
           c == Rename(tmp, f)
           p == <<a, b, c, Sync>>
<1>1. tmp \in Files \ {"journal", "feedback"}
  BY DEF Files
<1>2. Tame(a) /\ Tame(b) /\ Tame(Sync) /\ Replaces(c) /\ c.file = tmp
  BY <1>1, TameSteps DEF Replaces, Rename
<1>3. a.op = "write" /\ a.file = tmp /\ a.full = v /\ b.op = "fsync"
  BY DEF Write, Fsync
<1>4. Replace(tmp, f, v, cuts) = p
  BY DEF Replace
<1> HIDE DEF a, b, c
<1>5. Len(p) = 4 /\ p[1] = a /\ p[2] = b /\ p[3] = c /\ p[4] = Sync
  OBVIOUS
<1> HIDE DEF p
<1>6. Settled(p, d, 3, tmp)
  <2>1. p[1].op = "write" /\ p[1].file = tmp /\ p[1].full = v /\ p[1 + 1].op = "fsync"
    BY <1>3, <1>5
  <2>2. Settled(p, d, 1 + 2, tmp)
    BY <2>1, SettledThen
  <2> QED
    BY <2>2
<1>7. \A i \in 1 .. Len(p) : i = 1 \/ i = 2 \/ i = 3 \/ i = 4
  BY <1>5
<1> QED
  BY <1>2, <1>4, <1>5, <1>6, <1>7 DEF Careful

\* The export is written before it is published, and written whole.
LEMMA ReadExport ==
  ASSUME IInv, Readability, ExportBody
  PROVE  Readability'
<1>0. PICK lines \in Snapshot(Lines(dir.journal)) :
        LET seq == Largest(Exported) + 1
            total == Number(dir.budget) + Len(lines)
        IN IF dir.budget # Torn /\ Len(lines) \in 0..(ExportBudget - Number(dir.budget))
           THEN Then("end", Replace("btmp", "budget", total, {Torn} \cup 0..(total - 1))
                            \o <<Write("xtmp", [seq |-> seq, lines |-> lines],
                                       {[seq |-> seq, lines |-> c] : c \in Cuts(<<>>, lines)}),
                                 Fsync("xtmp"), Do("publish"), Sync>>
                            \o Prune(Cardinality(Exported) + 1))
           ELSE holder' = Free
  BY DEF ExportBody
<1> DEFINE seq == Largest(Exported) + 1
           total == Number(dir.budget) + Len(lines)
           v == [seq |-> seq, lines |-> lines]
           a1 == Write("btmp", total, {Torn} \cup 0..(total - 1))
           a2 == Fsync("btmp")
           a3 == Rename("btmp", "budget")
           b1 == Write("xtmp", v, {[seq |-> seq, lines |-> c] : c \in Cuts(<<>>, lines)})
           b2 == Fsync("xtmp")
           b3 == Do("publish")
           p == <<a1, a2, a3, Sync>>
           q == <<b1, b2, b3, Sync>>
           r == Prune(Cardinality(Exported) + 1)
           full == (p \o q) \o r
<1>1. UNCHANGED <<dir, held>> /\ Lock /\ Sound
  BY DEF ExportBody, IInv
<1>2. CASE holder' = Free
  <2>1. Plan' = <<>>
    BY <1>2 DEF Free, Plan
  <2> QED
    BY <1>1, <2>1, ReadIdle
<1>3. CASE Then("end", full)
  <2>1. Plan' = full
    BY <1>1, <1>3 DEF Then, Lock, Plan
  <2>2. Fit("xtmp", v)
    <3>1. Paired(Lines(dir.journal))
      BY DEF Readability, Legible, Possible
    <3>2. WholeExport(lines)
      BY <1>0, <3>1, SnapshotWhole
    <3> QED
      BY <3>2 DEF Fit
  <2>3. IsFiniteSet(Exported)
    BY <1>1 DEF Sound, Possible, Fine, Whole, Exported
  <2>4. Cardinality(Exported) + 1 \in Nat
    BY <2>3, FS_CardinalityType
  <2>5. PICK S : r \in Seq(S) /\ \A i \in 1 .. Len(r) : Harmless(r[i])
    BY <2>4, PruneHarmless
  <2>6. /\ Tame(a1) /\ Tame(a2) /\ Tame(a3) /\ Tame(Sync) /\ Tame(b1) /\ Tame(b2)
    BY TameSteps DEF Files
  <2>7. /\ b1.op = "write" /\ b1.file = "xtmp" /\ b1.full = v /\ b2.op = "fsync"
        /\ b3.op = "publish"
    BY DEF Write, Fsync, Do
  <2> HIDE DEF v, a1, a2, a3, b1, b2, b3, r
  <2>8. /\ Len(full) = 8 + Len(r) /\ Len(r) \in Nat
        /\ full[1] = a1 /\ full[2] = a2 /\ full[3] = a3 /\ full[4] = Sync
        /\ full[5] = b1 /\ full[6] = b2 /\ full[7] = b3 /\ full[8] = Sync
        /\ \A i \in 9 .. 8 + Len(r) : full[i] = r[i - 8]
    <3>1. p \in Seq(ToSet(p)) /\ Len(p) = 4 /\ q \in Seq(ToSet(q)) /\ Len(q) = 4
      BY ShortPlans
    <3>2. /\ p[1] = a1 /\ p[2] = a2 /\ p[3] = a3 /\ p[4] = Sync
          /\ q[1] = b1 /\ q[2] = b2 /\ q[3] = b3 /\ q[4] = Sync
      OBVIOUS
    <3> DEFINE pq == p \o q
    <3>3. full = pq \o r
      OBVIOUS
    <3> HIDE DEF full
    <3>4. /\ pq \in Seq(ToSet(pq)) /\ Len(pq) = 8
          /\ pq[1] = a1 /\ pq[2] = a2 /\ pq[3] = a3 /\ pq[4] = Sync
          /\ pq[5] = b1 /\ pq[6] = b2 /\ pq[7] = b3 /\ pq[8] = Sync
      <4> HIDE DEF p, q
      <4> QED
        BY <3>1, <3>2, FourAndFour
    <3> HIDE DEF pq
    <3>5. /\ pq \o r \in Seq(ToSet(pq \o r)) /\ Len(pq \o r) = 8 + Len(r) /\ Len(r) \in Nat
          /\ \A i \in 1 .. 8 : (pq \o r)[i] = pq[i]
          /\ \A i \in 9 .. 8 + Len(r) : (pq \o r)[i] = r[i - 8]
      BY <2>5, <3>4, EightSteps
    <3> QED
      BY <3>3, <3>4, <3>5
  <2> HIDE DEF full
  <2>9. Settled(full, dir, 7, "xtmp")
    <3>1. /\ full[5].op = "write" /\ full[5].file = "xtmp" /\ full[5].full = v
          /\ full[5 + 1].op = "fsync"
      BY <2>7, <2>8
    <3>2. Settled(full, dir, 5 + 2, "xtmp")
      BY <2>2, <3>1, SettledThen
    <3> QED
      BY <3>2
  <2>10. \A i \in 1 .. 8 : Tame(full[i]) \/ (i = 7 /\ full[i].op = "publish")
    BY <2>6, <2>7, <2>8
  <2>11. \A i \in 9 .. Len(full) : Tame(full[i])
    <3>1. ASSUME NEW i \in 9 .. Len(full) PROVE Harmless(full[i])
      <4>1. i - 8 \in 1 .. Len(r) /\ full[i] = r[i - 8]
        BY <2>8
      <4> QED
        BY <2>5, <4>1
    <3> QED
      BY <3>1, HarmlessTame
  <2>12. \A i \in 1 .. Len(full) : i \in 1 .. 8 \/ i \in 9 .. Len(full)
    BY <2>8
  <2>13. Careful(full, dir')
    BY <1>1, <2>9, <2>10, <2>11, <2>12 DEF Careful
  <2> QED
    BY <1>1, <2>1, <2>13, ReadQuiet
<1> QED
  BY <1>0, <1>2, <1>3 DEF Replace

\* What the collector's budget allows is done, or the latch is written.
LEMMA ReadCharged ==
  ASSUME Readability, Lock, UNCHANGED <<dir, held>>, NEW n, NEW p, Charged(n, p),
         Careful(p, dir)
  PROVE  Readability'
<1>1. Plan' = p \/ Plan' = Latch
  BY DEF Charged, Then, Lock, Plan
<1>2. Careful(Latch, dir)
  <2> DEFINE a == Write("latch", TRUE, {})
  <2>1. Tame(a) /\ Tame(Sync) /\ Latch = <<a, Sync>>
    BY TameSteps DEF Files, Latch
  <2> HIDE DEF a
  <2>2. \A i \in 1 .. Len(Latch) : Tame(Latch[i])
    BY <2>1
  <2> QED
    BY <2>2, TamePlans
<1>3. Careful(Plan', dir')
  BY <1>1, <1>2
<1> QED
  BY <1>3, ReadQuiet

\* An aggregate is replaced by a whole one.
LEMMA ReadFeedback ==
  ASSUME IInv, Readability, AppendFeedback
  PROVE  Readability'
<1> DEFINE new == Corrected(dir.feedback, coll.d.key)
           p == Replace("ftmp", "feedback", new, {Torn})
<1>1. /\ UNCHANGED <<dir, held>> /\ holder.job = "append" /\ IsFeedback(coll.d)
      /\ Matched /\ Sound /\ Lock
  BY DEF AppendFeedback, IInv
<1>2. CASE holder' = Free
  <2>1. Plan' = <<>>
    BY <1>2 DEF Free, Plan
  <2> QED
    BY <1>1, <2>1, ReadIdle
<1>3. CASE ValidFeedback /\ Charged(Len(new), p)
  <2>1. coll.d \in Datagrams /\ coll.d.key \in Keys
    BY <1>1 DEF Matched, Keys
  <2>2. dir.feedback \in {Absent} \cup Seq(Keys)
    BY <1>1, <1>3 DEF Sound, Possible, Fine, Whole, ValidFeedback
  <2>3. new \in Seq(Keys)
    BY <2>1, <2>2, CorrectedLast
  <2> HIDE DEF new
  <2>4. Fit("ftmp", new)
    BY <2>3, StoreAssumption DEF Fit
  <2>5. Careful(p, dir)
    BY <2>4, ReplacesWhole
  <2>6. Charged(Len(new), p)
    BY <1>3
  <2> HIDE DEF p
  <2> QED
    BY <1>1, <2>5, <2>6, ReadCharged
<1> QED
  BY <1>2, <1>3 DEF AppendFeedback

\* One line that is cut leaves what was there, or that and a torn line.
LEMMA OneLineCut ==
  ASSUME NEW S, NEW old \in Seq(S), NEW d, NEW c \in Cuts(old, <<d>>)
  PROVE  c = old \/ c = Append(old, Torn)
<1> DEFINE new == <<d>>
<1>1. /\ Len(new) = 1 /\ SubSeq(new, 1, 0) = <<>> /\ SubSeq(new, 1, 1) = new
      /\ 0 .. 1 = {0, 1}
  <2>1. SubSeq(new, 1, 0) = <<>>
    OBVIOUS
  <2>2. SubSeq(new, 1, 1) = new
    <3> DEFINE t == SubSeq(new, 1, 1)
    <3>1. new \in Seq({d}) /\ Len(new) = 1 /\ new[1] = d
      OBVIOUS
    <3> HIDE DEF new
    <3>2. t \in Seq({d}) /\ Len(t) = 1 /\ t[1] = d
      BY <3>1
    <3> HIDE DEF t
    <3>3. t = new
      BY <3>1, <3>2
    <3> QED
      BY <3>3 DEF t
  <2> QED
    BY <2>1, <2>2
<1>2. old \o <<>> = old
  OBVIOUS
<1> HIDE DEF new
<1>3. PICK p \in Prefixes(new) \ {new} : c \in {old \o p, Append(old \o p, Torn)}
  BY DEF Cuts, new
<1>4. p = <<>>
  BY <1>1, <1>3 DEF Prefixes
<1> QED
  BY <1>2, <1>3, <1>4

\* A journal is extended by a line that fits, or replaced by one that is whole.
LEMMA ReadEvidence ==
  ASSUME IInv, Readability, AppendEvidence
  PROVE  Readability'
<1> DEFINE old == IF dir.journal = Absent THEN <<>> ELSE dir.journal
           new == Append(old, coll.d)
           a == Write("journal", new, Cuts(old, <<coll.d>>))
           b == Fsync("journal")
           tail == IF dir.journal = Absent THEN <<Sync>> ELSE <<>>
           q == <<a, b>> \o tail
<1>1. /\ UNCHANGED <<dir, held>> /\ holder.job = "append" /\ Lock /\ Readable
      /\ coll.d \in Datagrams
  BY DEF AppendEvidence, IInv, Matched
<1>2. old = Lines(dir.journal) /\ Paired(old)
  <2>1. Paired(Lines(dir.journal))
    BY DEF Readability, Legible, Possible
  <2>2. old = Lines(dir.journal)
    BY <1>1 DEF Readable, Lines
  <2> QED
    BY <2>1, <2>2
<1>3. Accepts(coll.d) => Paired(new)
  BY <1>1, <1>2, AcceptedPairs
<1>4. CASE Then("end", <<>>)
  <2>1. Plan' = <<>>
    BY <1>1, <1>4 DEF Then, Lock, Plan
  <2> QED
    BY <1>1, <2>1, ReadIdle
<1>5. ASSUME Accepts(coll.d), NEW small \in Compacted(new),
             Charged(Len(small), Replace("jtmp", "journal", small, Cuts(<<>>, small)))
      PROVE  Readability'
  <2> DEFINE p == Replace("jtmp", "journal", small, Cuts(<<>>, small))
  <2> HIDE DEF old
  <2>1. Paired(small)
    <3> HIDE DEF new
    <3> QED
      BY <1>3, <1>5, CompactedPairs
  <2>2. Fit("jtmp", small)
    BY <2>1, PairedReads DEF Fit
  <2>3. Careful(p, dir)
    BY <2>2, ReplacesWhole
  <2>4. Charged(Len(small), p)
    BY <1>5
  <2> HIDE DEF p
  <2> QED
    BY <1>1, <2>3, <2>4, ReadCharged
<1>6. CASE Accepts(coll.d) /\ Charged(1, q)
  <2>1. old \in Seq(Datagrams) /\ Paired(Lines(new))
    BY <1>2, <1>3, <1>6, PairedReads DEF Paired
  <2>2. \A c \in Cuts(old, <<coll.d>>) : Paired(Lines(c))
    <3> HIDE DEF old
    <3>1. \A c \in Cuts(old, <<coll.d>>) : c = old \/ c = Append(old, Torn)
      BY <2>1, OneLineCut
    <3>2. Paired(Lines(old)) /\ Paired(Lines(Append(old, Torn)))
      BY <1>2, PairedReads
    <3> QED
      BY <3>1, <3>2
  <2>3. Tame(a)
    <3>1. /\ a.op = "write" /\ a.file = "journal" /\ a.full = new
          /\ a.cuts = Cuts(old, <<coll.d>>)
      BY DEF Write
    <3>2. \A c \in a.cuts \cup {a.full} : Paired(Lines(c))
      BY <2>1, <2>2, <3>1
    <3> HIDE DEF a
    <3> QED
      BY <3>1, <3>2 DEF Tame, Files
  <2>4. Tame(b) /\ Tame(Sync)
    BY TameSteps DEF Files
  <2>5. tail = <<>> \/ tail = <<Sync>>
    OBVIOUS
  <2>6. Charged(1, q)
    BY <1>6
  <2> HIDE DEF a, b
  <2> DEFINE ab == <<a, b>>
  <2>7. /\ ab \in Seq(ToSet(ab)) /\ Len(ab) = 2 /\ ab[1] = a /\ ab[2] = b
        /\ q = ab \o tail
    BY ShortPlans
  <2> HIDE DEF ab, tail, q
  <2>8. \A i \in 1 .. Len(q) : Tame(q[i])
    <3>1. tail \in Seq(ToSet(tail)) /\ Len(tail) \in {0, 1} /\ (Len(tail) = 1 => tail[1] = Sync)
      <4>1. CASE tail = <<>>
        BY <4>1, ShortPlans
      <4>2. CASE tail = <<Sync>>
        <5>1. tail \in Seq(ToSet(tail))
          BY <4>2, ShortPlans
        <5>2. Len(tail) = 1 /\ tail[1] = Sync
          BY <4>2
        <5> QED
          BY <5>1, <5>2
      <4> QED
        BY <2>5, <4>1, <4>2
    <3>2. /\ ab \o tail \in Seq(ToSet(ab \o tail))
          /\ Len(ab \o tail) = Len(ab) + Len(tail)
          /\ \A i \in 1 .. Len(ab) : (ab \o tail)[i] = ab[i]
          /\ \A i \in Len(ab) + 1 .. Len(ab) + Len(tail) : (ab \o tail)[i] = tail[i - Len(ab)]
      <4>1. ab \in Seq(ToSet(ab)) /\ tail \in Seq(ToSet(tail))
        BY <2>7, <3>1
      <4> QED
        BY <4>1, Joined
    <3>3. /\ Len(q) = 2 + Len(tail) /\ q[1] = a /\ q[2] = b
          /\ \A i \in 3 .. 2 + Len(tail) : q[i] = tail[i - 2]
      BY <2>7, <3>1, <3>2
    <3>4. Len(tail) = 1 => q[3] = Sync
      BY <3>1, <3>3
    <3>5. \A i \in 1 .. Len(q) : i = 1 \/ i = 2 \/ (i = 3 /\ Len(tail) = 1)
      BY <3>1, <3>3
    <3> QED
      BY <2>3, <2>4, <3>3, <3>4, <3>5
  <2>9. Careful(q, dir)
    BY <2>8, TamePlans
  <2> QED
    BY <1>1, <2>6, <2>9, ReadCharged
<1> QED
  BY <1>4, <1>5, <1>6 DEF AppendEvidence

\* Nothing is unreadable in an empty directory.
LEMMA ReadInit ==
  ASSUME Init
  PROVE  Readability
<1>1. /\ dir.journal = Absent /\ dir.feedback = Absent /\ dir.exports = <<>>
      /\ held = {dir} /\ Plan = <<>>
  BY DEF Init, Files, Free, Plan
<1>2. Paired(<<>>) /\ Absent # Torn
  <2>1. <<>> \in Seq(Datagrams) /\ Len(<<>>) = 0
    OBVIOUS
  <2> QED
    BY <2>1, StoreAssumption DEF Paired
<1>3. Legible(dir)
  <2>1. DOMAIN <<>> = {}
    OBVIOUS
  <2> QED
    BY <1>1, <1>2, <2>1 DEF Legible, Lines
<1>4. Careful(<<>>, dir)
  <2>1. Len(<<>>) = 0
    OBVIOUS
  <2> QED
    BY <2>1 DEF Careful
<1> QED
  BY <1>1, <1>3, <1>4 DEF Readability, Possible

\* Every step leaves files that can be read.
LEMMA NextReads ==
  ASSUME IInv, IInv', Readability, [Next]_vars
  PROVE  Readability'
<1>1. CASE Enable \/ Disable \/ EraseBody \/ Start \/ Overflow
  BY <1>1, ReadBegins
<1>2. CASE \/ Export \/ Erase \/ (\E e \in 1 .. count.epochs : Launch(e)) \/ GiveUp
           \/ (\E d \in Datagrams : Receive(d)) \/ Close \/ AppendBusy \/ AppendTakes
           \/ AppendFenced \/ Finish \/ UNCHANGED vars
  BY <1>2, ReadRests
<1>3. CASE Recover \/ Repair \/ ExportBody
  BY <1>3, ReadRecover, ReadRepair, ReadExport
<1>4. CASE AppendFeedback \/ AppendEvidence
  BY <1>4, ReadFeedback, ReadEvidence
<1>5. CASE Step
  BY <1>5, ReadStep
<1>6. CASE Fail \/ Kill
  BY <1>6, ReadCut DEF Fail, Kill
<1>7. CASE PowerCut
  BY <1>7, ReadPowerCut
<1> QED
  BY <1>1, <1>2, <1>3, <1>4, <1>5, <1>6, <1>7 DEF Next

\* Whatever stops a writer, at any step, the journal that is left can be
\* indexed once a torn tail is dropped, and the aggregate and every published
\* export are whole (_index, _read_feedback, _validate_export_temporary).
THEOREM FilesRecover == Spec => []Recoverable
<1>1. Init => IInv /\ Readability
  BY Begins, ReadInit
<1>2. (IInv /\ Readability) /\ [Next]_vars => (IInv /\ Readability)'
  BY NextKeeps, NextReads
<1>3. IInv /\ Readability => Recoverable
  BY PairedReads DEF Readability, Legible, Recoverable
<1> QED
  BY <1>1, <1>2, <1>3, PTL DEF Spec
=============================================================================
