------------------------- MODULE ConfigChannelProofs -------------------------
(***************************************************************************)
(* ConfigChannel for any set of config texts and any number of commits and *)
(* faults.                                                                 *)
(***************************************************************************)
EXTENDS ConfigChannel, TLAPS, WellFoundedInduction

\* The types without their bounds.
Types ==
  /\ git \in Seq(Body)
  /\ phone \in Body
  /\ wire \subseteq Body
  /\ turn \in {"idle", "migrate", "agent", "rollback"}
  /\ op \in Op
  /\ marker \in BOOLEAN /\ outstanding \in BOOLEAN /\ owed \in BOOLEAN

\* Who runs which transaction.
Owner ==
  /\ turn = "idle" => op = NoOp
  /\ op.kind = "migrate" => turn = "migrate"
  /\ op.step = "clear" => op.kind = "migrate"

\* The mark outlives what is owed, and no agent runs under the mark.
Marked ==
  /\ owed => marker
  /\ turn = "agent" => ~marker
  /\ op.kind = "migrate" => marker
  /\ op.step = "clear" => ~owed

\* With nothing outstanding the phone holds what is recorded, or what is about
\* to be.
Known ==
  ~outstanding =>
    /\ wire = {}
    /\ phone = IF op.step = "record" THEN op.body ELSE Current

\* What an undo is about to record means something else.
Moving == op.kind = "undo" => Comparable(op.body) # Comparable(Current)

IInv == Types /\ Owner /\ Marked /\ Known /\ Moving

-----------------------------------------------------------------------------
(* Facts about the operators.                                              *)

\* A transaction is none, or it has all its fields.
Transactions ==
  [kind : Kinds, step : {"send", "record", "clear"}, body : Body, clean : BOOLEAN]

\* What the type of op says of a transaction under way, and of none.
LEMMA OpFacts ==
  ASSUME op \in Op
  PROVE  /\ Scaffold \in Body /\ NoOp \in Op
         /\ op.body \in Body
         /\ op = NoOp => op.kind = "none" /\ op.step = "none"
         /\ op # NoOp => op \in Transactions
         /\ op.step # "none" => op \in Transactions
<1>1. Scaffold \in Body
  BY ChannelAssumption DEF Scaffold, Body
<1>2. NoOp.body = Scaffold /\ NoOp.kind = "none" /\ NoOp.step = "none"
  BY DEF NoOp
<1>3. NoOp \in Op /\ (op # NoOp => op \in Transactions)
  BY DEF Op, Transactions
<1>4. op # NoOp => op.body \in Body
  <2> HIDE DEF Body
  <2> QED BY <1>3 DEF Transactions
<1> QED BY <1>1, <1>2, <1>3, <1>4

\* A history never empty ends in a body; committing to it makes that the last.
LEMMA HistoryFacts ==
  ASSUME git \in Seq(Body)
  PROVE  /\ History \in Seq(Body) /\ Len(History) \in Nat \ {0}
         /\ Current \in Body
<1>1. Scaffold \in Body
  BY ChannelAssumption DEF Scaffold, Body
<1>2. History \in Seq(Body) /\ History # <<>>
  BY <1>1 DEF History
<1>3. Len(History) \in Nat \ {0}
  BY <1>2
<1> QED BY <1>2, <1>3 DEF Current, Last

\* What is committed is the last version, whether or not it is a new one.
LEMMA CommittedFacts ==
  ASSUME git \in Seq(Body), NEW b \in Body
  PROVE  /\ Committed(b) \in Seq(Body)
         /\ Committed(b) # <<>>
         /\ Last(Committed(b)) = b
<1>1. CASE Current = b
  BY <1>1, HistoryFacts DEF Committed, Current
<1>2. CASE Current # b
  BY <1>2, HistoryFacts DEF Committed, Last
<1> QED BY <1>1, <1>2

\* ensure() changes neither the history nor the config an operation sees.
LEMMA EnsureKeeps ==
  ASSUME git \in Seq(Body), git' = History
  PROVE  git' \in Seq(Body) /\ History' = History /\ Current' = Current
<1>1. History \in Seq(Body) /\ History # <<>>
  BY HistoryFacts
<1> QED BY <1>1 DEF History, Current

\* A commit becomes the config the next operation sees.
LEMMA CommitIsCurrent ==
  ASSUME git \in Seq(Body), NEW b \in Body, git' = Committed(b)
  PROVE  git' \in Seq(Body) /\ Current' = b
BY CommittedFacts DEF History, Current

\* Comparing is done in a form of its own.
LEMMA ComparableFacts ==
  ASSUME NEW b \in Body
  PROVE  /\ Migrated(b) \in Body
         /\ Comparable(b) \in Body
         /\ Comparable(Comparable(b)) = Comparable(b)
BY DEF Comparable, Migrated, Body

\* Among finitely many prior versions there is a nearest one.
LEMMA NearestPrior ==
  ASSUME NEW h \in Seq(Body), Prior(h) # {}
  PROVE  Max(Prior(h)) \in Prior(h)
<1> DEFINE T == {Len(h) - k : k \in Prior(h)}
<1>1. Prior(h) \subseteq 1 .. Len(h) - 1 /\ Len(h) \in Nat
  BY DEF Prior
<1>2. T \subseteq Nat /\ T # {}
  BY <1>1
<1>3. PICK x \in T : \A y \in T : ~ (<<y, x>> \in OpToRel(<, Nat))
  <2> HIDE DEF T
  <2> QED BY <1>2, NatLessThanWellFounded, WFMin
<1>4. \A y \in T : ~ (y < x)
  BY <1>2, <1>3 DEF OpToRel
<1>5. PICK k \in Prior(h) : x = Len(h) - k
  BY DEF T
<1>6. ASSUME NEW j \in Prior(h)
      PROVE  k >= j
  <2>1. Len(h) - j \in T
    OBVIOUS
  <2>2. ~ (Len(h) - j < Len(h) - k)
    BY <2>1, <1>4, <1>5
  <2>3. j \in Nat /\ k \in Nat /\ Len(h) \in Nat
    BY <1>1
  <2> HIDE DEF T
  <2> QED BY <2>2, <2>3
<1> QED BY <1>5, <1>6 DEF Max

\* What undo writes means something else than what it undoes.
LEMMA UndoDiffers ==
  ASSUME git \in Seq(Body), CanUndo(History)
  PROVE  Undo(History) \in Body /\ Comparable(Undo(History)) # Comparable(Current)
<1>1. Max(Prior(History)) \in Prior(History)
  BY HistoryFacts, NearestPrior DEF CanUndo
<1>2. /\ History[Max(Prior(History))] \in Body
      /\ Comparable(History[Max(Prior(History))]) # Comparable(Current)
  BY <1>1, HistoryFacts DEF Prior, Current
<1> QED BY <1>2, ComparableFacts DEF Undo

-----------------------------------------------------------------------------
(* The invariant.                                                          *)

\* It holds at the start.
LEMMA Initially == Init => IInv
<1> SUFFICES ASSUME Init PROVE IInv
  OBVIOUS
<1>1. Scaffold \in Body
  BY ChannelAssumption DEF Scaffold, Body
<1>2. git \in Seq(Body) /\ phone = Current
  <2>1. CASE git \in {<<>>, <<Scaffold>>}
    <3>1. git = <<>> \/ git = <<Scaffold>>
      BY <2>1
    <3>2. Len(<<Scaffold>>) = 1 /\ <<Scaffold>>[1] = Scaffold
      OBVIOUS
    <3>3. Last(<<Scaffold>>) = Scaffold
      BY <3>2 DEF Last
    <3>4. Current = Scaffold /\ phone = Scaffold
      <4>1. CASE git = <<>>
        BY <4>1, <3>3 DEF Init, Current, History
      <4>2. CASE git = <<Scaffold>>
        <5>1. git # <<>>
          BY <4>2, <3>2
        <5> QED BY <4>2, <5>1, <3>3 DEF Init, Current, History
      <4> QED BY <3>1, <4>1, <4>2
    <3>5. <<>> \in Seq(Body) /\ <<Scaffold>> \in Seq(Body)
      BY <1>1
    <3>6. git \in Seq(Body)
      BY <3>1, <3>5
    <3> QED BY <3>4, <3>6
  <2>2. CASE \E b \in Body : git = <<Scaffold, b>>
    <3> PICK b \in Body : git = <<Scaffold, b>>
      BY <2>2
    <3> QED BY <1>1 DEF Init, Current, History, Last
  <2> QED BY <2>1, <2>2 DEF Init
<1>3. Types
  BY <1>1, <1>2, HistoryFacts DEF Init, Types, Op
<1>4. Owner /\ Marked /\ Moving
  BY DEF Init, Owner, Marked, Moving, NoOp
<1>5. Known
  BY <1>2 DEF Init, Known, NoOp
<1> QED BY <1>3, <1>4, <1>5 DEF IInv

\* A step that leaves the variables alone keeps it.
LEMMA Stutter == IInv /\ UNCHANGED vars => IInv'
BY DEF IInv, Types, Owner, Marked, Known, Moving, vars, Current, History, Comparable, Migrated

\* Beginning a transaction keeps it.
LEMMA BeginKeeps ==
  ASSUME IInv,
         \/ ChatBlocked \/ ChatUnchanged \/ ChatMigrates \/ EndTurn \/ ToolUndo \/ Rollback
         \/ \E b \in Body : ToolApply(b)
         \/ \E k \in 1 .. MaxCommits : ToolRestore(k)
  PROVE  IInv'
<1>1. git' = git \/ git' = History
  BY DEF ChatBlocked, ChatUnchanged, ChatMigrates, EndTurn, ToolApply, ToolRestore,
         ToolUndo, Rollback, Ensure, repo
<1>2. git' \in Seq(Body) /\ Current' = Current /\ Current \in Body
  BY <1>1, EnsureKeeps, HistoryFacts DEF IInv, Types, Current, History
<1>3. CASE ChatBlocked \/ ChatUnchanged \/ EndTurn
  <2>1. op' = op
    BY <1>3 DEF ChatBlocked, ChatUnchanged, EndTurn
  <2>2. Moving'
    BY <2>1, <1>2 DEF IInv, Moving, Comparable, Migrated
  <2> QED BY <1>2, <1>3, <2>2 DEF ChatBlocked, ChatUnchanged, EndTurn, repo, IInv, Types,
            Owner, Marked, Known, NoOp
<1>4. CASE ChatMigrates
  <2>1. op' \in Op
    BY <1>4, <1>2, ComparableFacts DEF ChatMigrates, Begin, Op, Kinds
  <2> QED BY <1>4, <1>2, <2>1 DEF ChatMigrates, Begin, IInv, Types, Owner, Marked, Known,
            Moving, NoOp
<1>5. ASSUME NEW b \in Body, ToolApply(b)
      PROVE  IInv'
  <2>1. op' \in Op
    BY <1>5 DEF ToolApply, Begin, Op, Kinds
  <2> QED BY <1>5, <1>2, <2>1 DEF ToolApply, Begin, repo, IInv, Types, Owner, Marked, Known,
            Moving, NoOp
<1>6. ASSUME NEW k \in 1 .. MaxCommits, ToolRestore(k)
      PROVE  IInv'
  <2>1. git[k] \in Body
    BY <1>6 DEF ToolRestore, IInv, Types
  <2>2. op' \in Op
    BY <1>6, <2>1, ComparableFacts DEF ToolRestore, Begin, Op, Kinds
  <2> QED BY <1>6, <1>2, <2>2 DEF ToolRestore, Begin, IInv, Types, Owner, Marked, Known,
            Moving, NoOp
<1>7. CASE ToolUndo \/ Rollback
  <2>1. /\ Undo(History) \in Body
        /\ Comparable(Undo(History)) # Comparable(Current)
    BY <1>7, UndoDiffers DEF ToolUndo, Rollback, IInv, Types
  <2>2. op' \in Op /\ op'.body = Undo(History) /\ op'.kind = "undo" /\ op'.step = "send"
    <3>1. Begin("undo", Undo(History))
      BY <1>7 DEF ToolUndo, Rollback
    <3> HIDE DEF Undo, History
    <3> QED BY <3>1, <2>1 DEF Begin, Op, Kinds
  <2>3. Moving'
    BY <2>1, <2>2, <1>2 DEF Moving, Comparable, Migrated
  <2>4. Types' /\ Owner' /\ Marked' /\ Known'
    BY <1>7, <1>2, <2>2 DEF ToolUndo, Rollback, Begin, IInv, Types, Owner, Marked, Known, NoOp
  <2> QED BY <2>3, <2>4 DEF IInv
<1> QED BY <1>3, <1>4, <1>5, <1>6, <1>7

\* So does every answer of the phone, or the lack of one.
LEMMA SendKeeps ==
  ASSUME IInv,
         NotSent \/ Unconfirmed \/ \E clean \in BOOLEAN : Received(clean)
  PROVE  IInv'
<1> USE DEF IInv
<1>1. git' = git /\ Current' = Current
  BY DEF NotSent, Unconfirmed, Received, repo, Current, History
<1>2. op.body \in Body /\ NoOp \in Op
  BY OpFacts DEF Types
<1>3. CASE NotSent
  BY <1>1, <1>2, <1>3 DEF NotSent, Finish, repo, Types, Owner, Marked, Known, Moving, NoOp
<1>4. CASE Unconfirmed
  BY <1>1, <1>2, <1>4 DEF Unconfirmed, Uncertain, Finish, repo, Types, Owner, Marked, Known,
     Moving, NoOp
<1>5. ASSUME NEW clean \in BOOLEAN, Received(clean)
      PROVE  IInv'
  <2>1. op \in Transactions
    BY <1>5, OpFacts DEF Received, Types
  <2>2. op' \in Op /\ op'.kind = op.kind /\ op'.body = op.body /\ op'.step = "record"
    BY <1>5, <2>1 DEF Received, Op, Transactions
  <2>3. Moving'
    BY <2>2, <1>1 DEF Moving, Comparable, Migrated
  <2>4. /\ phone' = op.body /\ op.step = "send" /\ turn' = turn
        /\ outstanding' = outstanding /\ wire' = wire
    BY <1>5 DEF Received
  <2>5. op # NoOp
    BY <2>4 DEF NoOp
  <2>6. Types'
    BY <1>1, <1>2, <1>5, <2>2, <2>4 DEF Received, Types
  <2>7. Owner' /\ Marked'
    BY <1>5, <2>2, <2>4, <2>5 DEF Received, Types, Owner, Marked
  <2>8. Known'
    BY <2>2, <2>4 DEF Known
  <2> QED BY <2>3, <2>6, <2>7, <2>8
<1> QED BY <1>3, <1>4, <1>5

\* And the record, kept or not, and the end of a migration.
LEMMA RecordKeeps ==
  ASSUME IInv, Recorded \/ Unrecorded \/ Cleared \/ NotCleared
  PROVE  IInv'
<1> USE DEF IInv
<1>1. op.body \in Body /\ NoOp \in Op
  BY OpFacts DEF Types
<1>2. CASE Recorded
  <2>1. git' \in Seq(Body) /\ Current' = op.body
    BY <1>1, <1>2, CommitIsCurrent DEF Recorded, Types
  <2>2. op \in Transactions
    BY <1>2, OpFacts DEF Recorded, Types
  <2>3. CASE op.kind = "migrate" /\ op.clean
    <3>1. op' \in Op /\ op'.kind = "migrate" /\ op'.step = "clear"
      BY <1>2, <2>2, <2>3 DEF Recorded, Op, Transactions
    <3> QED BY <1>2, <2>1, <2>3, <3>1 DEF Recorded, Types, Owner, Marked, Known, Moving, NoOp
  <2>4. CASE ~(op.kind = "migrate" /\ op.clean)
    <3>1. /\ op' = NoOp /\ op'.kind = "none" /\ op'.step = "none"
          /\ turn' \in {turn, "idle"} /\ turn' # "migrate" /\ turn' # "rollback"
      BY <1>2, <2>4 DEF Recorded, Finish, NoOp
    <3>2. /\ phone' = phone /\ wire' = wire /\ owed' = owed /\ marker' = marker
          /\ outstanding' = outstanding
      BY <1>2, <2>4 DEF Recorded
    <3>3. Types' /\ Owner' /\ Marked' /\ Moving'
      BY <1>1, <2>1, <3>1, <3>2 DEF Types, Owner, Marked, Moving
    <3>4. Known'
      BY <1>2, <2>1, <3>1, <3>2 DEF Recorded, Known
    <3> QED BY <3>3, <3>4
  <2> QED BY <2>3, <2>4
<1>3. CASE Unrecorded
  <2>1. git' \in Seq(Body)
    BY <1>3, EnsureKeeps DEF Unrecorded, Types
  <2> QED BY <1>1, <1>3, <2>1 DEF Unrecorded, Finish, Types, Owner, Marked, Known, Moving, NoOp
<1>4. CASE Cleared \/ NotCleared
  <2>1. git' = git /\ Current' = Current
    BY <1>4 DEF Cleared, NotCleared, repo, Current, History
  <2>2. /\ op' = NoOp /\ op'.kind = "none" /\ op'.step = "none" /\ op.step = "clear"
        /\ turn' \in {"idle", "agent"} /\ (turn' = "agent" => turn = "agent" \/ ~marker')
        /\ phone' = phone /\ wire' = wire /\ outstanding' = outstanding /\ owed' = owed
        /\ marker' \in {marker, FALSE}
    <3>1. CASE Cleared
      BY <3>1 DEF Cleared, NoOp
    <3>2. CASE NotCleared
      BY <3>2 DEF NotCleared, Finish, NoOp
    <3> QED BY <1>4, <3>1, <3>2
  <2>3. Types' /\ Owner' /\ Marked' /\ Moving'
    BY <1>1, <2>1, <2>2 DEF Types, Owner, Marked, Moving
  <2>4. Known'
    BY <2>1, <2>2 DEF Known
  <2> QED BY <2>3, <2>4
<1> QED BY <1>2, <1>3, <1>4

\* And the surroundings.
LEMMA OutsideKeeps ==
  ASSUME IInv, Crash \/ Reconcile \/ \E b \in Body : Late(b)
  PROVE  IInv'
<1> USE DEF IInv
<1>1. op.body \in Body /\ NoOp \in Op
  BY OpFacts DEF Types
<1>2. CASE Crash
  <2>1. git' \in Seq(Body)
    BY <1>1, <1>2, CommittedFacts DEF Crash, repo, Types
  <2>2. op.step # "record" => Current' = Current
    BY <1>2 DEF Crash, repo, Current, History
  <2>3. Types' /\ Owner' /\ Moving'
    BY <1>1, <1>2, <2>1 DEF Crash, Uncertain, Types, Owner, Moving, NoOp
  <2>4. Marked'
    BY <1>2 DEF Crash, Types, Owner, Marked, NoOp
  <2>5. Known'
    BY <1>2, <2>2 DEF Crash, Types, Known, NoOp
  <2> QED BY <2>3, <2>4, <2>5
<1>3. ASSUME NEW b \in Body, Late(b)
      PROVE  IInv'
  <2>1. git' = git /\ Current' = Current
    BY <1>3 DEF Late, repo, Current, History
  <2>2. Moving'
    BY <1>3, <2>1 DEF Late, Moving, Comparable, Migrated
  <2> QED BY <1>3, <2>1, <2>2 DEF Late, repo, Types, Owner, Marked, Known
<1>4. CASE Reconcile
  <2>1. git' = git /\ Current' = Current /\ Current \in Body
    BY <1>4, HistoryFacts DEF Reconcile, repo, Current, History, Types
  <2>2. /\ op' = op /\ op = NoOp /\ op.kind = "none" /\ op.step = "none"
        /\ turn' = turn /\ wire = {} /\ wire' = wire /\ phone' = Current
    BY <1>4 DEF Reconcile, Owner, NoOp
  <2>3. Types' /\ Owner' /\ Marked' /\ Moving'
    BY <1>4, <2>1, <2>2 DEF Reconcile, Types, Owner, Marked, Moving
  <2>4. Known'
    BY <2>1, <2>2 DEF Known
  <2> QED BY <2>3, <2>4
<1> QED BY <1>2, <1>3, <1>4

\* The invariant holds in every reachable state.
THEOREM Inductive == Spec => []IInv
<1>1. IInv /\ [Next]_vars => IInv'
  <2> SUFFICES ASSUME IInv, [Next]_vars PROVE IInv'
    OBVIOUS
  <2>1. CASE UNCHANGED vars
    BY <2>1, Stutter
  <2>2. CASE Next
    BY <2>2, BeginKeeps, SendKeeps, RecordKeeps, OutsideKeeps DEF Next
  <2> QED BY <2>1, <2>2
<1> QED BY <1>1, Initially, PTL DEF Spec

-----------------------------------------------------------------------------
(* The theorems.                                                           *)

\* The phone's file is the recorded one between operations, unless some result
\* called an operation unconfirmed or unrecorded.
THEOREM PhoneMatchesHistory == Spec => []Aligned
<1>1. IInv => Aligned
  BY DEF IInv, Known, Aligned, NoOp
<1> QED BY <1>1, Inductive, PTL

\* No agent runs while a migration that may have reached the phone is not yet
\* loaded and recorded.
THEOREM AgentIsFenced == Spec => []ChatFenced
<1>1. IInv => ChatFenced
  BY DEF IInv, Marked, ChatFenced
<1> QED BY <1>1, Inductive, PTL

\* A recorded undo changes what the config means.
THEOREM UndoChangesMeaning == Spec => UndoMoves
<1>1. IInv => [(op.kind = "undo" /\ Recorded) => Comparable(Last(git')) # Comparable(Current)]_vars
  <2> SUFFICES ASSUME IInv, op.kind = "undo", Recorded
               PROVE  Comparable(Last(git')) # Comparable(Current)
    OBVIOUS
  <2>1. op.body \in Body
    BY OpFacts DEF IInv, Types
  <2>2. Last(git') = op.body
    BY <2>1, CommittedFacts DEF Recorded, IInv, Types
  <2> QED BY <2>2 DEF IInv, Moving
<1> QED BY <1>1, Inductive, PTL DEF UndoMoves

-----------------------------------------------------------------------------
(* The bounds.                                                             *)

\* A tool or a rollback begins only with room for its commit, and a migration
\* may add the one commit beyond, after which there is nothing left to migrate.
Sized ==
  /\ tree \in Body /\ faults \in 0 .. MaxFaults
  /\ Len(git) <= MaxCommits + 1
  /\ Len(git) = MaxCommits + 1 => ~Current.legacy
  /\ op.step \in {"send", "record"} =>
       IF op.kind = "migrate" THEN op.body = Migrated(Current) ELSE Len(git) < MaxCommits

\* The scaffold is one commit, and every other adds one or none.
LEMMA Lengths ==
  ASSUME git \in Seq(Body)
  PROVE  /\ Len(History) = IF git = <<>> THEN 1 ELSE Len(git)
         /\ git # <<>> => Len(git) \in Nat \ {0}
         /\ \A b \in Body :
              Len(Committed(b)) = IF Current = b THEN Len(History) ELSE Len(History) + 1
<1>1. Len(History) = IF git = <<>> THEN 1 ELSE Len(git)
  BY DEF History
<1>2. git # <<>> => Len(git) \in Nat \ {0}
  OBVIOUS
<1>3. ASSUME NEW b \in Body
      PROVE  Len(Committed(b)) = IF Current = b THEN Len(History) ELSE Len(History) + 1
  <2>1. History \in Seq(Body)
    BY HistoryFacts
  <2> HIDE DEF History, Current
  <2> QED BY <2>1 DEF Committed
<1> QED BY <1>1, <1>2, <1>3

\* The bounds hold at the start.
LEMMA InitiallySized == Init => Sized
<1> SUFFICES ASSUME Init PROVE Sized
  OBVIOUS
<1>1. IInv /\ phone = Current
  BY Initially DEF IInv, Known, Init, NoOp
<1>2. tree \in Body /\ faults \in 0 .. MaxFaults
  BY <1>1, ChannelAssumption DEF IInv, Types, Init
<1>3. Len(git) <= 2 /\ Len(git) \in Nat
  <2>1. /\ git = <<>> => Len(git) = 0
        /\ git = <<Scaffold>> => Len(git) = 1
    OBVIOUS
  <2>2. ASSUME NEW b \in Body, git = <<Scaffold, b>>
        PROVE  Len(git) = 2
    BY <2>2
  <2>3. git = <<>> \/ git = <<Scaffold>> \/ \E b \in Body : git = <<Scaffold, b>>
    BY DEF Init
  <2>4. Len(git) \in 0 .. 2
    BY <2>1, <2>2, <2>3
  <2> QED BY <2>4
<1>4. op.step = "none"
  BY DEF Init, NoOp
<1>5. ~ (Len(git) = MaxCommits + 1)
  BY <1>3, ChannelAssumption
<1> QED BY <1>2, <1>3, <1>4, <1>5, ChannelAssumption DEF Sized

\* ensure() keeps a history within its bounds.
LEMMA EnsureSized ==
  ASSUME IInv, Sized, git' = git \/ git' = History
  PROVE  /\ Current' = Current /\ Current \in Body
         /\ Len(git') <= MaxCommits + 1
         /\ Len(git') = MaxCommits + 1 => ~Current.legacy
         /\ Len(git) < MaxCommits => Len(git') < MaxCommits
<1>1. git \in Seq(Body)
  BY DEF IInv, Types
<1>2. Current' = Current /\ Current \in Body
  BY <1>1, EnsureKeeps, HistoryFacts DEF Current, History
<1>3. Len(git') = Len(git) \/ Len(git') = 1
  BY <1>1, Lengths
<1>4. Len(git) \in Nat
  BY <1>1
<1> QED BY <1>2, <1>3, <1>4, ChannelAssumption DEF Sized

\* A commit of what a transaction records does, too.
LEMMA CommitSized ==
  ASSUME IInv, Sized, op.step \in {"send", "record"}, git' = Committed(op.body)
  PROVE  /\ Current' = op.body
         /\ Len(git') <= MaxCommits + 1
         /\ Len(git') = MaxCommits + 1 => ~op.body.legacy
<1>1. git \in Seq(Body) /\ op.body \in Body
  BY OpFacts DEF IInv, Types
<1>2. Current' = op.body /\ Current \in Body
  BY <1>1, CommitIsCurrent, HistoryFacts
<1>3. /\ Len(git') \in Nat
      /\ Len(git') = Len(History) \/ Len(git') = Len(History) + 1
      /\ Current = op.body => Len(git') = Len(History)
  <2>1. Committed(op.body) \in Seq(Body)
    BY <1>1, CommittedFacts
  <2>2. Len(git') \in Nat
    BY <2>1
  <2> QED BY <1>1, <2>2, Lengths
<1>4. Len(History) = Len(git) \/ Len(History) = 1
  BY <1>1, Lengths
<1>5. Len(git) \in Nat /\ Len(History) \in Nat /\ MaxCommits \in Nat \ {0, 1}
  BY <1>1, HistoryFacts, ChannelAssumption
<1> HIDE DEF History, Current
<1>6. CASE op.kind = "migrate"
  <2>1. op.body = Migrated(Current)
    BY <1>6 DEF Sized
  <2>2. ~op.body.legacy
    BY <1>2, <2>1 DEF Migrated, Body
  <2>3. Len(History) = MaxCommits + 1 => Current = op.body
    <3>1. Len(History) = MaxCommits + 1 => ~Current.legacy
      BY <1>4, <1>5 DEF Sized
    <3>2. ~Current.legacy => Migrated(Current) = Current
      BY <1>2 DEF Migrated, Body
    <3> QED BY <2>1, <3>1, <3>2
  <2>4. Len(git) <= MaxCommits + 1
    BY DEF Sized
  <2>5. Len(git') <= MaxCommits + 1
    <3> DEFINE h == Len(History)
               n == Len(git)
               g == Len(git')
    <3>1. h \in Nat /\ n \in Nat /\ g \in Nat /\ MaxCommits \in Nat /\ MaxCommits >= 2
      BY <1>3, <1>5
    <3>2. (g = h \/ g = h + 1) /\ (h = MaxCommits + 1 => g = h) /\ (h = n \/ h = 1)
      BY <1>3, <1>4, <2>3
    <3>3. n <= MaxCommits + 1
      BY <2>4
    <3> HIDE DEF h, n, g
    <3>4. g <= MaxCommits + 1
      BY <3>1, <3>2, <3>3
    <3> QED BY <3>4 DEF g
  <2> QED BY <1>2, <2>2, <2>5
<1>7. CASE op.kind # "migrate"
  <2>1. Len(git) < MaxCommits
    BY <1>7 DEF Sized
  <2>2. Len(git') < MaxCommits + 1
    <3> DEFINE h == Len(History)
               n == Len(git)
               g == Len(git')
    <3>1. h \in Nat /\ n \in Nat /\ g \in Nat /\ MaxCommits \in Nat /\ MaxCommits >= 2
      BY <1>3, <1>5
    <3>2. (g = h \/ g = h + 1) /\ (h = n \/ h = 1) /\ n < MaxCommits
      BY <1>3, <1>4, <2>1
    <3> HIDE DEF h, n, g
    <3>3. g < MaxCommits + 1
      BY <3>1, <3>2
    <3> QED BY <3>3 DEF g
  <2>3. Len(git') <= MaxCommits + 1 /\ ~ (Len(git') = MaxCommits + 1)
    BY <1>3, <1>4, <1>5, <2>2
  <2> QED BY <1>2, <2>3
<1> QED BY <1>6, <1>7

\* Every step keeps within the bounds.
LEMMA StaysSized ==
  ASSUME IInv, Sized, [Next]_vars
  PROVE  Sized'
<1>1. git \in Seq(Body) /\ op.body \in Body /\ phone \in Body /\ Current \in Body
  BY OpFacts, HistoryFacts DEF IInv, Types
<1>2. faults' \in 0 .. MaxFaults
  <2>1. faults' = faults \/ Fault
    BY DEF Next, vars, ChatBlocked, ChatUnchanged, ChatMigrates, EndTurn, ToolApply,
           ToolRestore, ToolUndo, Rollback, NotSent, Unconfirmed, Received, Recorded, Unrecorded,
           Cleared, NotCleared, Crash, Late, Reconcile
  <2> QED BY <2>1, ChannelAssumption DEF Fault, Sized
<1>3. ASSUME git' = git \/ git' = History, tree' \in Body,
             op'.step \in {"send", "record"} =>
               IF op'.kind = "migrate" THEN op'.body = Migrated(Current) ELSE Len(git) < MaxCommits
      PROVE  Sized'
  <2>1. /\ Current' = Current
        /\ Len(git') <= MaxCommits + 1
        /\ Len(git') = MaxCommits + 1 => ~Current.legacy
        /\ Len(git) < MaxCommits => Len(git') < MaxCommits
    BY <1>3, EnsureSized
  <2>2. Migrated(Current)' = Migrated(Current)
    BY <2>1 DEF Migrated
  <2> QED BY <1>2, <1>3, <2>1, <2>2 DEF Sized
<1>4. ASSUME op.step \in {"send", "record"}, git' = Committed(op.body), tree' \in Body,
             op'.step \notin {"send", "record"}
      PROVE  Sized'
  BY <1>2, <1>4, CommitSized DEF Sized
<1>5. CASE UNCHANGED vars
  BY <1>3, <1>5 DEF vars, Sized
<1>6. CASE ChatBlocked \/ ChatUnchanged \/ EndTurn
  <2>1. op' = op /\ (git' = git \/ git' = History) /\ tree' \in Body
    BY <1>1, <1>6 DEF ChatBlocked, ChatUnchanged, EndTurn, Ensure, repo, Sized
  <2> QED BY <1>3, <2>1 DEF Sized
<1>7. CASE ChatMigrates
  <2>1. git' = History /\ tree' \in Body
    BY <1>1, <1>7 DEF ChatMigrates, Ensure
  <2>2. op'.kind = "migrate" /\ op'.body = Migrated(Current)
    BY <1>7 DEF ChatMigrates, Begin
  <2> QED BY <1>3, <2>1, <2>2
<1>8. CASE \/ ToolUndo \/ Rollback \/ \E b \in Body : ToolApply(b)
           \/ \E k \in 1 .. MaxCommits : ToolRestore(k)
  <2>1. git' \in {git, History} /\ tree' \in {tree, Current} /\ Len(git) < MaxCommits
    BY <1>8 DEF ToolUndo, Rollback, ToolApply, ToolRestore, Ensure, Room, repo
  <2>2. op'.kind \in {"write", "undo"}
    BY <1>8 DEF ToolUndo, Rollback, ToolApply, ToolRestore, Begin
  <2> QED BY <1>1, <1>3, <2>1, <2>2 DEF Sized
<1>9. CASE NotSent \/ Unconfirmed \/ Cleared \/ NotCleared
  <2>1. git' = git /\ tree' = tree /\ op'.step = "none"
    BY <1>9 DEF NotSent, Unconfirmed, Cleared, NotCleared, Finish, repo, NoOp
  <2> QED BY <1>3, <2>1 DEF Sized
<1>10. CASE \E clean \in BOOLEAN : Received(clean)
  <2>1. op \in Transactions /\ op.step = "send"
    BY <1>10, OpFacts DEF Received, IInv, Types
  <2>2. git' = git /\ tree' = tree /\ op'.kind = op.kind /\ op'.body = op.body
    BY <1>10, <2>1 DEF Received, repo, Transactions
  <2> QED BY <1>3, <2>1, <2>2 DEF Sized
<1>11. CASE Recorded
  <2>1. op'.step \notin {"send", "record"}
    <3>1. op \in Transactions
      BY <1>11, OpFacts DEF Recorded, IInv, Types
    <3> QED BY <1>11, <3>1 DEF Recorded, Finish, NoOp, Transactions
  <2> QED BY <1>1, <1>4, <1>11, <2>1 DEF Recorded
<1>12. CASE Unrecorded
  <2>1. git' = History /\ tree' \in Body /\ op'.step = "none"
    BY <1>1, <1>12 DEF Unrecorded, Finish, NoOp
  <2> QED BY <1>3, <2>1
<1>13. CASE Crash
  <2>1. op'.step = "none"
    BY <1>13 DEF Crash, NoOp
  <2>2. CASE git' = git /\ tree' \in Body
    BY <1>3, <2>1, <2>2
  <2>3. CASE op.step = "record" /\ tree' = op.body /\ git' = Committed(op.body)
    BY <1>1, <1>4, <2>1, <2>3
  <2> QED BY <1>1, <1>13, <2>2, <2>3 DEF Crash, repo, Sized
<1>14. CASE Reconcile \/ \E b \in Body : Late(b)
  <2>1. git' = git /\ tree' = tree /\ op' = op
    BY <1>14 DEF Reconcile, Late, repo
  <2> QED BY <1>3, <2>1 DEF Sized
<1> QED BY <1>5, <1>6, <1>7, <1>8, <1>9, <1>10, <1>11, <1>12, <1>13, <1>14 DEF Next

\* Every variable has its type, and the history and the faults their bounds.
THEOREM TypesHold == Spec => []TypeOK
<1>1. IInv /\ Sized => TypeOK
  BY DEF IInv, Types, Sized, TypeOK
<1>2. IInv /\ Sized /\ [Next]_vars => Sized'
  BY StaysSized
<1> QED BY <1>1, <1>2, InitiallySized, Inductive, PTL DEF Spec
=============================================================================
