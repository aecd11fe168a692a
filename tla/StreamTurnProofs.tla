-------------------------- MODULE StreamTurnProofs ---------------------------
(***************************************************************************)
(* StreamTurn for any set of requests.                                     *)
(***************************************************************************)
EXTENDS StreamTurn, TLAPS, SequenceTheorems

\* The types of what the theorems are about; the queue is of no concern to them.
Types ==
  /\ phase \in [Requests -> Phases]
  /\ gone \in [Requests -> BOOLEAN]
  /\ lock \in Requests \cup {None}
  /\ worker \in [Requests -> {"none", "running"} \cup Results]
  /\ pump \in [Requests -> Seq({"start", "next", "close"})]
  /\ result \in [Requests -> Results]
  /\ it \in [Requests -> BOOLEAN]
  /\ gen \in [Requests -> {"none", "built", "open", "closed"}]

Inside == {"plain", "migrate", "start", "loop", "close"}

\* Whoever is past the lock holds it.
Holding(r) == phase[r] \in Inside => lock = r

\* Which thread may work in which phase, and on what.
Threads(r) ==
  /\ worker[r] = "running" => phase[r] \in {"plain", "migrate"}
  /\ pump[r] \in (CASE phase[r] = "start" -> {<<>>, <<"start">>}
                    [] phase[r] = "loop" -> {<<>>, <<"next">>}
                    [] phase[r] = "close" -> {<<>>, <<"close">>, <<"next", "close">>}
                    [] OTHER -> {<<>>})

\* A result to take means that the pump is idle.
Taken(r) == phase[r] = "loop" /\ result[r] # "none" => pump[r] = <<>>

\* An entered generator is still to be closed.
Entered(r) ==
  gen[r] = "open" => \/ phase[r] = "loop"
                     \/ phase[r] = "close" /\ pump[r] # <<>>

Good(r) == Holding(r) /\ Threads(r) /\ Taken(r) /\ Entered(r)

IInv == Types /\ \A r \in Requests : Good(r)

-----------------------------------------------------------------------------
\* The calls a pump can hold, apart and taken apart.
LEMMA Calls ==
  /\ <<"start">> # <<>> /\ <<"next">> # <<>> /\ <<"close">> # <<>> /\ <<"next", "close">> # <<>>
  /\ Head(<<"start">>) = "start" /\ Tail(<<"start">>) = <<>>
  /\ Head(<<"next">>) = "next" /\ Tail(<<"next">>) = <<>>
  /\ Head(<<"close">>) = "close" /\ Tail(<<"close">>) = <<>>
  /\ Head(<<"next", "close">>) = "next" /\ Tail(<<"next", "close">>) = <<"close">>
  /\ Append(<<>>, "close") = <<"close">> /\ Append(<<"next">>, "close") = <<"next", "close">>
<1>1. /\ Head(<<"start">>) = "start" /\ Tail(<<"start">>) = <<>>
      /\ Head(<<"next">>) = "next" /\ Tail(<<"next">>) = <<>>
      /\ Head(<<"close">>) = "close" /\ Tail(<<"close">>) = <<>>
  OBVIOUS
<1>2. Head(<<"next", "close">>) = "next" /\ Tail(<<"next", "close">>) = <<"close">>
  OBVIOUS
<1>3. Append(<<>>, "close") = <<"close">>
  OBVIOUS
<1>4. Append(<<"next">>, "close") = <<"next", "close">>
  <2> DEFINE Call == {"next", "close"}
  <2>1. <<"next">> \in Seq(Call) /\ <<"next", "close">> \in Seq(Call)
    OBVIOUS
  <2>2. Append(<<"next">>, "close") \in Seq(Call)
    BY <2>1
  <2>3. /\ Len(Append(<<"next">>, "close")) = 2 /\ Len(<<"next", "close">>) = 2
        /\ Append(<<"next">>, "close")[1] = "next"
        /\ Append(<<"next">>, "close")[2] = "close"
    BY <2>1
  <2>4. \A i \in 1 .. 2 : Append(<<"next">>, "close")[i] = <<"next", "close">>[i]
    BY <2>3
  <2> HIDE DEF Call
  <2> QED BY <2>1, <2>2, <2>3, <2>4, SeqEqual
<1>5. /\ <<"start">> # <<>> /\ <<"next">> # <<>> /\ <<"close">> # <<>>
      /\ <<"next", "close">> # <<>>
  OBVIOUS
<1> QED BY <1>1, <1>2, <1>3, <1>4, <1>5

\* It holds at the start.
LEMMA Initially == Init => IInv
BY DEF Init, IInv, Types, Good, Holding, Threads, Taken, Entered, Inside, Phases, Results

\* A request none of whose variables a step touches, and whose hold on the lock
\* it does not end, stays good.
LEMMA Untouched ==
  ASSUME NEW q \in Requests, Good(q),
         phase'[q] = phase[q], worker'[q] = worker[q], pump'[q] = pump[q],
         result'[q] = result[q], gen'[q] = gen[q], lock = q => lock' = q
  PROVE  Good(q)'
BY DEF Good, Holding, Threads, Taken, Entered, Inside

\* Before and after the lock a request is good with its threads at rest.
LEMMA Outside ==
  ASSUME NEW q \in Requests, phase'[q] \in {"new", "queued", "done"},
         worker'[q] # "running", pump'[q] = <<>>, gen'[q] # "open"
  PROVE  Good(q)'
BY DEF Good, Holding, Threads, Taken, Entered, Inside

-----------------------------------------------------------------------------
(* One lemma per kind of step.                                             *)

\* Clients come and go, and coroutines reach the lock.
LEMMA ArriveKeeps ==
  ASSUME IInv, NEW r \in Requests,
         Disconnect(r) \/ Arrive(r) \/ CancelQueued(r) \/ Acquire(r)
  PROVE  IInv'
<1> USE DEF IInv
<1>1. CASE Disconnect(r)
  <2>1. Types'
    BY <1>1 DEF Disconnect, threads, Types
  <2>2. \A q \in Requests : Good(q)'
    BY <1>1, Untouched DEF Disconnect, threads
  <2> QED BY <2>1, <2>2
<1>2. CASE Arrive(r)
  <2>1. Types'
    BY <1>2 DEF Arrive, Goto, threads, Types, Phases
  <2>2. ASSUME NEW q \in Requests, q # r
        PROVE  Good(q)'
    BY <1>2, <2>2, Untouched DEF Arrive, Goto, threads, Types
  <2>3. Good(r)'
    <3>1. phase'[r] \in {"queued", "done"}
      BY <1>2 DEF Arrive, Goto, Types
    <3>2. worker[r] # "running" /\ pump[r] = <<>> /\ gen[r] # "open"
      BY <1>2 DEF Arrive, Good, Threads, Entered
    <3> QED BY <1>2, <3>1, <3>2, Outside DEF Arrive, threads
  <2> QED BY <2>1, <2>2, <2>3
<1>3. CASE CancelQueued(r)
  <2>2. Types'
    BY <1>3 DEF CancelQueued, Goto, threads, Types, Phases
  <2>3. ASSUME NEW q \in Requests, q # r
        PROVE  Good(q)'
    BY <1>3, <2>3, Untouched DEF CancelQueued, Goto, threads, Types
  <2>4. Good(r)'
    <3>1. phase'[r] = "done"
      BY <1>3 DEF CancelQueued, Goto, Types
    <3>2. worker[r] # "running" /\ pump[r] = <<>> /\ gen[r] # "open"
      BY <1>3 DEF CancelQueued, Good, Threads, Entered
    <3> QED BY <1>3, <3>1, <3>2, Outside DEF CancelQueued, threads
  <2> QED BY <2>2, <2>3, <2>4
<1>4. CASE Acquire(r)
  <2>1. Types'
    BY <1>4 DEF Acquire, Goto, Types, Phases
  <2>2. \A q \in Requests : phase[q] \notin Inside
    BY <1>4, TurnAssumption DEF Acquire, Good, Holding, Requests
  <2>3. ASSUME NEW q \in Requests, q # r
        PROVE  Good(q)'
    BY <1>4, <2>2, <2>3 DEF Acquire, Goto, Types, Good, Holding, Threads, Taken, Entered, Inside
  <2>4. Good(r)'
    BY <1>4, <2>2 DEF Acquire, Goto, Types, Good, Holding, Threads, Taken, Entered, Inside
  <2> QED BY <2>1, <2>3, <2>4
<1> QED BY <1>1, <1>2, <1>3, <1>4

\* A turn that gives up the lock has its threads at rest.
LEMMA ReleaseKeeps ==
  ASSUME IInv, NEW r \in Requests, phase[r] \in Inside, Release(r),
         Types',
         \A q \in Requests : /\ worker'[q] = worker[q] /\ pump'[q] = pump[q] /\ gen'[q] = gen[q]
                             /\ q # r => result'[q] = result[q],
         worker[r] # "running", pump[r] = <<>>, gen[r] # "open"
  PROVE  IInv'
<1>1. phase' = [phase EXCEPT ![r] = "done"] /\ phase \in [Requests -> Phases]
  BY DEF Release, Goto, IInv, Types
<1>2. lock = r
  BY DEF IInv, Good, Holding
<1>3. ASSUME NEW q \in Requests, q # r
      PROVE  Good(q)'
  BY <1>1, <1>2, <1>3, Untouched DEF IInv
<1>4. Good(r)'
  BY <1>1, Outside
<1> QED BY <1>3, <1>4 DEF IInv

\* Either way of ending a turn gives it up so.
LEMMA EndKeeps ==
  ASSUME IInv, NEW r \in Requests, PlainEnds(r) \/ CloseEnds(r)
  PROVE  IInv'
<1>1. /\ phase[r] \in Inside /\ Release(r)
      /\ worker[r] # "running" /\ pump[r] = <<>> /\ gen[r] # "open"
      /\ worker' = worker /\ pump' = pump /\ gen' = gen /\ result' = result
  BY DEF PlainEnds, CloseEnds, Finished, Inside, threads, IInv, Good, Threads, Entered
<1>2. Types'
  BY DEF PlainEnds, CloseEnds, Release, Goto, threads, IInv, Types, Phases
<1> QED BY <1>1, <1>2, ReleaseKeeps

\* Between the lock and the loop.
LEMMA BeforeLoopKeeps ==
  ASSUME IInv, NEW r \in Requests, MigrationEnds(r) \/ StartEnds(r)
  PROVE  IInv'
<1>1. /\ phase[r] \in {"migrate", "start"}
      /\ worker[r] # "running" /\ pump[r] = <<>> /\ gen[r] # "open"
  BY DEF MigrationEnds, StartEnds, Finished, IInv, Good, Threads, Entered
<1>2. /\ worker' = worker /\ gen' = gen
      /\ \A q \in Requests : q # r => pump'[q] = pump[q] /\ result'[q] = result[q]
  BY DEF MigrationEnds, StartEnds, IInv, Types
<1>3. lock = r
  BY <1>1 DEF IInv, Good, Holding, Inside
<1>4. CASE Release(r)
  <2>1. pump' = pump
    BY <1>1, <1>4 DEF MigrationEnds, StartEnds, Release, Goto, IInv, Types
  <2>2. Types'
    BY <1>4, <2>1 DEF MigrationEnds, StartEnds, Release, Goto, IInv, Types, Phases, Results
  <2> QED BY <1>1, <1>2, <1>4, <2>1, <2>2, ReleaseKeeps DEF Inside
<1>5. CASE MigrationEnds(r) /\ ~Release(r)
  <2>1. /\ phase' = [phase EXCEPT ![r] = "start"] /\ lock' = lock
        /\ pump' = [pump EXCEPT ![r] = <<"start">>] /\ result' = result
    BY <1>5 DEF MigrationEnds, Goto
  <2>2. Types'
    BY <1>5, <2>1 DEF MigrationEnds, IInv, Types, Phases
  <2>3. Good(r)'
    BY <1>1, <1>2, <1>3, <2>1 DEF IInv, Types, Good, Holding, Threads, Taken, Entered, Inside
  <2>4. ASSUME NEW q \in Requests, q # r
        PROVE  Good(q)'
    BY <1>2, <2>1, <2>4, Untouched DEF IInv, Types
  <2> QED BY <2>2, <2>3, <2>4 DEF IInv
<1>6. CASE StartEnds(r) /\ ~Release(r)
  <2>1. /\ phase' = [phase EXCEPT ![r] = "loop"] /\ lock' = lock
        /\ pump' = pump /\ result' = [result EXCEPT ![r] = "none"]
    BY <1>6 DEF StartEnds, Goto
  <2>2. Types'
    BY <1>6, <2>1 DEF StartEnds, IInv, Types, Phases, Results
  <2>3. Good(r)'
    BY <1>1, <1>2, <1>3, <2>1 DEF IInv, Types, Good, Holding, Threads, Taken, Entered, Inside
  <2>4. ASSUME NEW q \in Requests, q # r
        PROVE  Good(q)'
    BY <1>2, <2>1, <2>4, Untouched DEF IInv, Types
  <2> QED BY <2>2, <2>3, <2>4 DEF IInv
<1> QED BY <1>4, <1>5, <1>6

\* In the loop, and out of it into the close.
LEMMA LoopKeeps ==
  ASSUME IInv, NEW r \in Requests, Submit(r) \/ Take(r) \/ Abort(r)
  PROVE  IInv'
<1>1. phase[r] = "loop" /\ lock = r /\ pump[r] \in {<<>>, <<"next">>} /\ worker[r] # "running"
  BY DEF Submit, Take, Abort, IInv, Good, Holding, Threads, Inside
<1>2. /\ worker' = worker /\ gen' = gen /\ lock' = lock /\ gone' = gone /\ queue' = queue
      /\ it' = it
      /\ \A q \in Requests : q # r => /\ phase'[q] = phase[q] /\ pump'[q] = pump[q]
                                      /\ result'[q] = result[q]
  BY DEF Submit, Take, Abort, Close, Goto, IInv, Types
<1>3. ASSUME NEW q \in Requests, q # r
      PROVE  Good(q)'
  BY <1>2, <1>3, Untouched DEF IInv
<1>4. Types'
  <2>1. Append(pump[r], "close") \in Seq({"start", "next", "close"})
    BY DEF IInv, Types
  <2>2. <<"next">> \in Seq({"start", "next", "close"})
    OBVIOUS
  <2> QED BY <1>2, <2>1, <2>2 DEF Submit, Take, Abort, Close, Goto, IInv, Types, Phases, Results
<1>5. Good(r)'
  <2>1. CASE Submit(r) \/ (Take(r) /\ result[r] = "ok")
    <3>1. /\ phase'[r] = "loop" /\ pump'[r] \in {<<>>, <<"next">>}
          /\ (result'[r] # "none" => pump'[r] = <<>>)
      BY <2>1, <1>1 DEF Submit, Take, Pending, IInv, Types, Results
    <3> QED BY <1>1, <1>2, <3>1 DEF Good, Holding, Threads, Taken, Entered, Inside
  <2>2. CASE Abort(r) \/ (Take(r) /\ result[r] # "ok")
    <3>1. phase'[r] = "close" /\ pump'[r] = Append(pump[r], "close")
      BY <2>2 DEF Abort, Take, Close, Goto, IInv, Types
    <3>2. pump'[r] \in {<<"close">>, <<"next", "close">>} /\ pump'[r] # <<>>
      BY <3>1, <1>1, Calls
    <3> QED BY <1>1, <1>2, <3>1, <3>2 DEF Good, Holding, Threads, Taken, Entered, Inside
  <2> QED BY <2>1, <2>2
<1> QED BY <1>3, <1>4, <1>5 DEF IInv

\* The threads.
LEMMA ThreadKeeps ==
  ASSUME IInv, NEW r \in Requests, Thread(r)
  PROVE  IInv'
<1>1. /\ phase' = phase /\ lock' = lock /\ gone' = gone /\ queue' = queue /\ it' = it
      /\ \A q \in Requests : q # r => /\ worker'[q] = worker[q] /\ pump'[q] = pump[q]
                                      /\ result'[q] = result[q] /\ gen'[q] = gen[q]
  BY DEF Thread, WorkerFinishes, PumpStarts, PumpEnters, PumpNext, PumpCloses, IInv, Types
<1>2. ASSUME NEW q \in Requests, q # r
      PROVE  Good(q)'
  BY <1>1, <1>2, Untouched DEF IInv
<1>3. Types'
  <2>1. pump[r] # <<>> => Tail(pump[r]) \in Seq({"start", "next", "close"})
    BY DEF IInv, Types
  <2>2. CASE WorkerFinishes(r)
    BY <2>2 DEF WorkerFinishes, IInv, Types, Results
  <2>3. CASE PumpStarts(r)
    BY <2>1, <2>3 DEF PumpStarts, IInv, Types, Results
  <2>4. CASE PumpEnters(r)
    BY <2>4 DEF PumpEnters, IInv, Types
  <2>5. CASE PumpNext(r)
    BY <2>1, <2>5 DEF PumpNext, IInv, Types, Results
  <2>6. CASE PumpCloses(r)
    BY <2>1, <2>6 DEF PumpCloses, IInv, Types
  <2> QED BY <2>2, <2>3, <2>4, <2>5, <2>6 DEF Thread
<1>4. Good(r)
  BY DEF IInv
<1>5. CASE WorkerFinishes(r)
  <2>1. worker'[r] # "running" /\ pump' = pump /\ result' = result /\ gen' = gen
    BY <1>5 DEF WorkerFinishes, IInv, Types
  <2> QED BY <1>1, <1>2, <1>3, <1>4, <2>1 DEF IInv, Good, Holding, Threads, Taken, Entered
<1>6. CASE PumpStarts(r)
  <2>1. phase[r] = "start" /\ pump[r] = <<"start">>
    BY <1>4, <1>6, Calls DEF PumpStarts, Good, Threads
  <2>2. pump'[r] = <<>> /\ worker'[r] = worker[r] /\ gen'[r] # "open"
    BY <1>4, <1>6, <2>1, Calls DEF PumpStarts, IInv, Types, Good, Entered
  <2> QED BY <1>1, <1>3, <1>2, <1>4, <2>1, <2>2 DEF IInv, Good, Holding, Threads, Taken, Entered
<1>7. CASE PumpEnters(r)
  <2>1. phase[r] \in {"loop", "close"} /\ pump[r] # <<>>
    BY <1>4, <1>7, Calls DEF PumpEnters, Good, Threads
  <2>2. pump' = pump /\ worker' = worker /\ result' = result
    BY <1>7 DEF PumpEnters
  <2> QED BY <1>1, <1>3, <1>2, <1>4, <2>1, <2>2 DEF IInv, Good, Holding, Threads, Taken, Entered
<1>8. CASE PumpNext(r)
  <2>1. \/ phase[r] = "loop" /\ pump[r] = <<"next">> /\ pump'[r] = <<>>
        \/ phase[r] = "close" /\ pump[r] = <<"next", "close">> /\ pump'[r] = <<"close">>
    BY <1>4, <1>8, Calls DEF PumpNext, IInv, Types, Good, Threads
  <2>2. worker' = worker
    BY <1>8 DEF PumpNext
  <2> QED BY <1>1, <1>3, <1>2, <1>4, <2>1, <2>2, Calls
          DEF IInv, Good, Holding, Threads, Taken, Entered
<1>9. CASE PumpCloses(r)
  <2>1. phase[r] = "close" /\ pump[r] = <<"close">> /\ pump'[r] = <<>>
    BY <1>4, <1>9, Calls DEF PumpCloses, IInv, Types, Good, Threads
  <2>2. worker' = worker /\ gen'[r] = "closed"
    BY <1>9 DEF PumpCloses, IInv, Types
  <2> QED BY <1>1, <1>3, <1>2, <1>4, <2>1, <2>2 DEF IInv, Good, Holding, Threads, Taken, Entered
<1> QED BY <1>2, <1>3, <1>5, <1>6, <1>7, <1>8, <1>9 DEF Thread, IInv

\* A new process starts with every thread at rest.
LEMMA ExitKeeps ==
  ASSUME IInv, NEW r \in Requests, WedgedExit(r)
  PROVE  IInv'
<1>1. Types'
  BY DEF WedgedExit, IInv, Types, Phases, Results
<1>2. ASSUME NEW q \in Requests
      PROVE  Good(q)'
  BY Outside DEF WedgedExit
<1> QED BY <1>1, <1>2 DEF IInv

\* The invariant holds in every reachable state.
THEOREM Inductive == Spec => []IInv
<1>1. IInv /\ [Next]_vars => IInv'
  <2> SUFFICES ASSUME IInv, [Next]_vars PROVE IInv'
    OBVIOUS
  <2>1. CASE UNCHANGED vars
    BY <2>1, Untouched DEF vars, IInv, Types
  <2>2. CASE Next
    BY <2>1, <2>2, ArriveKeeps, EndKeeps, BeforeLoopKeeps, LoopKeeps, ThreadKeeps, ExitKeeps
    DEF Next, Coroutine, Finis
  <2> QED BY <2>1, <2>2
<1> QED BY <1>1, Initially, PTL DEF Spec

-----------------------------------------------------------------------------
(* The theorems.                                                           *)

\* Whatever clients do and however long threads run, only the lock's holder has
\* a thread at work.
THEOREM OneFlight == Spec => []SingleFlight
<1>1. IInv => SingleFlight
  BY DEF IInv, Good, Holding, Threads, SingleFlight, Inside
<1> QED BY <1>1, Inductive, PTL

\* No turn leaves the agent library's queue held when it gives up the lock.
THEOREM QueueReleased == Spec => []GeneratorReleased
<1>1. IInv => GeneratorReleased
  BY DEF IInv, Good, Holding, Entered, GeneratorReleased, Inside
<1> QED BY <1>1, Inductive, PTL

-----------------------------------------------------------------------------
(* The lock's queue.                                                       *)

\* Only queued requests wait, each once.
Waiting ==
  /\ queue \in Seq(Requests) /\ IsInjective(queue)
  /\ \A i \in DOMAIN queue : phase[queue[i]] = "queued"

\* What is left of a queue without one of its elements keeps the others, once each.
LEMMA Removal ==
  ASSUME NEW s \in Seq(Requests), IsInjective(s), NEW i \in DOMAIN s
  PROVE  /\ RemoveAt(s, i) \in Seq(Requests) /\ IsInjective(RemoveAt(s, i))
         /\ \A j \in DOMAIN RemoveAt(s, i) : \E k \in DOMAIN s : k # i /\ RemoveAt(s, i)[j] = s[k]
<1> DEFINE n == Len(s)
           a == SubSeq(s, 1, i - 1)
           b == SubSeq(s, i + 1, n)
           t == a \o b
<1>1. n \in Nat /\ i \in 1 .. n /\ DOMAIN s = 1 .. n
  OBVIOUS
<1>2. /\ a \in Seq(Requests) /\ Len(a) = i - 1
      /\ \A j \in 1 .. i - 1 : a[j] = s[j]
  OBVIOUS
<1>3. /\ b \in Seq(Requests) /\ Len(b) = n - i
      /\ \A j \in 1 .. n - i : b[j] = s[i + j]
  OBVIOUS
<1> HIDE DEF a, b, n
<1>4. /\ t \in Seq(Requests) /\ Len(t) = n - 1 /\ DOMAIN t = 1 .. n - 1
      /\ \A j \in 1 .. n - 1 : t[j] = IF j < i THEN s[j] ELSE s[j + 1]
  <2>1. /\ t \in Seq(Requests) /\ Len(t) = Len(a) + Len(b)
        /\ \A j \in 1 .. Len(a) + Len(b) : t[j] = IF j <= Len(a) THEN a[j] ELSE b[j - Len(a)]
    <3>1. a \in Seq(Requests) /\ b \in Seq(Requests)
      BY <1>2, <1>3
    <3> QED BY <3>1, ConcatProperties, Zenon
  <2>3. Len(t) = n - 1
    BY <1>1, <1>2, <1>3, <2>1
  <2>4. ASSUME NEW j \in 1 .. n - 1
        PROVE  t[j] = IF j < i THEN s[j] ELSE s[j + 1]
    <3>1. CASE j < i
      BY <1>1, <1>2, <2>1, <2>3, <3>1
    <3>2. CASE ~(j < i)
      <4>1. j - (i - 1) \in 1 .. n - i /\ i + (j - (i - 1)) = j + 1 /\ ~(j <= i - 1)
        BY <1>1, <3>2
      <4>2. t[j] = b[j - (i - 1)]
        BY <1>2, <2>1, <2>3, <4>1
      <4> QED BY <1>3, <3>2, <4>1, <4>2
    <3> QED BY <3>1, <3>2
  <2> HIDE DEF t
  <2>5. DOMAIN t = 1 .. n - 1
    BY <2>1, <2>3
  <2> QED BY <2>1, <2>3, <2>4, <2>5
<1>5. RemoveAt(s, i) = t
  BY DEF RemoveAt, a, b, n
<1> HIDE DEF t
<1>6. IsInjective(t)
  <2> SUFFICES ASSUME NEW j \in 1 .. n - 1, NEW k \in 1 .. n - 1, t[j] = t[k]
               PROVE  j = k
    BY <1>4 DEF IsInjective
  <2>1. /\ j \in 1 .. n /\ j + 1 \in 1 .. n /\ k \in 1 .. n /\ k + 1 \in 1 .. n
    BY <1>1
  <2>2. \A p, q \in 1 .. n : s[p] = s[q] => p = q
    BY <1>1 DEF IsInjective
  <2>3. /\ t[j] = IF j < i THEN s[j] ELSE s[j + 1]
        /\ t[k] = IF k < i THEN s[k] ELSE s[k + 1]
    BY <1>4
  <2> DEFINE p == IF j < i THEN j ELSE j + 1
             q == IF k < i THEN k ELSE k + 1
  <2>4. s[p] = s[q] /\ p \in 1 .. n /\ q \in 1 .. n
    BY <2>1, <2>3
  <2>5. p = q
    <3> HIDE DEF p, q
    <3> QED BY <2>2, <2>4
  <2> QED BY <1>1, <2>5
<1>7. ASSUME NEW j \in 1 .. n - 1
      PROVE  \E k \in 1 .. n : k # i /\ t[j] = s[k]
  <2>1. CASE j < i
    BY <1>1, <1>4, <2>1
  <2>2. CASE ~(j < i)
    <3>1. j + 1 \in 1 .. n /\ j + 1 # i /\ t[j] = s[j + 1]
      BY <1>1, <1>4, <2>2
    <3> QED BY <3>1
  <2> QED BY <2>1, <2>2
<1> QED BY <1>1, <1>4, <1>5, <1>6, <1>7

\* The queue holds at the start, and after every step.
LEMMA StaysWaiting ==
  ASSUME IInv, Waiting, [Next]_vars
  PROVE  Waiting'
<1>1. ASSUME queue' = queue,
             \A q \in Requests : phase[q] = "queued" => phase'[q] = "queued"
      PROVE  Waiting'
  BY <1>1 DEF Waiting, IsInjective
<1>2. CASE UNCHANGED vars
  BY <1>1, <1>2 DEF vars
<1>3. ASSUME NEW r \in Requests,
             \/ Disconnect(r) \/ Thread(r) \/ PlainEnds(r) \/ MigrationEnds(r) \/ StartEnds(r)
             \/ Submit(r) \/ Take(r) \/ CloseEnds(r) \/ Abort(r)
      PROVE  Waiting'
  <2>1. queue' = queue
    <3>1. CASE Disconnect(r) \/ Thread(r)
      BY <3>1 DEF Disconnect, Thread, WorkerFinishes, PumpStarts, PumpEnters, PumpNext, PumpCloses
    <3>2. CASE \/ PlainEnds(r) \/ MigrationEnds(r) \/ StartEnds(r) \/ Submit(r) \/ Take(r)
               \/ CloseEnds(r) \/ Abort(r)
      BY <3>2 DEF PlainEnds, MigrationEnds, StartEnds, Submit, Take, CloseEnds, Abort
    <3> QED BY <1>3, <3>1, <3>2
  <2>2. \A q \in Requests : phase[q] = "queued" => phase'[q] = "queued"
    <3>1. CASE Disconnect(r) \/ Thread(r)
      BY <3>1 DEF Disconnect, Thread, WorkerFinishes, PumpStarts, PumpEnters, PumpNext, PumpCloses
    <3>2. CASE PlainEnds(r) \/ MigrationEnds(r) \/ StartEnds(r) \/ CloseEnds(r)
      BY <3>2 DEF PlainEnds, MigrationEnds, StartEnds, CloseEnds, Release, Goto,
         IInv, Types
    <3>3. CASE Submit(r) \/ Take(r) \/ Abort(r)
      BY <3>3 DEF Submit, Take, Abort, Close, Goto, IInv, Types
    <3> QED BY <1>3, <3>1, <3>2, <3>3
  <2> QED BY <1>1, <2>1, <2>2
<1>4. ASSUME NEW r \in Requests, Arrive(r)
      PROVE  Waiting'
  <2>1. phase[r] = "new" /\ phase' \in {[phase EXCEPT ![r] = "queued"], [phase EXCEPT ![r] = "done"]}
    BY <1>4 DEF Arrive, Goto
  <2>2. CASE queue' = queue
    BY <1>1, <2>1, <2>2 DEF IInv, Types
  <2>3. CASE queue' = Append(queue, r) /\ phase' = [phase EXCEPT ![r] = "queued"]
    <3>1. queue \in Seq(Requests) /\ queue' \in Seq(Requests)
      BY <2>3 DEF Waiting
    <3>2. /\ DOMAIN queue = 1 .. Len(queue) /\ DOMAIN queue' = 1 .. Len(queue) + 1
          /\ Len(queue) \in Nat
          /\ \A i \in 1 .. Len(queue) : queue'[i] = queue[i]
          /\ queue'[Len(queue) + 1] = r
      BY <2>3, <3>1
    <3>3. \A i \in 1 .. Len(queue) : phase[queue[i]] = "queued" /\ queue[i] # r
      BY <2>1, <3>2 DEF Waiting
    <3>4. IsInjective(queue)'
      BY <3>2, <3>3 DEF Waiting, IsInjective
    <3>5. \A i \in DOMAIN queue' : phase'[queue'[i]] = "queued"
      BY <2>3, <3>1, <3>2, <3>3 DEF IInv, Types
    <3> QED BY <3>1, <3>4, <3>5 DEF Waiting
  <2> QED BY <1>4, <2>2, <2>3 DEF Arrive, Goto
<1>5. ASSUME NEW r \in Requests, CancelQueued(r)
      PROVE  Waiting'
  <2>1. PICK i \in DOMAIN queue : queue[i] = r /\ queue' = RemoveAt(queue, i)
    BY <1>5 DEF CancelQueued
  <2>2. queue \in Seq(Requests) /\ IsInjective(queue)
    BY DEF Waiting
  <2>3. /\ queue' \in Seq(Requests) /\ IsInjective(queue')
        /\ \A j \in DOMAIN queue' : \E k \in DOMAIN queue : k # i /\ queue'[j] = queue[k]
    BY <2>1, <2>2, Removal
  <2>4. ASSUME NEW k \in DOMAIN queue, k # i
        PROVE  phase'[queue[k]] = "queued"
    <3>1. queue[k] # r /\ queue[k] \in Requests /\ phase[queue[k]] = "queued"
      BY <2>1, <2>2, <2>4 DEF Waiting, IsInjective
    <3> QED BY <1>5, <3>1 DEF CancelQueued, Goto, IInv, Types
  <2> QED BY <2>3, <2>4 DEF Waiting
<1>6. ASSUME NEW r \in Requests, Acquire(r)
      PROVE  Waiting'
  <2>1. /\ queue \in Seq(Requests) /\ queue # <<>> /\ r = queue[1] /\ queue' = Tail(queue)
    BY <1>6 DEF Acquire, Waiting
  <2>2. /\ queue' \in Seq(Requests) /\ Len(queue) \in Nat \ {0}
        /\ DOMAIN queue = 1 .. Len(queue) /\ DOMAIN queue' = 1 .. Len(queue) - 1
        /\ \A j \in 1 .. Len(queue) - 1 : queue'[j] = queue[j + 1]
    BY <2>1
  <2>3. ASSUME NEW j \in 1 .. Len(queue) - 1
        PROVE  /\ j + 1 \in DOMAIN queue /\ queue[j + 1] # r
    BY <2>1, <2>2 DEF Waiting, IsInjective
  <2>4. IsInjective(queue)'
    <3> SUFFICES ASSUME NEW j \in 1 .. Len(queue) - 1, NEW k \in 1 .. Len(queue) - 1,
                        queue'[j] = queue'[k]
                 PROVE  j = k
      BY <2>2 DEF IsInjective
    <3>1. queue[j + 1] = queue[k + 1] /\ j + 1 \in DOMAIN queue /\ k + 1 \in DOMAIN queue
      BY <2>2, <2>3
    <3>2. j + 1 = k + 1
      BY <3>1 DEF Waiting, IsInjective
    <3> QED BY <3>2
  <2>5. ASSUME NEW j \in DOMAIN queue'
        PROVE  phase'[queue'[j]] = "queued"
    <3>1. queue'[j] # r /\ queue'[j] \in Requests /\ phase[queue'[j]] = "queued"
      BY <2>2, <2>3 DEF Waiting
    <3> QED BY <1>6, <3>1 DEF Acquire, Goto, IInv, Types
  <2> QED BY <2>2, <2>4, <2>5 DEF Waiting
<1>7. ASSUME NEW r \in Requests, WedgedExit(r)
      PROVE  Waiting'
  BY <1>7 DEF WedgedExit, Waiting, IsInjective
<1>8. CASE Finis
  BY <1>1, <1>8 DEF Finis, vars
<1> QED BY <1>2, <1>3, <1>4, <1>5, <1>6, <1>7, <1>8 DEF Next, Coroutine

\* Every variable has its type: no request waits twice, and no pump is handed a
\* call beyond the one it has to finish and the close.
THEOREM TypesHold == Spec => []TypeOK
<1>1. Init => Waiting
  BY DEF Init, Waiting, IsInjective
<1>2. IInv /\ Waiting /\ [Next]_vars => Waiting'
  BY StaysWaiting
<1>3. IInv /\ Waiting => TypeOK
  <2> SUFFICES ASSUME IInv, Waiting PROVE TypeOK
    OBVIOUS
  <2>1. \A r \in Requests : Len(pump[r]) <= 2
    <3> TAKE r \in Requests
    <3>1. pump[r] \in {<<>>, <<"start">>, <<"next">>, <<"close">>, <<"next", "close">>}
      BY DEF IInv, Good, Threads
    <3>2. /\ Len(<<>>) = 0 /\ Len(<<"start">>) = 1 /\ Len(<<"next">>) = 1
          /\ Len(<<"close">>) = 1 /\ Len(<<"next", "close">>) = 2
      OBVIOUS
    <3>3. Len(pump[r]) \in {0, 1, 2}
      BY <3>1, <3>2
    <3>4. \A n \in {0, 1, 2} : n <= 2
      OBVIOUS
    <3> QED BY <3>3, <3>4
  <2> QED BY <2>1 DEF IInv, Types, Waiting, TypeOK
<1> QED BY <1>1, <1>2, <1>3, Inductive, PTL DEF Spec
=============================================================================
