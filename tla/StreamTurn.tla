----------------------------- MODULE StreamTurn ------------------------------
(***************************************************************************)
(* The server's single flight (app.py): chat turns, rollbacks, clears and  *)
(* forgets take _STREAM_LOCK in turn, and each keeps it until the threads  *)
(* that work for it are quiet.  A coroutine can be cancelled, a thread     *)
(* cannot: a client that goes away, an iteration that runs too long and a  *)
(* worker that never returns all end in a release or in the process's end. *)
(* What the threads do to the phone and the history is ConfigChannel.      *)
(***************************************************************************)
EXTENDS Naturals, Sequences, SequencesExt, FiniteSets

CONSTANTS
  Chats, \* /chat requests
  Plain, \* /rollback, /clear and /forget requests
  None

ASSUME TurnAssumption == Chats \cap Plain = {} /\ None \notin Chats \cup Plain

Requests == Chats \cup Plain

VARIABLES
  phase,  \* where each request's coroutine is
  gone,   \* its client has disconnected, or it was cancelled
  lock,   \* _STREAM_LOCK's holder
  queue,  \* the coroutines waiting for it, in order
  worker, \* each request's call on the default executor
  pump,   \* the calls its one-thread executor has not finished, in order
  result, \* what the pump's last finished call gave the coroutine
  it,     \* the coroutine has the iterator
  gen     \* the stream generator; "open" holds the agent library's queue lock

vars == <<phase, gone, lock, queue, worker, pump, result, it, gen>>
threads == <<worker, pump, result, it, gen>>

Phases == {"new", "queued", "plain", "migrate", "start", "loop", "close", "done"}
Results == {"none", "ok", "end", "failed"}

TypeOK ==
  /\ phase \in [Requests -> Phases]
  /\ gone \in [Requests -> BOOLEAN]
  /\ lock \in Requests \cup {None}
  /\ queue \in Seq(Requests) /\ IsInjective(queue)
  /\ worker \in [Requests -> {"none", "running"} \cup Results]
  /\ pump \in [Requests -> Seq({"start", "next", "close"})]
  /\ \A r \in Requests : Len(pump[r]) <= 2
  /\ result \in [Requests -> Results]
  /\ it \in [Requests -> BOOLEAN]
  /\ gen \in [Requests -> {"none", "built", "open", "closed"}]

Init ==
  /\ phase = [r \in Requests |-> "new"]
  /\ gone = [r \in Requests |-> FALSE]
  /\ lock = None
  /\ queue = <<>>
  /\ worker = [r \in Requests |-> "none"]
  /\ pump = [r \in Requests |-> <<>>]
  /\ result = [r \in Requests |-> "none"]
  /\ it = [r \in Requests |-> FALSE]
  /\ gen = [r \in Requests |-> "none"]

-----------------------------------------------------------------------------
(* The clients.                                                            *)

Disconnect(r) ==
  /\ phase[r] # "done" /\ ~gone[r]
  /\ gone' = [gone EXCEPT ![r] = TRUE]
  /\ UNCHANGED <<phase, lock, queue, threads>>

-----------------------------------------------------------------------------
(* The coroutines.                                                         *)

Goto(r, p) == phase' = [phase EXCEPT ![r] = p]

Release(r) == lock' = None /\ Goto(r, "done")

\* The start event is out; a malformed request ends before it would queue.
Arrive(r) ==
  /\ phase[r] = "new"
  /\ \/ Goto(r, "queued") /\ queue' = Append(queue, r)
     \/ Goto(r, "done") /\ UNCHANGED queue
  /\ UNCHANGED <<gone, lock, threads>>

CancelQueued(r) ==
  /\ phase[r] = "queued" /\ gone[r]
  /\ Goto(r, "done")
  /\ \E i \in DOMAIN queue : queue[i] = r /\ queue' = RemoveAt(queue, i)
  /\ UNCHANGED <<gone, lock, threads>>

\* The worker of a plain request, or the migration before a chat, is submitted.
Acquire(r) ==
  /\ lock = None /\ queue # <<>> /\ r = Head(queue)
  /\ lock' = r
  /\ queue' = Tail(queue)
  /\ Goto(r, IF r \in Chats THEN "migrate" ELSE "plain")
  /\ worker' = [worker EXCEPT ![r] = "running"]
  /\ UNCHANGED <<gone, pump, result, it, gen>>

\* Mutant of Finished: a cancelled wait does not outlast its worker.
FinishedOrGone(r) == worker[r] # "running" \/ gone[r]

\* _finish_before_cancelling: the wait ends with the worker, cancelled or not.
Finished(r) == worker[r] # "running"

PlainEnds(r) ==
  /\ phase[r] = "plain" /\ Finished(r)
  /\ Release(r)
  /\ UNCHANGED <<gone, queue, threads>>

MigrationEnds(r) ==
  /\ phase[r] = "migrate" /\ Finished(r)
  /\ IF gone[r] \/ worker[r] = "failed"
       THEN Release(r) /\ UNCHANGED pump
       ELSE /\ Goto(r, "start") /\ UNCHANGED lock
            /\ pump' = [pump EXCEPT ![r] = <<"start">>]
  /\ UNCHANGED <<gone, queue, worker, result, it, gen>>

\* A start that failed, or whose result a cancelled wait dropped, leaves the
\* coroutine no iterator to close.
StartEnds(r) ==
  /\ phase[r] = "start" /\ pump[r] = <<>>
  /\ IF gone[r] \/ result[r] = "failed"
       THEN Release(r) /\ UNCHANGED it
       ELSE Goto(r, "loop") /\ it' = [it EXCEPT ![r] = TRUE] /\ UNCHANGED lock
  /\ result' = [result EXCEPT ![r] = "none"]
  /\ UNCHANGED <<gone, queue, worker, pump, gen>>

\* A next() is under way, or its result not yet taken.
Pending(r) == pump[r] # <<>> \/ result[r] # "none"

\* Mutant of Submit: with a next() already under way.
SubmitAgain(r) ==
  /\ phase[r] = "loop" /\ ~gone[r]
  /\ pump' = [pump EXCEPT ![r] = Append(@, "next")]
  /\ UNCHANGED <<phase, gone, lock, queue, worker, result, it, gen>>

Submit(r) ==
  /\ phase[r] = "loop" /\ ~gone[r] /\ ~Pending(r)
  /\ pump' = [pump EXCEPT ![r] = <<"next">>]
  /\ UNCHANGED <<phase, gone, lock, queue, worker, result, it, gen>>

\* Mutant of Close: an aborted turn whose call is still running skips it.
CloseIdle(r) ==
  IF pump[r] = <<>>
    THEN Goto(r, "close") /\ pump' = [pump EXCEPT ![r] = <<"close">>] /\ UNCHANGED lock
    ELSE Release(r) /\ UNCHANGED pump

\* The finally block: close on the pump's thread, behind what still runs there.
Close(r) ==
  /\ Goto(r, "close")
  /\ pump' = [pump EXCEPT ![r] = Append(@, "close")]
  /\ UNCHANGED lock

\* A chunk is passed on; the end or a failure of the stream ends the turn.
Take(r) ==
  /\ phase[r] = "loop" /\ result[r] # "none"
  /\ IF result[r] = "ok" THEN UNCHANGED <<phase, lock, pump>> ELSE Close(r)
  /\ result' = [result EXCEPT ![r] = "none"]
  /\ UNCHANGED <<gone, queue, worker, it, gen>>

\* The client is gone, or the budget of the turn is spent.
Abort(r) ==
  /\ phase[r] = "loop"
  /\ Close(r)
  /\ UNCHANGED <<gone, queue, worker, result, it, gen>>

CloseEnds(r) ==
  /\ phase[r] = "close" /\ pump[r] = <<>>
  /\ Release(r)
  /\ UNCHANGED <<gone, queue, threads>>

-----------------------------------------------------------------------------
(* The threads; nothing makes them finish.                                 *)

WorkerFinishes(r) ==
  /\ worker[r] = "running"
  /\ worker' = [worker EXCEPT ![r] = "ok"] \/ worker' = [worker EXCEPT ![r] = "failed"]
  /\ UNCHANGED <<phase, gone, lock, queue, pump, result, it, gen>>

\* The agent is built, or its construction raises.
PumpStarts(r) ==
  /\ pump[r] # <<>> /\ Head(pump[r]) = "start"
  /\ pump' = [pump EXCEPT ![r] = Tail(@)]
  /\ \/ result' = [result EXCEPT ![r] = "ok"] /\ gen' = [gen EXCEPT ![r] = "built"]
     \/ result' = [result EXCEPT ![r] = "failed"] /\ UNCHANGED gen
  /\ UNCHANGED <<phase, gone, lock, queue, worker, it>>

\* The generator is entered, on one thread at a time anywhere.
PumpEnters(r) ==
  /\ pump[r] # <<>> /\ Head(pump[r]) = "next" /\ gen[r] = "built"
  /\ \A q \in Requests : gen[q] # "open"
  /\ gen' = [gen EXCEPT ![r] = "open"]
  /\ UNCHANGED <<phase, gone, lock, queue, worker, pump, result, it>>

\* A chunk, the end, or an exception, of which the last two leave the generator.
PumpNext(r) ==
  /\ pump[r] # <<>> /\ Head(pump[r]) = "next" /\ gen[r] = "open"
  /\ pump' = [pump EXCEPT ![r] = Tail(@)]
  /\ \/ result' = [result EXCEPT ![r] = "ok"] /\ UNCHANGED gen
     \/ /\ \E x \in {"end", "failed"} : result' = [result EXCEPT ![r] = x]
        /\ gen' = [gen EXCEPT ![r] = "closed"]
  /\ UNCHANGED <<phase, gone, lock, queue, worker, it>>

\* _close_iter never raises.
PumpCloses(r) ==
  /\ pump[r] # <<>> /\ Head(pump[r]) = "close"
  /\ pump' = [pump EXCEPT ![r] = Tail(@)]
  /\ gen' = [gen EXCEPT ![r] = "closed"]
  /\ UNCHANGED <<phase, gone, lock, queue, worker, result, it>>

\* Mutant of Wedged: no deadline for the pump's calls.
WedgedWorker(r) == phase[r] \in {"plain", "migrate"} /\ worker[r] = "running"

\* What has a deadline: the default executor's calls, the start, and the close
\* with whatever it is queued behind.
Wedged(r) ==
  \/ phase[r] \in {"plain", "migrate"} /\ worker[r] = "running"
  \/ phase[r] \in {"start", "close"} /\ pump[r] # <<>>

\* A deadline expires over a thread that still works: the process exits, every
\* request with it, and the supervisor starts another.
WedgedExit(r) ==
  /\ Wedged(r)
  /\ phase' = [q \in Requests |-> IF phase[q] = "new" THEN "new" ELSE "done"]
  /\ lock' = None
  /\ queue' = <<>>
  /\ worker' = [q \in Requests |-> "none"]
  /\ pump' = [q \in Requests |-> <<>>]
  /\ result' = [q \in Requests |-> "none"]
  /\ it' = [q \in Requests |-> FALSE]
  /\ gen' = [q \in Requests |-> "none"]
  /\ UNCHANGED gone

-----------------------------------------------------------------------------
Coroutine(r) ==
  \/ Arrive(r) \/ CancelQueued(r) \/ Acquire(r)
  \/ PlainEnds(r) \/ MigrationEnds(r) \/ StartEnds(r)
  \/ Submit(r) \/ Take(r) \/ CloseEnds(r)

Thread(r) ==
  \/ WorkerFinishes(r) \/ PumpStarts(r) \/ PumpEnters(r) \/ PumpNext(r) \/ PumpCloses(r)

Finis == (\A r \in Requests : phase[r] = "done") /\ UNCHANGED vars

Next ==
  \/ \E r \in Requests :
       Disconnect(r) \/ Coroutine(r) \/ Thread(r) \/ Abort(r) \/ WedgedExit(r)
  \/ Finis

Spec == Init /\ [][Next]_vars

\* The event loop runs what is ready and every timer fires: the poll second that
\* sees a disconnect or the spent budget, and the deadlines.  Threads get none.
Fairness ==
  \A r \in Requests :
    WF_vars(Coroutine(r)) /\ WF_vars(Abort(r)) /\ WF_vars(WedgedExit(r))

FairSpec == Spec /\ Fairness

-----------------------------------------------------------------------------
(* Properties.                                                             *)

\* No thread touches the phone, the history or the checkpoints but those of the
\* lock's holder: not the abandoned call of a cancelled turn, nor the worker of
\* a request whose client has gone.
SingleFlight ==
  \A r \in Requests : (worker[r] = "running" \/ pump[r] # <<>>) => lock = r

\* A turn gives the lock up with its generator closed, so the next turn never
\* blocks on the agent library's own queue inside the server's.
GeneratorReleased == \A r \in Requests : gen[r] = "open" => lock = r

\* Every request that arrives ends, although threads may never return and
\* clients vanish at any point.
EveryRequestEnds == \A r \in Requests : (phase[r] = "queued") ~> (phase[r] = "done")
=============================================================================
