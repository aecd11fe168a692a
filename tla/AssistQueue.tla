------------------------------ MODULE AssistQueue ------------------------------
(***************************************************************************)
(* One canonical thread buffer of assist-web.el: the resident queue of     *)
(* submissions, each POSTed with an immutable idempotency key, observed    *)
(* over SSE, verified by a GET of its exact Run and retired by a GET of    *)
(* the thread (the reconciliation).  The queue is written to the draft     *)
(* cache before each network step; Emacs may restart between any two       *)
(* steps and any cache write may fail.                                     *)
(*                                                                         *)
(* Emacs runs one callback at a time, so a command, a reply, an SSE event  *)
(* or a restart is one action.  A handler's steps are operators on the     *)
(* buffer's state, composed in the order the code calls them; each takes   *)
(* the outcome of its own cache write.                                     *)
(*                                                                         *)
(* Not modelled: drafts without a thread and their adoption, a second view *)
(* of the same thread, denied access, other reads of the history, the      *)
(* rendering.                                                              *)
(***************************************************************************)
EXTENDS Naturals, Sequences, FiniteSets, FiniteSetsExt, Functions

CONSTANTS
  Last,       \* the last message the user writes; they are numbered in that order
  QueueLimit, \* emacsos-assist-web--queue-count-limit
  MaxFaults   \* how often at most a handler finds the cache unwritable

ASSUME QueueAssumption ==
  /\ Last \in Nat \ {0}
  /\ QueueLimit \in Nat \ {0}
  /\ MaxFaults \in Nat

Messages == 1 .. Last
None == 0

VARIABLES
  view,     \* the buffer's local variables, and the draft cache it writes
  next,     \* the message the user writes next
  run,      \* what the server has made of each message
  late,     \* messages whose abandoned POST the server may still process
  learned,  \* messages whose acceptance the view was told of and has saved
  snapshot, \* messages whose Run had ended in the cached canonical history
  dismissed, \* refused messages the user dismissed
  faults    \* how often a handler has found the cache unwritable

vars == <<view, next, run, late, learned, snapshot, dismissed, faults>>
history == <<learned, snapshot, dismissed>>

-----------------------------------------------------------------------------
(* Entries and the draft cache.                                            *)

Postable == {"queued", "unknown", "retryable"}
EntryStates == Postable \cup {"posting", "rejected", "accepted", "observing",
                              "terminal", "reconciling"}
Active == {"running", "approval"}
\* An observer's operator-repair end is handled as a disconnect.
Ends == {"none", "terminal-sse", "disconnect"}

\* run: its Run's id is known; get and del: its exact GET and its DELETE in
\* flight, with the answer once the server has given one.
NewEntry(m) ==
  [key |-> m, state |-> "queued", run |-> FALSE, reobserve |-> FALSE,
   verified |-> FALSE, end |-> "none", checked |-> FALSE, approval |-> FALSE,
   get |-> "none", del |-> "none"]

Entry ==
  [key : Messages, state : EntryStates, run : BOOLEAN, reobserve : BOOLEAN,
   verified : BOOLEAN, end : Ends, checked : BOOLEAN, approval : BOOLEAN,
   get : {"none", "sent", "over"} \cup Active, del : {"none", "sent", "cancelled"}]

Cached(e) == [key |-> e.key, state |-> e.state, run |-> e.run, end |-> e.end,
              checked |-> e.checked, approval |-> e.approval]

CachedEntry == [key : Messages, state : EntryStates, run : BOOLEAN, end : Ends,
                checked : BOOLEAN, approval : BOOLEAN]

\* Mutant of Restored: a POST under way is taken to have survived.
RestoredPosting(c) ==
  [NewEntry(c.key) EXCEPT
     !.state = IF c.state = "observing" THEN "accepted" ELSE c.state, !.run = c.run,
     !.end = c.end, !.checked = c.checked, !.approval = c.approval,
     !.reobserve = c.state \in {"accepted", "observing", "terminal"}]

\* No transport survives Emacs; a Run known before must be read again.
Restored(c) ==
  LET state == CASE c.state = "posting" -> "unknown"
                 [] c.state = "observing" -> "accepted"
                 [] c.state = "reconciling" -> "terminal"
                 [] OTHER -> c.state
  IN  [NewEntry(c.key) EXCEPT
         !.state = state, !.run = c.run, !.end = c.end, !.checked = c.checked,
         !.approval = c.approval, !.reobserve = state \in {"accepted", "terminal"}]

Keys(q) == {e.key : e \in Range(q)}
At(v, k) == CHOOSE e \in Range(v.queue) : e.key = k
Put(v, e) == [v EXCEPT !.queue = [i \in DOMAIN @ |-> IF @[i].key = e.key THEN e ELSE @[i]]]
HeadState(v) == IF v.queue = <<>> THEN "none" ELSE Head(v.queue).state

Save(v) == [v EXCEPT !.draft = [i \in DOMAIN v.queue |-> Cached(v.queue[i])]]

\* The saved view that is left without the entries of keys, which is one: the
\* others keep their order.
Ascending(S) ==
  {s \in [1 .. Cardinality(S) -> S] : \A i, j \in DOMAIN s : i < j => s[i] < s[j]}
Without(v, keys) ==
  {Save([v EXCEPT !.queue = [i \in DOMAIN s |-> v.queue[s[i]]]]) :
     s \in Ascending({i \in DOMAIN v.queue : v.queue[i].key \notin keys})}

Idle == [on |-> FALSE, fresh |-> FALSE, keys |-> {}]

Init ==
  /\ view = [queue |-> <<>>, draft |-> <<>>, post |-> None, stream |-> None,
             join |-> None, recon |-> Idle, paused |-> FALSE,
             required |-> FALSE, active |-> FALSE]
  /\ next = 1
  /\ run = [m \in Messages |-> "none"]
  /\ late = {} /\ learned = {} /\ snapshot = {} /\ dismissed = {} /\ faults = 0

-----------------------------------------------------------------------------
(* The steps handlers are made of.  ok is what their cache write returns,  *)
(* room that no chat is active and a request slot is free.                 *)

\* A handler's writes of the cache, which all succeed or not.
Writes(all) ==
  /\ all \/ faults < MaxFaults
  /\ faults' = IF all THEN faults ELSE faults + 1

\* Mutant of StartPost: the POST goes out before the cache says so.
StartPostUnsaved(v, k, ok) ==
  LET e == At(v, k)
  IN  IF v.post # None \/ e.state \notin Postable THEN v
      ELSE [Put(v, [e EXCEPT !.state = "posting"]) EXCEPT !.post = k]

StartPost(v, k, ok) ==
  LET e == At(v, k)
  IN  IF v.post # None \/ e.state \notin Postable THEN v
      ELSE IF ok THEN Save([Put(v, [e EXCEPT !.state = "posting"]) EXCEPT !.post = k])
      ELSE Put(v, [e EXCEPT !.state = "retryable"])

\* Mutant of Settled: the end of a stream is trusted.
SettledOnceStreamed(e) == e.state \in {"rejected", "terminal"}

Settled(e) == \/ e.state = "rejected"
              \/ e.state = "terminal" /\ e.verified /\ ~e.reobserve

PumpPosts(v, ok) ==
  LET waiting == {i \in DOMAIN v.queue : v.queue[i].state \in Postable}
  IN  IF v.paused \/ v.required \/ v.post # None \/ waiting = {} THEN v
      ELSE IF \A i \in 1 .. Min(waiting) - 1 : Settled(v.queue[i])
           THEN StartPost(v, v.queue[Min(waiting)].key, ok)
      ELSE v

Reobserve(v, k) ==
  LET e == At(v, k)
  IN  IF ~e.run \/ v.paused \/ e.get # "none" THEN v
      ELSE [Put(v, [e EXCEPT !.get = "sent"]) EXCEPT
              !.join = IF @ = k THEN None ELSE @]

\* An observation that finds no room or cannot be saved leaves all as it was.
StartObservation(v, k, ok, room) ==
  LET e == At(v, k)
  IN  IF v.stream # None \/ e.state # "accepted" \/ ~room \/ ~ok THEN v
      ELSE Save([Put(v, [e EXCEPT !.state = "observing"]) EXCEPT !.stream = k])

StartNextObservation(v, continue, ok, room) ==
  LET due == {i \in DOMAIN v.queue :
                \/ v.queue[i].state = "accepted"
                \/ continue /\ v.queue[i].state = "terminal" /\ v.queue[i].reobserve}
      e == v.queue[Min(due)]
  IN  IF v.stream # None \/ v.paused \/ (v.required /\ ~continue) \/ due = {} THEN v
      ELSE IF e.state = "accepted" /\ (e.end = "disconnect" \/ e.checked \/ e.approval)
           THEN v
      ELSE IF e.reobserve THEN Reobserve(v, e.key)
      ELSE StartObservation(v, e.key, ok, room)

ReconcileWhenSettled(v, ok) ==
  LET q == v.queue
      terminal == {i \in DOMAIN q : q[i].state = "terminal"}
      unverified == {i \in terminal : ~q[i].verified}
      To(e) == [v EXCEPT !.queue = [i \in DOMAIN q |-> IF i \in terminal THEN e[i] ELSE q[i]]]
      claimed == To([i \in terminal |-> [q[i] EXCEPT !.state = "reconciling"]])
      failed == To([i \in terminal |-> [q[i] EXCEPT !.reobserve = TRUE, !.verified = FALSE]])
  IN  IF \/ q = <<>> \/ v.paused \/ (v.required /\ ~v.active) \/ v.recon.on
         \/ \E i \in DOMAIN q : q[i].state \notin {"terminal", "rejected"}
      THEN v
      ELSE IF unverified # {} THEN Reobserve(v, q[Min(unverified)].key)
      ELSE IF \E i \in DOMAIN q : q[i].reobserve THEN v
      ELSE IF ok
      THEN [Save(claimed) EXCEPT !.recon = [on |-> TRUE, fresh |-> TRUE,
                                            keys |-> {q[i].key : i \in terminal}]]
      ELSE [failed EXCEPT !.active = FALSE]

\* manual-recovery-rearm, with the manual-recovery-stop that ends it.
Rearm(v, k, ok) ==
  LET again == [Put(v, [At(v, k) EXCEPT !.reobserve = TRUE, !.verified = FALSE]) EXCEPT
                  !.active = FALSE]
  IN  IF ok THEN Save(again) ELSE [again EXCEPT !.paused = TRUE]

\* The events of an observer whose entry has gone are dropped.
Observing(v) == v.stream \in Keys(v.queue)

\* Every end of an observer but its terminal event.
Interrupt(v, k, ok) ==
  LET ended == [Put(v, [At(v, k) EXCEPT !.state = "accepted", !.reobserve = TRUE,
                                        !.end = "disconnect", !.checked = FALSE]) EXCEPT
                  !.stream = None, !.join = None]
  IN  IF At(v, k).state # "observing" THEN v
      ELSE IF v.active THEN Rearm(ended, k, ok)
      ELSE IF ok THEN Save(ended) ELSE [ended EXCEPT !.paused = TRUE]

\* Entries a failed or superseded reconciliation leaves need a new exact read.
RestoreReconciliation(v, keys, ok) ==
  LET mine(e) == e.key \in keys /\ e.state = "reconciling"
      back == [v EXCEPT !.queue = [i \in DOMAIN @ |->
                 IF mine(@[i])
                 THEN [@[i] EXCEPT !.state = "terminal", !.reobserve = TRUE, !.verified = FALSE]
                 ELSE @[i]]]
  IN  IF \A e \in Range(v.queue) : ~mine(e) THEN v
      ELSE IF ok THEN [Save(back) EXCEPT !.required = TRUE, !.active = FALSE]
      ELSE [back EXCEPT !.paused = TRUE]

-----------------------------------------------------------------------------
(* The user's commands.                                                    *)

\* Send puts the draft behind the resident entries; an unanswered or refused
\* head is POSTed again instead of being passed.
Send(m) ==
  /\ m = next /\ ~view.paused /\ Len(view.queue) < QueueLimit
  /\ \E ok, ok2 \in BOOLEAN : Writes(ok /\ ok2) /\
       LET stale  == [view EXCEPT !.recon.fresh = FALSE]
           queued == IF ok THEN Save([stale EXCEPT !.queue = Append(@, NewEntry(m))])
                     ELSE stale
       IN  /\ view' = IF HeadState(view) \in {"unknown", "retryable"}
                      THEN StartPost(queued, Head(queued.queue).key, ok2)
                      ELSE IF ok THEN PumpPosts(queued, ok2)
                      ELSE queued
           /\ next' = IF ok THEN m + 1 ELSE m
  /\ UNCHANGED <<run, late, history>>

\* Send with nothing to say, or a full queue, retries the head.
SendAgain ==
  /\ ~view.paused /\ HeadState(view) \in {"unknown", "retryable"}
  /\ \E ok \in BOOLEAN : Writes(ok) /\ view' = StartPost(view, Head(view.queue).key, ok)
  /\ UNCHANGED <<next, run, late, history>>

\* The accepted entry behind settled ones whose observation was refused.
NextRefreshable(v) ==
  {i \in DOMAIN v.queue : /\ v.queue[i].state = "accepted"
                          /\ \A j \in 1 .. i - 1 : Settled(v.queue[j])}

RefreshRecovery ==
  /\ ~view.paused /\ ~view.recon.on /\ view.required /\ ~view.active
  /\ \E ok \in BOOLEAN : Writes(ok) /\
       LET pass == [view EXCEPT !.active = TRUE]
           due == {i \in DOMAIN view.queue : /\ view.queue[i].state \in {"accepted", "terminal"}
                                             /\ view.queue[i].reobserve}
       IN  view' = IF due # {} THEN Reobserve(pass, view.queue[Min(due)].key)
                   ELSE ReconcileWhenSettled(pass, ok)
  /\ UNCHANGED <<next, run, late, history>>

RefreshObserver ==
  /\ ~view.paused /\ ~view.recon.on /\ ~view.required /\ Observing(view)
  /\ \E ok \in BOOLEAN : Writes(ok) /\
       LET v == Interrupt(view, view.stream, ok)
       IN  view' = IF v.stream = None THEN Reobserve(v, view.stream) ELSE view
  /\ UNCHANGED <<next, run, late, history>>

RefreshHead ==
  /\ ~view.paused /\ ~view.recon.on /\ ~view.required /\ view.stream = None
  /\ \E ok, room \in BOOLEAN : Writes(ok) /\
       LET ready == NextRefreshable(view)
           e == view.queue[Min(ready)]
       IN  view' = CASE HeadState(view) \in {"unknown", "retryable"} ->
                          StartPost(view, Head(view.queue).key, ok)
                     [] HeadState(view) = "accepted" ->
                          Reobserve(view, Head(view.queue).key)
                     [] HeadState(view) = "terminal" /\ ready = {} ->
                          ReconcileWhenSettled(view, ok)
                     [] HeadState(view) = "terminal" /\ ready # {} ->
                          IF e.reobserve \/ e.end # "none" \/ e.approval
                          THEN Reobserve(view, e.key)
                          ELSE StartObservation(view, e.key, ok, room)
                     [] OTHER -> view
  /\ UNCHANGED <<next, run, late, history>>

\* The server may still take a POST the user has stopped waiting for.
AbortPost ==
  /\ view.stream = None /\ view.post # None
  /\ LET unknown == [Put(view, [At(view, view.post) EXCEPT !.state = "unknown"]) EXCEPT
                       !.post = None]
     IN  \E ok \in BOOLEAN : Writes(ok) /\ view' = IF ok THEN Save(unknown) ELSE unknown
  /\ late' = IF run[view.post] = "none" THEN late \cup {view.post} ELSE late
  /\ UNCHANGED <<next, run, history>>

\* A GET sent before the DELETE can no longer reopen an observer.
AbortRun ==
  /\ Observing(view)
  /\ \E ok \in BOOLEAN : Writes(ok) /\
       LET e == At(view, view.stream)
           detached == [e EXCEPT !.state = "accepted", !.get = "none",
                                 !.del = IF ok THEN "sent" ELSE "none"]
           v == [Put(view, detached) EXCEPT !.stream = None,
                                            !.join = IF @ = view.stream THEN None ELSE @]
       IN  view' = IF ok THEN Save(v) ELSE v
  /\ UNCHANGED <<next, run, late, history>>

Dismiss(k) ==
  /\ k \in Keys(view.queue) /\ At(view, k).state = "rejected"
  /\ \E ok, ok2 \in BOOLEAN : Writes(ok /\ ok2) /\
       IF ok THEN /\ \E remaining \in Without(view, {k}) : view' = PumpPosts(remaining, ok2)
                  /\ dismissed' = dismissed \cup {k}
       ELSE UNCHANGED <<view, dismissed>>
  /\ UNCHANGED <<next, run, late, learned, snapshot>>

-----------------------------------------------------------------------------
(* The replies to a POST.                                                  *)

\* Mutant of HalfAdopted: the failure is taken for an unknown answer.
HalfAdoptedUnknown(v, k, ok) ==
  LET told == Put(v, [At(v, k) EXCEPT !.state = "unknown"])
  IN  IF ok THEN Save(told) ELSE told

\* The acceptance of k could not be saved: its Run is kept in the buffer, and
\* the save is tried once more.
HalfAdopted(v, k, ok) == IF ok THEN Save(v) ELSE v

PostAccepted ==
  /\ view.post # None /\ run[view.post] \in Active \cup {"over"}
  /\ \E ok, ok2, ok3, room \in BOOLEAN : Writes(ok /\ ok2 /\ ok3) /\
       LET k == view.post
           told == [Put(view, [At(view, k) EXCEPT !.state = "accepted", !.run = TRUE,
                                                  !.reobserve = FALSE]) EXCEPT !.post = None]
       IN  /\ view' = IF ok THEN PumpPosts(StartObservation(Save(told), k, ok2, room), ok3)
                      ELSE HalfAdopted(told, k, ok2)
           /\ learned' = IF ok \/ ok2 THEN learned \cup {k} ELSE learned
  /\ UNCHANGED <<next, run, late, snapshot, dismissed>>

\* 429, a run store that is away, a pending approval, or no token to send.
PostUnavailable ==
  /\ view.post # None
  /\ LET refused == [Put(view, [At(view, view.post) EXCEPT !.state = "retryable"]) EXCEPT
                       !.post = None]
     IN  \E ok \in BOOLEAN : Writes(ok) /\ view' = IF ok THEN Save(refused) ELSE refused
  /\ UNCHANGED <<next, run, late, history>>

PostRejected ==
  /\ view.post # None /\ run[view.post] = "refused"
  /\ LET rejected == [Put(view, [At(view, view.post) EXCEPT !.state = "rejected"]) EXCEPT
                        !.post = None]
     IN  \E ok, ok2 \in BOOLEAN : Writes(ok /\ ok2) /\
           view' = IF ok THEN PumpPosts(Save(rejected), ok2) ELSE rejected
  /\ UNCHANGED <<next, run, late, history>>

\* No usable answer: the server may have the message, or get it yet.
PostFails ==
  /\ view.post # None
  /\ LET unknown == [Put(view, [At(view, view.post) EXCEPT !.state = "unknown"]) EXCEPT
                       !.post = None]
     IN  \E ok \in BOOLEAN : Writes(ok) /\ view' = IF ok THEN Save(unknown) ELSE unknown
  /\ late' = IF run[view.post] = "none" THEN late \cup {view.post} ELSE late
  /\ UNCHANGED <<next, run, history>>

-----------------------------------------------------------------------------
(* The observer, and the exact GET of a Run.                               *)

ObserverEnds ==
  /\ Observing(view)
  /\ \E ok \in BOOLEAN : Writes(ok) /\ view' = Interrupt(view, view.stream, ok)
  /\ UNCHANGED <<next, run, late, history>>

\* A terminal event is provisional: it asks for the Run's exact status.
StreamFinish ==
  /\ Observing(view)
  /\ \E ok, ok2 \in BOOLEAN : Writes(ok /\ ok2) /\
       LET k == view.stream
           ended == [Put(view, [At(view, k) EXCEPT !.state = "terminal", !.verified = FALSE,
                                  !.end = "terminal-sse", !.checked = FALSE]) EXCEPT
                       !.stream = None, !.join = None]
       IN  view' = IF ok THEN ReconcileWhenSettled(Reobserve(Save(ended), k), ok2)
                   ELSE [ended EXCEPT !.paused = TRUE, !.active = FALSE]
  /\ UNCHANGED <<next, run, late, history>>

\* view with k's GET no longer in flight
Delivered(k) == Put(view, [At(view, k) EXCEPT !.get = "none"])

RunReadFails(k) ==
  /\ k \in Keys(view.queue) /\ At(view, k).get # "none"
  /\ \E ok \in BOOLEAN : Writes(ok) /\ view' = Rearm(Delivered(k), k, ok)
  /\ UNCHANGED <<next, run, late, history>>

\* An answer that names no status of this Run stops the pass and no more.
RunReadInvalid(k) ==
  /\ k \in Keys(view.queue) /\ At(view, k).get # "none"
  /\ view' = [Delivered(k) EXCEPT !.active = FALSE]
  /\ UNCHANGED <<next, run, late, history, faults>>

\* Approval, or a Run still active after its stream said it had ended.
Contradicts(e) ==
  \/ e.get = "approval"
  \/ e.get = "running" /\ e.end = "terminal-sse" /\ ~e.checked

RunReadStops(k) ==
  /\ k \in Keys(view.queue) /\ Contradicts(At(view, k))
  /\ \E ok \in BOOLEAN : Writes(ok) /\
       LET e == At(view, k)
           stopped == [e EXCEPT !.state = "accepted", !.reobserve = TRUE, !.get = "none",
                                !.checked = e.end = "terminal-sse",
                                !.approval = e.get = "approval"]
           v == [Put(view, stopped) EXCEPT !.join = None]
       IN  view' = IF view.active THEN Rearm(v, k, ok)
                   ELSE IF ok THEN Save(v)
                   ELSE [Put(v, [stopped EXCEPT !.checked = e.checked]) EXCEPT !.paused = TRUE]
  /\ UNCHANGED <<next, run, late, history>>

RunReadActive(k) ==
  /\ k \in Keys(view.queue) /\ At(view, k).get = "running" /\ ~Contradicts(At(view, k))
  /\ \E ok, ok2, ok3, room \in BOOLEAN : Writes(ok /\ ok2 /\ ok3) /\
       LET e == At(Delivered(k), k)
           read == Put(view, [e EXCEPT !.state = "accepted", !.reobserve = FALSE,
                                       !.verified = FALSE])
           joining == [Save(read) EXCEPT !.join = k, !.recon.fresh = FALSE]
           watching == StartObservation(joining, k, ok2, room)
       IN  view' = IF ~ok THEN [Put(view, [e EXCEPT !.reobserve = TRUE, !.verified = FALSE]) EXCEPT
                                  !.paused = TRUE, !.active = FALSE]
                   ELSE IF watching.active /\ watching.stream # k THEN Rearm(watching, k, ok3)
                   ELSE watching
  /\ UNCHANGED <<next, run, late, history>>

RunReadOver(k) ==
  /\ k \in Keys(view.queue) /\ At(view, k).get = "over"
  /\ \E ok, ok2, ok3, ok4, room \in BOOLEAN : Writes(ok /\ ok2 /\ ok3 /\ ok4) /\
       LET e == At(Delivered(k), k)
           over == [e EXCEPT !.state = "terminal", !.reobserve = FALSE, !.approval = FALSE,
                             !.verified = FALSE]
           saved == [Save(Put(view, over)) EXCEPT !.join = None]
           verified == Put(saved, [over EXCEPT !.verified = TRUE])
       IN  view' = IF ok
                   THEN ReconcileWhenSettled(
                          PumpPosts(StartNextObservation(verified, TRUE, ok2, room), ok3), ok4)
                   ELSE [Put(view, [e EXCEPT !.reobserve = TRUE, !.verified = FALSE]) EXCEPT
                           !.paused = TRUE, !.active = FALSE]
  /\ UNCHANGED <<next, run, late, history>>

\* The active Run's thread GET and its new stream's headers have both come:
\* the old reason to stop is superseded.
FinishActiveJoin ==
  /\ view.join # None /\ view.stream = view.join /\ Observing(view)
  /\ At(view, view.join).state \in {"accepted", "observing"}
  /\ \E ok \in BOOLEAN : Writes(ok) /\
       LET joined == Put(view, [At(view, view.join) EXCEPT
                                  !.approval = FALSE, !.end = "disconnect", !.checked = FALSE])
       IN  view' = IF ok THEN [Save(joined) EXCEPT !.join = None]
                   ELSE [view EXCEPT !.paused = TRUE]
  /\ UNCHANGED <<next, run, late, history>>

-----------------------------------------------------------------------------
(* The answer to a DELETE.                                                 *)

CancelConfirmed(k) ==
  /\ k \in Keys(view.queue) /\ At(view, k).del = "cancelled"
  /\ \E ok, ok2, ok3 \in BOOLEAN : Writes(ok /\ ok2 /\ ok3) /\
       LET e == [At(view, k) EXCEPT !.del = "none", !.get = "none", !.verified = FALSE]
           Now(state) == [Put(view, [e EXCEPT !.state = state]) EXCEPT
                            !.stream = IF @ = k THEN None ELSE @,
                            !.join = IF @ = k THEN None ELSE @]
           done == IF ok THEN ReconcileWhenSettled(Save(Now("terminal")), ok2)
                   ELSE Now("accepted")
       IN  view' = IF ok3 THEN Save(done) ELSE done
  /\ UNCHANGED <<next, run, late, history>>

CancelUnconfirmed(k) ==
  /\ k \in Keys(view.queue) /\ At(view, k).del # "none"
  /\ \E ok \in BOOLEAN : Writes(ok) /\
       LET v == Put(view, [At(view, k) EXCEPT !.del = "none"])
       IN  view' = IF ok THEN Save(v) ELSE v
  /\ UNCHANGED <<next, run, late, history>>

-----------------------------------------------------------------------------
(* The reconciliation's reply.                                             *)

Claimed(v) == \A k \in v.recon.keys :
                k \in Keys(v.queue) /\ At(v, k).state = "reconciling"

\* The snapshot is saved, then the queue without its entries.
Reconciled ==
  /\ view.recon.on /\ view.recon.fresh /\ Claimed(view)
  /\ \E remaining \in Without(view, view.recon.keys) :
       view' = [remaining EXCEPT !.recon = Idle, !.required = FALSE, !.active = FALSE]
  /\ snapshot' = {m \in Messages : run[m] = "over"}
  /\ UNCHANGED <<next, run, late, learned, dismissed, faults>>

\* Mutant of NotReconciled: the queue is written before the snapshot, which fails.
NotReconciledQueueFirst ==
  /\ view.recon.on
  /\ \E ok, written \in BOOLEAN, remaining \in Without(view, view.recon.keys) :
       /\ Writes(ok /\ ~written)
       /\ written => view.recon.fresh /\ Claimed(view)
       /\ view' = [RestoreReconciliation(view, view.recon.keys, ok) EXCEPT
                     !.recon = Idle, !.draft = IF written THEN remaining.draft ELSE @]
  /\ UNCHANGED <<next, run, late, history>>

\* The reply is an error, has been superseded, or one of the two writes fails,
\* the second one when the snapshot is written.
NotReconciled ==
  /\ view.recon.on
  /\ \E ok, written \in BOOLEAN : Writes(ok /\ ~written) /\
       /\ written => view.recon.fresh /\ Claimed(view)
       /\ view' = [RestoreReconciliation(view, view.recon.keys, ok) EXCEPT !.recon = Idle]
       /\ snapshot' = IF written THEN {m \in Messages : run[m] = "over"} ELSE snapshot
  /\ UNCHANGED <<next, run, late, learned, dismissed>>

-----------------------------------------------------------------------------
(* Emacs dies and opens the thread again; started tells whether a chat is  *)
(* not active, so that the restored queue may use the network.             *)

Restart ==
  /\ \E ok, ok2, ok3, ok4, room, started \in BOOLEAN : Writes(ok /\ ok2 /\ ok3 /\ ok4) /\
       LET q == [i \in DOMAIN view.draft |-> Restored(view.draft[i])]
           changed == \E i \in DOMAIN q : view.draft[i].state # q[i].state
           required == \E i \in DOMAIN q : q[i].state = "terminal"
           v == [view EXCEPT !.queue = q, !.post = None, !.stream = None, !.join = None,
                             !.recon = Idle, !.active = FALSE, !.required = required,
                             !.paused = changed /\ ~ok /\ required]
           normal == IF changed /\ ok THEN Save(v) ELSE v
       IN  view' = IF required \/ ~started \/ (changed /\ ~ok) THEN normal
                   ELSE ReconcileWhenSettled(
                          StartNextObservation(PumpPosts(normal, ok2), FALSE, ok3, room), ok4)
  /\ late' = IF view.post # None /\ run[view.post] = "none" THEN late \cup {view.post}
             ELSE late
  /\ UNCHANGED <<next, run, history>>

-----------------------------------------------------------------------------
(* The server: one Run for each key, however often it is POSTed.           *)

Decides(m) ==
  /\ m = view.post \/ m \in late
  /\ run[m] = "none"
  /\ \E verdict \in {"running", "refused"} : run' = [run EXCEPT ![m] = verdict]
  /\ late' = late \ {m}
  /\ UNCHANGED <<view, next, history, faults>>

RunMoves(m) ==
  /\ run[m] \in Active
  /\ \E status \in (Active \cup {"over"}) \ {run[m]} : run' = [run EXCEPT ![m] = status]
  /\ UNCHANGED <<view, next, late, history, faults>>

AnswersGet(k) ==
  /\ k \in Keys(view.queue) /\ At(view, k).get = "sent"
  /\ view' = Put(view, [At(view, k) EXCEPT !.get = run[k]])
  /\ UNCHANGED <<next, run, late, history, faults>>

Cancels(k) ==
  /\ k \in Keys(view.queue) /\ At(view, k).del = "sent" /\ run[k] \in Active
  /\ view' = Put(view, [At(view, k) EXCEPT !.del = "cancelled"])
  /\ run' = [run EXCEPT ![k] = "over"]
  /\ UNCHANGED <<next, late, history, faults>>

-----------------------------------------------------------------------------
Command ==
  \/ \E m \in Messages : Send(m) \/ Dismiss(m)
  \/ SendAgain \/ RefreshRecovery \/ RefreshObserver \/ RefreshHead
  \/ AbortPost \/ AbortRun

Reply ==
  \/ PostAccepted \/ PostUnavailable \/ PostRejected \/ PostFails
  \/ ObserverEnds \/ StreamFinish \/ FinishActiveJoin
  \/ \E k \in Messages :
       \/ RunReadFails(k) \/ RunReadInvalid(k)
       \/ RunReadStops(k) \/ RunReadActive(k) \/ RunReadOver(k)
       \/ CancelConfirmed(k) \/ CancelUnconfirmed(k)
  \/ Reconciled \/ NotReconciled

Server == \E m \in Messages : Decides(m) \/ RunMoves(m) \/ AnswersGet(m) \/ Cancels(m)

Next == Command \/ Reply \/ Restart \/ Server

Spec == Init /\ [][Next]_vars

-----------------------------------------------------------------------------
(* Properties.                                                             *)

\* The state has the types the code gives it, and post is the one entry whose
\* state says that it is being POSTed.
TypeOK ==
  /\ view.queue \in Seq(Entry) /\ Len(view.queue) <= QueueLimit
  /\ view.draft \in Seq(CachedEntry)
  /\ {view.post, view.stream, view.join} \subseteq Messages \cup {None}
  /\ view.recon \in [on : BOOLEAN, fresh : BOOLEAN, keys : SUBSET Messages]
  /\ {view.paused, view.required, view.active} \subseteq BOOLEAN
  /\ \A e \in Range(view.queue) : e.state = "posting" <=> e.key = view.post
  /\ next \in Nat \ {0} /\ faults \in 0 .. MaxFaults
  /\ run \in [Messages -> {"none", "refused", "over"} \cup Active]
  /\ UNION {late, learned, snapshot, dismissed} \subseteq Messages

Sent == {m \in Messages : m < next}
Retired == Sent \ {view.draft[i].key : i \in DOMAIN view.draft}

\* The view, its cache and the server keep a thread's promise (ThreadFifo):
\* no follower overtakes an uncertain predecessor, whichever callbacks come
\* late and whatever a restart finds in the cache, and no key leaves the saved
\* queue before the server is done with it, or ever comes back.
Promise == INSTANCE ThreadFifo WITH
             sent <- Sent,
             accepted <- {m \in Messages : run[m] \in Active \cup {"over"}},
             over <- {m \in Messages : run[m] \in {"over", "refused"}},
             retired <- Retired
FifoPromise == Promise!Fifo

\* A message the saved queue no longer holds is in the saved history, or the
\* user dismissed its refusal: the snapshot is written before the queue.
RetiredIsShown == Retired \subseteq snapshot \cup dismissed

\* What the cache says of a message holds of the server, whatever callbacks come
\* late and whichever writes fail: a restart takes nothing the server may have for
\* unsent, nothing it may yet run for refused, and retires only ended Runs
\* (start-post, reconcile-queue, restore-draft).
CacheIsHonest ==
  /\ view.post # None => \E i \in DOMAIN view.draft : /\ view.draft[i].key = view.post
                                                       /\ view.draft[i].state = "posting"
  /\ \A i \in DOMAIN view.draft :
       LET c == view.draft[i]
       IN  /\ c.state = "queued" => run[c.key] = "none" /\ c.key \notin late
           /\ c.state = "rejected" => run[c.key] = "refused"
           /\ c.run => run[c.key] \in Active \cup {"over"}
           /\ c.state = "reconciling" => run[c.key] = "over"

\* A message whose acceptance was saved is never POSTed again, though the
\* adoption of its reply failed half-way or Emacs restarted (start-post).
NeverPostedAgain ==
  [][view'.post # view.post => view'.post \notin learned]_vars

\* A recovery pass the user's Refresh began is active only while it has an
\* exact GET, an observer or a reconciliation to wait for
\* (emacsos-assist-web--manual-recovery-active).
PassIsUnderWay ==
  view.active => \/ \E e \in Range(view.queue) : e.get # "none"
                 \/ view.stream # None
                 \/ view.recon.on
=============================================================================
