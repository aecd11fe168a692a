# A verification project for emacsos

emacsos is a phone whose user interface is one Emacs.  Around it are small root
helpers on the phone (`deploy/pinephone/`), a server that runs the user's agent
(`server/emacsos_server/`) and the Emacs Lisp that talks to both.  This directory
holds TLA+ modules of its stateful parts, TLC configurations that check them on
small instances, and TLAPS proofs for every instance.

`SmsJournal.tla` is a good place to start reading: it is short, it has an abstract
counterpart (`SmsOutbox.tla`) and a complete proof (`SmsJournalProofs.tla`).

    tlc -workers 2 -config MCSmsInbox.cfg MCSmsInbox         # a run
    tlapm SmsJournalProofs.tla                               # a proof

## The system

The phone and the server share nothing but requests.  On the phone one Emacs
(`os.el` and the rest) is supervised by `openrc-session`; privileged work is
done by short-lived root helpers started per operation, which meet only through
what is durable (a SQLite journal, lock files) and through ModemManager.  The
server is one asyncio process (`app.py`); a chat turn streams from it while the
agent's tools call back to the phone over ssh (`emacs_backend.py`), one bounded
`emacsclient` call each.

| Component | State it keeps | Operations | What is hard, and what makes it correct |
|---|---|---|---|
| SMS helper, `openrc-sms-root` | the journal (outgoing attempts, incoming rows, scan cursor, alert claims, ack marks), one flock | send, receipts, ack, alerts; a fresh process each | killed, interrupted by an alarm or timed out between any two steps, repeated with the same identity; never send twice, never claim "not sent" of what may go out, never lose a received message |
| ModemManager (external) | its message store and the calls on the bus | Create, Send, List, Get, Delete; restarts rename the store | a call outlives its caller; a path means another message after a restart |
| SMS forwarding bridge, `sms_forward.py` | one thread's batch | poll receipts, hand each to the server, ack | answers lost or late, rows that change meanwhile, rows the server refuses for good |
| SMS proposals, `phone-sms.el`, `openrc-init.el`, part of `assist-web.el` | one proposal, its confirmation, requests in flight | propose, tap, tap again, cancel, look away, expiry, result, dismiss | callbacks between the two taps, approvals answered late, a draft decided on both sides |
| SMS alerts, `openrc-init.el` | signal hints, the one alert query | signal, query, vibrate | signals during a query, a restart between claim and vibration |
| Config channel, `channel.py`, `apply.py`, `config_repo.py` | git history of `agent.el`, its working tree, the migration mark; the file on the phone | apply, restore, undo, rollback, namespace migration | two stores with no common transaction: refused, lost and late writes, failed commits, crashes between the two |
| Stream server, `app.py` | the single-flight lock and its queue, worker and pump threads, the generator | chat, rollback, clear, forget; disconnects, budgets, exit | a coroutine can be cancelled and its thread cannot; the lock must outlive the thread and still be given up |
| Assist web client, `assist-web.el` | run queues, streams, recoveries, caches, approvals, drafts | send, stop, recover, approve, review | overlapping requests, stale answers, recovery of a run whose answer was lost |
| Chat client, `chat.el`, `phone-sms-chat.el`, `emacsos-assist.el` | one stream process, the transcript, its file | send, abort, roll back, new chat | sentinel and filter against a cancelled turn |
| Call bridge, `call_bridge.py` | the session lock, the AT and PCM ports, a WebSocket, three queues | hand a ringing call to Assist, answer, pass audio both ways, hang up, clean up | four threads on two bounded queues, commands whose answer is lost, a modem the user's call screen uses too; every exit must free the bridge |
| Calls, `phone-call.el`, `openrc-call-root` | the call state, dial confirmation, audio session | dial, answer, hang up, audio up and down | modem polls against taps |
| Network, `network.el`, `openrc-network-root`, `openrc-wifi-connect-root` | scan, join in progress, saved profiles | scan, join, forget | a failing join must leave the former connection |
| Power and session, `openrc-session`, `openrc-session-power`, `openrc-power-monitor`, `openrc-suspend-root` | the supervised processes, the suspend request | restart, display off, suspend, wake | a restart during a suspend, a crash loop |
| Install and update, `openrc-update-root`, `wvkbd-transaction-root`, `openrc-install-root` | staged trees, a transaction record | stage, swap, check, roll back | a power cut between any two renames |
| Swipe learning, `swipe-learning-collector.py`, `swipe-learning.el` | a private directory: journal, corrections, exports, budgets, enabled epoch, status | collect, enable, disable, show, export, erase | a kill or a power cut between any two file-system calls; a collector of an epoch that is over; data that comes back after an erase |
| Git projects, `assist-web-git.el`, `assist-web-git-helper.py` | clones and branches | clone, publish, refresh | one of several steps failing |
| Notifications, home, shell, build and previews | display state, or none | | `PROJECT.json` lists them with the reason they are left out |

How they meet: taps and callbacks run on Emacs's one thread, so each handler is
an action; helpers, the bridge, the server's coroutines and its threads interleave
step by step.  Where a call can be answered after its caller gave up, the model
has a separate variable for what is still under way (`call`, `wire`, `calls`).

## Modules

**`SmsOutbox`** (abstract).  What the phone promises about an outgoing message:
an identity is claimed once for one body, accepted at most once, given one verdict
that is true, and told only what is recorded.

**`SmsJournal`**.  `openrc-sms-root send`.  A process per element of `Procs`; `pc`
follows `main` from the request to the printed line.  `row` is the table
`attempts`, `lock` the flock, `created` and `attempt` are the helper's own locals
that decide what its catch-all handlers may say.  `ClaimIdentity` and `LearnCreated`
are apart because the alarm can fire between the committed INSERT and the return;
`call` is apart from `pc` because a Send survives the process that issued it.
`Crash` and `Alarm` are enabled at every step the code leaves open to them.
It implements `SmsOutbox` (`ImplementsOutbox`: claims and verdicts are the row,
the accepted messages the modem's log, what is told the printed lines).

**`SmsInbox`**.  The collection pass with which every receipt query begins, run
by two callers side by side, and the alert Emacs raises.  `store`, `used` and
`epoch` are ModemManager's; `cursor` and `archive` are durable; a pass holds the
owner name it started with, which is what makes a late `Delete` harmless.

**`SmsHandoff`**.  `sync_once` and `poll_loop` of `sms_forward.py` with the
`receipts` and `ack` operations.  `last_offered` is kept as an order only.

**`SmsRelay`**.  `SmsInbox` and `SmsHandoff` together, an incoming message on its whole
way.  They meet twice: capturing a new message adds the row the bridge will
offer (`Collected`), and the bridge's query, which it makes only between two
batches, begins with a collection pass and goes on to the rows due (`StartPoll`,
`Polled`).  Every other step is a step of one part that leaves the other alone.

**`SmsProposal`**.  `phone-sms.el` with the send operation of `openrc-init.el` and
the draft review of `assist-web.el`, composed with the `SmsOutbox` that
`SmsJournal` implements.  `state`, `shown`, `prop`, `confirm`, `rejecting` are the
variables of `phone-sms.el`; `calls` holds the requests whose callback is to come;
`lastTap` and `attempted` are history variables of the properties.

**`ConfigChannel`**.  `channel.py`'s tools and migration, `apply.py` and
`config_repo.py`, and the rollback of `app.py`.  A body is a text and whether it
has legacy symbols; texts in `Torn` are incomplete Lisp.  An operation is a
transaction `op` that goes through *send*, *record* and, for a migration, *clear*:
between any two the server may crash, and what was sent and given up stays in
`wire` and may be performed later.

**`StreamTurn`**.  `app.py`'s single flight.  `phase` is where a request's coroutine
is, `worker` its call on the default executor, `pump` its one-thread executor's
queue, `gen` the agent library's generator, which holds a lock of its own while
it is open.  It explains why `ConfigChannel` may take one operation at a time.

**`ThreadFifo`** (abstract).  What a thread promises: messages reach the server in the
order they were sent, each only when its predecessors have ended or were refused
for good, and leave the thread's queue once, after that.

**`AssistQueue`**.  The run queue of one canonical thread in `assist-web.el`.  `view` is
the buffer: `queue` (entries with the code's states and receipts), `draft` (the
cache file), `post`, `stream`, `join` (the busy check of an active Run), `recon` (the
reconciliation under way and whether it is still the latest refresh), and the three
recovery flags.  Commands, replies and restarts are actions; the functions they
call one after the other (`pump-posts`, `start-next-observation`,
`reconcile-when-settled`, ...) are operators on `view`, composed in that order, each
with the outcome of its own cache write.  `run` and `late` are the server;
`learned`, `snapshot` and `dismissed` are history for the properties.
It implements `ThreadFifo` (`FifoPromise`): accepted and over are the server's, sent the
user's, retired what the *saved* queue no longer holds.

**`SwipeStore`**.  `swipe-learning-collector.py`: the collector (`off`, `starting`,
`draining`, `admitted`, `storing`) and the four commands that write, over one
directory.  The code under the store's lock becomes a *plan*, the sequence of
file-system calls it will make, which `Step` performs one at a time.  `dir` is the
directory processes see; `held` is the set of directories a power cut may leave.
`Fail`, `Kill` and `PowerCut` strike at any step and inside a write, and each
operation begins with the recovery of temporaries (`Recover`), which can be cut
itself.  Sizes are in lines.  A collector holds `collector.lock` before it gets the
store's lock (`Launch`, then `Start`); in between, Show goes by the status its predecessor
left (a finding).  `MistakenOnlyAtStart` says that Show is wrong only then.

**`CallBridge`**.  `call_bridge.py`.  `owner` and `pc` are the watcher task that has the
session lock and where its session is; `receiver`, `sender` and `pump` are the
session's threads, which meet it only in `controls`, `uplink` and `downlink`.  `put` of
the downlink queue is three steps, as in the code, because the sender may empty the
queue between them.  `line` is the modem's view of each call, which the caller and
the user at the call screen change too; `kept` is what a session may leave
on the modem and why: a call or PCM it was told to drop and did not, and `"unheard"`, PCM
whose registration it carried out but nobody learned of, so that nobody takes it back
(a finding).  A handshake that fails leaves the session before its `try` (`Escape`), and
what it had open is closed when Python collects it (`Collect`).

Each `MC*.tla` names the values of its `.cfg`; each `.cfg` names its bounds.  `MCSmsSend`
has three independent parts, `SmsProposal`, `SmsJournal` and `SmsHandoff`: `part` says which of
them a behaviour is about, and the other two stay where they start.

## Runs

| Run | Instance | Checks |
|---|---|---|
| `sms_send` | the journal: two helpers, every choice of two identities and two bodies | `AtMostOnce`, `HonestVerdict`, the refinement `ImplementsOutbox` |
| | the handoff: three rows, one refused for good, one receipt a query, one fault | `AckTruthful`, `EveryReceiptLands` |
| | the proposal: one text, one draft, two proposals, two faults | `ProposalLeaves` (`TwoTaps`, `RetainedUntilAck`), `RejectedNeverSent`, `HonestScreen`, `SendingEnds` |
| `sms_inbox` | two passes with batches of one leaf, two messages, one of them unreadable and one that stays in the modem, hints, one modem restart, one fault | `OncePerMessage` (archived once, announced once), `NothingLost`, `EveryMessageLands` (every readable message is archived, every alert claimed) |
| `config_channel` | three texts, one of them incomplete, with and without legacy symbols; five commits, two faults | `Aligned`, `ChatFenced`, `UndoMoves` |
| `config_undo` | two incomplete texts, no fault | `UndoEscapes`, which is *violated* (see the findings) |
| `stream_turn` | two chats and one plain operation, any client of which may go | `SingleFlight`, `GeneratorReleased`, `EveryRequestEnds` |
| `assist_queue` | two messages (the code's queue limit), one handler that finds the cache unwritable, restarts without bound | `FifoPromise`, `CacheIsHonest`, `RetiredIsShown`, `NeverPostedAgain` |
| `assist_pass` | the same without a fault | `PassIsUnderWay`, which is *violated* (see the findings) |
| `swipe_store` | two collectors, two commands, two gestures, a correction and a malformed datagram, two faults | `Recoverable`, `ErasedStaysErased`, `BudgetCovers`, `EpochFence`, `FeedbackKept` |
| `swipe_fatal` | the same with one collector | `FeedbackIsFatal`, which is *violated* (see the findings) |
| `swipe_ready` | two collectors, one command, no fault | `CapturingIsReady`, which is *violated* (see the findings) |
| `call_bridge` | two calls, queues of one frame, two frames each way and two controls a call, one fault | `ExitReleases`, `AudioFlows`, `TroubleEnds` |
| `call_exit` | one call, one control, no audio, one fault | `EveryExit`, which is *violated* (see the findings) |

Every module of a passing run also has a type invariant.  For every property of the passing runs
`PROJECT.json` names a mutant, a definition changed as a plausible bug in the code
would change it (`...Mutant of...` in the modules), under which the property fails.

*Bounds.*  Two helpers suffice for a conflict over an identity, over the flock, and
over a verdict, because a helper interacts with the others only through one row
and one lock; the proof removes the bound.  The inbox needs two messages and two
paths for a path to be reused, one restart for a renaming, and a batch smaller
than the store for starvation.  The handoff needs one refused row in front of
two others with a limit of one.  A proposal's races are between a proposal and
the one that replaced it, so two; `MaxFaults = 2` lets a lost answer meet a
restart.  `QueueLimit = 2` is the code's own, and two messages are what a queue can hold;
later messages only meet what earlier ones left.  With `MaxFaults = 2` the properties
hold as well (320,000 states, four minutes).  Five commits give a migration, a torn commit and undo past both.  A third
request in `stream_turn` waits behind one that is being cancelled.  In
`swipe_store` two commands and two sessions let an export, an erasure or a new epoch
fall into a collector's admission and its append, and two faults let a recovery be
cut after the operation it recovers; limits of one or two lines make every
compaction, pruning and budget bite; an export that is disabled and then erased needs three
commands, so of the erasure of export temporaries only `ErasureHolds` speaks for all orders.  In `call_bridge` two frames overflow a queue
of one, two controls put a hangup behind an answer, and the second call meets what
the first one left.  All bounds are
constants (`Max...`, `Limit`, `Batch`) in guards or, for histories, in the actions
that start an operation.

*Deadlock* is checked in every run but those of three modules: in `AssistQueue` a user with both
messages retired has nothing left to do, and after the last command of `SwipeStore` or the
last call of `CallBridge` nothing need happen.  `StreamTurn` has an explicit final step
(`Finis`), and so has the journal of `sms_send`, where each helper runs once (`Quiesced`).

*Fairness.*  `SmsInbox`: both callers return on a timer
(the bridge's poll, Emacs's alert timer), and a readable leaf asked for again and
again is answered once; the latter is strong fairness on reading that path, since
a single read may time out.  `SmsHandoff`: `poll_loop` never ends and each of its
calls has a timeout; verdicts have no fairness, as a dead claimant never gives one.
`SmsProposal`: the answer to an approval and a helper's own work, both with
timeouts; the user has none.  `StreamTurn`: the event loop runs what is ready and
timers fire; *threads have none*, so `EveryRequestEnds` rests on the deadlines and
the process exit alone.  `CallBridge`: the session's own steps, whose waits are bounded
by timeouts except the one for a control, which is disabled while there is none; and
the pump's queue and write steps.  A read of the modem, a frame from Assist and
a send of audio may take for ever, so `TroubleEnds` does not rest on them.
In `sms_send` the fairness of a part is asked where that part moves.  `SmsJournal`, `ConfigChannel`,
`AssistQueue` and `SwipeStore` are checked for safety only.

## Findings

`config_repo.py:463` says of an incomplete config that undo is to "use exact bytes so
undo can still escape the broken config".  The rollback takes the nearest version with other bytes
and appends it to the history.  After two different incomplete configs, undo
writes the first back over the second, and the next undo the second over the
first: `UndoEscapes` fails, while the migration before every chat turn refuses the
incomplete config.  The agent's tools cannot help, because no agent runs.

`assist-web.el` calls `manual-recovery-active` "non-nil during the one recovery pass begun by
explicit Refresh" (1709).  A pass can outlive all its work.  Message A's stream has
ended, B waits, Emacs restarts: recovery is required, Refresh begins a pass, A's
exact GET verifies it.  Now `pump-posts` may not post B because recovery is required,
and the reconciliation that would end the recovery waits until B is settled too.
Nothing is under way, the flag stays set, and Refresh does nothing while it is set.
The queue of two is full, so nothing can be sent either, and a further restart ends
in the same place.  `assist_pass` finds it in eleven steps.

`docs/2026-09-18-swipe-correction-feedback-integration.org:175` says that "Every
persistence exception for a valid admitted feedback record is fatal."  Before a
correction is stored, `append` recovers the temporaries other operations left.  An
`OSError` there is an ordinary one to `collect` (1208), which goes on: the correction
is gone and Show still says capturing.  `swipe_fatal` finds it; `FeedbackKept`
says that a failure of the correction's own replacement does end the collector.

Line 205 of the same document: "Neither =capturing= nor =ready= is observable before the
complete snapshot is queued."  Show says capturing when the status file names the enabled epoch
and `collector.lock` is held (`_capture_status_unlocked`, 1051).  A collector that ends leaves
that file behind, and the next one of the same epoch holds `collector.lock` (1000) before it has
the store's lock (1114) and sends its snapshot (1126), which may also fail.  `swipe_ready`
finds it in six steps; `OnlyStartersAreMistaken` proves that it is the only way for Show to be wrong.

`docs/2026-07-28-voice-call-p3-bridge.org:53`: "Every exit closes the WSS client, stops PCM,
releases ttyUSB2, and sends the modem hangup only for the bridge-owned call."  `call_exit` refutes
two clauses of it, and TLC stops at whichever it meets first.

* The modem carries out AT+CPCMREG=1 and the reply is lost.  `_command` raises at 121, outside the
  `try` of `start_pcm`, so `pcm_started` stays `False` and the cleanup leaves out `stop_pcm` (406-408):
  the registration stays and nobody takes it back.
* The user picks up while Assist decides.  The bridge's ATA is refused, but the call counts as answered
  since before it (373), and the cleanup's AT+CHUP (411-413), which names no call, ends the user's.

The other two clauses fail on the exits before the session's `try`: when the handshake or the ring
fails (358-362), the AT port and the socket stay open until Python's cycle collector closes
them, and the next call's exclusive open of ttyUSB2 fails.  `ExitReleases` is what does hold, with
these exceptions by name: `escaped` and `"unheard"`.

## Observations

What the models showed of the code that contradicts no promise of it.

* `call_bridge.py`: ATA names no call: of two that ring it may take the other.  A session
  does not notice that the caller hung up; it ends with Assist's hangup or a failure.  A second
  control at the poll hides a hangup behind it until "answered" has been sent.
* `swipe-learning-collector.py`: Show and erase probe the collector's lock, and a
  collector that starts in that moment reports another one active.  A temporary
  export cut between two episodes passes for a whole one and is published by the
  recovery.  A correction after the write budget is spent is skipped silently.

## What is proved

For every value of the constants, from the assumptions the modules state:

* `SmsJournalProofs`: `TypesHold`, `NeverTwice`, `SendsWhatIsRecorded`,
  `VerdictsAreTrue`, `RepliesAreRecorded`, `VerdictsAreFinal`, and
  `HelpersImplementOutbox`, the refinement.  None of the safety properties is
  inductive.  The invariant adds that an identity has one claimant whose body
  is the row's (`OneClaimant`), that only a claimant with its flag raised has a
  call on the bus (`CallsClaimed`), that the log is the accepted calls, once each
  (`LogOfCalls`), that nothing is printed early (`Quiet`), and that what a
  claimant is *about* to record agrees with its call (`Verdict`).  The flag is
  the crux: "not sent" may be said only while the call cannot exist.
* `SmsInboxProofs`: `OnceEach` (`OncePerMessage`), `LosesNothing` (`NothingLost`) and
  `TypesHold`.  What a pass has read is what its path still names, unless the other
  pass deleted it, while the owner it captured is alive (`InHand`); that owner
  is what makes deleting safe.  A message not yet claimed is one to announce
  (`Fresh`), and what is announced or about to be is claimed (`Announced`, `Pending`).
  `Renamed` says what a modem restart does to the store, `Taken` what a query claims.
  The module also holds the proofs about `SmsHandoff`: `AcksAreTrue` (`AckTruthful`) and
  `HandoffTypesHold` (`HandoffTypeOK`).  What is about to be acked is on the server
  (`InBatch`), and the types rest on a renumbering that never exceeds the number of
  rows (`Numbering`).  And those about both together, `SmsRelay`: `RelayParts` says that
  the composition implements either part, so that what is proved of them holds of it,
  and `ServerHoldsArchive` (`ServerMirrorsArchive`) that the server never holds an
  incoming message that is not archived, and once nothing is due holds each by one
  receipt.  The invariant: one incoming row for each archived message, and every receipt
  on the server, the network or in hand is of a row there is and of its direction
  (`RelayInv`, `Genuine`); the counting is an injection from receipts to rows.
* `SmsProposalProofs`: `TapsAndAcknowledgements` (`ProposalLeaves`), `RejectionHolds`
  (`RejectedNeverSent`), `ScreenIsHonest` (`HonestScreen`), `TypesHold`.  Verdicts agree with the
  modem, and journal and helpers with each other (`Journal`); a proposal is confirmed
  at most once, and started for what it showed (`Attempts`); an answer on its way
  is still true (`Answers`); a draft whose rejection is under way stays on the screen
  and out of every helper's hands (`Rejections`).
* `ConfigChannelProofs`: `PhoneMatchesHistory` (`Aligned`), `AgentIsFenced`
  (`ChatFenced`), `UndoChangesMeaning` (`UndoMoves`), `TypesHold`.  The invariant: who runs which
  transaction (`Owner`), the mark is set before a migration is sent and cleared
  after nothing is owed (`Marked`), with nothing outstanding the phone holds what
  is recorded or about to be and no write is under way (`Known`), and an undo
  under way moves (`Moving`).  The bound needs `Sized`: there is room for a transaction
  before it begins, and only a migration, which need not wait for room, adds one more.
* `StreamTurnProofs`: `OneFlight` (`SingleFlight`), `QueueReleased`
  (`GeneratorReleased`), `TypesHold`.  The invariant is per request: past the lock means
  holding it (`Holding`), which calls the pump can hold in which phase (`Threads`),
  a result to take means an idle pump (`Taken`), and an open generator has its close
  ahead of it (`Entered`).  The lock's queue holds each waiting request once (`Waiting`).
* `AssistQueueProofs`: `KeepsThePromise`, the refinement `FifoPromise`; `AcceptedOnce`
  (`NeverPostedAgain`), `CacheStaysHonest` (`CacheIsHonest`), `RetiredStaysShown` (`RetiredIsShown`),
  `TypesHold`.  `Sound` relates a view to what the server has (the `world`): every entry, resident or
  cached, is `Honest`; queue and cache hold the same messages in the order sent
  (`Parallel`, `Sorted`); the POST under way is cached as such, and it and the
  abandoned ones come after messages that are done with (`Posting`, `LateFenced`);
  what has left the queue is done with (`Gone`).  A handler is a composition of
  operators on the view, so each operator has a lemma that it keeps `Sound`, and
  the handlers follow.  A step maps to a stutter or one step of `ThreadFifo`.
* `SwipeStoreProofs`: `ErasureHolds` (`ErasedStaysErased`), `BudgetIsCharged` (`BudgetCovers`),
  `OnlyStartersAreMistaken` (`MistakenOnlyAtStart`), `FenceHolds` (`EpochFence`), `CorrectionsAreKept`
  (`FeedbackKept`), `FilesRecover` (`Recoverable`), `TypesHold`.  Every directory a power cut may leave is `Fine`: whole, its
  budget covers what was spent, and clean once wiped (`Sound`).  A step is `Good` when
  all it may leave is fine, and `Planned` says for each job that whatever is still ahead of its
  plan keeps it so: a budget is durable before the line it pays for (`Spending`), an
  epoch's marker is written only under the lock (`Enabling`, `Matched`).
  That the files can be read is a second invariant over the first, `Readability`: every
  directory a power cut may leave is `Legible` (its whole journal lines are `Paired`, the
  aggregate and the exports are whole), and the plan is `Careful`: its steps are `Tame`,
  or publish or rename a temporary that is `Settled`, written in full with only syncs
  since.  It rests on what the writers compute: a line that is accepted keeps
  the journal paired, so does a compaction, and a snapshot of a paired
  journal is whole (`AcceptedPairs`, `CompactedPairs`, `SnapshotWhole`), whatever its length.
* `CallBridgeProofs`: `SessionsRelease` (`ExitReleases`), `AudioStaysFresh` (`AudioFlows`),
  `TypesHold`, for queues of any depth.  What is open follows from where the session is
  (`Opened`, `Registered`, `Taken`); both queues hold the newest frames, numbered without
  gaps, but for the one the pump is about to put (`UplinkOrder`, `DownlinkOrder`).

`HonestReply` and `VerdictFinal` of `SmsJournal` are stated and proved only
(`RepliesAreRecorded`, `VerdictsAreFinal`).  In the run `ImplementsOutbox` covers them, except that
`told` of `SmsOutbox` has no body: that a helper speaks of its *own* text is in `RepliesAreRecorded` only.
`SmsRelay` has no configuration either: with both parts the interesting instances have
millions of states, and its two theorems need none.

Only model-checked: liveness (`EveryMessageLands`, `EveryReceiptLands`, `SendingEnds`,
`EveryRequestEnds`, `TroubleEnds`), which the prover does not do.  The five runs that expect a violation refute their properties, and are
counterexamples, not proofs of anything general.

## Assumptions and abstractions

* SMS: a number and text are one value; parsing is left out.  A `SmsInbox` message
  is its source key; the instance starts without messages older than the alerts
  (`Old`), which only an assignment at capture tells apart.  In `SmsProposal` the names of drafts, texts,
  proposals and "no item" are different values; a helper claims its identity before a later
  look-up of it; a request that timed out and is processed late is processed at the
  moment it is given up; the server rejects only drafts that are pending or approved.  A helper's verdict on input that is
  invalid or times out before the identity is claimed is left out.
* `ConfigChannel`: one operation at a time (`StreamTurn`); tool calls of one turn one
  after the other; a failed read of the repository ends the turn with nothing
  changed; reconciling an uncertain result is the user's act.  Whether Lisp is
  complete is a property of the text.
* `AssistQueue`: the thread exists already; drafts that create one and their adoption,
  other views of the thread, access denial, identity conflicts, and snapshots
  written by other refreshes are left out.  A terminal event is trusted no more than
  the code trusts it: it may come while the Run is active.  A POST whose answer is
  given up may be processed at any later time; the server makes one Run of a key.
* `StreamTurn`: a client reads or goes away; what a thread does to the phone and the
  history is `ConfigChannel`'s.  A supervisor restarts the server, and the
  requests that died with it are over.
* `SwipeStore`: `Absent` is no content of a file, and a torn line is neither a
  line, nor a pending mark, nor an aggregate.  A compacted journal and an export are
  described by what they hold and in which order (`ByEpisode`), which leaves one
  sequence, and not by the loops that build them.  Changes of the directory reach the disk in order and a file keeps any
  prefix until it is synced; an fsync of the directory makes all of it durable.  The
  temporaries of the two marks (enabled, status) and the cache of the parsed journal
  are left out; byte and count limits are both counts.  The
  store's own count of admitted datagrams is left out: `collect` counts every datagram
  it receives and stops first.
* `CallBridge`: taking the signal and the task's first step are one action; the
  threads of a session that is over hold only closed ports and their own queues and
  are not followed.
* ModemManager, the modem, the file system, the network, git and the agent library are modelled by what the
  code does with them, and their definitions are marked external.

`PROJECT.json` lists the hazards with the property of each.  Three have none: tool
calls that overlap within a turn (the agent library decides), a client that stays
and never reads, and the call bridge's exits before its `try`, where the model does what the
code does and the finding tells it.

## Not modelled

`PROJECT.json` names every component with its status.  The parts with state of
their own that are left: the drafts of `assist-web.el` before their thread exists,
`phone-call.el`, `chat.el`, Wi-Fi, power and session supervision, the install and update
transactions, and the git projects of Assist.  The others are encoders, display,
prose for the agent, and scripts run by hand.

## Plan

Modules are listed in the order of what an error in them costs.

1. Proofs.  Every safety and action property of the passing runs is proved; what is left
   is liveness, which stays with TLC.
2. Modules, were the project to grow: `UpdateTransaction` (after a power cut at any step
   the old version or the new one, whole), `AssistAdoption` (drafts that create a thread,
   over `AssistQueue`), `CallSession` (`phone-call.el`, beside `CallBridge` on one modem),
   `ChatClient` over `StreamTurn`, `WifiJoin`.
