------------------------------ MODULE CallBridge -----------------------------
(***************************************************************************)
(* The call bridge (call_bridge.py): one daemon that hands an incoming     *)
(* call of the SIM7600 to the Assist server.  A watcher task per signalled *)
(* call takes the one session lock; the session then runs in a thread of   *)
(* its own and starts three more: the receiver and the sender of the       *)
(* WebSocket, and the pump that is clocked by the modem's PCM.  They meet  *)
(* in three queues: controls, uplink (JitterBuffer) and downlink           *)
(* (DownlinkQueue).  The modem is shared with the phone's own call screen. *)
(***************************************************************************)
EXTENDS Integers, Sequences

CONSTANTS
  MaxCalls,       \* bound: calls ModemManager signals
  UplinkDepth,    \* UPLINK_DEPTH, frames of speech kept for the modem
  DownlinkDepth,  \* DOWNLINK_DEPTH, frames of the modem kept for Assist
  MaxSpeech,      \* bound: frames Assist sends in a call
  MaxPcm,         \* bound: frames the modem delivers in a call
  MaxControls,    \* bound: answer, hangup and flush messages in a call
  MaxFaults       \* bound: failures of the modem, its ports and the network

ASSUME BoundsAssumption ==
  /\ MaxCalls \in Nat \ {0} /\ UplinkDepth \in Nat \ {0} /\ DownlinkDepth \in Nat \ {0}
  /\ {MaxSpeech, MaxPcm, MaxControls, MaxFaults} \subseteq Nat

Calls == 1 .. MaxCalls
NoCall == 0

VARIABLES
  line,      \* line[c]: what the modem does with call c
  owner,     \* the call whose watcher task holds the session lock (_active)
  pc,        \* where that and the session in it, is
  answered, started,  \* the session's flags of the same names
  at,        \* this daemon has ttyUSB2 open, exclusively
  port,      \* ... and ttyUSB4
  pcm,       \* the modem has PCM registered (AT+CPCMREG)
  sock,      \* the WebSocket is open
  escaped,   \* the last session left before its try block
  kept,      \* "call", "pcm": told to drop it, the modem did not; "unheard": PCM it
             \* registered without the session's learning of it
  controls,  \* WsLink._controls
  receiver, sender, pump,  \* where the three threads are
  uplink, downlink,  \* frames, numbered as they come in either direction
  speech, frames,  \* frames received from Assist and read from the modem
  mark,      \* speech at the last flush_uplink
  said, faults

env == <<line, owner>>
session == <<pc, answered, started, escaped>>
wires == <<at, port, pcm, sock, kept>>
threads == <<receiver, sender, pump>>
audio == <<uplink, downlink, speech, frames, mark>>
vars == <<env, session, wires, controls, threads, audio, said, faults>>

Alive == [receiver |-> {"recv"}, sender |-> {"get", "send"},
          pump |-> {"read", "put", "drop", "put2", "pop", "write"}]
Setup == {"ata", "register", "poll", "tell"}
Teardown == {"stop", "join", "unregister", "chup", "close", "bye"}
Stopping == pc \in Teardown \ {"stop"}   \* PcmPump._stopped

TypeOK ==
  /\ line \in [Calls -> {"none", "ringing", "bridge", "human", "over"}]
  /\ owner \in Calls \cup {NoCall} /\ (owner = NoCall <=> pc = "idle")
  /\ pc \in {"idle", "dbus", "factory", "open", "reopen", "ring", "wait", "talk"}
              \cup Setup \cup Teardown
  /\ {answered, started, at, port, pcm, sock, escaped} \subseteq BOOLEAN
  /\ pc \in {"wait", "talk"} \cup Setup \cup Teardown => sock /\ (at \/ pc = "bye")
  /\ kept \subseteq {"call", "pcm", "unheard"}
  /\ controls \in Seq({"answer", "hangup"})
  /\ receiver \in Alive.receiver \cup {"off", "dead"}
  /\ sender \in Alive.sender \cup {"off", "dead"}
  /\ pump \in Alive.pump \cup {"off", "dead", "over", "full"}
  /\ uplink \in Seq(1 .. MaxSpeech) /\ Len(uplink) <= UplinkDepth
  /\ downlink \in Seq(1 .. MaxPcm) /\ Len(downlink) <= DownlinkDepth
  /\ mark \in 0 .. speech
  /\ speech \in 0 .. MaxSpeech /\ frames \in 0 .. MaxPcm
  /\ said \in 0 .. MaxControls /\ faults \in 0 .. MaxFaults

Init ==
  /\ line = [c \in Calls |-> "none"]
  /\ owner = NoCall /\ pc = "idle"
  /\ answered = FALSE /\ started = FALSE /\ escaped = FALSE
  /\ at = FALSE /\ port = FALSE /\ pcm = FALSE /\ sock = FALSE /\ kept = {}
  /\ controls = <<>>
  /\ receiver = "off" /\ sender = "off" /\ pump = "off"
  /\ uplink = <<>> /\ downlink = <<>>
  /\ speech = 0 /\ frames = 0 /\ mark = 0 /\ said = 0 /\ faults = 0

Fault == faults < MaxFaults /\ faults' = faults + 1
Up == {c \in Calls : line[c] \in {"bridge", "human"}}
Ringing == {c \in Calls : line[c] = "ringing"}

-----------------------------------------------------------------------------
(* The modem, its callers and the phone's own screen (external).           *)

\* The phone's user takes the call on the call screen (phone-call.el), which
\* has an AT port of its own.
PickUp(c) ==
  /\ line[c] = "ringing" /\ Up = {}
  /\ line' = [line EXCEPT ![c] = "human"]
  /\ UNCHANGED <<owner, session, wires, controls, threads, audio, said, faults>>

\* The caller, or the user on the call screen, ends it.
RemoteEnds(c) ==
  /\ line[c] \in {"ringing", "bridge", "human"}
  /\ line' = [line EXCEPT ![c] = "over"]
  /\ UNCHANGED <<owner, session, wires, controls, threads, audio, said, faults>>

-----------------------------------------------------------------------------
(* The watcher (RingWatcher).                                              *)

\* ModemManager signals a call, and a task of its own looks at it.  The lock is
\* tested and taken with no await in between: a call that comes while another
\* has the bridge is ignored.
HandleCall(c) ==
  /\ line[c] = "none" /\ \A d \in 1 .. c - 1 : line[d] # "none"
  /\ line' = [line EXCEPT ![c] = "ringing"]
  /\ \/ owner # NoCall /\ UNCHANGED <<owner, pc>>
     \/ owner = NoCall /\ owner' = c /\ pc' = "dbus"
  /\ UNCHANGED <<answered, started, escaped, wires, controls, threads, audio, said,
                 faults>>

\* The task ends, however its session did, and the lock is free.
Leave == owner' = NoCall /\ pc' = "idle"

\* The D-Bus reads: they fail, the call is outgoing or has no usable caller, or
\* it gets a session.
Examine ==
  /\ pc = "dbus"
  /\ Leave \/ (pc' = "factory" /\ UNCHANGED owner)
  /\ UNCHANGED <<line, answered, started, escaped, wires, controls, threads, audio, said, faults>>

\* The exclusive AT port is refused while an earlier session's is open.
Factory ==
  /\ pc = "factory"
  /\ \/ at /\ Leave /\ UNCHANGED <<at, faults>>
     \/ ~at /\ Fault /\ Leave /\ UNCHANGED at
     \/ ~at /\ at' = TRUE /\ pc' = "open" /\ UNCHANGED <<owner, faults>>
  /\ UNCHANGED <<line, answered, started, escaped, port, pcm, sock, kept, controls,
                 threads, audio, said>>

-----------------------------------------------------------------------------
(* The session (BridgeSession.run) up to its try block (WsLink.open).      *)

\* An exception before the try block: nothing is closed.
Escape == Leave /\ escaped' = TRUE

\* One more handshake after one that timed out.
Connect ==
  /\ pc \in {"open", "reopen"}
  /\ \/ sock' = TRUE /\ pc' = "ring" /\ UNCHANGED <<owner, escaped, faults>>
     \/ pc = "open" /\ Fault /\ pc' = "reopen" /\ UNCHANGED <<owner, escaped, sock>>
     \/ Fault /\ Escape /\ UNCHANGED sock
  /\ UNCHANGED <<line, answered, started, at, port, pcm, kept, controls, threads, audio, said>>

\* The ring goes out and the threads start.
Ring ==
  /\ pc = "ring"
  /\ \/ /\ pc' = "wait" /\ receiver' = "recv" /\ sender' = "get"
        /\ UNCHANGED <<owner, escaped, faults>>
     \/ Fault /\ Escape /\ UNCHANGED <<receiver, sender>>
  /\ UNCHANGED <<line, answered, started, wires, controls, pump, audio, said>>

\* Python's collector finalizes what an escaped session left open, sooner or
\* later.
Collect ==
  /\ escaped /\ pc \in {"idle", "dbus"}
  /\ at' = FALSE /\ sock' = FALSE /\ escaped' = FALSE
  /\ UNCHANGED <<env, pc, answered, started, port, pcm, kept, controls, threads, audio, said, faults>>

-----------------------------------------------------------------------------
(* The session's control loop (BridgeSession.run, SerialCallControl).      *)

\* The first control decides: an answer, and the call counts as answered from
\* here on, or a hangup.
Take ==
  /\ pc = "wait" /\ controls # <<>>
  /\ controls' = Tail(controls)
  /\ \/ Head(controls) = "answer" /\ answered' = TRUE /\ pc' = "ata"
     \/ Head(controls) = "hangup" /\ pc' = "stop" /\ UNCHANGED answered
  /\ UNCHANGED <<env, started, escaped, wires, threads, audio, said, faults>>

\* Mutant of Answer: the call counts as answered once ATA succeeded.
AnswerFirst ==
  /\ pc = "ata"
  /\ \/ /\ Up = {}
        /\ \E c \in Ringing : line' = [line EXCEPT ![c] = "bridge"]
        /\ \/ pc' = "register" /\ UNCHANGED <<answered, faults>>
           \/ pc' = "stop" /\ answered' = FALSE /\ Fault
     \/ /\ \/ (Up # {} \/ Ringing = {}) /\ UNCHANGED faults
           \/ Fault
        /\ answered' = FALSE /\ pc' = "stop" /\ UNCHANGED line
  /\ UNCHANGED <<owner, started, escaped, wires, controls, threads, audio, said>>

\* ATA knows no call: it takes what rings, unless a call is up.  It may work
\* and the modem's VOICE CALL: BEGIN not be seen in time.
Answer ==
  /\ pc = "ata"
  /\ \/ /\ Up = {}
        /\ \E c \in Ringing : line' = [line EXCEPT ![c] = "bridge"]
        /\ (pc' = "register" /\ UNCHANGED faults) \/ (pc' = "stop" /\ Fault)
     \/ /\ \/ (Up # {} \/ Ringing = {}) /\ UNCHANGED faults
           \/ Fault
        /\ pc' = "stop" /\ UNCHANGED line
  /\ UNCHANGED <<owner, answered, started, escaped, wires, controls, threads, audio, said>>

\* AT+CPCMREG=1, then the PCM port (start_pcm).  It fails before the modem
\* registers; or after, the reply being lost, and then nobody tells the modem to
\* take it back; or at the port, and then the modem is told and does so or not.
StartPcm ==
  /\ pc = "register"
  /\ \/ /\ pcm' = TRUE /\ port' = TRUE /\ started' = TRUE /\ pc' = "poll"
        /\ kept' = kept \ {"unheard"}
        /\ UNCHANGED faults
     \/ /\ Fault /\ pc' = "stop" /\ UNCHANGED <<port, started>>
        /\ \/ UNCHANGED <<pcm, kept>>
           \/ pcm' = TRUE /\ kept' = kept \cup {"unheard"}
           \/ pcm' = FALSE /\ kept' = kept \ {"pcm", "unheard"}
           \/ pcm' = TRUE /\ kept' = kept \cup {"pcm"}
  /\ UNCHANGED <<env, answered, escaped, at, sock, controls, threads, audio, said>>

\* A control that came during the setup: a hangup ends the session before
\* Assist hears of an answered call, anything else is dropped; then the pump
\* starts.
Poll ==
  /\ pc = "poll"
  /\ controls' = IF controls = <<>> THEN controls ELSE Tail(controls)
  /\ IF controls # <<>> /\ Head(controls) = "hangup"
     THEN pc' = "stop" /\ UNCHANGED pump
     ELSE pc' = "tell" /\ pump' = "read"
  /\ UNCHANGED <<env, answered, started, escaped, wires, receiver, sender, audio, said, faults>>

\* "answered" goes out, or the socket raises.
Tell ==
  /\ pc = "tell"
  /\ (pc' = "talk" /\ UNCHANGED faults) \/ (pc' = "stop" /\ Fault)
  /\ UNCHANGED <<env, answered, started, escaped, wires, controls, threads, audio, said>>

\* During the call every control but a hangup is dropped.
Talk ==
  /\ pc = "talk" /\ controls # <<>>
  /\ controls' = Tail(controls)
  /\ pc' = IF Head(controls) = "hangup" THEN "stop" ELSE "talk"
  /\ UNCHANGED <<env, answered, started, escaped, wires, threads, audio, said, faults>>

-----------------------------------------------------------------------------
(* The session's finally block.                                            *)

\* The pump leaves its loop after the frame it is on.
StopPump ==
  /\ pc = "stop" /\ pc' = "join"
  /\ UNCHANGED <<env, answered, started, escaped, wires, controls, threads, audio, said, faults>>

\* The join waits for the pump, or gives up after two seconds.
Join ==
  /\ pc = "join"
  /\ pump \notin Alive.pump \/ pump \in {"read", "write"}
  /\ pc' = "unregister"
  /\ UNCHANGED <<env, answered, started, escaped, wires, controls, threads, audio,
                 said, faults>>

\* What a command of the modem that may fail leaves of thing.
Told(thing) ==
  \/ kept' = kept \ {thing} /\ UNCHANGED faults
  \/ kept' = kept \cup {thing} /\ Fault

\* The PCM port is closed, under a pump that still reads it too, and the
\* registration taken back (stop_pcm).
StopPcm ==
  /\ pc = "unregister"
  /\ pc' = "chup"
  /\ port' = FALSE
  /\ \/ started /\ Told("pcm") /\ pcm' = ("pcm" \in kept')
     \/ ~started /\ UNCHANGED <<pcm, kept, faults>>
  /\ UNCHANGED <<env, answered, started, escaped, at, sock, controls, threads, audio,
                 said>>

\* AT+CHUP ends whatever call is up.
Hangup ==
  /\ pc = "chup"
  /\ pc' = "close"
  /\ \/ /\ answered /\ Told("call")
        /\ line' = [c \in Calls |-> IF c \in Up /\ "call" \notin kept' THEN "over" ELSE line[c]]
     \/ ~answered /\ UNCHANGED <<line, kept, faults>>
  /\ UNCHANGED <<owner, answered, started, escaped, at, port, pcm, sock, controls, threads,
                 audio, said>>

\* Both ports are closed (SerialCallControl.close).
CloseModem ==
  /\ pc = "close"
  /\ at' = FALSE /\ port' = FALSE /\ pc' = "bye"
  /\ UNCHANGED <<env, answered, started, escaped, pcm, sock, kept, controls, threads, audio, said, faults>>

\* The next session gets queues, threads and flags of its own; what is left of
\* this one's threads holds closed ports and a closed socket and is not followed
\* any further.
Fresh ==
  /\ controls' = <<>> /\ receiver' = "off" /\ sender' = "off" /\ pump' = "off"
  /\ uplink' = <<>> /\ downlink' = <<>>
  /\ speech' = 0 /\ frames' = 0 /\ mark' = 0 /\ said' = 0
  /\ answered' = FALSE /\ started' = FALSE

\* call_end goes out or not; then the socket is closed and the task is over.
CloseLink ==
  /\ pc = "bye"
  /\ sock' = FALSE /\ Leave /\ Fresh
  /\ UNCHANGED <<line, escaped, at, port, pcm, kept, faults>>

-----------------------------------------------------------------------------
(* The receiver (run_receiver) and the sender (run_sender) of an open      *)
(* socket.                                                                 *)

\* Mutant of Speech: the frame is not kept when the buffer is full.
SpeechDropsNewest ==
  /\ receiver = "recv" /\ sock /\ speech < MaxSpeech
  /\ speech' = speech + 1
  /\ uplink' = IF Len(uplink) = UplinkDepth THEN uplink ELSE Append(uplink, speech')
  /\ UNCHANGED <<env, session, wires, controls, threads, downlink, frames, mark, said, faults>>

\* A frame of speech: the jitter buffer drops its oldest for it (push).
Speech ==
  /\ receiver = "recv" /\ sock /\ speech < MaxSpeech
  /\ speech' = speech + 1
  /\ uplink' = Append(IF Len(uplink) = UplinkDepth THEN Tail(uplink) ELSE uplink, speech')
  /\ UNCHANGED <<env, session, wires, controls, threads, downlink, frames, mark, said, faults>>

\* flush_uplink: what the buffer holds is not played any more (clear).
Flush ==
  /\ receiver = "recv" /\ sock /\ said < MaxControls
  /\ uplink' = <<>> /\ mark' = speech /\ said' = said + 1
  /\ UNCHANGED <<env, session, wires, controls, threads, downlink, speech, frames, faults>>

\* An answer or a hangup is left to the session.
Control(type) ==
  /\ receiver = "recv" /\ sock /\ said < MaxControls
  /\ controls' = Append(controls, type) /\ said' = said + 1
  /\ UNCHANGED <<env, session, wires, threads, audio, faults>>

\* The connection ends, or a frame has the wrong size.
ReceiverDies ==
  /\ receiver = "recv" /\ sock
  /\ receiver' = "dead" /\ controls' = Append(controls, "hangup")
  /\ UNCHANGED <<env, session, wires, sender, pump, audio, said, faults>>

\* The sender takes the oldest frame.
Get ==
  /\ sender = "get" /\ sock /\ downlink # <<>>
  /\ downlink' = Tail(downlink) /\ sender' = "send"
  /\ UNCHANGED <<env, session, wires, controls, receiver, pump, uplink, speech, frames,
                 mark, said, faults>>

\* The send may take as long as the network does; it ends or raises.
Send ==
  /\ sender = "send" /\ sock
  /\ \/ sender' = "get" /\ UNCHANGED controls
     \/ sender' = "dead" /\ controls' = Append(controls, "hangup")
  /\ UNCHANGED <<env, session, wires, receiver, pump, audio, said, faults>>

-----------------------------------------------------------------------------
(* The pump (PcmPump.run and run_once).                                    *)

\* An exception ends the thread and asks for a hangup (on_failure).
Dies(how) == pump' = how /\ controls' = Append(controls, "hangup")

\* Mutant of Read: the failure is logged only.
ReadQuietly ==
  /\ pump = "read"
  /\ \/ /\ port /\ frames < MaxPcm
        /\ frames' = frames + 1 /\ pump' = "put" /\ UNCHANGED faults
     \/ /\ (~port /\ UNCHANGED faults) \/ (port /\ Fault)
        /\ pump' = "dead" /\ UNCHANGED frames
  /\ UNCHANGED <<env, session, wires, controls, receiver, sender, uplink, downlink, speech, mark,
                 said>>

\* The read blocks until the modem has a frame; it raises when the modem is
\* gone or the port was closed under it.
Read ==
  /\ pump = "read"
  /\ \/ /\ port /\ frames < MaxPcm
        /\ frames' = frames + 1 /\ pump' = "put" /\ UNCHANGED <<controls, faults>>
     \/ /\ (~port /\ UNCHANGED faults) \/ (port /\ Fault)
        /\ Dies("dead") /\ UNCHANGED frames
  /\ UNCHANGED <<env, session, wires, receiver, sender, uplink, downlink, speech, mark, said>>

\* Mutant of Put: the queue has no bound.
PutUnbounded ==
  /\ pump = "put"
  /\ downlink' = Append(downlink, frames) /\ pump' = "pop"
  /\ UNCHANGED <<env, session, wires, controls, receiver, sender, uplink, speech, frames, mark,
                 said, faults>>

\* DownlinkQueue.put, which must never wait for the sender.
Put ==
  /\ pump = "put"
  /\ IF Len(downlink) < DownlinkDepth
     THEN downlink' = Append(downlink, frames) /\ pump' = "pop"
     ELSE pump' = "drop" /\ UNCHANGED downlink
  /\ UNCHANGED <<env, session, wires, controls, receiver, sender, uplink, speech,
                 frames, mark, said, faults>>

\* The oldest frame makes room, unless the sender has emptied the queue since.
Drop ==
  /\ pump = "drop"
  /\ downlink' = IF downlink = <<>> THEN downlink ELSE Tail(downlink)
  /\ pump' = "put2"
  /\ UNCHANGED <<env, session, wires, controls, receiver, sender, uplink, speech,
                 frames, mark, said, faults>>

\* There is room now: the pump is the queue's only producer.
PutAgain ==
  /\ pump = "put2"
  /\ IF Len(downlink) < DownlinkDepth
     THEN downlink' = Append(downlink, frames) /\ pump' = "pop" /\ UNCHANGED controls
     ELSE Dies("full") /\ UNCHANGED downlink
  /\ UNCHANGED <<env, session, wires, receiver, sender, uplink, speech, frames, mark, said, faults>>

\* The frame of speech for the modem, or silence (pop).
Pop ==
  /\ pump = "pop"
  /\ uplink' = IF uplink = <<>> THEN uplink ELSE Tail(uplink)
  /\ pump' = "write"
  /\ UNCHANGED <<env, session, wires, controls, receiver, sender, downlink, speech, frames,
                 mark, said, faults>>

\* It is written at once; the loop goes on unless the session stopped it.
Write ==
  /\ pump = "write"
  /\ \/ /\ port /\ pump' = (IF Stopping THEN "over" ELSE "read")
        /\ UNCHANGED <<controls, faults>>
     \/ /\ (~port /\ UNCHANGED faults) \/ (port /\ Fault)
        /\ Dies("dead")
  /\ UNCHANGED <<env, session, wires, receiver, sender, audio, said>>

-----------------------------------------------------------------------------

Session ==
  \/ Examine \/ Factory \/ Connect \/ Ring
  \/ Take \/ Answer \/ StartPcm \/ Poll \/ Tell \/ Talk
  \/ StopPump \/ Join \/ StopPcm \/ Hangup \/ CloseModem \/ CloseLink
Receiver == Speech \/ Flush \/ ReceiverDies \/ \E type \in {"answer", "hangup"} : Control(type)
Sender == Get \/ Send
Pump == Read \/ Put \/ Drop \/ PutAgain \/ Pop \/ Write

Next ==
  \/ \E c \in Calls : HandleCall(c) \/ PickUp(c) \/ RemoteEnds(c)
  \/ Session \/ Receiver \/ Sender \/ Pump \/ Collect

Spec == Init /\ [][Next]_vars

\* Every wait of the session but those for a control is bounded: handshakes,
\* AT commands and the join by their timeouts, a send by the connection's.  The
\* pump's own steps do not block, and a port write has a timeout; a read of the
\* modem, a frame from Assist and a send of audio may take for ever.
Fairness == WF_vars(Session) /\ WF_vars(Put \/ Drop \/ PutAgain \/ Pop \/ Write)

FairSpec == Spec /\ Fairness

-----------------------------------------------------------------------------
(* Properties.                                                             *)

\* Whatever failed, and at whichever step, no session leaves a port, a socket,
\* PCM or a call behind but for these: the AT port and the socket of one that
\* failed before its try block, a call or PCM the modem was told to drop and did
\* not, and PCM whose registration it did not learn of (run's finally block).
\* The first and the last are the code's own failures: see EveryExit.
ExitReleases ==
  pc \in {"idle", "dbus", "factory"} =>
    /\ ~port
    /\ at \/ sock => escaped
    /\ pcm => kept \cap {"pcm", "unheard"} # {}
    /\ (\E c \in Calls : line[c] = "bridge") => "call" \in kept

\* docs/2026-07-28-voice-call-p3-bridge.org: "Every exit ... stops PCM, ... and
\* sends the modem hangup only for the bridge-owned call."  It is violated:
\* stop_pcm is left out for a registration whose reply was lost, and AT+CHUP
\* ends the call the phone's user took.
EveryExit ==
  [][/\ StopPcm => (pcm' => "pcm" \in kept')
     /\ Hangup => \A c \in Calls : line[c] = "human" => line'[c] = "human"]_vars

\* Audio flows and stays fresh whoever is slow: the pump never fails for a full
\* queue; what it plays was sent after the last flush and is one of the newest
\* UplinkDepth frames; what Assist is sent lags the modem by DownlinkDepth frames
\* at most (JitterBuffer, DownlinkQueue).
AudioFlows ==
  [][/\ pump' # "full"
     /\ Pop /\ uplink # <<>> => /\ Head(uplink) > mark
                                /\ Head(uplink) > speech - UplinkDepth
     /\ Get => Head(downlink) >= frames - DownlinkDepth]_vars

InCall == pc \in {"wait", "talk"} \cup Setup
Trouble ==
  \/ receiver = "dead" \/ sender = "dead" \/ pump \in {"dead", "full"}
  \/ \E i \in DOMAIN controls : controls[i] = "hangup"

\* A session never outlives its connection, its audio or Assist's hangup:
\* whichever thread fails, and whatever else is queued, the bridge is free for
\* the next call in the end.
TroubleEnds == InCall /\ Trouble ~> pc = "idle"
=============================================================================
