--------------------------- MODULE CallBridgeProofs --------------------------
(***************************************************************************)
(* CallBridge for any number of calls, frames, controls and failures, and  *)
(* queues of any depth.                                                    *)
(***************************************************************************)
EXTENDS CallBridge, TLAPS, SequenceTheorems

Outside == {"idle", "dbus", "factory"}
InCallOrAfter == {"wait", "talk"} \cup Setup \cup Teardown
Playing == {"poll", "tell", "talk", "stop", "join", "unregister"}

\* What the session has open, by where it is.  Outside a session only one that
\* left before its try block has left anything.
Opened ==
  /\ pc \in Outside => (at <=> escaped) /\ (sock => escaped)
  /\ pc \notin Outside => ~escaped
  /\ pc \in {"open", "reopen"} => at /\ ~sock
  /\ pc = "ring" => at /\ sock
  /\ pc \in InCallOrAfter => sock /\ (at <=> pc # "bye")
  /\ port => started /\ pc \in Playing
  /\ started => pc \in Playing \cup Teardown
  /\ pump # "off" => pc \in {"tell", "talk"} \cup Teardown

\* The registration is still to be taken back, or the modem kept it, or it is one
\* the session did not learn of.
Registered ==
  pcm => kept \cap {"pcm", "unheard"} # {} \/ (started /\ pc \in Playing)

\* A call the bridge took is still to be hung up, or the modem kept it: the flag
\* is raised before the modem is told to answer.
Taken ==
  /\ pc \in {"ata", "register", "poll", "tell"} => answered
  /\ (\E c \in Calls : line[c] = "bridge") =>
       \/ "call" \in kept
       \/ answered /\ pc \in {"register", "chup"} \cup Playing

\* A queue holds consecutive frames up to the last one.
Numbered(queue, last) == \A i \in 1 .. Len(queue) : queue[i] = last - Len(queue) + i

\* The jitter buffer holds the newest frames of speech, all after the last flush.
UplinkOrder ==
  /\ Len(uplink) <= speech - mark
  /\ Numbered(uplink, speech)

\* The frame the pump has in hand is not in the queue yet.
LastPut == IF pump \in {"put", "drop", "put2"} THEN frames - 1 ELSE frames

\* The downlink holds the newest frames it was given; once the pump made room
\* there is room.
DownlinkOrder ==
  /\ pump # "full"
  /\ pump = "put2" => Len(downlink) < DownlinkDepth
  /\ LastPut \in Nat /\ Numbered(downlink, LastPut)

Devices == Opened /\ Registered /\ Taken
Frames == UplinkOrder /\ DownlinkOrder

IInv == TypeOK /\ Devices /\ Frames

-----------------------------------------------------------------------------
\* What a queue holds after a put, and after a take.
LEMMA Enqueued ==
  ASSUME NEW S, NEW queue \in Seq(S), NEW e \in S
  PROVE  /\ Append(queue, e) \in Seq(S) /\ Len(Append(queue, e)) = Len(queue) + 1
         /\ Len(queue) \in Nat
OBVIOUS

\* Taking the oldest frame leaves a shorter queue of frames.
LEMMA Dequeued ==
  ASSUME NEW S, NEW queue \in Seq(S), queue # <<>>
  PROVE  /\ Tail(queue) \in Seq(S) /\ Len(Tail(queue)) = Len(queue) - 1
         /\ Head(queue) \in S /\ Len(queue) \in Nat \ {0}
OBVIOUS

\* They keep the numbering.
LEMMA Numbering ==
  ASSUME NEW n \in Nat, NEW queue \in Seq(1 .. n), NEW last \in Int, Numbered(queue, last)
  PROVE  /\ Numbered(Append(queue, last + 1), last + 1)
         /\ queue # <<>> => /\ Numbered(Tail(queue), last)
                            /\ Head(queue) = last - Len(queue) + 1
<1>1. Numbered(Append(queue, last + 1), last + 1)
  BY DEF Numbered
<1>2. queue # <<>> => /\ Numbered(Tail(queue), last)
                      /\ Head(queue) = last - Len(queue) + 1
  BY DEF Numbered
<1> QED BY <1>1, <1>2

-----------------------------------------------------------------------------
(* Types: of the session and its devices, of the threads, of the queues.   *)

Places == {"idle", "dbus", "factory", "open", "reopen", "ring", "wait", "talk"}
            \cup Setup \cup Teardown

SessionTypes ==
  /\ line \in [Calls -> {"none", "ringing", "bridge", "human", "over"}]
  /\ owner \in Calls \cup {NoCall} /\ (owner = NoCall <=> pc = "idle")
  /\ pc \in Places
  /\ {answered, started, at, port, pcm, sock, escaped} \subseteq BOOLEAN
  /\ kept \subseteq {"call", "pcm", "unheard"}

ThreadTypes ==
  /\ controls \in Seq({"answer", "hangup"})
  /\ receiver \in Alive.receiver \cup {"off", "dead"}
  /\ sender \in Alive.sender \cup {"off", "dead"}
  /\ pump \in Alive.pump \cup {"off", "dead", "over", "full"}
  /\ said \in 0 .. MaxControls /\ faults \in 0 .. MaxFaults

QueueTypes ==
  /\ uplink \in Seq(1 .. MaxSpeech) /\ Len(uplink) <= UplinkDepth
  /\ downlink \in Seq(1 .. MaxPcm) /\ Len(downlink) <= DownlinkDepth
  /\ mark \in 0 .. speech
  /\ speech \in 0 .. MaxSpeech /\ frames \in 0 .. MaxPcm

\* The rest of TypeOK, what a session in its loop has open, is part of Opened.
LEMMA TypeParts == Opened => (TypeOK <=> SessionTypes /\ ThreadTypes /\ QueueTypes)
BY DEF TypeOK, SessionTypes, ThreadTypes, QueueTypes, Places, Opened, InCallOrAfter

\* The bounds, one by one.
LEMMA Bounds ==
  /\ MaxCalls \in Nat \ {0} /\ UplinkDepth \in Nat \ {0} /\ DownlinkDepth \in Nat \ {0}
  /\ MaxSpeech \in Nat /\ MaxPcm \in Nat /\ MaxControls \in Nat /\ MaxFaults \in Nat
BY BoundsAssumption

\* The modem's calls, and every place of the session.
LEMMA SessionTypesKept == SessionTypes /\ Next => SessionTypes'
<1> SUFFICES ASSUME SessionTypes, Next
             PROVE  SessionTypes'
  OBVIOUS
<1> USE Bounds DEF SessionTypes, env, session, wires, Places, InCallOrAfter, Setup, Teardown, NoCall,
        Calls
<1>1. ASSUME NEW c \in Calls, HandleCall(c) \/ PickUp(c) \/ RemoteEnds(c)
      PROVE  SessionTypes'
  <2>1. CASE HandleCall(c)
    BY <1>1, <2>1 DEF HandleCall
  <2>2. CASE PickUp(c)
    BY <1>1, <2>2 DEF PickUp
  <2>3. CASE RemoteEnds(c)
    BY <1>1, <2>3 DEF RemoteEnds
  <2> QED BY <1>1, <2>1, <2>2, <2>3
<1>2. CASE Examine
  BY <1>2 DEF Examine, Leave
<1>2a. CASE Factory
  BY <1>2a DEF Factory, Leave
<1>2b. CASE Connect
  BY <1>2b DEF Connect, Leave, Escape
<1>2c. CASE Ring
  BY <1>2c DEF Ring, Leave, Escape, Fault
<1>2d. CASE Collect
  BY <1>2d DEF Collect
<1>3. CASE Take \/ Poll \/ Talk \/ Tell \/ StartPcm
  BY <1>3 DEF Take, Poll, Talk, Tell, StartPcm
<1>4. CASE Answer
  BY <1>4 DEF Answer, Ringing
<1>5. CASE StopPump \/ Join
  BY <1>5 DEF StopPump, Join
<1>5a. CASE StopPcm
  <2>1. kept' \subseteq {"call", "pcm", "unheard"}
    BY <1>5a DEF StopPcm, Told
  <2>2. pcm' \in BOOLEAN
    <3>1. ("pcm" \in kept') \in BOOLEAN
      OBVIOUS
    <3>2. pcm' = pcm \/ pcm' = ("pcm" \in kept')
      BY <1>5a DEF StopPcm
    <3> QED BY <3>1, <3>2
  <2>3. UNCHANGED <<line, owner, answered, started, at, sock, escaped>>
        /\ pc = "unregister" /\ pc' = "chup" /\ port' = FALSE
    BY <1>5a DEF StopPcm
  <2> QED BY <2>1, <2>2, <2>3
<1>6. CASE Hangup
  BY <1>6 DEF Hangup, Told
<1>7. CASE CloseModem \/ CloseLink
  BY <1>7 DEF CloseModem, CloseLink, Leave, Fresh
<1>8. CASE Receiver \/ Sender \/ Pump
  BY <1>8 DEF Receiver, Sender, Pump, Speech, Flush, ReceiverDies, Control, Get, Send,
              Read, Put, Drop, PutAgain, Pop, Write
<1> QED
  BY <1>1, <1>2, <1>2a, <1>2b, <1>2c, <1>2d, <1>3, <1>4, <1>5, <1>5a, <1>6, <1>7, <1>8
     DEF Next, Session

\* The threads and the counters.
LEMMA ThreadTypesKept == ThreadTypes /\ Next => ThreadTypes'
<1> SUFFICES ASSUME ThreadTypes, Next
             PROVE  ThreadTypes'
  OBVIOUS
<1> USE Bounds DEF ThreadTypes, threads, Alive, Fault
<1>1. ASSUME NEW c \in Calls, HandleCall(c) \/ PickUp(c) \/ RemoteEnds(c)
      PROVE  ThreadTypes'
  BY <1>1 DEF HandleCall, PickUp, RemoteEnds
<1>2. CASE Examine \/ Factory \/ Connect \/ Ring \/ Collect
  BY <1>2 DEF Examine, Factory, Connect, Ring, Collect
<1>3. CASE Take \/ Answer \/ StartPcm \/ Poll \/ Tell \/ Talk
  BY <1>3 DEF Take, Answer, StartPcm, Poll, Tell, Talk
<1>4. CASE StopPump \/ Join
  BY <1>4 DEF StopPump, Join
<1>4a. CASE StopPcm
  BY <1>4a DEF StopPcm, Told
<1>4b. CASE Hangup
  BY <1>4b DEF Hangup, Told
<1>4c. CASE CloseModem
  BY <1>4c DEF CloseModem
<1>4d. CASE CloseLink
  BY <1>4d DEF CloseLink, Fresh
<1>5. CASE Receiver \/ Sender
  BY <1>5 DEF Receiver, Sender, Speech, Flush, ReceiverDies, Control, Get, Send
<1>6. CASE Read
  BY <1>6 DEF Read, Dies
<1>6a. CASE Put \/ Drop \/ Pop
  BY <1>6a DEF Put, Drop, Pop
<1>6b. CASE PutAgain
  BY <1>6b DEF PutAgain, Dies
<1>6c. CASE Write
  BY <1>6c DEF Write, Dies
<1> QED
  BY <1>1, <1>2, <1>3, <1>4, <1>4a, <1>4b, <1>4c, <1>4d, <1>5, <1>6, <1>6a, <1>6b, <1>6c
     DEF Next, Session, Pump


\* The queues: their depth, and the frames' numbers.  The frame the pump has in
\* hand was read.
LEMMA QueueTypesKept == QueueTypes /\ DownlinkOrder /\ Next => QueueTypes'
<1> SUFFICES ASSUME QueueTypes, DownlinkOrder, Next
             PROVE  QueueTypes'
  OBVIOUS
<1> USE Bounds DEF QueueTypes, audio
<1>1. ASSUME NEW c \in Calls, HandleCall(c) \/ PickUp(c) \/ RemoteEnds(c)
      PROVE  QueueTypes'
  BY <1>1 DEF HandleCall, PickUp, RemoteEnds
<1>2. CASE Examine \/ Factory \/ Connect \/ Ring \/ Collect
  BY <1>2 DEF Examine, Factory, Connect, Ring, Collect
<1>3. CASE Take \/ Answer \/ StartPcm \/ Poll \/ Tell \/ Talk
  BY <1>3 DEF Take, Answer, StartPcm, Poll, Tell, Talk
<1>4. CASE StopPump \/ Join \/ StopPcm \/ Hangup \/ CloseModem
  BY <1>4 DEF StopPump, Join, StopPcm, Hangup, CloseModem
<1>5. CASE CloseLink
  BY <1>5 DEF CloseLink, Fresh
<1>6. CASE Speech
  <2> DEFINE room == IF Len(uplink) = UplinkDepth THEN Tail(uplink) ELSE uplink
  <2>1. speech' = speech + 1 /\ speech' \in 1 .. MaxSpeech /\ uplink' = Append(room, speech')
        /\ UNCHANGED <<downlink, frames, mark>>
    BY <1>6 DEF Speech
  <2>2. CASE Len(uplink) = UplinkDepth
    <3>1. Tail(uplink) \in Seq(1 .. MaxSpeech) /\ Len(Tail(uplink)) = UplinkDepth - 1
      BY <2>2, Dequeued
    <3>2. /\ Append(Tail(uplink), speech') \in Seq(1 .. MaxSpeech)
          /\ Len(Append(Tail(uplink), speech')) = UplinkDepth
      BY <2>1, <3>1, Enqueued
    <3> QED BY <2>1, <2>2, <3>2
  <2>3. CASE Len(uplink) # UplinkDepth
    <3>1. /\ Append(uplink, speech') \in Seq(1 .. MaxSpeech)
          /\ Len(Append(uplink, speech')) = Len(uplink) + 1 /\ Len(uplink) \in Nat
      BY <2>1, Enqueued
    <3> QED BY <2>1, <2>3, <3>1
  <2> QED BY <2>2, <2>3
<1>7. CASE Flush
  BY <1>7 DEF Flush
<1>7a. CASE ReceiverDies \/ Send \/ Write \/ \E type \in {"answer", "hangup"} : Control(type)
  BY <1>7a DEF ReceiverDies, Send, Write, Control
<1>8. CASE Get
  <2>1. Tail(downlink) \in Seq(1 .. MaxPcm) /\ Len(Tail(downlink)) <= DownlinkDepth
    BY <1>8, Dequeued DEF Get
  <2> QED BY <1>8, <2>1 DEF Get
<1>9. CASE Read
  BY <1>9 DEF Read
<1>10. CASE Put \/ PutAgain
  <2>1. frames \in 1 .. MaxPcm
    BY <1>10 DEF DownlinkOrder, LastPut, Put, PutAgain
  <2>2. /\ Append(downlink, frames) \in Seq(1 .. MaxPcm)
        /\ Len(Append(downlink, frames)) = Len(downlink) + 1 /\ Len(downlink) \in Nat
    BY <2>1, Enqueued
  <2>3. \/ downlink' = downlink
        \/ downlink' = Append(downlink, frames) /\ Len(downlink) < DownlinkDepth
    BY <1>10 DEF Put, PutAgain
  <2>4. UNCHANGED <<uplink, speech, frames, mark>>
    BY <1>10 DEF Put, PutAgain
  <2>5. downlink' \in Seq(1 .. MaxPcm) /\ Len(downlink') <= DownlinkDepth
    <3>1. CASE downlink' = downlink
      BY <3>1
    <3>2. CASE downlink' = Append(downlink, frames) /\ Len(downlink) < DownlinkDepth
      BY <2>2, <3>2
    <3> QED BY <2>3, <3>1, <3>2
  <2> QED BY <2>4, <2>5
<1>11. CASE Drop
  <2>1. downlink # <<>> =>
          Tail(downlink) \in Seq(1 .. MaxPcm) /\ Len(Tail(downlink)) <= DownlinkDepth
    BY Dequeued
  <2> QED BY <1>11, <2>1 DEF Drop
<1>12. CASE Pop
  <2>1. uplink # <<>> =>
          Tail(uplink) \in Seq(1 .. MaxSpeech) /\ Len(Tail(uplink)) <= UplinkDepth
    BY Dequeued
  <2> QED BY <1>12, <2>1 DEF Pop
<1> QED
  BY <1>1, <1>2, <1>3, <1>4, <1>5, <1>6, <1>7, <1>7a, <1>8, <1>9, <1>10, <1>11, <1>12
     DEF Next, Session, Receiver, Sender, Pump

-----------------------------------------------------------------------------
(* What is open, registered and taken.                                     *)

\* The session opens before it uses, and closes on every way out.
LEMMA OpenedKept == SessionTypes /\ Opened /\ Next => Opened'
<1> SUFFICES ASSUME SessionTypes, Opened, Next
             PROVE  Opened'
  OBVIOUS
<1> USE DEF SessionTypes, Opened, Outside, InCallOrAfter, Playing, Setup, Teardown, session, wires, env, threads
<1>1. ASSUME NEW c \in Calls, HandleCall(c) \/ PickUp(c) \/ RemoteEnds(c)
      PROVE  Opened'
  <2>1. CASE HandleCall(c)
    BY <2>1 DEF HandleCall
  <2>2. CASE PickUp(c) \/ RemoteEnds(c)
    BY <2>2 DEF PickUp, RemoteEnds
  <2> QED BY <1>1, <2>1, <2>2
<1>2. CASE Examine \/ Factory
  BY <1>2 DEF Examine, Factory, Leave
<1>3. CASE Connect
  BY <1>3 DEF Connect, Leave, Escape
<1>4. CASE Ring
  BY <1>4 DEF Ring, Leave, Escape
<1>5. CASE Collect
  BY <1>5 DEF Collect
<1>6. CASE Take
  BY <1>6 DEF Take
<1>7. CASE Answer
  BY <1>7 DEF Answer
<1>8. CASE StartPcm
  BY <1>8 DEF StartPcm
<1>9. CASE Poll
  BY <1>9 DEF Poll
<1>10. CASE Tell \/ Talk
  BY <1>10 DEF Tell, Talk
<1>11. CASE StopPump \/ Join
  BY <1>11 DEF StopPump, Join
<1>12. CASE StopPcm
  BY <1>12 DEF StopPcm
<1>13. CASE Hangup
  BY <1>13 DEF Hangup
<1>14. CASE CloseModem \/ CloseLink
  BY <1>14 DEF CloseModem, CloseLink, Leave, Fresh
<1>15. CASE Receiver \/ Sender
  BY <1>15 DEF Receiver, Sender, Speech, Flush, ReceiverDies, Control, Get, Send
<1>16. CASE Pump
  <2>1. pump # "off" /\ UNCHANGED <<pc, started, at, port, sock, escaped>>
    BY <1>16 DEF Pump, Read, Put, Drop, PutAgain, Pop, Write
  <2> QED BY <2>1
<1> QED
  BY <1>1, <1>2, <1>3, <1>4, <1>5, <1>6, <1>7, <1>8, <1>9, <1>10, <1>11, <1>12, <1>13, <1>14,
     <1>15, <1>16 DEF Next, Session

\* A registration the session knows of is taken back, or the modem refused.
LEMMA RegisteredKept == SessionTypes /\ Registered /\ Next => Registered'
<1> SUFFICES ASSUME SessionTypes, Registered, Next
             PROVE  Registered'
  OBVIOUS
<1> USE DEF Registered, Playing, session, wires, env
<1>1. ASSUME NEW c \in Calls, HandleCall(c) \/ PickUp(c) \/ RemoteEnds(c)
      PROVE  Registered'
  <2>1. UNCHANGED <<pcm, kept, started>> /\ (pc \in Playing => pc' = pc)
    BY <1>1 DEF HandleCall, PickUp, RemoteEnds, SessionTypes
  <2> QED BY <2>1
<1>2. CASE Examine \/ Factory
  BY <1>2 DEF Examine, Factory, Leave
<1>3. CASE Connect \/ Ring \/ Collect
  BY <1>3 DEF Connect, Ring, Collect, Leave, Escape
<1>4. CASE Take \/ Answer
  BY <1>4 DEF Take, Answer
<1>5. CASE StartPcm
  BY <1>5 DEF StartPcm
<1>6. CASE Poll \/ Tell \/ Talk
  BY <1>6 DEF Poll, Tell, Talk
<1>7. CASE StopPump \/ Join
  BY <1>7 DEF StopPump, Join
<1>8. CASE StopPcm
  BY <1>8 DEF StopPcm
<1>9. CASE Hangup
  BY <1>9 DEF Hangup, Told
<1>10. CASE CloseModem \/ CloseLink
  BY <1>10 DEF CloseModem, CloseLink, Leave, Fresh
<1>11. CASE Receiver \/ Sender \/ Pump
  BY <1>11 DEF Receiver, Sender, Pump, Speech, Flush, ReceiverDies, Control, Get, Send,
              Read, Put, Drop, PutAgain, Pop, Write
<1> QED
  BY <1>1, <1>2, <1>3, <1>4, <1>5, <1>6, <1>7, <1>8, <1>9, <1>10, <1>11 DEF Next, Session

\* A call the bridge took is hung up, or the modem refused.
LEMMA TakenKept == SessionTypes /\ Taken /\ Next => Taken'
<1> SUFFICES ASSUME SessionTypes, Taken, Next
             PROVE  Taken'
  OBVIOUS
<1> USE DEF SessionTypes, Taken, Playing, session, wires, env
<1>1. ASSUME NEW c \in Calls, HandleCall(c) \/ PickUp(c) \/ RemoteEnds(c)
      PROVE  Taken'
  BY <1>1 DEF HandleCall, PickUp, RemoteEnds
<1>2. CASE Examine \/ Factory
  BY <1>2 DEF Examine, Factory, Leave
<1>3. CASE Connect \/ Ring \/ Collect
  BY <1>3 DEF Connect, Ring, Collect, Leave, Escape
<1>4. CASE Take
  BY <1>4 DEF Take
<1>5. CASE Answer
  BY <1>5 DEF Answer, Ringing
<1>6. CASE StartPcm
  BY <1>6 DEF StartPcm
<1>7. CASE Poll \/ Tell \/ Talk
  BY <1>7 DEF Poll, Tell, Talk
<1>8. CASE StopPump \/ Join
  BY <1>8 DEF StopPump, Join
<1>9. CASE StopPcm
  BY <1>9 DEF StopPcm, Told
<1>10. CASE Hangup
  BY <1>10 DEF Hangup, Told, Up
<1>11. CASE CloseModem \/ CloseLink
  BY <1>11 DEF CloseModem, CloseLink, Leave, Fresh
<1>12. CASE Receiver \/ Sender \/ Pump
  BY <1>12 DEF Receiver, Sender, Pump, Speech, Flush, ReceiverDies, Control, Get, Send,
              Read, Put, Drop, PutAgain, Pop, Write
<1> QED
  BY <1>1, <1>2, <1>3, <1>4, <1>5, <1>6, <1>7, <1>8, <1>9, <1>10, <1>11, <1>12
     DEF Next, Session

-----------------------------------------------------------------------------
(* The queues hold the newest frames.                                      *)

\* The uplink: the receiver puts, the pump takes.
LEMMA UplinkKept == QueueTypes /\ UplinkOrder /\ Next => UplinkOrder'
<1> SUFFICES ASSUME QueueTypes, UplinkOrder, Next
             PROVE  UplinkOrder'
  OBVIOUS
<1> USE Bounds DEF audio
<1>0. CASE UNCHANGED <<uplink, speech, mark>>
  BY <1>0 DEF UplinkOrder, Numbered
<1>1. CASE CloseLink \/ Flush
  <2>1. uplink' = <<>> /\ mark' \in Int /\ speech' = mark'
    BY <1>1 DEF CloseLink, Fresh, Flush, QueueTypes
  <2>2. Len(uplink') = 0
    BY <2>1
  <2>3. Numbered(uplink', speech')
    BY <2>2 DEF Numbered
  <2>4. \A n \in Int : 0 <= n - n
    OBVIOUS
  <2>5. 0 <= speech' - mark'
    BY <2>1, <2>4
  <2> QED BY <2>2, <2>3, <2>5 DEF UplinkOrder
<1>2. CASE Speech
  <2>1. speech' = speech + 1 /\ mark' = mark /\ speech \in Int /\ mark \in Int
        /\ uplink' = Append(IF Len(uplink) = UplinkDepth THEN Tail(uplink) ELSE uplink, speech')
    BY <1>2 DEF Speech, QueueTypes
  <2>2. CASE Len(uplink) = UplinkDepth
    <3>1. uplink # <<>> /\ Tail(uplink) \in Seq(1 .. MaxSpeech)
          /\ Len(Tail(uplink)) = Len(uplink) - 1 /\ Len(uplink) \in Nat
      BY <2>2, Dequeued DEF QueueTypes
    <3>2. Numbered(Tail(uplink), speech)
      BY <2>1, <3>1, Numbering DEF UplinkOrder, QueueTypes
    <3>3. Numbered(Append(Tail(uplink), speech'), speech')
      BY <2>1, <3>1, <3>2, Numbering
    <3>4. Len(uplink') = Len(uplink)
      BY <2>1, <2>2, <3>1
    <3> QED BY <2>1, <2>2, <3>1, <3>3, <3>4 DEF UplinkOrder
  <2>3. CASE Len(uplink) # UplinkDepth
    <3>1. Numbered(Append(uplink, speech'), speech')
      BY <2>1, Numbering DEF UplinkOrder, QueueTypes
    <3>2. Len(uplink') = Len(uplink) + 1 /\ Len(uplink) \in Nat
      BY <2>1, <2>3 DEF QueueTypes
    <3> QED BY <2>1, <2>3, <3>1, <3>2 DEF UplinkOrder
  <2> QED BY <2>2, <2>3
<1>3. CASE Pop
  <2>1. uplink # <<>> => /\ Numbered(Tail(uplink), speech)
                         /\ Len(Tail(uplink)) = Len(uplink) - 1 /\ Len(uplink) \in Nat
    BY Numbering, Dequeued DEF QueueTypes, UplinkOrder
  <2> QED BY <1>3, <2>1 DEF Pop, UplinkOrder, QueueTypes
<1>4. CASE \E c \in Calls : HandleCall(c) \/ PickUp(c) \/ RemoteEnds(c)
  BY <1>0, <1>4 DEF HandleCall, PickUp, RemoteEnds
<1>5. CASE Examine \/ Factory \/ Connect \/ Ring \/ Collect \/ Take \/ Answer \/ StartPcm \/ Poll
           \/ Tell \/ Talk
  BY <1>0, <1>5 DEF Examine, Factory, Connect, Ring, Collect, Take, Answer, StartPcm, Poll, Tell,
                    Talk
<1>6. CASE StopPump \/ Join \/ StopPcm \/ Hangup \/ CloseModem
  BY <1>0, <1>6 DEF StopPump, Join, StopPcm, Hangup, CloseModem
<1>7. CASE ReceiverDies \/ \E type \in {"answer", "hangup"} : Control(type)
  BY <1>0, <1>7 DEF ReceiverDies, Control
<1>8. CASE Sender \/ Read \/ Put \/ Drop \/ PutAgain \/ Write
  BY <1>0, <1>8 DEF Sender, Get, Send, Read, Put, Drop, PutAgain, Write
<1> QED
  BY <1>1, <1>2, <1>3, <1>4, <1>5, <1>6, <1>7, <1>8 DEF Next, Session, Receiver, Pump

\* The downlink: the pump puts, the sender takes, and the pump drops what the
\* sender was too slow for; the sender can only make more room.
LEMMA DownlinkKept == QueueTypes /\ Opened /\ DownlinkOrder /\ Next => DownlinkOrder'
<1> SUFFICES ASSUME QueueTypes, Opened, DownlinkOrder, Next
             PROVE  DownlinkOrder'
  OBVIOUS
<1> USE Bounds DEF audio, threads
<1>t. downlink \in Seq(1 .. MaxPcm) /\ Len(downlink) \in 0 .. DownlinkDepth /\ frames \in Nat
  BY DEF QueueTypes
<1>e. downlink # <<>> => /\ Numbered(Tail(downlink), LastPut)
                         /\ Len(Tail(downlink)) = Len(downlink) - 1
  BY <1>t, Numbering, Dequeued DEF DownlinkOrder
<1>0. CASE UNCHANGED <<downlink, frames, pump>>
  BY <1>0 DEF DownlinkOrder, Numbered, LastPut
<1>1. CASE CloseLink
  <2>1. downlink' = <<>> /\ frames' = 0 /\ pump' = "off"
    BY <1>1 DEF CloseLink, Fresh
  <2> QED BY <2>1 DEF DownlinkOrder, Numbered, LastPut
<1>2. CASE Get
  <2>1. downlink' = Tail(downlink) /\ downlink # <<>> /\ UNCHANGED <<frames, pump>>
    BY <1>2 DEF Get
  <2> QED BY <1>t, <1>e, <2>1 DEF DownlinkOrder, LastPut
<1>3. CASE Poll \/ Write
  <2>1. /\ UNCHANGED <<downlink, frames>>
        /\ pump' = pump \/ (pump' \in {"read", "over", "dead"} /\ pump \in {"off", "write"})
    BY <1>3 DEF Poll, Write, Dies, Opened, Teardown
  <2> QED BY <1>t, <2>1 DEF DownlinkOrder, Numbered, LastPut
<1>4. CASE Read
  <2>1. /\ downlink' = downlink /\ pump = "read"
        /\ \/ frames' = frames + 1 /\ pump' = "put"
           \/ frames' = frames /\ pump' = "dead"
    BY <1>4 DEF Read, Dies
  <2> QED BY <1>t, <2>1 DEF DownlinkOrder, Numbered, LastPut
<1>5. CASE Put \/ PutAgain
  <2>1. /\ pump \in {"put", "put2"} /\ frames' = frames
        /\ \/ downlink' = Append(downlink, frames) /\ pump' = "pop"
           \/ downlink' = downlink /\ pump = "put" /\ pump' = "drop"
    BY <1>5 DEF Put, PutAgain, DownlinkOrder
  <2>2. Numbered(Append(downlink, frames), frames)
    <3>1. Numbered(downlink, frames - 1) /\ (frames - 1) + 1 = frames
      BY <1>t, <2>1 DEF DownlinkOrder, LastPut
    <3> QED BY <1>t, <3>1, Numbering
  <2> QED BY <1>t, <2>1, <2>2 DEF DownlinkOrder, LastPut, Numbered
<1>6. CASE Drop
  <2>1. pump = "drop" /\ pump' = "put2" /\ frames' = frames
        /\ downlink' = IF downlink = <<>> THEN downlink ELSE Tail(downlink)
    BY <1>6 DEF Drop
  <2>2. Numbered(downlink', frames - 1) /\ Len(downlink') < DownlinkDepth
    BY <1>t, <1>e, <2>1 DEF DownlinkOrder, LastPut
  <2> QED BY <1>t, <2>1, <2>2 DEF DownlinkOrder, LastPut
<1>7. CASE Pop
  <2>1. UNCHANGED <<downlink, frames>> /\ pump = "pop" /\ pump' = "write"
    BY <1>7 DEF Pop
  <2> QED BY <2>1 DEF DownlinkOrder, Numbered, LastPut
<1>8. CASE \E c \in Calls : HandleCall(c) \/ PickUp(c) \/ RemoteEnds(c)
  BY <1>0, <1>8 DEF HandleCall, PickUp, RemoteEnds
<1>9. CASE Examine \/ Factory \/ Connect \/ Ring \/ Collect \/ Take \/ Answer \/ StartPcm
           \/ Tell \/ Talk
  BY <1>0, <1>9 DEF Examine, Factory, Connect, Ring, Collect, Take, Answer, StartPcm, Tell, Talk
<1>10. CASE StopPump \/ Join \/ StopPcm \/ Hangup \/ CloseModem
  BY <1>0, <1>10 DEF StopPump, Join, StopPcm, Hangup, CloseModem
<1>11. CASE Receiver \/ Send
  BY <1>0, <1>11 DEF Receiver, Speech, Flush, ReceiverDies, Control, Send
<1> QED
  BY <1>1, <1>2, <1>3, <1>4, <1>5, <1>6, <1>7, <1>8, <1>9, <1>10, <1>11
     DEF Next, Session, Sender, Pump

-----------------------------------------------------------------------------
\* All of it holds at the start.
LEMMA Initially == Init => IInv
<1> SUFFICES ASSUME Init
             PROVE  IInv
  OBVIOUS
<1> USE Bounds DEF Init
<1>1. Devices
  BY DEF Devices, Opened, Registered, Taken, Outside, InCallOrAfter, Playing, Setup, Teardown, Calls
<1>2. Frames
  BY DEF Frames, UplinkOrder, DownlinkOrder, Numbered, LastPut
<1>3. SessionTypes
  BY DEF SessionTypes, Places, NoCall, Calls
<1>4. ThreadTypes
  BY DEF ThreadTypes
<1>5. QueueTypes
  BY DEF QueueTypes
<1> QED BY <1>1, <1>2, <1>3, <1>4, <1>5, TypeParts DEF IInv, Devices

\* The inductive invariant.
LEMMA Inductive == IInv /\ [Next]_vars => IInv'
<1> SUFFICES ASSUME IInv, [Next]_vars
             PROVE  IInv'
  OBVIOUS
<1>t. SessionTypes /\ ThreadTypes /\ QueueTypes
  BY TypeParts DEF IInv, Devices
<1>1. CASE Next
  <2>1. SessionTypes' /\ ThreadTypes' /\ QueueTypes'
    BY <1>1, <1>t, SessionTypesKept, ThreadTypesKept, QueueTypesKept DEF IInv, Frames
  <2>2. Devices'
    BY <1>1, <1>t, OpenedKept, RegisteredKept, TakenKept DEF IInv, Devices
  <2>3. Frames'
    BY <1>1, <1>t, UplinkKept, DownlinkKept DEF IInv, Frames, Devices
  <2>4. TypeOK'
    <3>1. Opened' => (TypeOK' <=> SessionTypes' /\ ThreadTypes' /\ QueueTypes')
      BY TypeParts, PTL
    <3> QED BY <2>1, <2>2, <3>1 DEF Devices
  <2> QED BY <2>2, <2>3, <2>4 DEF IInv
<1>2. CASE UNCHANGED vars
  BY <1>2 DEF vars, env, session, wires, threads, audio, IInv, TypeOK, Devices, Opened, Registered,
              Taken, Frames, UplinkOrder, DownlinkOrder, Numbered, LastPut
<1> QED BY <1>1, <1>2

\* It holds in every reachable state.
THEOREM Invariant == Spec => []IInv
BY Initially, Inductive, PTL DEF Spec

-----------------------------------------------------------------------------
\* Every variable keeps its type; the queues never outgrow their depth, and in
\* its control loop the session has its socket and, up to the last step of the
\* teardown, its modem.
THEOREM TypesHold == Spec => []TypeOK
BY Invariant, PTL DEF IInv

\* Whatever failed and at whichever step, a session that reached its control loop
\* leaves no port and no socket open, no call it took unless the modem refused to
\* end it, and no PCM unless the modem refused to stop it or the reply to its
\* registration was lost (BridgeSession.run's finally block, start_pcm).
THEOREM SessionsRelease == Spec => []ExitReleases
<1>1. IInv => ExitReleases
  BY DEF IInv, Devices, Opened, Registered, Taken, ExitReleases, Outside, InCallOrAfter, Playing,
         Setup, Teardown
<1> QED BY <1>1, Invariant, PTL

\* Whoever is slow, the pump never fails for a full queue, plays only speech sent
\* after the last flush and among the newest UplinkDepth frames, and what Assist
\* is sent lags the modem by DownlinkDepth frames at most (JitterBuffer,
\* DownlinkQueue).
THEOREM AudioStaysFresh == Spec => AudioFlows
<1> DEFINE Flowing ==
      /\ pump' # "full"
      /\ Pop /\ uplink # <<>> => Head(uplink) > mark /\ Head(uplink) > speech - UplinkDepth
      /\ Get => Head(downlink) >= frames - DownlinkDepth
<1>1. IInv /\ IInv' => Flowing
  <2> SUFFICES ASSUME IInv, IInv'
               PROVE  Flowing
    OBVIOUS
  <2>t. /\ uplink \in Seq(1 .. MaxSpeech) /\ Len(uplink) <= UplinkDepth /\ speech \in Nat
        /\ mark \in Nat /\ downlink \in Seq(1 .. MaxPcm) /\ Len(downlink) <= DownlinkDepth
        /\ frames \in Nat
    BY Bounds DEF IInv, TypeOK
  <2>1. pump' # "full"
    BY DEF IInv, Frames, DownlinkOrder
  <2>2. ASSUME Pop, uplink # <<>>
        PROVE  Head(uplink) > mark /\ Head(uplink) > speech - UplinkDepth
    <3>1. Head(uplink) = speech - Len(uplink) + 1 /\ Len(uplink) \in Nat
      BY <2>t, <2>2, Bounds, Numbering, Dequeued DEF IInv, Frames, UplinkOrder
    <3> QED BY <2>t, <3>1, Bounds DEF IInv, Frames, UplinkOrder
  <2>3. ASSUME Get
        PROVE  Head(downlink) >= frames - DownlinkDepth
    <3>1. Head(downlink) = LastPut - Len(downlink) + 1 /\ Len(downlink) \in Nat
      BY <2>t, <2>3, Bounds, Numbering, Dequeued DEF IInv, Frames, DownlinkOrder, Get
    <3> QED BY <2>t, <3>1, Bounds DEF LastPut
  <2> QED BY <2>1, <2>2, <2>3
<1>2. []IInv => AudioFlows
  BY <1>1, PTL DEF AudioFlows
<1> QED BY <1>2, Invariant
=============================================================================
