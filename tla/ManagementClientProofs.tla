----------------------- MODULE ManagementClientProofs -----------------------
(***************************************************************************)
(* Theorems about ManagementClient, for every set of application commands, *)
(* every initialisation sequence and every bound.                          *)
(***************************************************************************)
EXTENDS ManagementClient, SequenceTheorems, TLAPS

----------------------------------------------------------------------------
\* Typing of the helpers

LEMMA InitCommandType ==
    ASSUME NEW a \in Sockets, NEW k \in Nat, k < Len(InitSequence)
    PROVE  <<a, k + 1>> \in Commands
BY InitSequenceAssumption DEF Commands, InitCommands, Steps

LEMMA NextStepType ==
    ASSUME NEW a \in Sockets, NEW k \in Nat
    PROVE  NextStep(a, k) \in Seq(Commands)
BY InitCommandType DEF NextStep

LEMMA InitCommandParts ==
    ASSUME NEW c \in InitCommands
    PROVE  c[1] \in Sockets /\ c[2] \in Nat
BY InitSequenceAssumption DEF InitCommands, Steps, Sockets

LEMMA WithoutType ==
    ASSUME TypeOK, NEW i \in DOMAIN queue
    PROVE  Without(i) \in Seq(Commands)
<1>1. queue \in Seq(Commands) /\ i \in 1 .. Len(queue)
  BY DEF TypeOK
<1>2. SubSeq(queue, 1, i - 1) \in Seq(Commands)
  BY <1>1
<1>3. SubSeq(queue, i + 1, Len(queue)) \in Seq(Commands)
  BY <1>1
<1> QED
  BY <1>2, <1>3 DEF Without

(* pumpQueue keeps the types of what it touches. *)
LEMMA PumpQueueType ==
    ASSUME TypeOK, NEW q \in Seq(Commands), NEW b \in BOOLEAN, PumpQueue(q, b)
    PROVE  /\ queue' \in Seq(Commands)
           /\ busy' \in BOOLEAN
           /\ toPeer' \in [Sockets -> Seq(Commands)]
           /\ writes' \in [Commands -> Nat]
<1>1. CASE ~b /\ q # <<>> /\ Writable
  <2>1. socket \in Sockets /\ Head(q) \in Commands
    BY <1>1 DEF TypeOK, Writable
  <2>2. Append(toPeer[socket], Head(q)) \in Seq(Commands) /\ writes[Head(q)] + 1 \in Nat
    BY <2>1 DEF TypeOK
  <2> QED
    BY <1>1, <2>1, <2>2 DEF PumpQueue, TypeOK
<1>2. CASE ~(~b /\ q # <<>> /\ Writable)
  BY <1>2 DEF PumpQueue, TypeOK
<1> QED
  BY <1>1, <1>2

LEMMA RejectType ==
    ASSUME TypeOK, NEW cs, NEW as, Reject(cs, as)
    PROVE  /\ outcome' \in [Commands -> Outcomes]
           /\ handshake' \in [Sockets -> HandshakeStates]
BY DEF Reject, TypeOK, Outcomes, HandshakeStates

LEMMA RejectAllPendingType ==
    ASSUME TypeOK, NEW as, RejectAllPending(as)
    PROVE  /\ outcome' \in [Commands -> Outcomes]
           /\ handshake' \in [Sockets -> HandshakeStates]
           /\ queue' \in Seq(Commands)
           /\ busy' \in BOOLEAN
<1>1. Reject(Queued, as) /\ queue' = <<>> /\ busy' = FALSE
  BY DEF RejectAllPending
<1>2. /\ outcome' \in [Commands -> Outcomes]
      /\ handshake' \in [Sockets -> HandshakeStates]
  BY <1>1, RejectType
<1>3. <<>> \in Seq(Commands)
  OBVIOUS
<1> QED
  BY <1>1, <1>2, <1>3

LEMMA ScheduleReconnectType ==
    ASSUME TypeOK, ScheduleReconnectIfNeeded
    PROVE  reconnectTimer' \in BOOLEAN /\ reconnectAttempt' \in Nat
<1>1. CASE ReconnectWanted
  BY <1>1 DEF ScheduleReconnectIfNeeded, TypeOK
<1>2. CASE ~ReconnectWanted
  BY <1>2 DEF ScheduleReconnectIfNeeded, TypeOK
<1> QED
  BY <1>1, <1>2

LEMMA DestroyedType ==
    ASSUME TypeOK, NEW s
    PROVE  Destroyed(s) \in [Sockets -> ConnStates]
BY DEF Destroyed, TypeOK, ConnStates

LEMMA AbsorbType ==
    ASSUME TypeOK, NEW line \in Lines
    PROVE  Absorb(line) \subseteq Lines
BY DEF Absorb, TypeOK

LEMMA StageAfterType ==
    ASSUME NEW k
    PROVE  StageAfter(k) \in HandshakeStates
BY DEF StageAfter, HandshakeStates

LEMMA OpenSocketType ==
    ASSUME TypeOK, OpenSocket
    PROVE  /\ opened' \in Sockets
           /\ socket' \in Sockets
           /\ conn' \in [Sockets -> ConnStates]
           /\ readyOwner' \in Sockets
           /\ handshake' \in [Sockets -> HandshakeStates]
           /\ welcomeTimers' \subseteq Sockets
           /\ welcomeTimer' \in Sockets
<1>1. opened + 1 \in Sockets
  BY BoundsAssumption DEF TypeOK, OpenSocket, Sockets
<1> QED
  BY <1>1, DestroyedType DEF OpenSocket, Adopt, TypeOK, ConnStates, HandshakeStates

----------------------------------------------------------------------------
\* Type correctness

(* The initial state is well typed. *)
LEMMA InitTypeOK == Init => TypeOK
<1> SUFFICES ASSUME Init PROVE TypeOK
  OBVIOUS
<1>1. NoAnswer \in Answers
  BY DEF NoAnswer, Answers, Lines, Welcome, LineKinds
<1>2. answer \in [Commands -> Answers] /\ writes \in [Commands -> Nat]
  BY <1>1 DEF Init
<1>3. queue \in Seq(Commands)
  BY DEF Init
<1>4. toPeer \in [Sockets -> Seq(Commands)] /\ toClient \in [Sockets -> Seq(Lines)]
  <2>1. <<>> \in Seq(Commands) /\ <<>> \in Seq(Lines)
    OBVIOUS
  <2> QED
    BY <2>1 DEF Init
<1>5. /\ conn \in [Sockets -> ConnStates]
      /\ handshake \in [Sockets -> HandshakeStates]
      /\ outcome \in [Commands -> Outcomes]
  BY DEF Init, ConnStates, HandshakeStates, Outcomes
<1> QED
  BY <1>2, <1>3, <1>4, <1>5 DEF Init, TypeOK

LEMMA StartInitializeType ==
    ASSUME TypeOK, NEW a \in Sockets, StartInitialize(a)
    PROVE  /\ reconnectAttempt' \in Nat
           /\ handshake' \in [Sockets -> HandshakeStates]
           /\ outcome' \in [Commands -> Outcomes]
           /\ queue' \in Seq(Commands)
           /\ busy' \in BOOLEAN
           /\ toPeer' \in [Sockets -> Seq(Commands)]
           /\ writes' \in [Commands -> Nat]
<1>1. reconnectAttempt' \in Nat
  BY DEF StartInitialize, ResetBackoff
<1>2. handshake' \in [Sockets -> HandshakeStates]
  BY StageAfterType DEF StartInitialize, TypeOK
<1>3. outcome' \in [Commands -> Outcomes]
  BY DEF StartInitialize, TypeOK, Outcomes
<1>4. CASE InitSequence = <<>>
  BY <1>1, <1>2, <1>3, <1>4 DEF StartInitialize, TypeOK
<1>5. CASE InitSequence # <<>>
  <2>1. PumpQueue(queue \o NextStep(a, 0), busy)
    BY <1>5 DEF StartInitialize
  <2>2. queue \in Seq(Commands) /\ NextStep(a, 0) \in Seq(Commands) /\ busy \in BOOLEAN
    BY NextStepType DEF TypeOK
  <2>3. queue \o NextStep(a, 0) \in Seq(Commands)
    BY <2>2
  <2> QED
    BY <1>1, <1>2, <1>3, <2>1, <2>2, <2>3, PumpQueueType
<1> QED
  BY <1>4, <1>5

(* A received line leaves the state well typed. *)
LEMMA HandleWelcomeTypeOK ==
    ASSUME TypeOK, NEW s \in Sockets, HandleWelcome(s)
    PROVE  TypeOK'
<1>1. toClient' \in [Sockets -> Seq(Lines)]
  BY DEF HandleWelcome, TypeOK
<1>2. welcomeTimers' \subseteq Sockets
  BY DEF HandleWelcome, TypeOK
<1>3. CASE UNCHANGED <<reconnectAttempt, handshake, outcome, queue, busy, toPeer, writes>>
  BY <1>1, <1>2, <1>3 DEF HandleWelcome, TypeOK, peerVars
<1>4. ASSUME NEW a \in Sockets, StartInitialize(a)
      PROVE  TypeOK'
  BY <1>1, <1>2, <1>4, StartInitializeType DEF HandleWelcome, TypeOK, peerVars
<1> QED
  BY <1>3, <1>4 DEF HandleWelcome, AwaitingWelcome

LEMMA CompleteCurrentType ==
    ASSUME TypeOK, NEW s \in Sockets, toClient[s] # <<>>, CompleteCurrent(s)
    PROVE  /\ frame' \subseteq Lines
           /\ answer' \in [Commands -> Answers]
           /\ outcome' \in [Commands -> Outcomes]
           /\ handshake' \in [Sockets -> HandshakeStates]
           /\ queue' \in Seq(Commands)
           /\ busy' \in BOOLEAN
           /\ toPeer' \in [Sockets -> Seq(Commands)]
           /\ writes' \in [Commands -> Nat]
<1> DEFINE line == Head(toClient[s])
           c == Head(queue)
<1>1. line \in Lines /\ c \in Commands /\ Tail(queue) \in Seq(Commands)
  BY DEF TypeOK, CompleteCurrent
<1>2. [by |-> line, on |-> s, lines |-> Absorb(line)] \in Answers
  BY <1>1, AbsorbType DEF Answers
<1>3. frame' \subseteq Lines /\ answer' \in [Commands -> Answers]
  BY <1>2 DEF CompleteCurrent, TypeOK
<1>4. CASE c \notin InitCommands
  <2>1. PumpQueue(Tail(queue), FALSE) /\ handshake' = handshake
    BY <1>4 DEF CompleteCurrent
  <2>2. outcome' \in [Commands -> Outcomes]
    BY <1>4 DEF CompleteCurrent, TypeOK, Outcomes
  <2> QED
    BY <1>1, <1>3, <2>1, <2>2, PumpQueueType DEF TypeOK
<1>5. CASE c \in InitCommands
  <2>1. c[1] \in Sockets /\ c[2] \in Nat
    BY <1>5, InitCommandParts
  <2>2. PumpQueue(Tail(queue) \o NextStep(c[1], c[2]), FALSE)
    BY <1>5 DEF CompleteCurrent
  <2>3. Tail(queue) \o NextStep(c[1], c[2]) \in Seq(Commands)
    <3>1. NextStep(c[1], c[2]) \in Seq(Commands)
      BY <2>1, NextStepType
    <3> HIDE DEF c
    <3> QED
      BY <1>1, <3>1
  <2>4. /\ outcome' \in [Commands -> Outcomes]
        /\ handshake' \in [Sockets -> HandshakeStates]
    <3>1. \A i \in Commands : outcome'[i] \in Outcomes
      BY <1>5 DEF CompleteCurrent, TypeOK, Outcomes
    <3>2. outcome' = [i \in Commands |-> outcome'[i]]
      BY <1>5 DEF CompleteCurrent
    <3>3. handshake' \in [Sockets -> HandshakeStates]
      <4>1. StageAfter(c[2]) \in HandshakeStates
        BY StageAfterType
      <4>2. handshake' = [handshake EXCEPT ![c[1]] = StageAfter(c[2])]
        BY <1>5 DEF CompleteCurrent
      <4> QED
        BY <4>1, <4>2 DEF TypeOK
    <3> QED
      BY <3>1, <3>2, <3>3
  <2> QED
    BY <1>3, <2>2, <2>3, <2>4, PumpQueueType
<1> QED
  BY <1>4, <1>5

LEMMA HandleLineTypeOK ==
    ASSUME TypeOK, NEW s \in Sockets, HandleLine(s)
    PROVE  TypeOK'
<1>1. toClient' \in [Sockets -> Seq(Lines)] /\ Head(toClient[s]) \in Lines
  BY DEF HandleLine, TypeOK
<1>2. CASE AbsorbLine(s)
  <2>1. frame' \subseteq Lines
    BY <1>1, <1>2, AbsorbType DEF AbsorbLine
  <2> QED
    BY <1>1, <1>2, <2>1 DEF HandleLine, AbsorbLine, TypeOK, clientVars, readyVars, peerVars
<1>3. CASE CompleteCurrent(s)
  <2>1. toClient[s] # <<>>
    BY DEF HandleLine
  <2> QED
    BY <1>1, <1>3, <2>1, CompleteCurrentType DEF HandleLine, TypeOK, clientVars, readyVars, peerVars
<1>4. CASE DropFrame
  BY <1>1, <1>4 DEF HandleLine, DropFrame, TypeOK, clientVars, readyVars, peerVars
<1> QED
  BY <1>2, <1>3, <1>4 DEF HandleLine

(* Every step leaves the state well typed. *)
LEMMA NextTypeOK == TypeOK /\ [Next]_vars => TypeOK'
<1> SUFFICES ASSUME TypeOK, [Next]_vars PROVE TypeOK'
  OBVIOUS
<1> USE DEF clientVars, readyVars, peerVars
<1>1. CASE Connect
  BY <1>1, OpenSocketType DEF Connect, TypeOK
<1>2. CASE AttachSocket
  <2>1. 1 \in Sockets
    BY BoundsAssumption DEF Sockets
  <2> QED
    BY <1>2, <2>1 DEF AttachSocket, Adopt, TypeOK, ConnStates, HandshakeStates
<1>3. CASE Disconnect
  <2>1. RejectAllPending({}) /\ conn' = Destroyed(socket)
    BY <1>3 DEF Disconnect
  <2>2. conn' \in [Sockets -> ConnStates]
    BY <2>1, DestroyedType
  <2> QED
    BY <1>3, <2>1, <2>2, RejectAllPendingType DEF Disconnect, ClearReconnectTimer, TypeOK
<1>4. ASSUME NEW c \in UserCommands, Send(c) PROVE TypeOK'
  <2>1. c \in Commands /\ Append(queue, c) \in Seq(Commands) /\ busy \in BOOLEAN
    BY DEF Commands, TypeOK
  <2>2. PumpQueue(Append(queue, c), busy)
    BY <1>4 DEF Send
  <2>3. outcome' \in [Commands -> Outcomes]
    BY <1>4 DEF Send, TypeOK, Outcomes
  <2> QED
    BY <1>4, <2>1, <2>2, <2>3, PumpQueueType DEF Send, TypeOK
<1>5. ASSUME NEW s \in Sockets, SocketEvent(s) PROVE TypeOK'
  <2>1. CASE HandleWelcome(s)
    BY <2>1, HandleWelcomeTypeOK
  <2>2. CASE HandleLine(s)
    BY <2>2, HandleLineTypeOK
  <2>3. CASE SocketError(s)
    BY <2>3, RejectType, DestroyedType DEF SocketError, Fault, TypeOK
  <2>4. CASE SocketEnd(s)
    BY <2>4, DestroyedType DEF SocketEnd, Fault, TypeOK
  <2>5. CASE SocketClose(s)
    <3>1. /\ outcome' \in [Commands -> Outcomes]
          /\ handshake' \in [Sockets -> HandshakeStates]
          /\ queue' \in Seq(Commands)
          /\ busy' \in BOOLEAN
      BY <2>5, RejectAllPendingType DEF SocketClose
    <3>2. reconnectTimer' \in BOOLEAN /\ reconnectAttempt' \in Nat
      BY <2>5, ScheduleReconnectType DEF SocketClose
    <3>3. /\ conn' \in [Sockets -> ConnStates]
          /\ toPeer' \in [Sockets -> Seq(Commands)]
          /\ toClient' \in [Sockets -> Seq(Lines)]
      <4>1. <<>> \in Seq(Commands) /\ <<>> \in Seq(Lines)
        OBVIOUS
      <4> QED
        BY <2>5, <4>1 DEF SocketClose, TypeOK, ConnStates
    <3> QED
      BY <2>5, <3>1, <3>2, <3>3 DEF SocketClose, TypeOK
  <2> QED
    BY <1>5, <2>1, <2>2, <2>3, <2>4, <2>5 DEF SocketEvent
<1>6. CASE Reconnect
  BY <1>6, OpenSocketType DEF Reconnect, TypeOK
<1>7. ASSUME NEW a \in Sockets, WelcomeTimeout(a) PROVE TypeOK'
  <2>1. /\ outcome' \in [Commands -> Outcomes]
        /\ handshake' \in [Sockets -> HandshakeStates]
    BY <1>7, RejectType DEF WelcomeTimeout
  <2>2. faults' \in Nat
    BY <1>7 DEF WelcomeTimeout, TypeOK, peerVars
  <2> QED
    BY <1>7, <2>1, <2>2 DEF WelcomeTimeout, TypeOK
<1>8. ASSUME NEW i \in DOMAIN queue, CommandTimeout(i) PROVE TypeOK'
  <2>1. Reject({queue[i]}, {}) /\ conn' = Destroyed(socket) /\ queue' = Without(i)
    BY <1>8 DEF CommandTimeout
  <2>2. /\ outcome' \in [Commands -> Outcomes]
        /\ handshake' \in [Sockets -> HandshakeStates]
    BY <2>1, RejectType
  <2>3. conn' \in [Sockets -> ConnStates] /\ queue' \in Seq(Commands)
    BY <2>1, DestroyedType, WithoutType
  <2> QED
    <3>1. busy' \in BOOLEAN /\ faults' \in Nat
      <4>1. busy' = FALSE /\ (faults' = faults \/ Fault("timeout"))
        BY <1>8 DEF CommandTimeout
      <4>2. faults \in Nat
        BY DEF TypeOK
      <4>3. faults' \in Nat
        BY <4>1, <4>2 DEF Fault
      <4> QED
        BY <4>1, <4>3
    <3>2. UNCHANGED <<clientVars, readyVars, frame, answer, writes, toPeer, toClient,
                      greeted, executed>>
      BY <1>8 DEF CommandTimeout
    <3> QED
      BY <2>2, <2>3, <3>1, <3>2 DEF TypeOK
<1>9. ASSUME NEW s \in Sockets, PeerWelcome(s) PROVE TypeOK'
  <2>1. Welcome \in Lines
    BY DEF Welcome, Lines, LineKinds
  <2>2. greeted' \subseteq Sockets
    BY <1>9 DEF PeerWelcome, TypeOK
  <2>3. toClient' \in [Sockets -> Seq(Lines)]
    <3>1. Append(toClient[s], Welcome) \in Seq(Lines)
      BY <2>1 DEF TypeOK
    <3> QED
      BY <1>9, <3>1 DEF PeerWelcome, TypeOK
  <2> QED
    BY <1>9, <2>2, <2>3 DEF PeerWelcome, TypeOK
<1>10. ASSUME NEW s \in Sockets, PeerReply(s) PROVE TypeOK'
  <2>1. Head(toPeer[s]) \in Commands /\ Tail(toPeer[s]) \in Seq(Commands)
    BY <1>10 DEF PeerReply, TypeOK
  <2>2. \A kind \in LineKinds : Line(kind, Head(toPeer[s])) \in Lines
    BY <2>1 DEF Line, Lines
  <2>3. Replies(Head(toPeer[s])) \subseteq Seq(Lines)
    <3>1. \A l, m \in Lines : <<l>> \in Seq(Lines) /\ <<l, m>> \in Seq(Lines)
      OBVIOUS
    <3> QED
      BY <2>2, <3>1 DEF Replies, LineKinds
  <2>4. toClient' \in [Sockets -> Seq(Lines)]
    <3>1. CASE UNCHANGED toClient
      BY <3>1 DEF TypeOK
    <3>2. ASSUME NEW reply \in Seq(Lines), toClient' = [toClient EXCEPT ![s] = @ \o reply]
          PROVE  toClient' \in [Sockets -> Seq(Lines)]
      BY <3>2 DEF TypeOK
    <3>3. CASE toClient' = [toClient EXCEPT ![s] = Append(@, Line("error", Head(toPeer[s])))]
      <4>1. Line("error", Head(toPeer[s])) \in Lines
        BY <2>2 DEF LineKinds
      <4> QED
        BY <3>3, <4>1 DEF TypeOK
    <3> QED
      BY <1>10, <2>3, <3>1, <3>2, <3>3 DEF PeerReply
  <2>5. faults' \in Nat
    <3>1. faults' = faults \/ faults' = faults + 1
      BY <1>10 DEF PeerReply, Fault
    <3> QED
      BY <3>1 DEF TypeOK
  <2> QED
    BY <1>10, <2>1, <2>4, <2>5 DEF PeerReply, TypeOK
<1>11. CASE UNCHANGED vars
  BY <1>11 DEF vars, TypeOK
<1> QED
  BY <1>1, <1>2, <1>3, <1>4, <1>5, <1>6, <1>7, <1>8, <1>9, <1>10, <1>11
  DEF Next, Application, Timer, Peer

(* Type correctness of the client, its sockets and the wire. *)
THEOREM TypeCorrect == Spec => []TypeOK
BY InitTypeOK, NextTypeOK, PTL DEF Spec

----------------------------------------------------------------------------
\* Sockets: at most one is usable, and none is opened after disconnect()

(* Sockets are numbered in the order they are created. *)
Numbered == \A s \in Sockets : conn[s] # "unused" => s <= opened

SocketInv == OneLiveSocket /\ Numbered

LEMMA SocketInvStep == TypeOK /\ SocketInv /\ [Next]_vars => SocketInv'
<1> SUFFICES ASSUME TypeOK, SocketInv, [Next]_vars PROVE SocketInv'
  OBVIOUS
<1> USE DEF SocketInv, OneLiveSocket, Numbered, clientVars
<1>1. ASSUME OpenSocket PROVE SocketInv'
  <2>1. opened \in Nat /\ opened + 1 \in Sockets /\ opened' = opened + 1 /\ socket' = opened + 1
    BY <1>1, BoundsAssumption DEF OpenSocket, Adopt, TypeOK, Sockets
  <2>2. conn' = [Destroyed(socket) EXCEPT ![opened + 1] = "live"]
    BY <1>1 DEF OpenSocket
  <2>3. \A s \in Sockets : conn'[s] = IF s = opened + 1 THEN "live"
                                    ELSE IF s = socket /\ conn[s] = "live" THEN "destroyed"
                                    ELSE conn[s]
    BY <2>1, <2>2 DEF Destroyed
  <2> QED
    BY <2>1, <2>3 DEF Sockets
<1>2. CASE Connect
  BY <1>1, <1>2 DEF Connect
<1>3. CASE AttachSocket
  <2>1. 1 \in Sockets /\ opened = 0 /\ \A s \in Sockets : conn[s] = "unused"
    BY <1>3, BoundsAssumption DEF AttachSocket, Sockets
  <2> QED
    BY <1>3, <2>1 DEF AttachSocket, Adopt, TypeOK
<1>4. CASE Disconnect
  BY <1>4 DEF Disconnect, Destroyed
<1>5. ASSUME NEW c \in UserCommands, Send(c) PROVE SocketInv'
  BY <1>5 DEF Send
<1>6. ASSUME NEW s \in Sockets, SocketEvent(s) PROVE SocketInv'
  <2>1. CASE HandleWelcome(s) \/ HandleLine(s)
    BY <2>1 DEF HandleWelcome, HandleLine
  <2>2. CASE SocketError(s) \/ SocketEnd(s)
    BY <2>2 DEF SocketError, SocketEnd, Destroyed
  <2>3. CASE SocketClose(s)
    BY <2>3 DEF SocketClose, TypeOK
  <2> QED
    BY <1>6, <2>1, <2>2, <2>3 DEF SocketEvent
<1>7. CASE Reconnect
  BY <1>1, <1>7 DEF Reconnect
<1>8. ASSUME NEW a \in Sockets, WelcomeTimeout(a) PROVE SocketInv'
  BY <1>8 DEF WelcomeTimeout
<1>9. ASSUME NEW i \in DOMAIN queue, CommandTimeout(i) PROVE SocketInv'
  BY <1>9 DEF CommandTimeout, Destroyed
<1>10. CASE Peer
  BY <1>10 DEF Peer, PeerWelcome, PeerReply
<1>11. CASE UNCHANGED vars
  BY <1>11 DEF vars
<1> QED
  BY <1>2, <1>3, <1>4, <1>5, <1>6, <1>7, <1>8, <1>9, <1>10, <1>11
  DEF Next, Application, Timer

(* openSocket, disconnect and the timers never leave a second usable      *)
(* socket behind, however often connect() is called.                      *)
THEOREM OneSocketAtATime == Spec => []OneLiveSocket
<1>1. Init => SocketInv
  BY DEF Init, SocketInv, OneLiveSocket, Numbered
<1>2. SocketInv => OneLiveSocket
  BY DEF SocketInv
<1> QED
  BY <1>1, <1>2, SocketInvStep, TypeCorrect, PTL DEF Spec

(* A reconnect timer is armed only while the client is not closed by hand. *)
TimerInv ==
    /\ reconnectTimer => ~manuallyClosed
    /\ opened = 0 => ~manuallyClosed

LEMMA TimerInvStep == TypeOK /\ TimerInv /\ [Next]_vars => TimerInv'
<1> SUFFICES ASSUME TypeOK, TimerInv, [Next]_vars PROVE TimerInv'
  OBVIOUS
<1> USE DEF TimerInv, clientVars
<1>1. CASE Connect
  <2>1. opened' # 0
    BY <1>1 DEF Connect, OpenSocket, Adopt, TypeOK, Sockets
  <2> QED
    BY <1>1, <2>1 DEF Connect
<1>2. CASE AttachSocket
  BY <1>2 DEF AttachSocket
<1>3. CASE Disconnect
  BY <1>3 DEF Disconnect, ClearReconnectTimer, TypeOK, Sockets
<1>4. ASSUME NEW c \in UserCommands, Send(c) PROVE TimerInv'
  BY <1>4 DEF Send
<1>5. ASSUME NEW s \in Sockets, SocketEvent(s) PROVE TimerInv'
  <2>1. CASE HandleWelcome(s) \/ HandleLine(s) \/ SocketError(s) \/ SocketEnd(s)
    BY <2>1 DEF HandleWelcome, HandleLine, SocketError, SocketEnd
  <2>2. CASE SocketClose(s)
    BY <2>2 DEF SocketClose, ScheduleReconnectIfNeeded, ReconnectWanted
  <2> QED
    BY <1>5, <2>1, <2>2 DEF SocketEvent
<1>6. CASE Timer
  <2>1. CASE Reconnect
    BY <2>1 DEF Reconnect
  <2>2. ASSUME NEW a \in Sockets, WelcomeTimeout(a) PROVE TimerInv'
    BY <2>2 DEF WelcomeTimeout
  <2>3. ASSUME NEW i \in DOMAIN queue, CommandTimeout(i) PROVE TimerInv'
    BY <2>3 DEF CommandTimeout
  <2> QED
    BY <1>6, <2>1, <2>2, <2>3 DEF Timer
<1>7. CASE Peer
  BY <1>7 DEF Peer, PeerWelcome, PeerReply
<1>8. CASE UNCHANGED vars
  BY <1>8 DEF vars
<1> QED
  BY <1>1, <1>2, <1>3, <1>4, <1>5, <1>6, <1>7, <1>8 DEF Next, Application

(* Only connect() opens a socket once disconnect() was called. *)
THEOREM NoSocketOpensAfterDisconnect == Spec => NoSocketAfterDisconnect
<1>1. Init => TimerInv
  BY DEF Init, TimerInv
<1>2. TypeOK /\ TimerInv /\ [Next]_vars
      => [manuallyClosed /\ manuallyClosed' => opened' = opened]_vars
  <2> SUFFICES ASSUME TypeOK, TimerInv, Next, manuallyClosed, manuallyClosed'
               PROVE  opened' = opened
    OBVIOUS
  <2>1. ~Connect /\ ~AttachSocket /\ ~Reconnect
    BY DEF TimerInv, Connect, AttachSocket, Reconnect
  <2> QED
    BY <2>1 DEF Next, Application, Timer, Peer, SocketEvent, Disconnect, Send, HandleWelcome,
       HandleLine, SocketError, SocketEnd, SocketClose, WelcomeTimeout, CommandTimeout,
       PeerWelcome, PeerReply, clientVars
<1> QED
  BY <1>1, <1>2, TimerInvStep, TypeCorrect, PTL DEF Spec, NoSocketAfterDisconnect

----------------------------------------------------------------------------
\* Requests and replies stay paired, for a client whose connect() is called once

(* The line that ends the reply to the command it belongs to. *)
EndsReply(line) ==
    \/ line.kind = "end"
    \/ line.kind \in {"success", "error"} /\ ExpectOf(line.cmd) = "single"

(* The socket the client refers to is the only one whose close event is    *)
(* outstanding, and it is closed when a reconnect timer is armed.          *)
CloseInv ==
    /\ \A s \in Sockets : conn[s] = "destroyed" /\ socket # 0 => s = socket
    /\ reconnectTimer => socket # 0 /\ conn[socket] = "closed"
    /\ opened = 0 => socket = 0

(* A busy client has a command in flight, unless its socket is going down. *)
BusyInv == busy => queue # <<>> /\ socket # 0 /\ conn[socket] \in {"live", "destroyed"}

(* On a usable socket the banner comes first and a reply is never followed *)
(* by anything; a socket not created yet carries nothing.                  *)
LinesInv ==
    /\ \A s \in Sockets : s \notin greeted => toClient[s] = <<>>
    /\ \A s \in Sockets : conn[s] = "unused" => toPeer[s] = <<>> /\ s \notin greeted
    /\ \A s \in Sockets : conn[s] = "live" =>
          \A i \in DOMAIN toClient[s] : EndsReply(toClient[s][i]) => i = Len(toClient[s])

WireInv == SocketInv /\ CloseInv /\ BusyInv /\ LinesInv /\ PipelineMatchesQueue

(* pumpQueue keeps the pairing when nothing of an earlier command is left  *)
(* on the wire, and when the command in flight stays at the head.          *)
LEMMA PumpQueuePipeline ==
    ASSUME TypeOK, WireInv, NEW q \in Seq(Commands), NEW b \in BOOLEAN, PumpQueue(q, b),
           UNCHANGED <<conn, socket>>,
           b => busy /\ q # <<>> /\ Head(q) = Head(queue),
           \A s \in Sockets : conn[s] = "live" =>
              /\ ~b => toPeer[s] = <<>>
              /\ \A i \in DOMAIN toClient'[s] : toClient'[s][i] # Welcome =>
                    b /\ toPeer[s] = <<>> /\ toClient'[s][i].cmd = Head(queue)
    PROVE  /\ PipelineMatchesQueue'
           /\ BusyInv'
           /\ \A s \in Sockets : conn[s] = "unused" => toPeer'[s] = <<>>
<1>1. queue' = q
  BY DEF PumpQueue
<1>2. CASE ~b /\ q # <<>> /\ Writable
  <2>1. socket \in Sockets /\ conn[socket] = "live" /\ toPeer[socket] = <<>>
    BY <1>2 DEF Writable, TypeOK
  <2>2. busy' /\ toPeer' = [toPeer EXCEPT ![socket] = Append(@, Head(q))]
    BY <1>2 DEF PumpQueue
  <2>3. toPeer'[socket] = <<Head(q)>> /\ \A s \in Sockets \ {socket} : toPeer'[s] = toPeer[s]
    BY <2>1, <2>2 DEF TypeOK
  <2>4. PipelineMatchesQueue'
    BY <1>1, <1>2, <2>1, <2>2, <2>3 DEF PipelineMatchesQueue, WireInv, SocketInv, OneLiveSocket
  <2>5. BusyInv'
    BY <1>1, <1>2, <2>1 DEF BusyInv, Writable
  <2> QED
    BY <2>1, <2>3, <2>4, <2>5 DEF WireInv, LinesInv
<1>3. CASE ~(~b /\ q # <<>> /\ Writable)
  <2>1. busy' = b /\ toPeer' = toPeer
    BY <1>3 DEF PumpQueue
  <2>2. PipelineMatchesQueue'
    <3>1. CASE b
      BY <1>1, <2>1, <3>1 DEF PipelineMatchesQueue, WireInv
    <3>2. CASE ~b
      BY <1>1, <2>1, <3>2 DEF PipelineMatchesQueue, WireInv
    <3> QED
      BY <3>1, <3>2
  <2>3. BusyInv'
    BY <1>1, <2>1 DEF BusyInv, WireInv
  <2> QED
    BY <2>1, <2>2, <2>3 DEF WireInv, LinesInv
<1> QED
  BY <1>2, <1>3

(* A new socket starts with an empty wire and an idle client. *)
LEMMA OpenSocketWire ==
    ASSUME TypeOK, WireInv, OpenSocket, UNCHANGED <<queue, busy, toPeer, toClient, greeted>>,
           reconnectTimer' = FALSE,
           opened = 0 \/ reconnectTimer,
           SocketInv'
    PROVE  WireInv'
<1>1. /\ opened + 1 \in Sockets /\ opened \in Nat
      /\ socket' = opened + 1 /\ opened' = opened + 1
      /\ conn' = [Destroyed(socket) EXCEPT ![opened + 1] = "live"]
  BY BoundsAssumption DEF OpenSocket, Adopt, TypeOK, Sockets
<1>2. \A s \in Sockets : conn'[s] = IF s = opened + 1 THEN "live"
                                  ELSE IF s = socket /\ conn[s] = "live" THEN "destroyed"
                                  ELSE conn[s]
  BY <1>1 DEF Destroyed
<1>3. \A s \in Sockets : conn[s] \notin {"live", "destroyed"}
  <2>1. CASE opened = 0
    BY <2>1 DEF WireInv, SocketInv, Numbered, Sockets
  <2>2. CASE reconnectTimer
    BY <2>2 DEF WireInv, CloseInv, SocketInv, OneLiveSocket
  <2> QED
    BY <2>1, <2>2
<1>4. ~busy
  BY <1>3 DEF WireInv, BusyInv, TypeOK
<1>5. conn[opened + 1] = "unused"
  BY <1>1 DEF WireInv, SocketInv, Numbered, TypeOK, ConnStates, Sockets
<1>6. CloseInv'
  BY <1>1, <1>2, <1>3 DEF CloseInv
<1>7. BusyInv'
  BY <1>4 DEF BusyInv
<1>8. LinesInv'
  BY <1>1, <1>2, <1>3, <1>5 DEF LinesInv, WireInv
<1>9. PipelineMatchesQueue'
  BY <1>1, <1>2, <1>3, <1>5 DEF PipelineMatchesQueue, LinesInv, WireInv
<1> QED
  BY <1>6, <1>7, <1>8, <1>9 DEF WireInv

LEMMA DisconnectWire ==
    ASSUME TypeOK, WireInv, Disconnect, SocketInv'
    PROVE  WireInv'
<1>1. /\ conn' = Destroyed(socket) /\ socket' = 0 /\ opened' = opened /\ opened > 0
      /\ reconnectTimer' = FALSE /\ busy' = FALSE
      /\ UNCHANGED <<toPeer, toClient, greeted>>
  BY DEF Disconnect, RejectAllPending, ClearReconnectTimer, peerVars
<1>2. \A s \in Sockets : conn'[s] # "live" /\ (conn'[s] = "unused" <=> conn[s] = "unused")
  BY <1>1 DEF Destroyed, WireInv, SocketInv, OneLiveSocket
<1> QED
  BY <1>1, <1>2 DEF WireInv, CloseInv, BusyInv, LinesInv, PipelineMatchesQueue

LEMMA SendWire ==
    ASSUME TypeOK, WireInv, NEW c \in UserCommands, Send(c), SocketInv'
    PROVE  WireInv'
<1>1. /\ PumpQueue(Append(queue, c), busy)
      /\ UNCHANGED <<conn, socket, opened, reconnectTimer, toClient, greeted>>
  BY DEF Send, clientVars, peerVars
<1>2. c \in Commands /\ queue \in Seq(Commands) /\ busy \in BOOLEAN
  BY DEF Commands, TypeOK
<1>3. Append(queue, c) \in Seq(Commands)
  BY <1>2
<1>4. busy => Append(queue, c) # <<>> /\ Head(Append(queue, c)) = Head(queue)
  BY <1>2 DEF WireInv, BusyInv
<1>5. \A s \in Sockets : conn[s] = "live" =>
         /\ ~busy => toPeer[s] = <<>>
         /\ \A i \in DOMAIN toClient'[s] : toClient'[s][i] # Welcome =>
               busy /\ toPeer[s] = <<>> /\ toClient'[s][i].cmd = Head(queue)
  BY <1>1 DEF WireInv, PipelineMatchesQueue
<1>6. /\ PipelineMatchesQueue' /\ BusyInv'
      /\ \A s \in Sockets : conn[s] = "unused" => toPeer'[s] = <<>>
  BY <1>1, <1>2, <1>3, <1>4, <1>5, PumpQueuePipeline
<1> QED
  BY <1>1, <1>6 DEF WireInv, CloseInv, LinesInv, EndsReply

(* What the wire looks like once the first line of s is consumed. *)
LEMMA ConsumeLine ==
    ASSUME TypeOK, WireInv, NEW s \in Sockets, conn[s] = "live", toClient[s] # <<>>,
           toClient' = [toClient EXCEPT ![s] = Tail(@)]
    PROVE  /\ \A x \in Sockets \ {s} : toClient'[x] = toClient[x]
           /\ toClient'[s] = Tail(toClient[s])
           /\ Head(toClient[s]) = toClient[s][1] /\ 1 \in DOMAIN toClient[s]
           /\ Len(toClient'[s]) = Len(toClient[s]) - 1
           /\ \A i \in DOMAIN toClient'[s] :
                 i \in Nat /\ i + 1 \in DOMAIN toClient[s] /\ toClient'[s][i] = toClient[s][i + 1]
<1>1. toClient[s] \in Seq(Lines) /\ toClient'[s] = Tail(toClient[s])
  BY DEF TypeOK
<1>2. \A x \in Sockets \ {s} : toClient'[x] = toClient[x]
  BY DEF TypeOK
<1>3. /\ Head(toClient[s]) = toClient[s][1] /\ 1 \in DOMAIN toClient[s]
      /\ Len(Tail(toClient[s])) = Len(toClient[s]) - 1
  BY <1>1
<1>4. \A i \in 1 .. Len(toClient[s]) - 1 : Tail(toClient[s])[i] = toClient[s][i + 1]
  BY <1>1, HeadTailProperties
<1>5. DOMAIN toClient'[s] = 1 .. Len(toClient[s]) - 1 /\ DOMAIN toClient[s] = 1 .. Len(toClient[s])
  <2>1. Tail(toClient[s]) \in Seq(Lines)
    BY <1>1
  <2>2. DOMAIN Tail(toClient[s]) = 1 .. Len(Tail(toClient[s]))
    BY <2>1
  <2>3. DOMAIN toClient'[s] = 1 .. Len(toClient[s]) - 1
    BY <1>1, <1>3, <2>2
  <2>4. DOMAIN toClient[s] = 1 .. Len(toClient[s])
    BY <1>1
  <2> QED
    BY <2>3, <2>4
<1> QED
  BY <1>1, <1>2, <1>3, <1>4, <1>5

(* What is left on the wire after a line was consumed was on it before. *)
LEMMA ConsumeLinePipeline ==
    ASSUME TypeOK, WireInv, NEW s \in Sockets, conn[s] = "live", toClient[s] # <<>>,
           toClient' = [toClient EXCEPT ![s] = Tail(@)],
           NEW x \in Sockets, conn[x] = "live",
           NEW i \in DOMAIN toClient'[x], toClient'[x][i] # Welcome
    PROVE  busy /\ queue # <<>> /\ toPeer[x] = <<>> /\ toClient'[x][i].cmd = Head(queue)
<1>1. \E j \in DOMAIN toClient[x] : toClient'[x][i] = toClient[x][j]
  <2>0. /\ \A y \in Sockets \ {s} : toClient'[y] = toClient[y]
        /\ \A j \in DOMAIN toClient'[s] :
              j + 1 \in DOMAIN toClient[s] /\ toClient'[s][j] = toClient[s][j + 1]
    BY ConsumeLine
  <2>1. CASE x = s
    BY <2>0, <2>1
  <2>2. CASE x # s
    BY <2>0, <2>2
  <2> QED
    BY <2>1, <2>2
<1> QED
  BY <1>1 DEF WireInv, PipelineMatchesQueue

(* Consuming a line keeps LinesInv. *)
LEMMA ConsumeLineLinesInv ==
    ASSUME TypeOK, WireInv, NEW s \in Sockets, conn[s] = "live", toClient[s] # <<>>,
           toClient' = [toClient EXCEPT ![s] = Tail(@)],
           UNCHANGED <<conn, greeted>>,
           \A x \in Sockets : conn[x] = "unused" => toPeer'[x] = <<>>
    PROVE  LinesInv'
<1>1. LinesInv
  BY DEF WireInv
<1>2. \A x \in Sockets : x \notin greeted => toClient'[x] = <<>>
  BY <1>1, ConsumeLine DEF LinesInv
<1>3. \A x \in Sockets : conn[x] = "live" =>
         \A i \in DOMAIN toClient'[x] : EndsReply(toClient'[x][i]) => i = Len(toClient'[x])
  <2> TAKE x \in Sockets
  <2> HAVE conn[x] = "live"
  <2> TAKE i \in DOMAIN toClient'[x]
  <2> HAVE EndsReply(toClient'[x][i])
  <2>1. CASE x = s
    <3>1. \A j \in DOMAIN toClient'[s] :
             j \in Nat /\ j + 1 \in DOMAIN toClient[s] /\ toClient'[s][j] = toClient[s][j + 1]
      BY ConsumeLine
    <3>2. i + 1 \in DOMAIN toClient[s] /\ EndsReply(toClient[s][i + 1])
      BY <2>1, <3>1
    <3>3. i + 1 = Len(toClient[s])
      BY <1>1, <3>2 DEF LinesInv
    <3>4. Len(toClient'[s]) = Len(toClient[s]) - 1
      BY ConsumeLine
    <3> QED
      BY <2>1, <3>1, <3>3, <3>4
  <2>2. CASE x # s
    BY <1>1, <2>2, ConsumeLine DEF LinesInv
  <2> QED
    BY <2>1, <2>2
<1> QED
  BY <1>1, <1>2, <1>3 DEF LinesInv, EndsReply

LEMMA HandleWelcomeWire ==
    ASSUME TypeOK, WireInv, NEW s \in Sockets, HandleWelcome(s), SocketInv'
    PROVE  WireInv'
<1>1. /\ conn[s] = "live" /\ toClient[s] # <<>> /\ Head(toClient[s]) = Welcome
      /\ toClient' = [toClient EXCEPT ![s] = Tail(@)]
      /\ UNCHANGED <<conn, socket, opened, reconnectTimer, greeted>>
  BY DEF HandleWelcome, peerVars
<1>2. \A x \in Sockets : conn[x] = "live" =>
         \A i \in DOMAIN toClient'[x] : toClient'[x][i] # Welcome =>
               busy /\ queue # <<>> /\ toPeer[x] = <<>> /\ toClient'[x][i].cmd = Head(queue)
  BY <1>1, ConsumeLinePipeline
<1>3. CASE UNCHANGED <<queue, busy, toPeer>>
  <2>1. LinesInv'
    BY <1>1, <1>3, ConsumeLineLinesInv DEF WireInv, LinesInv
  <2>2. PipelineMatchesQueue'
    BY <1>1, <1>2, <1>3 DEF WireInv, PipelineMatchesQueue
  <2> QED
    BY <1>1, <1>3, <2>1, <2>2 DEF WireInv, CloseInv, BusyInv
<1>4. ASSUME NEW a \in Sockets, PumpQueue(queue \o NextStep(a, 0), busy)
      PROVE  WireInv'
  <2>1. queue \in Seq(Commands) /\ NextStep(a, 0) \in Seq(Commands) /\ busy \in BOOLEAN
    BY NextStepType DEF TypeOK
  <2>2. queue \o NextStep(a, 0) \in Seq(Commands)
    BY <2>1
  <2>3. busy => queue \o NextStep(a, 0) # <<>> /\ Head(queue \o NextStep(a, 0)) = Head(queue)
    BY <2>1 DEF WireInv, BusyInv
  <2>4. \A x \in Sockets : conn[x] = "live" => (~busy => toPeer[x] = <<>>)
    BY DEF WireInv, PipelineMatchesQueue
  <2>5. /\ PipelineMatchesQueue' /\ BusyInv'
        /\ \A x \in Sockets : conn[x] = "unused" => toPeer'[x] = <<>>
    BY <1>1, <1>2, <1>4, <2>1, <2>2, <2>3, <2>4, PumpQueuePipeline
  <2>6. LinesInv'
    BY <1>1, <2>5, ConsumeLineLinesInv
  <2> QED
    BY <1>1, <2>5, <2>6 DEF WireInv, CloseInv
<1> QED
  BY <1>3, <1>4 DEF HandleWelcome, StartInitialize, AwaitingWelcome

(* A line of a reply that completes the frame is the end of the reply to   *)
(* the head of the queue, and nothing is behind it.                        *)
LEMMA CompletingLine ==
    ASSUME TypeOK, WireInv, NEW s \in Sockets, conn[s] = "live", toClient[s] # <<>>,
           Head(toClient[s]) # Welcome, Completes(Head(toClient[s]))
    PROVE  /\ queue # <<>> /\ Head(toClient[s]).cmd = Head(queue)
           /\ toPeer[s] = <<>> /\ Len(toClient[s]) = 1 /\ Tail(toClient[s]) = <<>>
           /\ EndsReply(Head(toClient[s]))
<1>1. toClient[s] \in Seq(Lines) /\ Head(toClient[s]) = toClient[s][1] /\ 1 \in DOMAIN toClient[s]
  BY DEF TypeOK
<1>2. busy /\ queue # <<>> /\ toPeer[s] = <<>> /\ Head(toClient[s]).cmd = Head(queue)
  BY <1>1 DEF WireInv, PipelineMatchesQueue
<1>3. EndsReply(Head(toClient[s]))
  BY <1>2 DEF Completes, ParseMode, EndsReply
<1>4. Len(toClient[s]) = 1
  BY <1>1, <1>3 DEF WireInv, LinesInv
<1>5. Tail(toClient[s]) = <<>>
  <2>1. Len(Tail(toClient[s])) = 0 /\ Tail(toClient[s]) \in Seq(Lines)
    BY <1>1, <1>4
  <2> QED
    BY <2>1, EmptySeq
<1> QED
  BY <1>1, <1>2, <1>3, <1>4, <1>5

LEMMA HandleLineWire ==
    ASSUME TypeOK, WireInv, NEW s \in Sockets, HandleLine(s), SocketInv'
    PROVE  WireInv'
<1>1. /\ conn[s] = "live" /\ toClient[s] # <<>> /\ Head(toClient[s]) # Welcome
      /\ toClient' = [toClient EXCEPT ![s] = Tail(@)]
      /\ UNCHANGED <<conn, socket, opened, reconnectTimer, greeted>>
  BY DEF HandleLine, clientVars, peerVars
<1>2. \A x \in Sockets : conn[x] = "live" =>
         \A i \in DOMAIN toClient'[x] : toClient'[x][i] # Welcome =>
               busy /\ queue # <<>> /\ toPeer[x] = <<>> /\ toClient'[x][i].cmd = Head(queue)
  BY <1>1, ConsumeLinePipeline
<1>3. CASE UNCHANGED <<queue, busy, toPeer>>
  <2>1. LinesInv'
    BY <1>1, <1>3, ConsumeLineLinesInv DEF WireInv, LinesInv
  <2>2. PipelineMatchesQueue'
    BY <1>1, <1>2, <1>3 DEF WireInv, PipelineMatchesQueue
  <2> QED
    BY <1>1, <1>3, <2>1, <2>2 DEF WireInv, CloseInv, BusyInv
<1>4. ASSUME Completes(Head(toClient[s])), CompleteCurrent(s)
      PROVE  WireInv'
  <2>1. /\ queue # <<>> /\ toPeer[s] = <<>> /\ Tail(toClient[s]) = <<>>
    BY <1>1, <1>4, CompletingLine
  <2>2. toClient'[s] = <<>>
    BY <1>1, <2>1, ConsumeLine
  <2>3. PICK q \in Seq(Commands) : PumpQueue(q, FALSE)
    <3>1. Tail(queue) \in Seq(Commands) /\ Head(queue) \in Commands
      BY <2>1 DEF TypeOK
    <3>2. CASE Head(queue) \notin InitCommands
      BY <1>4, <3>1, <3>2 DEF CompleteCurrent
    <3>3. CASE Head(queue) \in InitCommands
      <4>1. NextStep(Head(queue)[1], Head(queue)[2]) \in Seq(Commands)
        BY <3>3, InitCommandParts, NextStepType
      <4>2. Tail(queue) \o NextStep(Head(queue)[1], Head(queue)[2]) \in Seq(Commands)
        BY <3>1, <4>1
      <4> QED
        BY <1>4, <3>3, <4>2 DEF CompleteCurrent
    <3> QED
      BY <3>2, <3>3
  <2>4. \A x \in Sockets : conn[x] = "live" =>
           /\ ~FALSE => toPeer[x] = <<>>
           /\ \A i \in DOMAIN toClient'[x] : toClient'[x][i] # Welcome =>
                 FALSE /\ toPeer[x] = <<>> /\ toClient'[x][i].cmd = Head(queue)
    BY <1>1, <2>1, <2>2 DEF WireInv, SocketInv, OneLiveSocket
  <2>5. /\ PipelineMatchesQueue' /\ BusyInv'
        /\ \A x \in Sockets : conn[x] = "unused" => toPeer'[x] = <<>>
    BY <1>1, <2>3, <2>4, PumpQueuePipeline
  <2>6. LinesInv'
    BY <1>1, <2>5, ConsumeLineLinesInv
  <2> QED
    BY <1>1, <2>5, <2>6 DEF WireInv, CloseInv
<1> QED
  BY <1>3, <1>4 DEF HandleLine, AbsorbLine, DropFrame

(* A socket that goes down, and the end of its close event. *)
LEMMA SocketDownWire ==
    ASSUME TypeOK, WireInv, NEW s \in Sockets, SocketError(s) \/ SocketEnd(s), SocketInv'
    PROVE  WireInv'
<1>1. /\ conn[s] = "live" /\ conn' = Destroyed(s)
      /\ UNCHANGED <<socket, opened, reconnectTimer, busy, queue, toPeer, toClient, greeted>>
  BY DEF SocketError, SocketEnd, clientVars
<1>2. s = socket /\ \A x \in Sockets : conn'[x] = IF x = s THEN "destroyed" ELSE conn[x]
  BY <1>1 DEF Destroyed, WireInv, SocketInv, OneLiveSocket
<1>3. ~reconnectTimer
  BY <1>1, <1>2 DEF WireInv, CloseInv
<1> QED
  BY <1>1, <1>2, <1>3 DEF WireInv, CloseInv, BusyInv, LinesInv, PipelineMatchesQueue, EndsReply

LEMMA SocketCloseWire ==
    ASSUME TypeOK, WireInv, NEW s \in Sockets, SocketClose(s), SocketInv'
    PROVE  WireInv'
<1>1. /\ conn[s] = "destroyed" /\ conn' = [conn EXCEPT ![s] = "closed"]
      /\ busy' = FALSE /\ UNCHANGED <<socket, opened, greeted>>
      /\ toPeer' = [toPeer EXCEPT ![s] = <<>>]
      /\ toClient' = [toClient EXCEPT ![s] = <<>>]
  BY DEF SocketClose, RejectAllPending, peerVars
<1>2. reconnectTimer' => reconnectTimer \/ socket # 0
  BY DEF SocketClose, ScheduleReconnectIfNeeded, ReconnectWanted
<1>3. \A x \in Sockets : conn'[x] = IF x = s THEN "closed" ELSE conn[x]
  BY <1>1 DEF TypeOK
<1>4. \A x \in Sockets : /\ toPeer'[x] = IF x = s THEN <<>> ELSE toPeer[x]
                         /\ toClient'[x] = IF x = s THEN <<>> ELSE toClient[x]
  BY <1>1 DEF TypeOK
<1>5. \A x \in Sockets : conn'[x] # "live"
  BY <1>1, <1>3 DEF WireInv, SocketInv, OneLiveSocket, CloseInv, Sockets
<1>6. CloseInv'
  BY <1>1, <1>2, <1>3 DEF WireInv, CloseInv, TypeOK
<1> QED
  BY <1>1, <1>3, <1>4, <1>5, <1>6
  DEF WireInv, BusyInv, LinesInv, PipelineMatchesQueue

LEMMA CommandTimeoutWire ==
    ASSUME TypeOK, WireInv, NEW i \in DOMAIN queue, CommandTimeout(i), SocketInv'
    PROVE  WireInv'
<1>1. /\ conn' = Destroyed(socket) /\ busy' = FALSE
      /\ UNCHANGED <<socket, opened, reconnectTimer, toPeer, toClient, greeted>>
  BY DEF CommandTimeout, clientVars
<1>2. \A x \in Sockets : conn'[x] = IF x = socket /\ conn[x] = "live" THEN "destroyed" ELSE conn[x]
  BY <1>1 DEF Destroyed
<1>3. \A x \in Sockets : conn'[x] # "live"
  BY <1>2 DEF WireInv, SocketInv, OneLiveSocket
<1>4. CloseInv'
  BY <1>1, <1>2 DEF WireInv, CloseInv, TypeOK
<1>5. LinesInv'
  BY <1>1, <1>2, <1>3 DEF WireInv, LinesInv
<1> QED
  BY <1>1, <1>3, <1>4, <1>5 DEF WireInv, BusyInv, PipelineMatchesQueue

(* OpenVPN greets a usable socket that carries no line yet. *)
LEMMA PeerWelcomeWire ==
    ASSUME TypeOK, WireInv, NEW s \in Sockets, PeerWelcome(s), SocketInv'
    PROVE  WireInv'
<1>1. /\ conn[s] = "live" /\ toClient[s] = <<>>
      /\ toClient' = [toClient EXCEPT ![s] = Append(@, Welcome)]
      /\ greeted' = greeted \cup {s}
      /\ UNCHANGED <<conn, socket, opened, reconnectTimer, busy, queue, toPeer>>
  BY DEF PeerWelcome, clientVars, WireInv, LinesInv
<1>2. toClient'[s] = <<Welcome>> /\ \A x \in Sockets \ {s} : toClient'[x] = toClient[x]
  BY <1>1 DEF TypeOK
<1>3. LinesInv'
  BY <1>1, <1>2 DEF WireInv, LinesInv, EndsReply, Welcome
<1>4. PipelineMatchesQueue'
  BY <1>1, <1>2 DEF WireInv, PipelineMatchesQueue
<1> QED
  BY <1>1, <1>3, <1>4 DEF WireInv, CloseInv, BusyInv

(* OpenVPN puts a reply behind its banner: lines of the command in flight, *)
(* of which at most the last one ends the reply.                           *)
LEMMA AppendReplyWire ==
    ASSUME TypeOK, WireInv, NEW s \in Sockets, conn[s] = "live", s \in greeted,
           toPeer[s] # <<>>,
           toPeer' = [toPeer EXCEPT ![s] = Tail(@)],
           NEW reply \in Seq(Lines),
           toClient' = [toClient EXCEPT ![s] = @ \o reply],
           \A j \in DOMAIN reply :
              reply[j].cmd = Head(toPeer[s]) /\ (EndsReply(reply[j]) => j = Len(reply)),
           UNCHANGED <<conn, socket, opened, reconnectTimer, queue, busy, greeted>>
    PROVE  LinesInv' /\ PipelineMatchesQueue'
<1>1. /\ busy /\ queue # <<>> /\ toPeer[s] = <<Head(queue)>>
      /\ \A i \in DOMAIN toClient[s] : toClient[s][i] = Welcome
  BY DEF WireInv, PipelineMatchesQueue
<1>2. Head(toPeer[s]) = Head(queue) /\ Tail(toPeer[s]) = <<>>
  <2> DEFINE c == Head(queue)
  <2>1. c \in Commands
    BY <1>1 DEF TypeOK
  <2> HIDE DEF c
  <2>2. Head(<<c>>) = c /\ Tail(<<c>>) = <<>>
    OBVIOUS
  <2> QED
    BY <1>1, <2>2 DEF c
<1>3. /\ toPeer'[s] = <<>> /\ toClient'[s] = toClient[s] \o reply
      /\ \A x \in Sockets \ {s} : toPeer'[x] = toPeer[x] /\ toClient'[x] = toClient[x]
  BY <1>2 DEF TypeOK
<1>4. toClient[s] \in Seq(Lines) /\ toClient[s] \o reply \in Seq(Lines)
  BY DEF TypeOK
<1>5. \A i \in DOMAIN toClient'[s] :
         \/ toClient'[s][i] = Welcome
         \/ /\ toClient'[s][i].cmd = Head(queue)
            /\ EndsReply(toClient'[s][i]) => i = Len(toClient'[s])
  <2> TAKE i \in DOMAIN toClient'[s]
  <2>1. /\ i \in 1 .. Len(toClient[s]) + Len(reply)
        /\ Len(toClient'[s]) = Len(toClient[s]) + Len(reply)
        /\ Len(toClient[s]) \in Nat /\ Len(reply) \in Nat
    BY <1>3, <1>4
  <2>2. CASE i <= Len(toClient[s])
    <3>1. i \in DOMAIN toClient[s] /\ toClient'[s][i] = toClient[s][i]
      BY <1>3, <1>4, <2>1, <2>2
    <3> QED
      BY <1>1, <3>1
  <2>3. CASE i > Len(toClient[s])
    <3>1. /\ i - Len(toClient[s]) \in DOMAIN reply
          /\ toClient'[s][i] = reply[i - Len(toClient[s])]
      BY <1>3, <1>4, <2>1, <2>3
    <3> QED
      BY <1>2, <2>1, <3>1
  <2> QED
    BY <2>1, <2>2, <2>3
<1>6. ~EndsReply(Welcome)
  BY DEF EndsReply, Welcome
<1>7. PipelineMatchesQueue'
  BY <1>1, <1>3, <1>5 DEF WireInv, PipelineMatchesQueue
<1>8. LinesInv'
  <2>1. \A x \in Sockets : x \notin greeted' => toClient'[x] = <<>>
    BY <1>3 DEF WireInv, LinesInv
  <2>2. \A x \in Sockets : conn'[x] = "unused" => toPeer'[x] = <<>> /\ x \notin greeted'
    BY <1>3 DEF WireInv, LinesInv
  <2>3. \A x \in Sockets : conn'[x] = "live" =>
           \A i \in DOMAIN toClient'[x] : EndsReply(toClient'[x][i]) => i = Len(toClient'[x])
    <3>1. \A i \in DOMAIN toClient'[s] : EndsReply(toClient'[s][i]) => i = Len(toClient'[s])
      BY <1>5, <1>6
    <3>2. \A x \in Sockets \ {s} : conn'[x] = "live" =>
             \A i \in DOMAIN toClient'[x] : EndsReply(toClient'[x][i]) => i = Len(toClient'[x])
      BY <1>3 DEF WireInv, LinesInv
    <3> QED
      BY <3>1, <3>2
  <2> QED
    BY <2>1, <2>2, <2>3 DEF LinesInv, EndsReply
<1> QED
  BY <1>7, <1>8

(* The replies OpenVPN gives have that form. *)
LEMMA RepliesShape ==
    ASSUME NEW c \in Commands, NEW reply \in Replies(c) \cup {<<Line("error", c)>>},
           reply \in Replies(c) \/ ExpectOf(c) = "end"
    PROVE  /\ reply \in Seq(Lines)
           /\ \A j \in DOMAIN reply :
                 reply[j].cmd = c /\ (EndsReply(reply[j]) => j = Len(reply))
<1>1. \A kind \in LineKinds : Line(kind, c) \in Lines
  BY DEF Line, Lines
<1>2. \A l, m \in Lines : /\ <<l>> \in Seq(Lines) /\ <<l, m>> \in Seq(Lines)
                          /\ Len(<<l>>) = 1 /\ DOMAIN <<l>> = {1} /\ <<l>>[1] = l
                          /\ Len(<<l, m>>) = 2 /\ DOMAIN <<l, m>> = {1, 2}
                          /\ <<l, m>>[1] = l /\ <<l, m>>[2] = m
  OBVIOUS
<1>3. CASE \E kind \in LineKinds : reply = <<Line(kind, c)>>
  BY <1>1, <1>2, <1>3 DEF Line
<1>4. CASE reply = <<Line("data", c), Line("end", c)>>
  <2>1. Line("data", c) \in Lines /\ Line("end", c) \in Lines
    BY <1>1 DEF LineKinds
  <2>2. ~EndsReply(Line("data", c)) /\ Line("data", c).cmd = c /\ Line("end", c).cmd = c
    BY DEF EndsReply, Line
  <2> QED
    BY <1>2, <1>4, <2>1, <2>2
<1> QED
  BY <1>3, <1>4 DEF Replies, LineKinds

LEMMA PeerReplyWire ==
    ASSUME TypeOK, WireInv, NEW s \in Sockets, PeerReply(s), SocketInv'
    PROVE  WireInv'
<1> DEFINE c == Head(toPeer[s])
<1>1. /\ s \in greeted /\ toPeer[s] # <<>>
      /\ toPeer' = [toPeer EXCEPT ![s] = Tail(@)]
      /\ UNCHANGED <<conn, socket, opened, reconnectTimer, queue, busy, greeted>>
  BY DEF PeerReply, clientVars
<1>2. CASE conn[s] = "live"
  <2>1. c \in Commands
    BY <1>1 DEF TypeOK
  <2>2. PICK reply \in Replies(c) \cup {<<Line("error", c)>>} :
           /\ reply \in Replies(c) \/ ExpectOf(c) = "end"
           /\ toClient' = [toClient EXCEPT ![s] = @ \o reply]
    <3>1. CASE \E reply \in Replies(c) : toClient' = [toClient EXCEPT ![s] = @ \o reply]
      BY <3>1
    <3>2. CASE /\ ExpectOf(c) = "end"
               /\ toClient' = [toClient EXCEPT ![s] = Append(@, Line("error", c))]
      <4>1. Line("error", c) \in Lines /\ toClient[s] \in Seq(Lines)
        BY <2>1 DEF Line, Lines, LineKinds, TypeOK
      <4>2. Append(toClient[s], Line("error", c)) = toClient[s] \o <<Line("error", c)>>
        BY <4>1, AppendIsConcat
      <4> QED
        BY <3>2, <4>2
    <3> QED
      BY <1>2, <3>1, <3>2 DEF PeerReply
  <2>3. LinesInv' /\ PipelineMatchesQueue'
    <3>1. /\ reply \in Seq(Lines)
          /\ \A j \in DOMAIN reply :
                reply[j].cmd = c /\ (EndsReply(reply[j]) => j = Len(reply))
      BY <2>1, <2>2, RepliesShape
    <3> QED
      BY <1>1, <1>2, <2>2, <3>1, AppendReplyWire
  <2> QED
    BY <1>1, <2>3 DEF WireInv, CloseInv, BusyInv
<1>3. CASE conn[s] # "live"
  <2>1. UNCHANGED toClient /\ conn[s] = "destroyed"
    BY <1>3 DEF PeerReply
  <2>2. \A x \in Sockets \ {s} : toPeer'[x] = toPeer[x]
    BY <1>1 DEF TypeOK
  <2>3. LinesInv'
    BY <1>1, <2>1, <2>2 DEF WireInv, LinesInv, EndsReply
  <2>4. PipelineMatchesQueue'
    BY <1>1, <1>3, <2>1, <2>2 DEF WireInv, PipelineMatchesQueue
  <2> QED
    BY <1>1, <2>3, <2>4 DEF WireInv, CloseInv, BusyInv
<1> QED
  BY <1>2, <1>3

(* Every step of a client whose connect() is called once keeps the pairing. *)
LEMMA WireInvStep == ~Reuse /\ TypeOK /\ WireInv /\ [Next]_vars => WireInv'
<1> SUFFICES ASSUME ~Reuse, TypeOK, WireInv, [Next]_vars PROVE WireInv'
  OBVIOUS
<1>0. SocketInv'
  BY SocketInvStep DEF WireInv
<1>1. CASE Connect
  <2>1. OpenSocket /\ opened = 0 /\ ~reconnectTimer
    BY <1>1 DEF Connect, WireInv, CloseInv
  <2>2. UNCHANGED <<queue, busy, toPeer, toClient, greeted>> /\ reconnectTimer' = FALSE
    BY <1>1, <2>1 DEF Connect, peerVars, TypeOK
  <2> QED
    BY <1>0, <2>1, <2>2, OpenSocketWire
<1>2. CASE AttachSocket
  <2>1. /\ opened = 0 /\ socket = 0 /\ ~reconnectTimer /\ ~busy
        /\ \A s \in Sockets : conn[s] = "unused"
    BY <1>2 DEF AttachSocket, WireInv, CloseInv, BusyInv, SocketInv, Numbered, Sockets
  <2>2. /\ socket' = 1 /\ opened' = 1 /\ conn' = [conn EXCEPT ![1] = "live"] /\ 1 \in Sockets
        /\ UNCHANGED <<reconnectTimer, queue, busy, toPeer, toClient, greeted>>
    BY <1>2, BoundsAssumption DEF AttachSocket, Adopt, peerVars, Sockets
  <2>3. \A s \in Sockets : conn'[s] = IF s = 1 THEN "live" ELSE "unused"
    BY <2>1, <2>2 DEF TypeOK
  <2>4. CloseInv' /\ BusyInv'
    BY <2>1, <2>2, <2>3 DEF CloseInv, BusyInv
  <2>5. LinesInv' /\ PipelineMatchesQueue'
    BY <2>1, <2>2, <2>3 DEF WireInv, LinesInv, PipelineMatchesQueue
  <2> QED
    BY <1>0, <2>4, <2>5 DEF WireInv
<1>3. CASE Disconnect
  BY <1>0, <1>3, DisconnectWire
<1>4. ASSUME NEW c \in UserCommands, Send(c) PROVE WireInv'
  BY <1>0, <1>4, SendWire
<1>5. ASSUME NEW s \in Sockets, SocketEvent(s) PROVE WireInv'
  BY <1>0, <1>5, HandleWelcomeWire, HandleLineWire, SocketDownWire, SocketCloseWire
  DEF SocketEvent
<1>6. CASE Reconnect
  <2>1. /\ OpenSocket /\ reconnectTimer /\ reconnectTimer' = FALSE
        /\ UNCHANGED <<queue, busy, toPeer, toClient, greeted>>
    BY <1>6 DEF Reconnect, peerVars
  <2> QED
    BY <1>0, <2>1, OpenSocketWire
<1>7. ASSUME NEW a \in Sockets, WelcomeTimeout(a) PROVE WireInv'
  <2>1. UNCHANGED <<conn, socket, opened, reconnectTimer, queue, busy, toPeer, toClient, greeted>>
    BY <1>7 DEF WelcomeTimeout, clientVars, peerVars
  <2> QED
    BY <1>0, <2>1 DEF WireInv, CloseInv, BusyInv, LinesInv, PipelineMatchesQueue, EndsReply
<1>8. ASSUME NEW i \in DOMAIN queue, CommandTimeout(i) PROVE WireInv'
  BY <1>0, <1>8, CommandTimeoutWire
<1>9. ASSUME NEW s \in Sockets, PeerWelcome(s) \/ PeerReply(s) PROVE WireInv'
  BY <1>0, <1>9, PeerWelcomeWire, PeerReplyWire
<1>10. CASE UNCHANGED vars
  <2>1. UNCHANGED <<conn, socket, opened, reconnectTimer, queue, busy, toPeer, toClient, greeted>>
    BY <1>10 DEF vars, clientVars, peerVars
  <2> QED
    BY <1>0, <2>1 DEF WireInv, CloseInv, BusyInv, LinesInv, PipelineMatchesQueue, EndsReply
<1> QED
  BY <1>1, <1>2, <1>3, <1>4, <1>5, <1>6, <1>7, <1>8, <1>9, <1>10
  DEF Next, Application, Timer, Peer

(* For a client that is connected once (it may reconnect by itself any     *)
(* number of times) what is on the wire always belongs to the head of the  *)
(* queue, so that completeCurrent hands every reply to its own command.    *)
THEOREM RepliesStayPaired == ASSUME ~Reuse PROVE Spec => []PipelineMatchesQueue
<1>1. Init => WireInv
  <2> SUFFICES ASSUME Init PROVE WireInv
    OBVIOUS
  <2>1. \A s \in Sockets : conn[s] = "unused" /\ toPeer[s] = <<>> /\ toClient[s] = <<>>
    BY DEF Init
  <2>2. SocketInv /\ CloseInv /\ BusyInv
    BY <2>1 DEF Init, SocketInv, OneLiveSocket, Numbered, CloseInv, BusyInv
  <2>3. LinesInv /\ PipelineMatchesQueue
    BY <2>1 DEF Init, LinesInv, PipelineMatchesQueue
  <2> QED
    BY <2>2, <2>3 DEF WireInv
<1>2. WireInv => PipelineMatchesQueue
  BY DEF WireInv
<1>3. TypeOK /\ WireInv /\ [Next]_vars => WireInv'
  BY WireInvStep
<1> QED
  BY <1>1, <1>2, <1>3, TypeCorrect, PTL DEF Spec
=============================================================================
