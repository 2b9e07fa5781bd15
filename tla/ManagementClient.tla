-------------------------- MODULE ManagementClient --------------------------
(***************************************************************************)
(* The management-interface client of packages/core/src/client.ts together *)
(* with the frame assembler of packages/core/src/codec.ts.                 *)
(*                                                                         *)
(* One action is one turn of the JavaScript event loop: an application     *)
(* call, a socket event, a received line or a timer, with every promise    *)
(* continuation it releases.  OpenVPN's side of the connection and the     *)
(* operating system are the environment, at the end of the module.         *)
(*                                                                         *)
(* A command is an application command or a step of the initialisation     *)
(* sequence <<a, k>>: step k run by connection attempt a.  Connection      *)
(* attempts and sockets are numbered together, 0 stands for `null`.        *)
(***************************************************************************)
EXTENDS Naturals, Sequences

CONSTANTS
    SingleCommands,  \* application commands answered by one SUCCESS:/ERROR: line
    EndCommands,     \* application commands answered by a body closed by END
    InitSequence,    \* the response modes of options.initSequence
    AutoReconnect,   \* options.autoReconnect
    Reuse,           \* connect() may be called again on the same client
    Faults,          \* which faults the environment may cause
    MaxFaults,       \* bound on the number of faults
    MaxSockets       \* bound on the number of sockets

UserCommands == SingleCommands \cup EndCommands
Sockets == 1 .. MaxSockets
Steps == 1 .. Len(InitSequence)
InitCommands == Sockets \X Steps
Commands == UserCommands \cup InitCommands
Modes == {"single", "end"}
FaultKinds == {"error", "end", "timeout", "welcome", "bare"}

ASSUME CommandsAssumption ==
    /\ SingleCommands \cap EndCommands = {}
    /\ UserCommands \cap InitCommands = {}
ASSUME InitSequenceAssumption == InitSequence \in Seq(Modes)
ASSUME OptionsAssumption ==
    /\ AutoReconnect \in BOOLEAN
    /\ Reuse \in BOOLEAN
ASSUME BoundsAssumption ==
    /\ Faults \subseteq FaultKinds
    /\ MaxFaults \in Nat
    /\ MaxSockets \in Nat \ {0}

VARIABLES
    conn,              \* how each socket stands
    socket,            \* this.socket
    opened,            \* the number of sockets created so far
    manuallyClosed,    \* this.manuallyClosed
    reconnectTimer,    \* is this.reconnectTimer armed?
    reconnectAttempt,  \* this.reconnectAttempt
    readyOwner,        \* the attempt this.readyResolve and readyReject belong to
    handshake,         \* how far each connection attempt got
    welcomeTimers,     \* the attempts whose welcome timer is armed
    welcomeTimer,      \* the attempt whose timer this.welcomeTimer refers to
    queue,             \* this.queue
    busy,              \* this.busy
    frame,             \* the lines FrameParser holds in #pending
    outcome,           \* how the promise of each command stands
    answer,            \* what each resolved command was resolved with
    writes,            \* how often each command was written to a socket
    greeted,           \* the sockets OpenVPN sent its welcome banner on
    toPeer,            \* commands on their way to OpenVPN
    toClient,          \* lines on their way to the client
    executed,          \* the commands OpenVPN carried out
    faults             \* the number of faults so far

clientVars == <<socket, opened, manuallyClosed, reconnectTimer, reconnectAttempt>>
readyVars == <<readyOwner, welcomeTimers, welcomeTimer>>
peerVars == <<greeted, executed, faults>>
vars == <<conn, clientVars, readyVars, handshake, queue, busy, frame, outcome,
          answer, writes, toPeer, toClient, peerVars>>

----------------------------------------------------------------------------
\* Types and initial state

ConnStates == {"unused", "live", "destroyed", "closed"}
HandshakeStates == {"idle", "waiting", "initialising", "ready", "failed"}
Outcomes == {"new", "pending", "resolved", "rejected"}
NoCommand == <<>>
LineKinds == {"welcome", "success", "error", "data", "end"}
Lines == [kind : LineKinds, cmd : Commands \cup {NoCommand}]
Welcome == [kind |-> "welcome", cmd |-> NoCommand]
Line(kind, c) == [kind |-> kind, cmd |-> c]
NoAnswer == [by |-> Welcome, on |-> 0, lines |-> {}]
Answers == [by : Lines, on : Sockets \cup {0}, lines : SUBSET Lines]

TypeOK ==
    /\ conn \in [Sockets -> ConnStates]
    /\ socket \in Sockets \cup {0}
    /\ opened \in Sockets \cup {0}
    /\ manuallyClosed \in BOOLEAN
    /\ reconnectTimer \in BOOLEAN
    /\ reconnectAttempt \in Nat
    /\ readyOwner \in Sockets \cup {0}
    /\ handshake \in [Sockets -> HandshakeStates]
    /\ welcomeTimers \subseteq Sockets
    /\ welcomeTimer \in Sockets \cup {0}
    /\ queue \in Seq(Commands)
    /\ busy \in BOOLEAN
    /\ frame \subseteq Lines
    /\ outcome \in [Commands -> Outcomes]
    /\ answer \in [Commands -> Answers]
    /\ writes \in [Commands -> Nat]
    /\ greeted \subseteq Sockets
    /\ toPeer \in [Sockets -> Seq(Commands)]
    /\ toClient \in [Sockets -> Seq(Lines)]
    /\ executed \subseteq Commands
    /\ faults \in Nat

Init ==
    /\ conn = [s \in Sockets |-> "unused"]
    /\ socket = 0
    /\ opened = 0
    /\ manuallyClosed = FALSE
    /\ reconnectTimer = FALSE
    /\ reconnectAttempt = 0
    /\ readyOwner = 0
    /\ handshake = [s \in Sockets |-> "idle"]
    /\ welcomeTimers = {}
    /\ welcomeTimer = 0
    /\ queue = <<>>
    /\ busy = FALSE
    /\ frame = {}
    /\ outcome = [c \in Commands |-> "new"]
    /\ answer = [c \in Commands |-> NoAnswer]
    /\ writes = [c \in Commands |-> 0]
    /\ greeted = {}
    /\ toPeer = [s \in Sockets |-> <<>>]
    /\ toClient = [s \in Sockets |-> <<>>]
    /\ executed = {}
    /\ faults = 0

----------------------------------------------------------------------------
\* Helpers named after the methods they stand for

Queued == {queue[i] : i \in DOMAIN queue}

(* The response mode a command is completed in. *)
ExpectOf(c) ==
    IF c \in InitCommands THEN InitSequence[c[2]]
    ELSE IF c \in SingleCommands THEN "single" ELSE "end"

(* A socket that can be written to. *)
Writable == socket # 0 /\ conn[socket] = "live"

(* The attempts that a call of readyResolve or readyReject would settle. *)
AwaitingWelcome == {a \in Sockets : a = readyOwner /\ handshake[a] = "waiting"}

DestroyedNever(s) == conn

(* `conn` after s.destroy(); its close event is still to come. *)
Destroyed(s) ==
    [x \in Sockets |-> IF x = s /\ conn[x] = "live" THEN "destroyed" ELSE conn[x]]

(* The queue without the command at position i. *)
Without(i) == SubSeq(queue, 1, i - 1) \o SubSeq(queue, i + 1, Len(queue))

PumpQueueEagerly(q, b) ==
    /\ queue' = q
    /\ IF q # <<>> /\ Writable
       THEN /\ busy' = TRUE
            /\ toPeer' = [toPeer EXCEPT ![socket] = Append(@, Head(q))]
            /\ writes' = [writes EXCEPT ![Head(q)] = @ + 1]
       ELSE /\ busy' = b
            /\ UNCHANGED <<toPeer, writes>>

(* pumpQueue, with q for the queue and b for the busy flag it finds. *)
PumpQueue(q, b) ==
    /\ queue' = q
    /\ IF ~b /\ q # <<>> /\ Writable
       THEN /\ busy' = TRUE
            /\ toPeer' = [toPeer EXCEPT ![socket] = Append(@, Head(q))]
            /\ writes' = [writes EXCEPT ![Head(q)] = @ + 1]
       ELSE /\ busy' = b
            /\ UNCHANGED <<toPeer, writes>>

RejectCommandsOnly(cs, attempts) ==
    /\ outcome' = [c \in Commands |-> IF c \in cs THEN "rejected" ELSE outcome[c]]
    /\ handshake' = [a \in Sockets |->
                       IF \E k \in Steps : <<a, k>> \in cs THEN "failed" ELSE handshake[a]]

(* The promises of the commands cs are rejected.  The rejection of an      *)
(* initialisation step ends the attempt that runs it; the attempts in      *)
(* `attempts` end because their readyPromise is rejected.                  *)
Reject(cs, attempts) ==
    /\ outcome' = [c \in Commands |-> IF c \in cs THEN "rejected" ELSE outcome[c]]
    /\ handshake' = [a \in Sockets |->
                       IF a \in attempts \/ \E k \in Steps : <<a, k>> \in cs
                       THEN "failed" ELSE handshake[a]]

RejectAllPendingKeepsQueue(attempts) ==
    /\ Reject(Queued, attempts)
    /\ queue' = queue
    /\ busy' = FALSE

(* rejectAllPending: the whole queue is rejected and emptied. *)
RejectAllPending(attempts) ==
    /\ Reject(Queued, attempts)
    /\ queue' = <<>>
    /\ busy' = FALSE

NextStepTooFar(a, k) == IF k <= Len(InitSequence) THEN << <<a, k + 1>> >> ELSE <<>>
StageAfterTooSoon(k) == IF k + 1 < Len(InitSequence) THEN "initialising" ELSE "ready"

(* What the loop of initialize() submits after its first k steps, and the  *)
(* stage the attempt reaches.                                              *)
NextStep(a, k) == IF k < Len(InitSequence) THEN << <<a, k + 1>> >> ELSE <<>>
StageAfter(k) == IF k < Len(InitSequence) THEN "initialising" ELSE "ready"

BackoffKept == UNCHANGED reconnectAttempt

(* A welcome banner ends the series of failures. *)
ResetBackoff == reconnectAttempt' = 0

ReconnectTimerKept == UNCHANGED reconnectTimer

ClearReconnectTimer == reconnectTimer' = FALSE

(* A socket becomes this.socket, with a new readyPromise and welcome timer *)
(* (the tails of openSocket and attachSocket, then waitForWelcome).  The   *)
(* previous welcome timer stays armed: only its handle is overwritten.     *)
Adopt(s) ==
    /\ opened' = s
    /\ socket' = s
    /\ readyOwner' = s
    /\ handshake' = [handshake EXCEPT ![s] = "waiting"]
    /\ welcomeTimers' = welcomeTimers \cup {s}
    /\ welcomeTimer' = s

(* openSocket: the previous socket is destroyed and a new one created. *)
OpenSocket ==
    /\ opened < MaxSockets
    /\ Adopt(opened + 1)
    /\ conn' = [Destroyed(socket) EXCEPT ![opened + 1] = "live"]

----------------------------------------------------------------------------
\* Application calls

(* connect().  OpenVpnClient, the only user inside this repository, calls  *)
(* it once for every client it creates.                                    *)
Connect ==
    /\ Reuse \/ opened = 0
    /\ manuallyClosed' = FALSE
    /\ OpenSocket
    /\ UNCHANGED <<reconnectTimer, reconnectAttempt, queue, busy, frame, outcome,
                   answer, writes, toPeer, toClient, peerVars>>

(* attachSocket() then initialize(), as ManagementServer.accept calls them *)
(* once on every client it creates, always with autoReconnect off.         *)
AttachSocket ==
    /\ ~AutoReconnect
    /\ opened = 0
    /\ Adopt(1)
    /\ conn' = [conn EXCEPT ![1] = "live"]
    /\ UNCHANGED <<manuallyClosed, reconnectTimer, reconnectAttempt, queue, busy,
                   frame, outcome, answer, writes, toPeer, toClient, peerVars>>

Disconnect ==
    /\ opened > 0
    /\ manuallyClosed' = TRUE
    /\ ClearReconnectTimer
    /\ RejectAllPending({})
    /\ socket' = 0
    /\ conn' = Destroyed(socket)
    /\ UNCHANGED <<opened, reconnectAttempt, readyVars, frame, answer, writes,
                   toPeer, toClient, peerVars>>

(* send() and sendMultiline(). *)
Send(c) ==
    /\ outcome[c] = "new"
    /\ outcome' = [outcome EXCEPT ![c] = "pending"]
    /\ PumpQueue(Append(queue, c), busy)
    /\ UNCHANGED <<conn, clientVars, readyVars, handshake, frame, answer, toClient,
                   peerVars>>

----------------------------------------------------------------------------
\* Received lines

(* The continuation of a resolved readyPromise: initialize() starts, its   *)
(* first command going behind whatever is queued.                          *)
StartInitialize(a) ==
    /\ ResetBackoff
    /\ handshake' = [handshake EXCEPT ![a] = StageAfter(0)]
    /\ \/ /\ InitSequence = <<>>
          /\ UNCHANGED <<outcome, queue, busy, toPeer, writes>>
       \/ /\ InitSequence # <<>>
          /\ outcome' = [outcome EXCEPT ![<<a, 1>>] = "pending"]
          /\ PumpQueue(queue \o NextStep(a, 0), busy)

(* A welcome banner resolves the current readyPromise, if still pending. *)
HandleWelcome(s) ==
    /\ conn[s] = "live"
    /\ toClient[s] # <<>>
    /\ Head(toClient[s]) = Welcome
    /\ toClient' = [toClient EXCEPT ![s] = Tail(@)]
    /\ welcomeTimers' = welcomeTimers \ {welcomeTimer}
    /\ welcomeTimer' = 0
    /\ readyOwner' = 0
    /\ \/ /\ AwaitingWelcome = {}
          /\ UNCHANGED <<reconnectAttempt, handshake, outcome, queue, busy, toPeer, writes>>
       \/ \E a \in AwaitingWelcome : StartInitialize(a)
    /\ UNCHANGED <<conn, socket, opened, manuallyClosed, reconnectTimer, frame,
                   answer, peerVars>>

(* The mode handleData passes to FrameParser.push. *)
ParseMode == IF busy /\ queue # <<>> THEN ExpectOf(Head(queue)) ELSE "end"

(* Does the line complete the frame? *)
Completes(line) ==
    \/ line.kind = "end"
    \/ line.kind \in {"success", "error"} /\ ParseMode = "single"

(* FrameParser's #pending after a line: success and error are single       *)
(* fields, data lines pile up, END leaves no trace.                        *)
Absorb(line) ==
    IF line.kind = "end" THEN frame
    ELSE {l \in frame : l.kind # line.kind \/ l.kind = "data"} \cup {line}

AbsorbLine(s) ==
    /\ frame' = Absorb(Head(toClient[s]))
    /\ UNCHANGED <<handshake, queue, busy, outcome, answer, writes, toPeer>>

(* completeCurrent: the head of the queue gets the frame, whoever it is,   *)
(* and the next command is written.  When the head was a step of           *)
(* initialize(), its continuation submits the step after it.               *)
CompleteCurrent(s) ==
    LET line == Head(toClient[s])
        c == Head(queue)
    IN  /\ queue # <<>>
        /\ frame' = {}
        /\ answer' = [answer EXCEPT ![c] = [by |-> line, on |-> s, lines |-> Absorb(line)]]
        /\ \/ /\ c \notin InitCommands
              /\ outcome' = [outcome EXCEPT ![c] = "resolved"]
              /\ PumpQueue(Tail(queue), FALSE)
              /\ UNCHANGED handshake
           \/ /\ c \in InitCommands
              /\ outcome' = [i \in Commands |->
                               IF i = c THEN "resolved"
                               ELSE IF NextStep(c[1], c[2]) = <<i>> THEN "pending"
                               ELSE outcome[i]]
              /\ PumpQueue(Tail(queue) \o NextStep(c[1], c[2]), FALSE)
              /\ handshake' = [handshake EXCEPT ![c[1]] = StageAfter(c[2])]

(* completeCurrent with an empty queue: the frame is thrown away. *)
DropFrame ==
    /\ queue = <<>>
    /\ frame' = {}
    /\ UNCHANGED <<handshake, queue, busy, outcome, answer, writes, toPeer>>

HandleLine(s) ==
    /\ conn[s] = "live"
    /\ toClient[s] # <<>>
    /\ Head(toClient[s]) # Welcome
    /\ toClient' = [toClient EXCEPT ![s] = Tail(@)]
    /\ \/ ~Completes(Head(toClient[s])) /\ AbsorbLine(s)
       \/ Completes(Head(toClient[s])) /\ (CompleteCurrent(s) \/ DropFrame)
    /\ UNCHANGED <<conn, clientVars, readyVars, peerVars>>

----------------------------------------------------------------------------
\* Faults of the environment, at most MaxFaults of them but for "welcome"

Fault(kind) ==
    /\ kind \in Faults
    /\ faults < MaxFaults
    /\ faults' = faults + 1

----------------------------------------------------------------------------
\* Socket events

(* 'error': the connection is refused or reset.  readyReject is called and *)
(* node destroys the socket.                                               *)
SocketError(s) ==
    /\ conn[s] = "live"
    /\ Fault("error")
    /\ conn' = Destroyed(s)
    /\ Reject({}, AwaitingWelcome)
    /\ UNCHANGED <<clientVars, readyVars, queue, busy, frame, answer, writes,
                   toPeer, toClient, greeted, executed>>

(* 'end': OpenVPN closes the connection; node ends its own side too. *)
SocketEnd(s) ==
    /\ conn[s] = "live"
    /\ Fault("end")
    /\ conn' = Destroyed(s)
    /\ UNCHANGED <<clientVars, readyVars, handshake, queue, busy, frame, outcome,
                   answer, writes, toPeer, toClient, greeted, executed>>

ReconnectWantedOnce ==
    ~manuallyClosed /\ socket # 0 /\ AutoReconnect /\ ~reconnectTimer /\ reconnectAttempt = 0

(* The early returns of scheduleReconnectIfNeeded. *)
ReconnectWanted ==
    ~manuallyClosed /\ socket # 0 /\ AutoReconnect /\ ~reconnectTimer

(* scheduleReconnectIfNeeded: with delay base * 2^reconnectAttempt. *)
ScheduleReconnectIfNeeded ==
    IF ReconnectWanted
    THEN /\ reconnectTimer' = TRUE
         /\ reconnectAttempt' = reconnectAttempt + 1
    ELSE UNCHANGED <<reconnectTimer, reconnectAttempt>>

(* 'close', always the last event of a socket.  The handler acts on the    *)
(* client's current promise, queue and socket, whichever socket closed.    *)
SocketClose(s) ==
    /\ conn[s] = "destroyed"
    /\ conn' = [conn EXCEPT ![s] = "closed"]
    /\ RejectAllPending(AwaitingWelcome)
    /\ ScheduleReconnectIfNeeded
    /\ toPeer' = [toPeer EXCEPT ![s] = <<>>]
    /\ toClient' = [toClient EXCEPT ![s] = <<>>]
    /\ UNCHANGED <<socket, opened, manuallyClosed, readyVars, frame, answer,
                   writes, peerVars>>

----------------------------------------------------------------------------
\* Timers

(* The reconnect timer of scheduleReconnectIfNeeded. *)
Reconnect ==
    /\ reconnectTimer
    /\ reconnectTimer' = FALSE
    /\ OpenSocket
    /\ UNCHANGED <<manuallyClosed, reconnectAttempt, queue, busy, frame, outcome,
                   answer, writes, toPeer, toClient, peerVars>>

WelcomeTimerAbsent(a) == FALSE

WelcomeTimerArmed(a) == a \in welcomeTimers

(* The welcome timer armed for attempt a.  It rejects the client's current *)
(* readyPromise, whichever attempt that belongs to, and leaves the socket  *)
(* as it is.  It finds a waiting attempt only where the banner may be late *)
(* or not come at all, the fault "welcome".                                *)
WelcomeTimeout(a) ==
    /\ WelcomeTimerArmed(a)
    /\ welcomeTimers' = welcomeTimers \ {a}
    /\ Reject({}, AwaitingWelcome)
    /\ AwaitingWelcome = {} \/ "welcome" \in Faults
    /\ UNCHANGED <<conn, clientVars, readyOwner, welcomeTimer, queue, busy, frame,
                   answer, writes, toPeer, toClient, peerVars>>

(* Will the queue make no progress by itself?  There is no usable socket,  *)
(* or nothing is in flight and no handshake is due to send the next        *)
(* command, or the command in flight is neither on its way to OpenVPN nor  *)
(* its final line on the way back.                                         *)
Stalled ==
    \/ ~Writable
    \/ /\ Writable
       /\ ~busy
       /\ handshake[socket] = "waiting" => InitSequence = <<>>
    \/ /\ Writable
       /\ busy
       /\ toPeer[socket] = <<>>
       /\ \A i \in DOMAIN toClient[socket] : ~Completes(toClient[socket][i])

TimerArmedOnWrite(i) == busy /\ i = 1

(* Every command has its timer from enqueue until it leaves the queue. *)
TimerArmed(i) == i \in DOMAIN queue

(* The timer of the command at position i of the queue expires.  It clears *)
(* busy and destroys the socket even when another command is in flight.    *)
(* An expiry before the queue has stalled is a fault: OpenVPN was slow.    *)
CommandTimeout(i) ==
    /\ TimerArmed(i)
    /\ \/ Stalled /\ UNCHANGED faults
       \/ ~Stalled /\ Fault("timeout")
    /\ queue' = Without(i)
    /\ busy' = FALSE
    /\ conn' = Destroyed(socket)
    /\ Reject({queue[i]}, {})
    /\ UNCHANGED <<clientVars, readyVars, frame, answer, writes, toPeer, toClient,
                   greeted, executed>>

----------------------------------------------------------------------------
\* OpenVPN's side of the connection (external)

PeerWelcome(s) ==
    /\ conn[s] = "live"
    /\ s \notin greeted
    /\ greeted' = greeted \cup {s}
    /\ toClient' = [toClient EXCEPT ![s] = Append(@, Welcome)]
    /\ UNCHANGED <<conn, clientVars, readyVars, handshake, queue, busy, frame, outcome,
                   answer, writes, toPeer, executed, faults>>

(* The complete replies to a command. *)
Replies(c) ==
    IF ExpectOf(c) = "single"
    THEN {<<Line("success", c)>>, <<Line("error", c)>>}
    ELSE {<<Line("data", c), Line("end", c)>>}

(* OpenVPN carries out the commands in the order they arrive and answers   *)
(* each.  A command expected to end with END may be refused by a bare      *)
(* ERROR: line.  What it writes to a destroyed socket is lost.             *)
PeerReply(s) ==
    LET c == Head(toPeer[s])
    IN  /\ s \in greeted
        /\ toPeer[s] # <<>>
        /\ toPeer' = [toPeer EXCEPT ![s] = Tail(@)]
        /\ executed' = executed \cup {c}
        /\ \/ /\ conn[s] = "live"
              /\ \E reply \in Replies(c) :
                    toClient' = [toClient EXCEPT ![s] = @ \o reply]
              /\ UNCHANGED faults
           \/ /\ conn[s] = "live"
              /\ ExpectOf(c) = "end"
              /\ Fault("bare")
              /\ toClient' = [toClient EXCEPT ![s] = Append(@, Line("error", c))]
           \/ /\ conn[s] = "destroyed"
              /\ UNCHANGED <<toClient, faults>>
        /\ UNCHANGED <<conn, clientVars, readyVars, handshake, queue, busy, frame,
                       outcome, answer, writes, greeted>>

----------------------------------------------------------------------------
\* The specification

Application == Connect \/ AttachSocket \/ Disconnect \/ \E c \in UserCommands : Send(c)

SocketEvent(s) ==
    HandleWelcome(s) \/ HandleLine(s) \/ SocketError(s) \/ SocketEnd(s) \/ SocketClose(s)

Timer ==
    \/ Reconnect
    \/ \E a \in Sockets : WelcomeTimeout(a)
    \/ \E i \in DOMAIN queue : CommandTimeout(i)

Peer == \E s \in Sockets : PeerWelcome(s) \/ PeerReply(s)

Next == Application \/ (\E s \in Sockets : SocketEvent(s)) \/ Timer \/ Peer

Spec == Init /\ [][Next]_vars

(* The event loop delivers what arrived, close events follow destroy(),    *)
(* timers fire, and OpenVPN answers.  It greets as well, unless the fault  *)
(* "welcome" lets it stay silent for ever.  Nothing is assumed of the      *)
(* application and of the other faults.                                    *)
Fairness ==
    /\ \A s \in Sockets :
          /\ WF_vars(HandleWelcome(s)) /\ WF_vars(HandleLine(s))
          /\ WF_vars(SocketClose(s))
          /\ WF_vars("welcome" \notin Faults /\ PeerWelcome(s)) /\ WF_vars(PeerReply(s))
    /\ \A a \in Sockets : WF_vars(WelcomeTimeout(a))
    /\ WF_vars(Reconnect)
    /\ WF_vars(Stalled /\ \E i \in DOMAIN queue : CommandTimeout(i))

FairSpec == Spec /\ Fairness

----------------------------------------------------------------------------
\* Safety

(* At most one socket is usable, and it is the one the client refers to:   *)
(* openSocket and disconnect destroy the socket they replace.              *)
OneLiveSocket == \A s \in Sockets : conn[s] = "live" => s = socket

(* Requests and replies stay paired: whatever is on its way to OpenVPN or  *)
(* back on the usable socket belongs to the head of the queue, which is    *)
(* marked busy, and it is one command or the lines of one reply.  This is  *)
(* what lets completeCurrent give every result to the head of the queue.   *)
PipelineMatchesQueue ==
    \A s \in Sockets : conn[s] = "live" =>
        /\ toPeer[s] # <<>> => busy /\ queue # <<>> /\ toPeer[s] = <<Head(queue)>>
        /\ \A i \in DOMAIN toClient[s] : toClient[s][i] # Welcome =>
              /\ busy /\ queue # <<>> /\ toPeer[s] = <<>>
              /\ toClient[s][i].cmd = Head(queue)

(* A command is resolved by the line that ends its own reply, and its      *)
(* result holds the whole body of that reply (handleData picks the parse   *)
(* mode from the queue, so a wrong head would also cut frames wrongly).    *)
ResolvedByOwnReply ==
    \A c \in Commands : outcome[c] = "resolved" =>
        /\ answer[c].by.cmd = c
        /\ ExpectOf(c) = "end" => Line("data", c) \in answer[c].lines

(* The result of a command is the frame of that command and of no other    *)
(* (types.ts:68, "Result of a command frame").                             *)
ResultIsOwnFrame ==
    \A c \in Commands : outcome[c] = "resolved" =>
        \A l \in answer[c].lines : l.cmd = c

(* No command is written twice, also when it is still queued while the     *)
(* connection is lost and opened again: rejectAllPending runs first.       *)
WrittenAtMostOnce == \A c \in Commands : writes[c] <= 1

(* "initialized" is emitted for an attempt only when every step of the     *)
(* initialisation sequence was answered on the socket of that attempt.     *)
ReadyMeansInitialised ==
    \A a \in Sockets : handshake[a] = "ready" =>
        \A k \in Steps : outcome[<<a, k>>] = "resolved" /\ answer[<<a, k>>].on = a

(* A client with autoReconnect that lost its socket has a reconnect timer  *)
(* armed, unless the application closed it; a closed one has none.         *)
ReconnectArmedWhenLost ==
    /\ AutoReconnect /\ ~manuallyClosed /\ socket # 0 /\ conn[socket] = "closed"
          => reconnectTimer
    /\ reconnectTimer => ~manuallyClosed

(* The exponent of the reconnect delay is the number of connections lost   *)
(* since a welcome banner was last seen.                                   *)
BackoffCountsFailures ==
    LET welcomed == {a \in Sockets : handshake[a] \in {"initialising", "ready"}
                                     \/ \E k \in Steps : outcome[<<a, k>>] # "new"}
        last == IF welcomed = {} THEN 1 ELSE CHOOSE a \in welcomed : \A b \in welcomed : b <= a
    IN  AutoReconnect /\ ~manuallyClosed /\ socket # 0 =>
            reconnectAttempt = (socket - last) + (IF conn[socket] = "closed" THEN 1 ELSE 0)

----------------------------------------------------------------------------
\* Action properties

(* After disconnect() no socket is opened until connect() is called: the   *)
(* reconnect timer was cleared and no late event arms it again.            *)
NoSocketAfterDisconnect ==
    [][manuallyClosed /\ manuallyClosed' => opened' = opened]_vars

(* The client implements the service its callers rely on. *)
Service == INSTANCE CommandService
    WITH pending <- queue,
         transmitted <- {c \in Commands : writes[c] > 0}
ImplementsService == Service!Spec

----------------------------------------------------------------------------
\* Liveness

(* Every call of send() gets an answer, a rejection or a timeout. *)
EveryCommandSettles ==
    \A c \in UserCommands : outcome[c] = "pending" ~> outcome[c] \in {"resolved", "rejected"}

(* Every connection attempt ends: the promise of connect() is settled,     *)
(* also when OpenVPN accepts the connection and never sends its banner.    *)
EveryAttemptSettles ==
    \A a \in Sockets : handshake[a] \in {"waiting", "initialising"}
                         ~> handshake[a] \in {"ready", "failed"}

(* Once the faults are over, a client with autoReconnect ends up           *)
(* initialised, unless the application closed it.                          *)
EventuallyReady ==
    <>[](opened = 0 \/ manuallyClosed \/ (socket # 0 /\ handshake[socket] = "ready"))
=============================================================================
