------------------------ MODULE CommandServiceProofs ------------------------
(***************************************************************************)
(* What becomes of the commands of a client that is connected once: each   *)
(* is written at most once and resolved by its own reply, initialisation   *)
(* runs step by step on one connection, the queue moves by itself, and     *)
(* ManagementClient implements CommandService.                             *)
(***************************************************************************)
EXTENDS ManagementClientProofs

----------------------------------------------------------------------------
\* The invariants

(* The socket was destroyed and its close event is still to come. *)
Dying == socket # 0 /\ conn[socket] = "destroyed"

(* A command waits in one place, and was written only if it is the oldest  *)
(* and in flight, or if the socket it was written to is going down.        *)
QueueInv ==
    /\ \A i, j \in DOMAIN queue : queue[i] = queue[j] => i = j
    /\ \A i \in DOMAIN queue : outcome[queue[i]] = "pending"
    /\ \A i \in DOMAIN queue : writes[queue[i]] = 0 \/ (i = 1 /\ (busy \/ Dying))
    /\ \A c \in Commands : outcome[c] = "new" => writes[c] = 0
    /\ WrittenAtMostOnce

(* Step k of attempt a was answered on the connection of that attempt. *)
Answered(a, k) == outcome[<<a, k>>] = "resolved" /\ answer[<<a, k>>].on = a

(* The initialisation under way is that of the newest socket, which is not *)
(* closed: the steps before the one in the queue were answered, those      *)
(* after it not submitted.                                                 *)
StepsInv ==
    /\ readyOwner \in {0, opened} /\ socket \in {0, opened}
    /\ \A a \in Sockets : a > opened => handshake[a] = "idle"
    /\ \A a \in Sockets : handshake[a] \in {"idle", "waiting"} =>
          \A k \in Steps : outcome[<<a, k>>] = "new"
    /\ \A i \in DOMAIN queue, a \in Sockets, k \in Steps : queue[i] = <<a, k>> =>
          /\ a = opened /\ conn[a] \in {"live", "destroyed"}
          /\ \A j \in Steps : /\ j < k => Answered(a, j)
                              /\ j > k => outcome[<<a, j>>] = "new"
    /\ ReadyMeansInitialised

(* The body of the reply that ends at line i: already in the frame, or on  *)
(* the wire before it.                                                     *)
BodyHeld(s, i) ==
    \/ Line("data", toClient[s][i].cmd) \in frame
    \/ \E j \in DOMAIN toClient[s] : j < i /\ toClient[s][j] = Line("data", toClient[s][i].cmd)

(* A closing END has the body of its reply before it. *)
BodyInv ==
    \A s \in Sockets : conn[s] = "live" =>
        \A i \in DOMAIN toClient[s] : toClient[s][i].kind = "end" => BodyHeld(s, i)

(* What is on the wire was written, what comes back was executed. *)
ExecutedInv ==
    /\ \A s \in Sockets : \A i \in DOMAIN toPeer[s] : writes[toPeer[s][i]] > 0
    /\ \A s \in Sockets : \A i \in DOMAIN toClient[s] :
          toClient[s][i] # Welcome => toClient[s][i].cmd \in executed

(* The attempts that saw a welcome banner. *)
Welcomed == {a \in Sockets : handshake[a] \in {"initialising", "ready"}
                             \/ \E k \in Steps : outcome[<<a, k>>] # "new"}

Latest(m) == IF Welcomed = {} THEN m = 1 ELSE m \in Welcomed /\ \A b \in Welcomed : b <= m

(* The delay counts the connections lost since the latest banner, the one  *)
(* that is not replaced yet included.                                      *)
Closed == IF conn[socket] = "closed" THEN 1 ELSE 0

BackoffInv ==
    /\ opened = 0 => reconnectAttempt = 0
    /\ AutoReconnect /\ ~manuallyClosed /\ socket # 0 =>
          \E m \in Sockets : Latest(m) /\ reconnectAttempt = (socket - m) + Closed

(* A lost connection is being replaced, unless the client was closed. *)
LostInv ==
    AutoReconnect /\ ~manuallyClosed /\ socket # 0 /\ conn[socket] = "closed" => reconnectTimer

HistoryInv ==
    QueueInv /\ StepsInv /\ BodyInv /\ ResolvedByOwnReply /\ ExecutedInv /\ LostInv /\ BackoffInv

----------------------------------------------------------------------------
\* Positions in the queue

LEMMA AppendPositions ==
    ASSUME NEW q \in Seq(Commands), NEW c \in Commands
    PROVE  /\ Append(q, c) \in Seq(Commands) /\ Append(q, c) # <<>>
           /\ \A i \in DOMAIN Append(q, c) :
                 \/ i \in DOMAIN q /\ Append(q, c)[i] = q[i]
                 \/ i = Len(q) + 1 /\ Append(q, c)[i] = c
           /\ q # <<>> => Head(Append(q, c)) = Head(q)
<1> DEFINE r == Append(q, c)
<1>1. r \in Seq(Commands) /\ r # <<>> /\ Len(r) = Len(q) + 1
  BY AppendProperties
<1>2. DOMAIN q = 1 .. Len(q) /\ Len(q) \in Nat
  OBVIOUS
<1>3. \A i \in 1 .. Len(q) + 1 : r[i] = IF i <= Len(q) THEN q[i] ELSE c
  BY AppendProperties
<1>4. q # <<>> => Head(r) = Head(q)
  OBVIOUS
<1> HIDE DEF r
<1>5. DOMAIN r = 1 .. Len(r)
  BY <1>1
<1>6. \A i \in DOMAIN r : (i \in DOMAIN q /\ r[i] = q[i]) \/ (i = Len(q) + 1 /\ r[i] = c)
  <2> TAKE i \in DOMAIN r
  <2>1. i \in 1 .. Len(q) + 1
    BY <1>1, <1>5
  <2>2. r[i] = IF i <= Len(q) THEN q[i] ELSE c
    BY <1>3, <2>1
  <2>3. i \in 1 .. Len(q) \/ (i = Len(q) + 1 /\ ~(i <= Len(q)))
    BY <1>2, <2>1
  <2>4. i \in 1 .. Len(q) => i <= Len(q)
    BY <1>2
  <2> QED
    BY <1>2, <2>2, <2>3, <2>4
<1>7. r \in Seq(Commands) /\ r # <<>>
  BY <1>1
<1> QED
  BY <1>4, <1>6, <1>7 DEF r

LEMMA TailPositions ==
    ASSUME NEW q \in Seq(Commands), q # <<>>
    PROVE  /\ Tail(q) \in Seq(Commands) /\ Head(q) \in Commands
           /\ Head(q) = q[1] /\ 1 \in DOMAIN q
           /\ \A i \in DOMAIN Tail(q) : i \in Nat /\ i + 1 \in DOMAIN q /\ Tail(q)[i] = q[i + 1]
<1>1. Tail(q) \in Seq(Commands) /\ Len(Tail(q)) = Len(q) - 1 /\ Head(q) = q[1] /\ 1 \in DOMAIN q
  OBVIOUS
<1>2. \A i \in 1 .. Len(q) - 1 : Tail(q)[i] = q[i + 1]
  BY HeadTailProperties
<1>3. DOMAIN Tail(q) = 1 .. Len(q) - 1 /\ DOMAIN q = 1 .. Len(q)
  <2>1. DOMAIN Tail(q) = 1 .. Len(Tail(q))
    BY <1>1
  <2> QED
    BY <1>1, <2>1
<1> QED
  BY <1>1, <1>2, <1>3

LEMMA WithoutPositions ==
    ASSUME TypeOK, NEW i \in DOMAIN queue
    PROVE  \A j \in DOMAIN Without(i) :
              \/ j < i /\ j \in DOMAIN queue /\ Without(i)[j] = queue[j]
              \/ j >= i /\ j \in Nat /\ j + 1 \in DOMAIN queue /\ Without(i)[j] = queue[j + 1]
<1> DEFINE l == SubSeq(queue, 1, i - 1)
           r == SubSeq(queue, i + 1, Len(queue))
<1>1. queue \in Seq(Commands) /\ i \in 1 .. Len(queue)
  BY DEF TypeOK
<1>2. l \in Seq(Commands) /\ Len(l) = i - 1 /\ \A j \in 1 .. i - 1 : l[j] = queue[j]
  BY <1>1
<1>3. r \in Seq(Commands) /\ Len(r) = Len(queue) - i /\ \A j \in 1 .. Len(r) : r[j] = queue[i + j]
  BY <1>1
<1>4. Without(i) = l \o r
  BY DEF Without
<1> HIDE DEF l, r
<1>5. /\ DOMAIN Without(i) = 1 .. Len(l) + Len(r)
      /\ \A j \in 1 .. Len(l) + Len(r) :
            Without(i)[j] = IF j <= Len(l) THEN l[j] ELSE r[j - Len(l)]
  BY <1>2, <1>3, <1>4
<1> TAKE j \in DOMAIN Without(i)
<1>6. CASE j < i
  BY <1>1, <1>2, <1>5, <1>6
<1>7. CASE j >= i
  <2>0. j \in 1 .. Len(queue) - 1 /\ Len(l) = i - 1 /\ Len(queue) \in Nat
    BY <1>1, <1>2, <1>3, <1>5
  <2>1. j - (i - 1) \in 1 .. Len(r) /\ Without(i)[j] = r[j - (i - 1)]
    <3>1. j - (i - 1) \in 1 .. Len(r)
      BY <1>1, <1>3, <1>7, <2>0
    <3>2. ~(j <= Len(l))
      BY <1>1, <1>7, <2>0
    <3> QED
      BY <1>5, <2>0, <3>1, <3>2
  <2>2. i + (j - (i - 1)) = j + 1 /\ j + 1 \in DOMAIN queue
    BY <1>1, <1>2, <1>3, <1>5, <1>7
  <2> QED
    BY <1>3, <1>5, <1>7, <2>1, <2>2
<1> QED
  BY <1>1, <1>5, <1>6, <1>7

LEMMA NextStepPairs ==
    ASSUME NEW a \in Sockets, NEW k \in Nat, NEW q \in Seq(Commands)
    PROVE  /\ k < Len(InitSequence) =>
                 <<a, k + 1>> \in Commands /\ q \o NextStep(a, k) = Append(q, <<a, k + 1>>)
           /\ k >= Len(InitSequence) => q \o NextStep(a, k) = q
<1>1. ASSUME k < Len(InitSequence)
      PROVE  <<a, k + 1>> \in Commands /\ q \o NextStep(a, k) = Append(q, <<a, k + 1>>)
  BY <1>1, InitCommandType, AppendIsConcat DEF NextStep
<1>2. ASSUME k >= Len(InitSequence) PROVE q \o NextStep(a, k) = q
  <2>1. NextStep(a, k) = <<>>
    BY <1>2, InitSequenceAssumption DEF NextStep
  <2> QED
    BY <2>1, ConcatEmptySeq
<1> QED
  BY <1>1, <1>2

----------------------------------------------------------------------------
\* What a step does to the commands

Quiet == UNCHANGED <<queue, outcome, writes, busy>> /\ (Dying => Dying')

Enqueue(c) ==
    /\ outcome[c] = "new"
    /\ outcome' = [outcome EXCEPT ![c] = "pending"]
    /\ PumpQueue(Append(queue, c), busy)
    /\ UNCHANGED <<conn, socket>>

(* The head of the queue is resolved; when it is a step of initialize(),   *)
(* the step after it is submitted at once.                                 *)
Resolved ==
    /\ queue # <<>>
    /\ outcome' = [outcome EXCEPT ![Head(queue)] = "resolved"]
    /\ PumpQueue(Tail(queue), FALSE)
    /\ UNCHANGED <<conn, socket>>

ResolvedAndEnqueue(c) ==
    /\ queue # <<>>
    /\ outcome[c] = "new"
    /\ outcome' = [outcome EXCEPT ![Head(queue)] = "resolved", ![c] = "pending"]
    /\ PumpQueue(Append(Tail(queue), c), FALSE)
    /\ UNCHANGED <<conn, socket>>

Expired(i) ==
    /\ queue' = Without(i)
    /\ outcome' = [outcome EXCEPT ![queue[i]] = "rejected"]
    /\ conn' = Destroyed(socket)
    /\ UNCHANGED <<writes, socket>>

Abandoned ==
    /\ queue' = <<>>
    /\ outcome' = [c \in Commands |-> IF c \in Queued THEN "rejected" ELSE outcome[c]]
    /\ UNCHANGED writes

(* The line that completes the frame was sent by OpenVPN for the head of   *)
(* the queue.                                                              *)
HeadAnswered(s) ==
    /\ conn[s] = "live" /\ toClient[s] # <<>> /\ Head(toClient[s]) # Welcome
    /\ Head(toClient[s]).cmd = Head(queue)

CommandStep ==
    \/ Quiet
    \/ \E c \in Commands : Enqueue(c)
    \/ (\E s \in Sockets : HeadAnswered(s)) /\ (Resolved \/ \E c \in Commands : ResolvedAndEnqueue(c))
    \/ \E i \in DOMAIN queue : Expired(i)
    \/ Abandoned

(* A command that completes is a step of initialize() with a successor, or *)
(* nothing follows it.                                                     *)
LEMMA CompletedStep ==
    ASSUME TypeOK, WireInv, StepsInv, NEW s \in Sockets, HandleLine(s),
           Completes(Head(toClient[s])), CompleteCurrent(s)
    PROVE  HeadAnswered(s) /\ (Resolved \/ \E c \in Commands : ResolvedAndEnqueue(c))
<1>1. /\ conn[s] = "live" /\ toClient[s] # <<>> /\ Head(toClient[s]) # Welcome
      /\ UNCHANGED <<conn, socket>>
  BY DEF HandleLine, clientVars
<1>2. queue # <<>> /\ Head(toClient[s]).cmd = Head(queue)
  BY <1>1, CompletingLine
<1>3. HeadAnswered(s)
  BY <1>1, <1>2 DEF HeadAnswered
<1>4. /\ queue \in Seq(Commands) /\ Tail(queue) \in Seq(Commands)
      /\ Head(queue) = queue[1] /\ 1 \in DOMAIN queue /\ Head(queue) \in Commands
  BY <1>2, TailPositions DEF TypeOK
<1> DEFINE c == Head(queue)
<1>5. CASE c \notin InitCommands
  BY <1>1, <1>2, <1>3, <1>5 DEF CompleteCurrent, Resolved
<1>6. CASE c \in InitCommands
  <2>1. c[1] \in Sockets /\ c[2] \in Steps /\ c[2] \in Nat /\ c = <<c[1], c[2]>>
    BY <1>6, InitCommandParts DEF InitCommands
  <2>2. /\ PumpQueue(Tail(queue) \o NextStep(c[1], c[2]), FALSE)
        /\ outcome' = [i \in Commands |-> IF i = c THEN "resolved"
                                          ELSE IF NextStep(c[1], c[2]) = <<i>> THEN "pending"
                                          ELSE outcome[i]]
    BY <1>6 DEF CompleteCurrent
  <2>3. CASE c[2] < Len(InitSequence)
    <3> DEFINE n == <<c[1], c[2] + 1>>
    <3>1. n \in Commands /\ Tail(queue) \o NextStep(c[1], c[2]) = Append(Tail(queue), n)
      BY <1>4, <2>1, <2>3, NextStepPairs
    <3>2. NextStep(c[1], c[2]) = <<n>> /\ c[2] + 1 \in Steps /\ c[2] < c[2] + 1
      BY <2>1, <2>3, InitSequenceAssumption DEF NextStep, Steps
    <3>3. outcome[n] = "new"
      BY <1>4, <2>1, <3>2 DEF StepsInv
    <3>4. \A i \in Commands : NextStep(c[1], c[2]) = <<i>> <=> i = n
      <4> HIDE DEF n
      <4> QED
        BY <3>2
    <3>5. outcome' = [outcome EXCEPT ![c] = "resolved", ![n] = "pending"]
      <4>1. c # n
        BY <2>1
      <4>2. c \in Commands /\ n \in Commands
        BY <1>4, <3>1
      <4> DEFINE x == NextStep(c[1], c[2])
      <4> HIDE DEF n, c, x
      <4>3. \A i \in Commands : outcome'[i] = IF i = c THEN "resolved"
                                            ELSE IF i = n THEN "pending" ELSE outcome[i]
        BY <2>2, <3>4 DEF x
      <4>4. outcome' = [i \in Commands |-> outcome'[i]]
        BY <2>2
      <4>5. outcome \in [Commands -> Outcomes]
        BY DEF TypeOK
      <4> QED
        BY <4>1, <4>2, <4>3, <4>4, <4>5
    <3>6. ResolvedAndEnqueue(n)
      BY <1>1, <1>2, <2>2, <3>1, <3>3, <3>5 DEF ResolvedAndEnqueue
    <3> QED
      BY <1>3, <3>1, <3>6
  <2>4. CASE c[2] >= Len(InitSequence)
    <3>1. Tail(queue) \o NextStep(c[1], c[2]) = Tail(queue)
      BY <1>4, <2>1, <2>4, NextStepPairs
    <3>2. NextStep(c[1], c[2]) = <<>>
      BY <2>1, <2>4, InitSequenceAssumption DEF NextStep
    <3>3. outcome' = [outcome EXCEPT ![c] = "resolved"]
      <4>1. \A i \in Commands : <<>> # <<i>>
        OBVIOUS
      <4> HIDE DEF c
      <4> QED
        BY <1>4, <2>2, <3>2, <4>1 DEF TypeOK
    <3> QED
      BY <1>1, <1>2, <1>3, <2>2, <3>1, <3>3 DEF Resolved
  <2> QED
    BY <2>1, <2>3, <2>4, InitSequenceAssumption
<1> QED
  BY <1>5, <1>6

(* A welcome banner that starts an initialisation is that of the newest    *)
(* socket, none of whose steps was submitted before.                       *)
LEMMA WelcomedAttempt ==
    ASSUME TypeOK, WireInv, StepsInv, NEW s \in Sockets, conn[s] = "live",
           NEW a \in AwaitingWelcome
    PROVE  /\ a = s /\ s = socket /\ s = opened /\ handshake[s] = "waiting"
           /\ \A k \in Steps : outcome[<<s, k>>] = "new"
BY DEF WireInv, SocketInv, OneLiveSocket, StepsInv, AwaitingWelcome, TypeOK, Sockets

LEMMA StartedInitialize ==
    ASSUME TypeOK, WireInv, StepsInv, NEW s \in Sockets, HandleWelcome(s), StartInitialize(s),
           s \in AwaitingWelcome, InitSequence # <<>>
    PROVE  <<s, 1>> \in Commands /\ 1 \in Steps /\ Enqueue(<<s, 1>>)
<1>1. 0 < Len(InitSequence) /\ Len(InitSequence) \in Nat
  BY InitSequenceAssumption, EmptySeq
<1>2. 1 \in Steps /\ queue \in Seq(Commands) /\ conn[s] = "live"
  BY <1>1 DEF Steps, TypeOK, HandleWelcome
<1>3. <<s, 1>> \in Commands /\ queue \o NextStep(s, 0) = Append(queue, <<s, 1>>)
  <2>1. /\ <<s, 0 + 1>> \in Commands
        /\ queue \o NextStep(s, 0) = Append(queue, <<s, 0 + 1>>)
    BY <1>1, <1>2, NextStepPairs
  <2> QED
    BY <2>1
<1>4. outcome[<<s, 1>>] = "new"
  BY <1>2, WelcomedAttempt
<1> QED
  BY <1>2, <1>3, <1>4 DEF HandleWelcome, StartInitialize, Enqueue

LEMMA RejectNothing ==
    ASSUME TypeOK, NEW as, Reject({}, as)
    PROVE  outcome' = outcome
BY DEF Reject, TypeOK

LEMMA OpenSocketQuiet ==
    ASSUME TypeOK, WireInv, opened = 0 \/ reconnectTimer
    PROVE  ~Dying
BY DEF Dying, WireInv, CloseInv, SocketInv, Numbered, TypeOK, Sockets

LEMMA SocketEventIsCommandStep ==
    ASSUME TypeOK, WireInv, StepsInv, NEW s \in Sockets, SocketEvent(s)
    PROVE  CommandStep
<1> USE DEF CommandStep
<1>1. CASE HandleWelcome(s)
  <2>1. UNCHANGED <<conn, socket>>
    BY <1>1 DEF HandleWelcome
  <2>2. CASE UNCHANGED <<queue, outcome, writes, busy>>
    BY <2>1, <2>2 DEF Quiet, Dying
  <2>3. ASSUME NEW a \in AwaitingWelcome, StartInitialize(a) PROVE CommandStep
    <3>1. CASE InitSequence = <<>>
      BY <2>1, <2>3, <3>1 DEF StartInitialize, Quiet, Dying
    <3>2. CASE InitSequence # <<>>
      <4>1. a = s
        BY <1>1, <2>3, WelcomedAttempt DEF HandleWelcome
      <4>2. <<s, 1>> \in Commands /\ Enqueue(<<s, 1>>)
        BY <1>1, <2>3, <3>2, <4>1, StartedInitialize
      <4> QED
        BY <4>2
    <3> QED
      BY <3>1, <3>2
  <2> QED
    BY <1>1, <2>2, <2>3 DEF HandleWelcome
<1>2. CASE HandleLine(s)
  <2>1. UNCHANGED <<conn, socket>>
    BY <1>2 DEF HandleLine, clientVars
  <2>2. CASE AbsorbLine(s)
    BY <2>1, <2>2 DEF AbsorbLine, Quiet, Dying
  <2>3. CASE Completes(Head(toClient[s])) /\ CompleteCurrent(s)
    BY <1>2, <2>3, CompletedStep
  <2>4. CASE DropFrame
    BY <2>1, <2>4 DEF DropFrame, Quiet, Dying
  <2> QED
    BY <1>2, <2>2, <2>3, <2>4 DEF HandleLine
<1>3. CASE SocketError(s)
  BY <1>3, RejectNothing DEF SocketError, clientVars, Quiet, Dying, Destroyed, TypeOK
<1>4. CASE SocketEnd(s)
  BY <1>4 DEF SocketEnd, clientVars, Quiet, Dying, Destroyed, TypeOK
<1>5. CASE SocketClose(s)
  BY <1>5 DEF SocketClose, RejectAllPending, Reject, Abandoned
<1> QED
  BY <1>1, <1>2, <1>3, <1>4, <1>5 DEF SocketEvent

LEMMA NextIsCommandStep ==
    ASSUME ~Reuse, TypeOK, WireInv, StepsInv, [Next]_vars
    PROVE  CommandStep
<1> USE DEF CommandStep, clientVars, peerVars, readyVars
<1>1. CASE Connect \/ AttachSocket
  <2>1. opened = 0 /\ UNCHANGED <<queue, outcome, writes, busy>>
    BY <1>1 DEF Connect, AttachSocket
  <2> QED
    BY <2>1, OpenSocketQuiet DEF Quiet
<1>2. CASE Disconnect
  BY <1>2 DEF Disconnect, RejectAllPending, Reject, Abandoned
<1>3. ASSUME NEW c \in UserCommands, Send(c) PROVE CommandStep
  BY <1>3 DEF Send, Enqueue, Commands
<1>4. ASSUME NEW s \in Sockets, SocketEvent(s) PROVE CommandStep
  BY <1>4, SocketEventIsCommandStep
<1>5. CASE Reconnect
  <2>1. reconnectTimer /\ UNCHANGED <<queue, outcome, writes, busy>>
    BY <1>5 DEF Reconnect
  <2> QED
    BY <2>1, OpenSocketQuiet DEF Quiet
<1>6. ASSUME NEW a \in Sockets, WelcomeTimeout(a) PROVE CommandStep
  BY <1>6, RejectNothing DEF WelcomeTimeout, Quiet, Dying
<1>7. ASSUME NEW i \in DOMAIN queue, CommandTimeout(i) PROVE CommandStep
  <2>1. queue[i] \in Commands
    BY DEF TypeOK
  <2>2. outcome' = [outcome EXCEPT ![queue[i]] = "rejected"]
    BY <1>7, <2>1 DEF CommandTimeout, Reject, TypeOK
  <2> QED
    BY <1>7, <2>2 DEF CommandTimeout, Expired
<1>8. CASE Peer
  BY <1>8 DEF Peer, PeerWelcome, PeerReply, Quiet, Dying
<1>9. CASE UNCHANGED vars
  BY <1>9 DEF vars, Quiet, Dying
<1> QED
  BY <1>1, <1>2, <1>3, <1>4, <1>5, <1>6, <1>7, <1>8, <1>9 DEF Next, Application, Timer

----------------------------------------------------------------------------
\* The queue: every command waits in one place and is written at most once

LEMMA PumpQueueQueue ==
    ASSUME TypeOK, QueueInv, NEW q \in Seq(Commands), NEW b \in BOOLEAN, PumpQueue(q, b),
           UNCHANGED <<conn, socket>>, outcome' \in [Commands -> Outcomes],
           \A i, j \in DOMAIN q : q[i] = q[j] => i = j,
           \A i \in DOMAIN q : /\ outcome'[q[i]] = "pending"
                               /\ writes[q[i]] = 0 \/ (i = 1 /\ (b \/ Dying)),
           \A c \in Commands : outcome'[c] = "new" => outcome[c] = "new"
    PROVE  QueueInv'
<1>1. queue' = q /\ (Dying' <=> Dying)
  BY DEF PumpQueue, Dying
<1>2. CASE ~b /\ q # <<>> /\ Writable
  <2>1. Head(q) = q[1] /\ 1 \in DOMAIN q /\ Head(q) \in Commands
    BY <1>2
  <2>2. writes[Head(q)] = 0
    BY <1>2, <2>1 DEF Dying, Writable
  <2>3. busy' = TRUE /\ writes' = [writes EXCEPT ![Head(q)] = @ + 1]
    BY <1>2 DEF PumpQueue
  <2>4. \A c \in Commands : writes'[c] = IF c = Head(q) THEN 1 ELSE writes[c]
    BY <2>1, <2>2, <2>3 DEF TypeOK
  <2>5. \A i \in DOMAIN q : q[i] \in Commands /\ (i # 1 => q[i] # Head(q))
    BY <2>1
  <2>6. \A i \in DOMAIN q : writes'[q[i]] = 0 \/ (i = 1 /\ busy')
    BY <1>2, <2>1, <2>3, <2>4, <2>5
  <2>7. \A c \in Commands : outcome'[c] = "new" => writes'[c] = 0
    BY <2>1, <2>4 DEF QueueInv
  <2>8. \A c \in Commands : writes'[c] <= 1
    <3>1. \A c \in Commands : writes[c] <= 1
      BY DEF QueueInv, WrittenAtMostOnce
    <3> QED
      BY <2>4, <3>1
  <2> QED
    BY <1>1, <2>6, <2>7, <2>8 DEF QueueInv, WrittenAtMostOnce
<1>3. CASE ~(~b /\ q # <<>> /\ Writable)
  <2>1. busy' = b /\ writes' = writes
    BY <1>3 DEF PumpQueue
  <2> QED
    BY <1>1, <2>1 DEF QueueInv, WrittenAtMostOnce
<1> QED
  BY <1>2, <1>3

LEMMA QueueInvStep ==
    ASSUME TypeOK, TypeOK', WireInv, QueueInv, CommandStep
    PROVE  QueueInv'
<1>1. /\ queue \in Seq(Commands) /\ busy \in BOOLEAN /\ outcome \in [Commands -> Outcomes]
      /\ outcome' \in [Commands -> Outcomes] /\ \A i \in DOMAIN queue : queue[i] \in Commands
  <2>1. /\ queue \in Seq(Commands) /\ busy \in BOOLEAN /\ outcome \in [Commands -> Outcomes]
        /\ outcome' \in [Commands -> Outcomes]
    BY DEF TypeOK
  <2>2. \A i \in DOMAIN queue : queue[i] \in Commands
    BY <2>1
  <2> QED
    BY <2>1, <2>2
<1>2. CASE Quiet
  BY <1>2 DEF Quiet, QueueInv, WrittenAtMostOnce
<1>3. ASSUME NEW c \in Commands, Enqueue(c) PROVE QueueInv'
  <2> DEFINE q == Append(queue, c)
  <2>1. q \in Seq(Commands) /\ PumpQueue(q, busy) /\ UNCHANGED <<conn, socket>>
    BY <1>1, <1>3, AppendPositions DEF Enqueue
  <2>2. \A i \in DOMAIN q : \/ i \in DOMAIN queue /\ q[i] = queue[i]
                            \/ i = Len(queue) + 1 /\ q[i] = c
    BY <1>1, AppendPositions
  <2>3. /\ outcome[c] = "new" /\ writes[c] = 0 /\ \A i \in DOMAIN queue : queue[i] # c
        /\ outcome' = [outcome EXCEPT ![c] = "pending"]
    BY <1>3 DEF Enqueue, QueueInv
  <2> HIDE DEF q
  <2>4. \A i, j \in DOMAIN q : q[i] = q[j] => i = j
    BY <2>2, <2>3 DEF QueueInv
  <2>5. \A i \in DOMAIN q : /\ outcome'[q[i]] = "pending"
                            /\ writes[q[i]] = 0 \/ (i = 1 /\ (busy \/ Dying))
    BY <1>1, <2>2, <2>3 DEF QueueInv
  <2>6. \A d \in Commands : outcome'[d] = "new" => outcome[d] = "new"
    BY <1>1, <2>3
  <2> QED
    BY <1>1, <2>1, <2>4, <2>5, <2>6, PumpQueueQueue
<1>4. CASE Resolved
  <2> DEFINE q == Tail(queue)
  <2>1. q \in Seq(Commands) /\ Head(queue) = queue[1] /\ 1 \in DOMAIN queue
    BY <1>1, <1>4, TailPositions DEF Resolved
  <2>2. \A i \in DOMAIN q : i \in Nat /\ i + 1 \in DOMAIN queue /\ q[i] = queue[i + 1]
    BY <1>1, <1>4, TailPositions DEF Resolved
  <2>3. \A i \in DOMAIN queue : i \in Nat /\ i >= 1
    BY <1>1
  <2> HIDE DEF q
  <2>4. \A i, j \in DOMAIN q : q[i] = q[j] => i = j
    BY <2>2 DEF QueueInv
  <2>5. \A i \in DOMAIN q : i >= 1
    <3>1. DOMAIN q = 1 .. Len(q)
      BY <2>1
    <3> QED
      BY <3>1
  <2>6. \A i \in DOMAIN q : q[i] # Head(queue) /\ writes[q[i]] = 0 /\ outcome[q[i]] = "pending"
    BY <2>1, <2>2, <2>5 DEF QueueInv
  <2>7. \A i \in DOMAIN q : outcome'[q[i]] = "pending"
    BY <1>1, <1>4, <2>1, <2>2, <2>6 DEF Resolved
  <2>8. \A d \in Commands : outcome'[d] = "new" => outcome[d] = "new"
    BY <1>1, <1>4 DEF Resolved
  <2> QED
    BY <1>1, <1>4, <2>1, <2>4, <2>6, <2>7, <2>8, PumpQueueQueue DEF Resolved, q
<1>5. ASSUME NEW c \in Commands, ResolvedAndEnqueue(c) PROVE QueueInv'
  <2> DEFINE t == Tail(queue)
             q == Append(t, c)
  <2>1. t \in Seq(Commands) /\ Head(queue) = queue[1] /\ 1 \in DOMAIN queue
    BY <1>1, <1>5, TailPositions DEF ResolvedAndEnqueue
  <2>2. \A i \in DOMAIN t : i \in Nat /\ i + 1 \in DOMAIN queue /\ t[i] = queue[i + 1]
    BY <1>1, <1>5, TailPositions DEF ResolvedAndEnqueue
  <2>3. /\ q \in Seq(Commands)
        /\ \A i \in DOMAIN q : (i \in DOMAIN t /\ q[i] = t[i]) \/ (i = Len(t) + 1 /\ q[i] = c)
    <3> HIDE DEF t
    <3> QED
      BY <2>1, AppendPositions
  <2>4. \A i \in DOMAIN t : i >= 1
    <3> HIDE DEF t
    <3>1. DOMAIN t = 1 .. Len(t)
      BY <2>1
    <3> QED
      BY <3>1
  <2>5. /\ outcome[c] = "new" /\ writes[c] = 0 /\ \A i \in DOMAIN queue : queue[i] # c
        /\ outcome' = [outcome EXCEPT ![Head(queue)] = "resolved", ![c] = "pending"]
        /\ PumpQueue(q, FALSE) /\ UNCHANGED <<conn, socket>>
    BY <1>5 DEF ResolvedAndEnqueue, QueueInv
  <2> HIDE DEF t, q
  <2>6. \A i \in DOMAIN t : /\ t[i] # Head(queue) /\ writes[t[i]] = 0
                            /\ outcome[t[i]] = "pending" /\ t[i] # c /\ t[i] \in Commands
    BY <1>1, <2>1, <2>2, <2>4, <2>5 DEF QueueInv
  <2>7. \A i, j \in DOMAIN t : t[i] = t[j] => i = j
    BY <2>2 DEF QueueInv
  <2>8. \A i, j \in DOMAIN q : q[i] = q[j] => i = j
    BY <2>3, <2>6, <2>7
  <2>9. \A i \in DOMAIN q : outcome'[q[i]] = "pending" /\ writes[q[i]] = 0
    BY <1>1, <2>1, <2>3, <2>5, <2>6
  <2>10. \A d \in Commands : outcome'[d] = "new" => outcome[d] = "new"
    BY <1>1, <2>5
  <2> QED
    BY <1>1, <2>3, <2>5, <2>8, <2>9, <2>10, PumpQueueQueue
<1>6. ASSUME NEW i \in DOMAIN queue, Expired(i) PROVE QueueInv'
  <2>1. /\ queue' = Without(i) /\ writes' = writes /\ socket' = socket
        /\ conn' = Destroyed(socket) /\ outcome' = [outcome EXCEPT ![queue[i]] = "rejected"]
    BY <1>6 DEF Expired
  <2>2. \A j \in DOMAIN queue' :
           \/ j < i /\ j \in DOMAIN queue /\ queue'[j] = queue[j]
           \/ j >= i /\ j \in Nat /\ j + 1 \in DOMAIN queue /\ queue'[j] = queue[j + 1]
    BY <2>1, WithoutPositions
  <2>3. i \in Nat /\ i >= 1 /\ \A j \in DOMAIN queue : j \in Nat
    BY <1>1
  <2>4. \A j, k \in DOMAIN queue' : queue'[j] = queue'[k] => j = k
    BY <2>2, <2>3 DEF QueueInv
  <2>5. \A j \in DOMAIN queue' : queue'[j] # queue[i] /\ queue'[j] \in Commands
    BY <1>1, <2>2, <2>3 DEF QueueInv
  <2>6. \A j \in DOMAIN queue' : outcome'[queue'[j]] = "pending"
    BY <1>1, <2>1, <2>2, <2>5 DEF QueueInv
  <2>7. busy \/ Dying => Dying'
    BY <2>1 DEF WireInv, BusyInv, Dying, Destroyed, TypeOK
  <2>8. \A j \in DOMAIN queue' : writes'[queue'[j]] = 0 \/ (j = 1 /\ Dying')
    BY <2>1, <2>2, <2>3, <2>7 DEF QueueInv
  <2>9. \A d \in Commands : outcome'[d] = "new" => outcome[d] = "new"
    BY <1>1, <2>1
  <2> QED
    BY <2>1, <2>4, <2>6, <2>8, <2>9 DEF QueueInv, WrittenAtMostOnce
<1>7. CASE Abandoned
  BY <1>1, <1>7 DEF Abandoned, QueueInv, WrittenAtMostOnce
<1> QED
  BY <1>2, <1>3, <1>4, <1>5, <1>6, <1>7 DEF CommandStep

----------------------------------------------------------------------------
\* The initialisation: step by step on one connection

(* What was resolved stays as it is. *)
LEMMA OutcomeStable ==
    ASSUME TypeOK, QueueInv, CommandStep, NEW c \in Commands
    PROVE  /\ outcome[c] = "resolved" => outcome'[c] = "resolved"
           /\ outcome'[c] = "new" => outcome[c] = "new"
<1>1. outcome \in [Commands -> Outcomes] /\ (queue # <<>> => Head(queue) = queue[1] /\ 1 \in DOMAIN queue)
  <2>1. queue \in Seq(Commands)
    BY DEF TypeOK
  <2> QED
    BY <2>1 DEF TypeOK
<1>2. queue # <<>> => outcome[Head(queue)] = "pending"
  BY <1>1 DEF QueueInv
<1>3. CASE Quiet
  BY <1>3 DEF Quiet
<1>4. ASSUME NEW d \in Commands, Enqueue(d) \/ ResolvedAndEnqueue(d)
      PROVE  /\ outcome[c] = "resolved" => outcome'[c] = "resolved"
             /\ outcome'[c] = "new" => outcome[c] = "new"
  BY <1>1, <1>4 DEF Enqueue, ResolvedAndEnqueue
<1>5. CASE Resolved
  BY <1>1, <1>5 DEF Resolved
<1>6. ASSUME NEW i \in DOMAIN queue, Expired(i)
      PROVE  /\ outcome[c] = "resolved" => outcome'[c] = "resolved"
             /\ outcome'[c] = "new" => outcome[c] = "new"
  BY <1>1, <1>6 DEF Expired, QueueInv
<1>7. CASE Abandoned
  BY <1>1, <1>7 DEF Abandoned, QueueInv, Queued
<1> QED
  BY <1>3, <1>4, <1>5, <1>6, <1>7 DEF CommandStep

LEMMA AnswerStable ==
    ASSUME TypeOK, QueueInv, [Next]_vars, NEW c \in Commands, outcome[c] # "pending"
    PROVE  answer'[c] = answer[c]
<1> USE DEF clientVars, peerVars, readyVars
<1>1. ASSUME NEW s \in Sockets, CompleteCurrent(s) PROVE answer'[c] = answer[c]
  <2>1. queue \in Seq(Commands) /\ queue # <<>>
    BY <1>1 DEF TypeOK, CompleteCurrent
  <2>2. Head(queue) # c
    BY <2>1 DEF QueueInv
  <2> QED
    BY <1>1, <2>2 DEF CompleteCurrent, TypeOK
<1>2. ASSUME NEW s \in Sockets, SocketEvent(s) PROVE answer'[c] = answer[c]
  BY <1>1, <1>2 DEF SocketEvent, HandleWelcome, HandleLine, AbsorbLine, DropFrame, SocketError,
     SocketEnd, SocketClose
<1>3. CASE Timer
  BY <1>3 DEF Timer, Reconnect, WelcomeTimeout, CommandTimeout
<1>4. CASE Application
  BY <1>4 DEF Application, Connect, AttachSocket, Disconnect, Send
<1>5. CASE Peer \/ UNCHANGED vars
  BY <1>5 DEF Peer, PeerWelcome, PeerReply, vars
<1> QED
  BY <1>2, <1>3, <1>4, <1>5 DEF Next

LEMMA StepIsCommand ==
    ASSUME NEW a \in Sockets, NEW k \in Steps
    PROVE  <<a, k>> \in Commands /\ <<a, k>> \in InitCommands /\ k \in Nat
BY InitSequenceAssumption DEF Commands, InitCommands, Steps

LEMMA AnsweredStable ==
    ASSUME TypeOK, QueueInv, CommandStep, [Next]_vars, NEW a \in Sockets, NEW k \in Steps,
           Answered(a, k)
    PROVE  Answered(a, k)'
<1>1. <<a, k>> \in Commands
  BY StepIsCommand
<1> QED
  BY <1>1, OutcomeStable, AnswerStable DEF Answered

(* Rejected commands and attempts leave the other attempts alone. *)
LEMMA RejectSteps ==
    ASSUME TypeOK, QueueInv, StepsInv, CommandStep, [Next]_vars, NEW cs, NEW as,
           Reject(cs, as), cs \subseteq Queued, as \subseteq AwaitingWelcome,
           UNCHANGED <<opened, answer>>
    PROVE  /\ \A a \in Sockets : a > opened => handshake'[a] = "idle"
           /\ \A a \in Sockets : handshake'[a] \in {"idle", "waiting"} =>
                 \A k \in Steps : outcome'[<<a, k>>] = "new"
           /\ ReadyMeansInitialised'
<1>1. \A c \in cs : outcome[c] = "pending"
  BY DEF Queued, QueueInv
<1>2. \A a \in Sockets : handshake[a] = "idle" => handshake'[a] = "idle"
  BY <1>1 DEF Reject, StepsInv, AwaitingWelcome
<1>3. \A a \in Sockets : handshake'[a] # "failed" => handshake[a] = handshake'[a]
  BY DEF Reject
<1>4. \A a \in Sockets : handshake'[a] \in {"idle", "waiting"} =>
         \A k \in Steps : outcome'[<<a, k>>] = "new"
  <2> SUFFICES ASSUME NEW a \in Sockets, handshake'[a] \in {"idle", "waiting"}, NEW k \in Steps
               PROVE  outcome'[<<a, k>>] = "new"
    OBVIOUS
  <2>1. outcome[<<a, k>>] = "new"
    BY <1>3 DEF StepsInv
  <2>2. <<a, k>> \in Commands /\ <<a, k>> \notin cs
    BY <1>1, <2>1, StepIsCommand
  <2> QED
    BY <2>1, <2>2 DEF Reject
<1>5. ReadyMeansInitialised'
  <2> SUFFICES ASSUME NEW a \in Sockets, handshake'[a] = "ready", NEW k \in Steps
               PROVE  Answered(a, k)'
    BY DEF ReadyMeansInitialised, Answered
  <2>1. Answered(a, k)
    BY <1>3 DEF StepsInv, ReadyMeansInitialised, Answered
  <2> QED
    BY <2>1, AnsweredStable
<1> QED
  BY <1>2, <1>4, <1>5 DEF StepsInv

LEMMA OpenedSteps ==
    ASSUME TypeOK, WireInv, QueueInv, StepsInv, opened = 0 \/ reconnectTimer,
           NEW n \in Sockets, n = opened + 1, Adopt(n),
           UNCHANGED <<queue, outcome, answer>>
    PROVE  StepsInv'
<1>1. opened' = n /\ socket' = n /\ readyOwner' = n
  BY DEF Adopt
<1>2. opened \in Nat /\ n > opened /\ \A a \in Sockets : a > n => a > opened
  BY DEF TypeOK, Sockets
<1>3. handshake[n] = "idle" /\ \A a \in Sockets : handshake'[a] = IF a = n THEN "waiting" ELSE handshake[a]
  BY <1>2 DEF Adopt, StepsInv, TypeOK
<1>4. \A i \in DOMAIN queue, a \in Sockets, k \in Steps : queue[i] # <<a, k>>
  <2> SUFFICES ASSUME NEW i \in DOMAIN queue, NEW a \in Sockets, NEW k \in Steps, queue[i] = <<a, k>>
               PROVE  FALSE
    OBVIOUS
  <2>1. a = opened /\ conn[a] \in {"live", "destroyed"}
    BY DEF StepsInv
  <2> QED
    BY <2>1 DEF WireInv, CloseInv, StepsInv, Sockets
<1>5. \A a \in Sockets : handshake'[a] \in {"idle", "waiting"} =>
         \A k \in Steps : outcome'[<<a, k>>] = "new"
  BY <1>3 DEF StepsInv
<1>6. ReadyMeansInitialised'
  <2> SUFFICES ASSUME NEW a \in Sockets, handshake'[a] = "ready", NEW k \in Steps
               PROVE  Answered(a, k)'
    BY DEF ReadyMeansInitialised, Answered
  <2>1. Answered(a, k)
    BY <1>3 DEF StepsInv, ReadyMeansInitialised, Answered
  <2> QED
    BY <2>1 DEF Answered
<1>7. \A a \in Sockets : a > opened' => handshake'[a] = "idle"
  <2> SUFFICES ASSUME NEW a \in Sockets, a > n PROVE handshake'[a] = "idle"
    BY <1>1
  <2>1. a # n /\ a > opened
    BY <1>2 DEF Sockets
  <2> QED
    BY <1>3, <2>1 DEF StepsInv
<1> QED
  BY <1>1, <1>4, <1>5, <1>6, <1>7 DEF StepsInv

(* What remains true of a step in the queue when it stays there. *)
LEMMA QueuedStepStable ==
    ASSUME TypeOK, QueueInv, StepsInv, CommandStep, [Next]_vars,
           NEW a \in Sockets, NEW k \in Steps, NEW i \in DOMAIN queue, queue[i] = <<a, k>>,
           UNCHANGED opened, conn'[a] \in {"live", "destroyed"},
           \A j \in Steps : j > k => outcome'[<<a, j>>] = outcome[<<a, j>>]
    PROVE  /\ a = opened' /\ conn'[a] \in {"live", "destroyed"}
           /\ \A j \in Steps : /\ j < k => Answered(a, j)'
                               /\ j > k => outcome'[<<a, j>>] = "new"
<1>1. a = opened /\ \A j \in Steps : /\ j < k => Answered(a, j)
                                     /\ j > k => outcome[<<a, j>>] = "new"
  BY DEF StepsInv
<1> QED
  BY <1>1, AnsweredStable

(* Steps that only reject: every command that stays in the queue was there *)
(* before, and a socket is at most destroyed.                              *)
LEMMA RejectedSteps ==
    ASSUME TypeOK, QueueInv, StepsInv, CommandStep, [Next]_vars, NEW cs, NEW as,
           Reject(cs, as), cs \subseteq Queued, as \subseteq AwaitingWelcome,
           UNCHANGED <<opened, answer, readyOwner>>, socket' \in {0, socket},
           \A i \in DOMAIN queue' : \E j \in DOMAIN queue : queue'[i] = queue[j],
           queue' # <<>> => \A x \in Sockets : conn[x] \in {"live", "destroyed"} =>
                                                  conn'[x] \in {"live", "destroyed"}
    PROVE  StepsInv'
<1>1. /\ \A a \in Sockets : a > opened => handshake'[a] = "idle"
      /\ \A a \in Sockets : handshake'[a] \in {"idle", "waiting"} =>
            \A k \in Steps : outcome'[<<a, k>>] = "new"
      /\ ReadyMeansInitialised'
  BY RejectSteps
<1>2. \A i \in DOMAIN queue', a \in Sockets, k \in Steps : queue'[i] = <<a, k>> =>
         /\ a = opened' /\ conn'[a] \in {"live", "destroyed"}
         /\ \A j \in Steps : /\ j < k => Answered(a, j)'
                             /\ j > k => outcome'[<<a, j>>] = "new"
  <2> TAKE i \in DOMAIN queue', a \in Sockets, k \in Steps
  <2> HAVE queue'[i] = <<a, k>>
  <2>1. PICK n \in DOMAIN queue : queue[n] = <<a, k>>
    OBVIOUS
  <2>2. conn'[a] \in {"live", "destroyed"}
    BY <2>1 DEF StepsInv
  <2>3. \A j \in Steps : j > k => outcome'[<<a, j>>] = outcome[<<a, j>>]
    <3> SUFFICES ASSUME NEW j \in Steps, j > k PROVE outcome'[<<a, j>>] = outcome[<<a, j>>]
      OBVIOUS
    <3>1. outcome[<<a, j>>] = "new"
      BY <2>1 DEF StepsInv
    <3>2. <<a, j>> \in Commands /\ <<a, j>> \notin cs
      BY <3>1, StepIsCommand DEF QueueInv, Queued
    <3> QED
      BY <3>2 DEF Reject
  <2> QED
    BY <2>1, <2>2, <2>3, QueuedStepStable
<1> QED
  BY <1>1, <1>2 DEF StepsInv

(* Steps that leave the attempts alone and enqueue at most a command of    *)
(* the application.                                                        *)
LEMMA CalmSteps ==
    ASSUME TypeOK, QueueInv, StepsInv, CommandStep, [Next]_vars,
           UNCHANGED <<opened, readyOwner, socket, handshake>>,
           \A i \in DOMAIN queue' : \/ \E j \in DOMAIN queue : queue'[i] = queue[j]
                                    \/ queue'[i] \notin InitCommands,
           \A a \in Sockets, k \in Steps : outcome'[<<a, k>>] = outcome[<<a, k>>],
           \A x \in Sockets : conn[x] \in {"live", "destroyed"} => conn'[x] \in {"live", "destroyed"}
    PROVE  StepsInv'
<1>1. \A i \in DOMAIN queue', a \in Sockets, k \in Steps : queue'[i] = <<a, k>> =>
         /\ a = opened' /\ conn'[a] \in {"live", "destroyed"}
         /\ \A j \in Steps : /\ j < k => Answered(a, j)'
                             /\ j > k => outcome'[<<a, j>>] = "new"
  <2> TAKE i \in DOMAIN queue', a \in Sockets, k \in Steps
  <2> HAVE queue'[i] = <<a, k>>
  <2>1. PICK n \in DOMAIN queue : queue[n] = <<a, k>>
    BY StepIsCommand
  <2>2. conn'[a] \in {"live", "destroyed"}
    BY <2>1 DEF StepsInv
  <2> QED
    BY <2>1, <2>2, QueuedStepStable
<1>2. ReadyMeansInitialised'
  <2> SUFFICES ASSUME NEW a \in Sockets, handshake'[a] = "ready", NEW k \in Steps
               PROVE  Answered(a, k)'
    BY DEF ReadyMeansInitialised, Answered
  <2>1. Answered(a, k)
    BY DEF StepsInv, ReadyMeansInitialised, Answered
  <2> QED
    BY <2>1, AnsweredStable
<1> QED
  BY <1>1, <1>2 DEF StepsInv

(* initialize() starts: its first step goes to the end of the queue. *)
LEMMA StartSteps ==
    ASSUME TypeOK, WireInv, QueueInv, StepsInv, CommandStep, [Next]_vars,
           NEW s \in Sockets, HandleWelcome(s), s \in AwaitingWelcome, StartInitialize(s)
    PROVE  StepsInv'
<1>1. /\ conn[s] = "live" /\ UNCHANGED <<conn, socket, opened>> /\ readyOwner' = 0
      /\ handshake' = [handshake EXCEPT ![s] = StageAfter(0)]
  BY DEF HandleWelcome, StartInitialize
<1>2. s = opened /\ handshake[s] = "waiting" /\ \A k \in Steps : outcome[<<s, k>>] = "new"
  BY <1>1, WelcomedAttempt
<1>3. \A a \in Sockets : handshake'[a] = IF a = s THEN StageAfter(0) ELSE handshake[a]
  BY <1>1 DEF TypeOK
<1>4. StageAfter(0) \in {"initialising", "ready"} /\ (StageAfter(0) = "ready" => Steps = {})
  BY InitSequenceAssumption DEF StageAfter, Steps
<1>5. \A i \in DOMAIN queue, a \in Sockets, k \in Steps : queue[i] # <<a, k>>
  BY <1>2 DEF StepsInv, QueueInv
<1>6. \A i \in DOMAIN queue', a \in Sockets, k \in Steps : queue'[i] = <<a, k>> => a = s /\ k = 1
  <2>1. CASE InitSequence = <<>>
    BY <1>5, <2>1 DEF StartInitialize
  <2>2. CASE InitSequence # <<>>
    <3>1. <<s, 1>> \in Commands /\ Enqueue(<<s, 1>>)
      BY <2>2, StartedInitialize
    <3>2. queue' = Append(queue, <<s, 1>>) /\ queue \in Seq(Commands)
      BY <3>1 DEF Enqueue, PumpQueue, TypeOK
    <3>3. \A i \in DOMAIN queue' : \/ i \in DOMAIN queue /\ queue'[i] = queue[i]
                                   \/ queue'[i] = <<s, 1>>
      BY <3>1, <3>2, AppendPositions
    <3> QED
      BY <1>5, <3>3
  <2> QED
    BY <2>1, <2>2
<1>7. \A a \in Sockets, k \in Steps : (a # s \/ k > 1) => outcome'[<<a, k>>] = outcome[<<a, k>>]
  <2>1. CASE InitSequence = <<>>
    BY <2>1 DEF StartInitialize
  <2>2. CASE InitSequence # <<>>
    <3>1. <<s, 1>> \in Commands /\ Enqueue(<<s, 1>>)
      BY <2>2, StartedInitialize
    <3>2. \A a \in Sockets, k \in Steps : (a # s \/ k > 1) => <<a, k>> # <<s, 1>>
      BY StepIsCommand
    <3> QED
      BY <3>1, <3>2 DEF Enqueue, TypeOK
  <2> QED
    BY <2>1, <2>2
<1>8. \A i \in DOMAIN queue', a \in Sockets, k \in Steps : queue'[i] = <<a, k>> =>
         /\ a = opened' /\ conn'[a] \in {"live", "destroyed"}
         /\ \A j \in Steps : /\ j < k => Answered(a, j)'
                             /\ j > k => outcome'[<<a, j>>] = "new"
  <2> TAKE i \in DOMAIN queue', a \in Sockets, k \in Steps
  <2> HAVE queue'[i] = <<a, k>>
  <2>1. a = s /\ k = 1
    BY <1>6
  <2>2. \A j \in Steps : ~(j < 1)
    BY DEF Steps
  <2> QED
    BY <1>1, <1>2, <1>7, <2>1, <2>2
<1>9. \A a \in Sockets : handshake'[a] \in {"idle", "waiting"} =>
         \A k \in Steps : outcome'[<<a, k>>] = "new"
  <2> SUFFICES ASSUME NEW a \in Sockets, handshake'[a] \in {"idle", "waiting"}, NEW k \in Steps
               PROVE  outcome'[<<a, k>>] = "new"
    OBVIOUS
  <2>1. a # s /\ handshake[a] \in {"idle", "waiting"}
    BY <1>3, <1>4
  <2>2. outcome[<<a, k>>] = "new"
    BY <2>1 DEF StepsInv
  <2> QED
    BY <1>7, <2>1, <2>2
<1>10. ReadyMeansInitialised'
  <2> SUFFICES ASSUME NEW a \in Sockets, handshake'[a] = "ready", NEW k \in Steps
               PROVE  Answered(a, k)'
    BY DEF ReadyMeansInitialised, Answered
  <2>1. a # s
    BY <1>3, <1>4
  <2>2. Answered(a, k)
    BY <1>3, <2>1 DEF StepsInv, ReadyMeansInitialised, Answered
  <2> QED
    BY <2>2, AnsweredStable
<1>11. \A a \in Sockets : a > opened' => handshake'[a] = "idle"
  BY <1>1, <1>2, <1>3 DEF StepsInv, Sockets
<1> QED
  BY <1>1, <1>8, <1>9, <1>10, <1>11 DEF StepsInv

(* The step at the head of the queue is answered: the next one is          *)
(* submitted, or the attempt is ready.                                     *)
LEMMA AnsweredSteps ==
    ASSUME TypeOK, WireInv, QueueInv, StepsInv, CommandStep, [Next]_vars,
           NEW s \in Sockets, HandleLine(s), Completes(Head(toClient[s])), CompleteCurrent(s),
           Head(queue) \in InitCommands
    PROVE  StepsInv'
<1>1. /\ conn[s] = "live" /\ UNCHANGED <<conn, socket, opened, readyOwner>>
      /\ queue # <<>> /\ queue \in Seq(Commands)
  BY DEF HandleLine, CompleteCurrent, clientVars, readyVars, TypeOK
<1>0. PICK a \in Sockets, k \in Steps : Head(queue) = <<a, k>>
  BY DEF InitCommands
<1> DEFINE c == <<a, k>>
<1>2. /\ k \in Nat /\ c \in Commands /\ c \in InitCommands
      /\ c = Head(queue) /\ c = queue[1] /\ 1 \in DOMAIN queue
  BY <1>0, <1>1, TailPositions, StepIsCommand
<1>3. /\ a = opened /\ conn[a] \in {"live", "destroyed"} /\ outcome[<<a, k>>] = "pending"
      /\ \A j \in Steps : /\ j < k => Answered(a, j)
                          /\ j > k => outcome[<<a, j>>] = "new"
  BY <1>2 DEF StepsInv, QueueInv
<1>4. a = s
  BY <1>1, <1>3 DEF WireInv, SocketInv, OneLiveSocket, StepsInv, Sockets
<1>5. /\ answer' = [answer EXCEPT ![c] = [by |-> Head(toClient[s]), on |-> s,
                                         lines |-> Absorb(Head(toClient[s]))]]
      /\ outcome' = [i \in Commands |-> IF i = c THEN "resolved"
                                        ELSE IF NextStep(a, k) = <<i>> THEN "pending"
                                        ELSE outcome[i]]
      /\ PumpQueue(Tail(queue) \o NextStep(a, k), FALSE)
      /\ handshake' = [handshake EXCEPT ![a] = StageAfter(k)]
  <2>1. Head(queue)[1] = a /\ Head(queue)[2] = k
    BY <1>0
  <2> QED
    BY <1>0, <1>2, <2>1 DEF CompleteCurrent
<1>15. Answered(a, k)'
  <2>1. answer'[c].on = s /\ outcome'[c] = "resolved"
    BY <1>2, <1>5 DEF TypeOK
  <2> QED
    BY <1>4, <2>1 DEF Answered
<1>6. \A x \in Sockets : handshake'[x] = IF x = a THEN StageAfter(k) ELSE handshake[x]
  BY <1>5 DEF TypeOK
<1>7. /\ StageAfter(k) \in {"initialising", "ready"}
      /\ StageAfter(k) = "ready" => \A j \in Steps : j <= k
  BY <1>2, InitSequenceAssumption DEF StageAfter, Steps
<1>8. \A x \in Sockets, j \in Steps : \/ outcome'[<<x, j>>] = outcome[<<x, j>>]
                                      \/ x = a /\ j \in {k, k + 1}
  <2> TAKE x \in Sockets, j \in Steps
  <2>1. <<x, j>> \in Commands
    BY StepIsCommand
  <2>2. NextStep(a, k) = <<<<x, j>>>> => x = a /\ j = k + 1
    BY DEF NextStep
  <2>3. <<x, j>> = c => x = a /\ j = k
    BY <1>2
  <2> QED
    BY <1>5, <2>1, <2>2, <2>3
<1>9. \A i \in DOMAIN Tail(queue), x \in Sockets, j \in Steps : Tail(queue)[i] # <<x, j>>
  <2> SUFFICES ASSUME NEW i \in DOMAIN Tail(queue), NEW x \in Sockets, NEW j \in Steps,
                      Tail(queue)[i] = <<x, j>>
               PROVE  FALSE
    OBVIOUS
  <2>1. i \in Nat /\ i # 0 /\ i + 1 \in DOMAIN queue /\ queue[i + 1] = <<x, j>>
    <3>1. i # 0
      <4>1. Tail(queue) \in Seq(Commands)
        BY <1>1
      <4> QED
        BY <4>1
    <3> QED
      BY <1>1, <3>1, TailPositions
  <2>2. x = a /\ outcome[<<x, j>>] = "pending"
    BY <1>3, <2>1 DEF StepsInv, QueueInv
  <2>3. j # k
    <3>1. queue[i + 1] # queue[1]
      BY <1>2, <2>1 DEF QueueInv
    <3> QED
      BY <1>2, <2>1, <2>2, <3>1
  <2>4. j < k \/ j > k
    BY <1>2, <2>3, StepIsCommand
  <2> QED
    BY <1>3, <2>2, <2>4 DEF Answered
<1>10. \A i \in DOMAIN queue', x \in Sockets, j \in Steps : queue'[i] = <<x, j>> => x = a /\ j = k + 1
  <2>1. queue' = Tail(queue) \o NextStep(a, k) /\ Tail(queue) \in Seq(Commands)
    BY <1>1, <1>5 DEF PumpQueue
  <2>2. CASE k < Len(InitSequence)
    <3>1. <<a, k + 1>> \in Commands /\ queue' = Append(Tail(queue), <<a, k + 1>>)
      BY <1>2, <2>1, <2>2, NextStepPairs
    <3>2. \A i \in DOMAIN queue' : \/ i \in DOMAIN Tail(queue) /\ queue'[i] = Tail(queue)[i]
                                   \/ queue'[i] = <<a, k + 1>>
      BY <2>1, <3>1, AppendPositions
    <3> QED
      BY <1>9, <3>2
  <2>3. CASE k >= Len(InitSequence)
    <3>1. queue' = Tail(queue)
      BY <1>2, <2>1, <2>3, NextStepPairs
    <3> QED
      BY <1>9, <3>1
  <2> QED
    BY <1>2, <2>2, <2>3, InitSequenceAssumption
<1>11. \A i \in DOMAIN queue', x \in Sockets, j \in Steps : queue'[i] = <<x, j>> =>
         /\ x = opened' /\ conn'[x] \in {"live", "destroyed"}
         /\ \A l \in Steps : /\ l < j => Answered(x, l)'
                             /\ l > j => outcome'[<<x, l>>] = "new"
  <2> TAKE i \in DOMAIN queue', x \in Sockets, j \in Steps
  <2> HAVE queue'[i] = <<x, j>>
  <2>1. x = a /\ j = k + 1
    BY <1>10
  <2>2. \A l \in Steps : l \in Nat
    BY StepIsCommand, <1>3
  <2>3. ASSUME NEW l \in Steps, l < j PROVE Answered(x, l)'
    <3>0. l \in Nat /\ k \in Nat
      BY <1>2, <2>2
    <3>1. l < k \/ l = k
      BY <2>1, <2>3, <3>0
    <3> QED
      BY <1>3, <1>15, <2>1, <3>1, AnsweredStable
  <2>4. ASSUME NEW l \in Steps, l > j PROVE outcome'[<<x, l>>] = "new"
    <3>0. l \in Nat /\ k \in Nat
      BY <1>2, <2>2
    <3>1. l > k /\ l \notin {k, k + 1}
      BY <2>1, <2>4, <3>0
    <3> QED
      BY <1>3, <1>8, <2>1, <3>1
  <2> QED
    BY <1>1, <1>3, <2>1, <2>3, <2>4
<1>12. \A x \in Sockets : handshake'[x] \in {"idle", "waiting"} =>
          \A j \in Steps : outcome'[<<x, j>>] = "new"
  <2> SUFFICES ASSUME NEW x \in Sockets, handshake'[x] \in {"idle", "waiting"}, NEW j \in Steps
               PROVE  outcome'[<<x, j>>] = "new"
    OBVIOUS
  <2>1. x # a /\ handshake[x] \in {"idle", "waiting"}
    BY <1>6, <1>7
  <2>2. outcome[<<x, j>>] = "new"
    BY <2>1 DEF StepsInv
  <2> QED
    BY <1>8, <2>1, <2>2
<1>13. ReadyMeansInitialised'
  <2> SUFFICES ASSUME NEW x \in Sockets, handshake'[x] = "ready", NEW j \in Steps
               PROVE  Answered(x, j)'
    BY DEF ReadyMeansInitialised, Answered
  <2>1. CASE x = a
    <3>1. j <= k
      BY <1>6, <1>7, <2>1
    <3>2. j < k \/ j = k
      BY <1>2, <3>1, StepIsCommand
    <3> QED
      BY <1>3, <1>15, <2>1, <3>2, AnsweredStable
  <2>2. CASE x # a
    <3>1. Answered(x, j)
      BY <1>6, <2>2 DEF StepsInv, ReadyMeansInitialised, Answered
    <3> QED
      BY <3>1, AnsweredStable
  <2> QED
    BY <2>1, <2>2
<1>14. \A x \in Sockets : x > opened' => handshake'[x] = "idle"
  BY <1>1, <1>3, <1>6 DEF StepsInv, Sockets
<1> QED
  BY <1>1, <1>11, <1>12, <1>13, <1>14 DEF StepsInv

LEMMA SocketEventSteps ==
    ASSUME TypeOK, WireInv, QueueInv, StepsInv, CommandStep, [Next]_vars,
           NEW s \in Sockets, SocketEvent(s)
    PROVE  StepsInv'
<1> USE DEF clientVars, readyVars, peerVars
<1>1. CASE HandleWelcome(s)
  <2>1. ASSUME NEW a \in AwaitingWelcome, StartInitialize(a) PROVE StepsInv'
    <3>1. a = s
      BY <1>1, WelcomedAttempt DEF HandleWelcome
    <3> QED
      BY <1>1, <2>1, <3>1, StartSteps
  <2>2. CASE UNCHANGED <<handshake, outcome, queue>>
    <3>1. readyOwner' = 0 /\ UNCHANGED <<conn, socket, opened, answer>>
      BY <1>1 DEF HandleWelcome
    <3> QED
      BY <2>2, <3>1 DEF StepsInv, Answered, ReadyMeansInitialised
  <2> QED
    BY <1>1, <2>1, <2>2 DEF HandleWelcome
<1>2. CASE HandleLine(s)
  <2>1. UNCHANGED <<conn, socket, opened, readyOwner>>
    BY <1>2 DEF HandleLine
  <2>2. CASE AbsorbLine(s) \/ DropFrame
    BY <2>1, <2>2, CalmSteps DEF AbsorbLine, DropFrame
  <2>3. CASE /\ Completes(Head(toClient[s])) /\ CompleteCurrent(s)
             /\ Head(queue) \in InitCommands
    BY <1>2, <2>3, AnsweredSteps
  <2>4. CASE CompleteCurrent(s) /\ Head(queue) \notin InitCommands
    <3>1. queue # <<>> /\ queue \in Seq(Commands)
      BY <2>4 DEF CompleteCurrent, TypeOK
    <3>2. /\ queue' = Tail(queue) /\ handshake' = handshake
          /\ outcome' = [outcome EXCEPT ![Head(queue)] = "resolved"]
      BY <2>4 DEF CompleteCurrent, PumpQueue
    <3>3. \A i \in DOMAIN queue' : \E j \in DOMAIN queue : queue'[i] = queue[j]
      BY <3>1, <3>2, TailPositions
    <3>4. \A a \in Sockets, k \in Steps : outcome'[<<a, k>>] = outcome[<<a, k>>]
      BY <2>4, <3>2, StepIsCommand DEF TypeOK
    <3> QED
      BY <2>1, <3>2, <3>3, <3>4, CalmSteps
  <2> QED
    BY <1>2, <2>2, <2>3, <2>4 DEF HandleLine
<1>3. CASE SocketError(s)
  <2>1. /\ Reject({}, AwaitingWelcome) /\ {} \subseteq Queued
        /\ UNCHANGED <<opened, answer, readyOwner, socket, queue>> /\ conn' = Destroyed(s)
    BY <1>3 DEF SocketError
  <2>2. \A x \in Sockets : conn[x] \in {"live", "destroyed"} => conn'[x] \in {"live", "destroyed"}
    BY <2>1 DEF Destroyed
  <2> QED
    BY <2>1, <2>2, RejectedSteps
<1>4. CASE SocketEnd(s)
  <2>1. /\ UNCHANGED <<opened, answer, readyOwner, socket, queue, outcome, handshake>>
        /\ conn' = Destroyed(s)
    BY <1>4 DEF SocketEnd
  <2>2. \A x \in Sockets : conn[x] \in {"live", "destroyed"} => conn'[x] \in {"live", "destroyed"}
    BY <2>1 DEF Destroyed
  <2> QED
    BY <2>1, <2>2, CalmSteps
<1>5. CASE SocketClose(s)
  <2>1. /\ Reject(Queued, AwaitingWelcome) /\ queue' = <<>> /\ Queued \subseteq Queued
        /\ UNCHANGED <<opened, answer, readyOwner, socket>>
    BY <1>5 DEF SocketClose, RejectAllPending
  <2>2. \A i \in DOMAIN queue' : \E j \in DOMAIN queue : queue'[i] = queue[j]
    BY <2>1
  <2> QED
    BY <2>1, <2>2, RejectedSteps
<1> QED
  BY <1>1, <1>2, <1>3, <1>4, <1>5 DEF SocketEvent

LEMMA StepsInvStep ==
    ASSUME ~Reuse, TypeOK, WireInv, QueueInv, StepsInv, CommandStep, [Next]_vars
    PROVE  StepsInv'
<1> USE DEF clientVars, readyVars, peerVars
<1>1. CASE Connect \/ AttachSocket \/ Reconnect
  <2>1. /\ opened = 0 \/ reconnectTimer
        /\ opened + 1 \in Sockets /\ Adopt(opened + 1)
        /\ UNCHANGED <<queue, outcome, answer>>
    <3>1. opened < MaxSockets => opened + 1 \in Sockets
      BY BoundsAssumption DEF TypeOK, Sockets
    <3>2. 1 \in Sockets
      BY BoundsAssumption DEF Sockets
    <3> QED
      BY <1>1, <3>1, <3>2 DEF Connect, AttachSocket, Reconnect, OpenSocket
  <2> QED
    BY <2>1, OpenedSteps
<1>2. CASE Disconnect
  <2>1. /\ Reject(Queued, {}) /\ queue' = <<>> /\ socket' = 0
        /\ Queued \subseteq Queued /\ {} \subseteq AwaitingWelcome
        /\ UNCHANGED <<opened, answer, readyOwner>>
    BY <1>2 DEF Disconnect, RejectAllPending
  <2>2. \A i \in DOMAIN queue' : \E j \in DOMAIN queue : queue'[i] = queue[j]
    BY <2>1
  <2> QED
    BY <2>1, <2>2, RejectedSteps
<1>3. ASSUME NEW c \in UserCommands, Send(c) PROVE StepsInv'
  <2>1. /\ c \in Commands /\ c \notin InitCommands /\ queue \in Seq(Commands)
        /\ queue' = Append(queue, c) /\ outcome' = [outcome EXCEPT ![c] = "pending"]
        /\ UNCHANGED <<conn, opened, readyOwner, socket, handshake>>
    BY <1>3, CommandsAssumption DEF Send, PumpQueue, Commands, TypeOK
  <2>2. \A i \in DOMAIN queue' : (\E j \in DOMAIN queue : queue'[i] = queue[j]) \/ queue'[i] = c
    BY <2>1, AppendPositions
  <2>3. \A a \in Sockets, k \in Steps : outcome'[<<a, k>>] = outcome[<<a, k>>]
    BY <2>1, StepIsCommand DEF TypeOK
  <2> QED
    BY <2>1, <2>2, <2>3, CalmSteps
<1>4. ASSUME NEW s \in Sockets, SocketEvent(s) PROVE StepsInv'
  BY <1>4, SocketEventSteps
<1>5. ASSUME NEW a \in Sockets, WelcomeTimeout(a) PROVE StepsInv'
  <2>1. /\ Reject({}, AwaitingWelcome) /\ {} \subseteq Queued
        /\ UNCHANGED <<opened, answer, readyOwner, socket, queue, conn>>
    BY <1>5 DEF WelcomeTimeout
  <2> QED
    BY <2>1, RejectedSteps
<1>6. ASSUME NEW i \in DOMAIN queue, CommandTimeout(i) PROVE StepsInv'
  <2>1. /\ Reject({queue[i]}, {}) /\ queue' = Without(i) /\ conn' = Destroyed(socket)
        /\ UNCHANGED <<opened, answer, readyOwner, socket>>
    BY <1>6 DEF CommandTimeout
  <2>2. {queue[i]} \subseteq Queued /\ {} \subseteq AwaitingWelcome
    BY DEF Queued
  <2>3. \A j \in DOMAIN queue' : \E k \in DOMAIN queue : queue'[j] = queue[k]
    BY <2>1, WithoutPositions
  <2>4. \A x \in Sockets : conn[x] \in {"live", "destroyed"} => conn'[x] \in {"live", "destroyed"}
    BY <2>1 DEF Destroyed
  <2> QED
    BY <2>1, <2>2, <2>3, <2>4, RejectedSteps
<1>7. ASSUME NEW s \in Sockets, PeerWelcome(s) \/ PeerReply(s) PROVE StepsInv'
  <2>1. UNCHANGED <<opened, answer, readyOwner, socket, queue, conn, outcome, handshake>>
    BY <1>7 DEF PeerWelcome, PeerReply
  <2> QED
    BY <2>1, CalmSteps
<1>8. CASE UNCHANGED vars
  BY <1>8, CalmSteps DEF vars
<1> QED
  BY <1>1, <1>2, <1>3, <1>4, <1>5, <1>6, <1>7, <1>8 DEF Next, Application, Timer, Peer

----------------------------------------------------------------------------
\* Replies: every command is resolved by its own

(* A command is resolved by completeCurrent and by nothing else. *)
LEMMA OnlyResolvedByLine ==
    ASSUME TypeOK, [Next]_vars, NEW c \in Commands, outcome'[c] = "resolved", outcome[c] # "resolved"
    PROVE  \E s \in Sockets : /\ HandleLine(s) /\ Completes(Head(toClient[s]))
                              /\ CompleteCurrent(s) /\ c = Head(queue)
<1> USE DEF clientVars, readyVars, peerVars
<1>1. ASSUME NEW cs, NEW as, Reject(cs, as) PROVE FALSE
  BY <1>1 DEF Reject
<1>2. outcome' # outcome
  OBVIOUS
<1>3. ~Connect /\ ~AttachSocket /\ ~Reconnect /\ ~Peer /\ ~UNCHANGED vars
  BY <1>2 DEF Connect, AttachSocket, Reconnect, Peer, PeerWelcome, PeerReply, vars
<1>4. ~Disconnect /\ \A a \in Sockets : ~WelcomeTimeout(a)
  BY <1>1 DEF Disconnect, RejectAllPending, WelcomeTimeout
<1>5. \A i \in DOMAIN queue : ~CommandTimeout(i)
  BY <1>1 DEF CommandTimeout
<1>6. \A d \in UserCommands : ~Send(d)
  BY DEF Send, TypeOK
<1>7. PICK s \in Sockets : SocketEvent(s)
  BY <1>3, <1>4, <1>5, <1>6 DEF Next, Application, Timer
<1>8. ~SocketError(s) /\ ~SocketEnd(s) /\ ~SocketClose(s)
  BY <1>1, <1>2 DEF SocketError, SocketEnd, SocketClose, RejectAllPending
<1>9. ~HandleWelcome(s)
  <2>1. \A a \in Sockets : ~StartInitialize(a)
    BY <1>2 DEF StartInitialize, TypeOK
  <2> QED
    BY <1>2, <2>1 DEF HandleWelcome, AwaitingWelcome
<1>10. HandleLine(s) /\ Completes(Head(toClient[s])) /\ CompleteCurrent(s)
  BY <1>2, <1>7, <1>8, <1>9 DEF SocketEvent, HandleLine, AbsorbLine, DropFrame
<1>11. c = Head(queue)
  BY <1>10 DEF CompleteCurrent, TypeOK
<1> QED
  BY <1>10, <1>11

LEMMA AbsorbKeepsBody ==
    ASSUME TypeOK, NEW s \in Sockets, HandleLine(s), AbsorbLine(s), ~Completes(Head(toClient[s])),
           WireInv, BodyInv
    PROVE  BodyInv'
<1> DEFINE h == Head(toClient[s])
<1>1. /\ conn[s] = "live" /\ toClient[s] # <<>> /\ conn' = conn
      /\ toClient' = [toClient EXCEPT ![s] = Tail(@)]
  BY DEF HandleLine
<1>2. \A x \in Sockets : conn[x] = "live" => x = s
  BY <1>1 DEF WireInv, SocketInv, OneLiveSocket
<1>3. /\ h = toClient[s][1] /\ 1 \in DOMAIN toClient[s] /\ toClient'[s] = Tail(toClient[s])
      /\ \A i \in DOMAIN toClient'[s] :
            i \in Nat /\ i + 1 \in DOMAIN toClient[s] /\ toClient'[s][i] = toClient[s][i + 1]
  BY <1>1, ConsumeLine
<1>4. \A l \in frame \cup {h} : l.kind = "data" => l \in frame'
  BY DEF AbsorbLine, Absorb, Completes
<1>5. Tail(toClient[s]) \in Seq(Lines) /\ toClient[s] \in Seq(Lines)
  BY <1>1 DEF TypeOK
<1> SUFFICES ASSUME NEW i \in DOMAIN toClient'[s], toClient'[s][i].kind = "end"
             PROVE  BodyHeld(s, i)'
  BY <1>1, <1>2 DEF BodyInv
<1> DEFINE body == Line("data", toClient[s][i + 1].cmd)
<1>6. body.kind = "data" /\ toClient'[s][i] = toClient[s][i + 1] /\ i \in Nat
  BY <1>3 DEF Line
<1>7. BodyHeld(s, i + 1)
  BY <1>1, <1>3 DEF BodyInv
<1>8. CASE body \in frame
  BY <1>4, <1>6, <1>8 DEF BodyHeld
<1>9. ASSUME NEW j \in DOMAIN toClient[s], j < i + 1, toClient[s][j] = body
      PROVE  BodyHeld(s, i)'
  <2>1. CASE j = 1
    BY <1>3, <1>4, <1>6, <1>9, <2>1 DEF BodyHeld
  <2>2. CASE j # 1
    <3>1. j \in Nat /\ j - 1 \in Nat \ {0} /\ j - 1 < i
      BY <1>5, <1>6, <1>9, <2>2
    <3>2. j - 1 \in DOMAIN toClient'[s]
      <4>1. DOMAIN toClient'[s] = 1 .. Len(toClient'[s]) /\ Len(toClient'[s]) \in Nat
        BY <1>3, <1>5
      <4> QED
        BY <1>6, <3>1, <4>1
    <3>3. toClient'[s][j - 1] = toClient[s][(j - 1) + 1] /\ (j - 1) + 1 = j
      BY <1>3, <3>1, <3>2
    <3> QED
      BY <1>6, <1>9, <3>1, <3>2, <3>3 DEF BodyHeld
  <2> QED
    BY <2>1, <2>2
<1> QED
  BY <1>7, <1>8, <1>9 DEF BodyHeld

(* A line that is not consumed, and a frame that is not touched. *)
LEMMA CalmBody ==
    ASSUME BodyInv, UNCHANGED frame,
           \A x \in Sockets : conn'[x] = "live" =>
              \/ conn[x] = "live" /\ toClient'[x] = toClient[x]
              \/ toClient'[x] = <<>>
    PROVE  BodyInv'
<1>1. DOMAIN <<>> = {}
  OBVIOUS
<1> QED
  BY <1>1 DEF BodyInv, BodyHeld

LEMMA WelcomeBody ==
    ASSUME TypeOK, WireInv, BodyInv, NEW s \in Sockets, HandleWelcome(s)
    PROVE  BodyInv'
<1>1. /\ conn[s] = "live" /\ toClient[s] # <<>> /\ UNCHANGED <<conn, frame>>
      /\ toClient' = [toClient EXCEPT ![s] = Tail(@)] /\ Head(toClient[s]) = Welcome
  BY DEF HandleWelcome
<1>2. \A x \in Sockets : conn[x] = "live" => x = s
  BY <1>1 DEF WireInv, SocketInv, OneLiveSocket
<1>3. /\ Head(toClient[s]) = toClient[s][1] /\ toClient'[s] = Tail(toClient[s])
      /\ \A i \in DOMAIN toClient'[s] :
            i \in Nat /\ i + 1 \in DOMAIN toClient[s] /\ toClient'[s][i] = toClient[s][i + 1]
  BY <1>1, ConsumeLine
<1>4. toClient[s] \in Seq(Lines) /\ Tail(toClient[s]) \in Seq(Lines)
  BY <1>1 DEF TypeOK
<1> SUFFICES ASSUME NEW i \in DOMAIN toClient'[s], toClient'[s][i].kind = "end"
             PROVE  BodyHeld(s, i)'
  BY <1>1, <1>2 DEF BodyInv
<1>5. BodyHeld(s, i + 1) /\ i \in Nat
  BY <1>1, <1>3 DEF BodyInv
<1>6. ASSUME NEW j \in DOMAIN toClient[s], j < i + 1,
             toClient[s][j] = Line("data", toClient[s][i + 1].cmd)
      PROVE  j - 1 \in DOMAIN toClient'[s] /\ j - 1 < i /\ toClient'[s][j - 1] = toClient[s][j]
  <2>1. j # 1
    BY <1>1, <1>3, <1>6 DEF Welcome, Line
  <2>2. j \in Nat /\ j - 1 \in Nat \ {0} /\ j - 1 < i /\ (j - 1) + 1 = j
    BY <1>4, <1>5, <1>6, <2>1
  <2>3. j - 1 \in DOMAIN toClient'[s]
    <3>1. DOMAIN toClient'[s] = 1 .. Len(toClient'[s]) /\ Len(toClient'[s]) \in Nat
      BY <1>3, <1>4
    <3> QED
      BY <1>5, <2>2, <3>1
  <2> QED
    BY <1>3, <2>2, <2>3
<1>7. toClient'[s][i] = toClient[s][i + 1] /\ frame' = frame
  BY <1>1, <1>3
<1>8. CASE Line("data", toClient[s][i + 1].cmd) \in frame
  BY <1>7, <1>8 DEF BodyHeld
<1>9. ASSUME NEW j \in DOMAIN toClient[s], j < i + 1,
             toClient[s][j] = Line("data", toClient[s][i + 1].cmd)
      PROVE  BodyHeld(s, i)'
  BY <1>6, <1>7, <1>9 DEF BodyHeld
<1> QED
  BY <1>5, <1>8, <1>9 DEF BodyHeld

LEMMA ReplyBody ==
    ASSUME TypeOK, WireInv, BodyInv, NEW s \in Sockets, PeerReply(s)
    PROVE  BodyInv'
<1> DEFINE c == Head(toPeer[s])
<1>1. UNCHANGED <<conn, frame>> /\ toPeer[s] # <<>>
  BY DEF PeerReply
<1>2. CASE UNCHANGED toClient
  BY <1>1, <1>2, CalmBody
<1>3. ASSUME NEW reply \in Replies(c) \cup {<<Line("error", c)>>}, conn[s] = "live",
             toClient' = [toClient EXCEPT ![s] = @ \o reply]
      PROVE  BodyInv'
  <2>1. \A x \in Sockets : conn[x] = "live" => x = s
    BY <1>3 DEF WireInv, SocketInv, OneLiveSocket
  <2> SUFFICES ASSUME NEW i \in DOMAIN toClient'[s], toClient'[s][i].kind = "end"
               PROVE  BodyHeld(s, i)'
    BY <1>1, <2>1 DEF BodyInv
  <2>2. toClient'[s] = toClient[s] \o reply /\ toClient[s] \in Seq(Lines)
    BY <1>3 DEF TypeOK
  <2>3. c \in Commands
    BY <1>1 DEF TypeOK
  <2> HIDE DEF c
  <2>4. \A kind \in LineKinds : Line(kind, c) \in Lines
    BY <2>3 DEF Line, Lines
  <2>5. /\ reply \in Seq(Lines)
        /\ \A n \in DOMAIN reply : reply[n].kind = "end" =>
              n = 2 /\ 1 \in DOMAIN reply /\ reply[1] = Line("data", reply[n].cmd)
    <3>1. \A l, m \in Lines : /\ <<l>> \in Seq(Lines) /\ DOMAIN <<l>> = {1} /\ <<l>>[1] = l
                              /\ <<l, m>> \in Seq(Lines) /\ DOMAIN <<l, m>> = {1, 2}
                              /\ <<l, m>>[1] = l /\ <<l, m>>[2] = m
      OBVIOUS
    <3>2. CASE reply \in {<<Line("success", c)>>, <<Line("error", c)>>}
      <4>1. PICK l \in Lines : reply = <<l>> /\ l.kind # "end"
        <5>1. /\ Line("success", c) \in Lines /\ Line("success", c).kind # "end"
              /\ Line("error", c) \in Lines /\ Line("error", c).kind # "end"
          BY <2>4 DEF Line, LineKinds
        <5> QED
          BY <3>2, <5>1
      <4> QED
        BY <3>1, <4>1
    <3>3. CASE reply = <<Line("data", c), Line("end", c)>>
      <4>1. Line("data", c) \in Lines /\ Line("end", c) \in Lines
        BY <2>4 DEF LineKinds
      <4>2. Line("data", c).kind # "end" /\ Line("end", c).cmd = c
        BY DEF Line
      <4> QED
        BY <3>1, <3>3, <4>1, <4>2
    <3> QED
      BY <1>3, <3>2, <3>3 DEF Replies
  <2>6. /\ Len(toClient[s]) \in Nat /\ Len(reply) \in Nat /\ i \in 1 .. Len(toClient[s]) + Len(reply)
        /\ \A n \in 1 .. Len(toClient[s]) + Len(reply) :
              /\ n \in DOMAIN toClient'[s]
              /\ toClient'[s][n] = IF n <= Len(toClient[s]) THEN toClient[s][n]
                                   ELSE reply[n - Len(toClient[s])]
        /\ DOMAIN toClient[s] = 1 .. Len(toClient[s]) /\ DOMAIN reply = 1 .. Len(reply)
    BY <2>2, <2>5
  <2>7. CASE i <= Len(toClient[s])
    <3>1. i \in DOMAIN toClient[s] /\ toClient'[s][i] = toClient[s][i]
      BY <2>6, <2>7
    <3>2. BodyHeld(s, i)
      BY <1>3, <3>1 DEF BodyInv
    <3>3. \A j \in DOMAIN toClient[s] : j \in DOMAIN toClient'[s] /\ toClient'[s][j] = toClient[s][j]
      BY <2>6
    <3> QED
      BY <1>1, <3>1, <3>2, <3>3 DEF BodyHeld
  <2>8. CASE i > Len(toClient[s])
    <3> DEFINE n == i - Len(toClient[s])
    <3>1. n \in DOMAIN reply /\ toClient'[s][i] = reply[n]
      BY <2>6, <2>8
    <3>2. n = 2 /\ 1 \in DOMAIN reply /\ reply[1] = Line("data", reply[n].cmd)
      BY <2>5, <3>1
    <3>3. /\ Len(toClient[s]) + 1 < i /\ Len(toClient[s]) + 1 \in 1 .. Len(toClient[s]) + Len(reply)
          /\ ~(Len(toClient[s]) + 1 <= Len(toClient[s]))
          /\ (Len(toClient[s]) + 1) - Len(toClient[s]) = 1
      BY <2>6, <3>2
    <3>4. /\ Len(toClient[s]) + 1 \in DOMAIN toClient'[s]
          /\ toClient'[s][Len(toClient[s]) + 1] = reply[1]
      BY <2>6, <3>3
    <3> QED
      BY <3>1, <3>2, <3>3, <3>4 DEF BodyHeld
  <2> QED
    BY <2>6, <2>7, <2>8
<1>4. ASSUME toClient' = [toClient EXCEPT ![s] = Append(@, Line("error", c))]
      PROVE  toClient' = [toClient EXCEPT ![s] = @ \o <<Line("error", c)>>]
  <2>1. c \in Commands /\ toClient[s] \in Seq(Lines)
    BY <1>1 DEF TypeOK
  <2>2. Line("error", c) \in Lines
    BY <2>1 DEF Line, Lines, LineKinds
  <2> QED
    BY <1>4, <2>1, <2>2, AppendIsConcat
<1> QED
  BY <1>2, <1>3, <1>4 DEF PeerReply

LEMMA BodyInvStep ==
    ASSUME TypeOK, WireInv, BodyInv, [Next]_vars
    PROVE  BodyInv'
<1> USE DEF clientVars, readyVars, peerVars
<1>1. ASSUME NEW n \in Sockets, n = opened + 1, \A x \in Sockets : x # n /\ conn'[x] = "live" => conn[x] = "live",
             UNCHANGED <<frame, toClient>>
      PROVE  BodyInv'
  <2>1. toClient[n] = <<>>
    <3>1. conn[n] = "unused"
      <4>1. ~(n <= opened)
        BY <1>1 DEF TypeOK, Sockets
      <4> QED
        BY <4>1 DEF WireInv, SocketInv, Numbered
    <3> QED
      BY <3>1 DEF WireInv, LinesInv
  <2> QED
    BY <1>1, <2>1, CalmBody
<1>2. CASE OpenSocket /\ UNCHANGED <<frame, toClient>>
  <2>1. /\ opened + 1 \in Sockets
        /\ conn' = [Destroyed(socket) EXCEPT ![opened + 1] = "live"]
    BY <1>2, BoundsAssumption DEF OpenSocket, TypeOK, Sockets
  <2>2. \A x \in Sockets : x # opened + 1 /\ conn'[x] = "live" => conn[x] = "live"
    BY <2>1 DEF Destroyed
  <2> QED
    BY <1>1, <1>2, <2>1, <2>2
<1>3. CASE Connect \/ Reconnect
  BY <1>2, <1>3 DEF Connect, Reconnect
<1>4. CASE AttachSocket
  <2>1. opened = 0 /\ 1 \in Sockets /\ UNCHANGED <<frame, toClient>> /\ conn' = [conn EXCEPT ![1] = "live"]
    BY <1>4, BoundsAssumption DEF AttachSocket, Sockets
  <2>2. \A x \in Sockets : x # 1 /\ conn'[x] = "live" => conn[x] = "live"
    BY <2>1 DEF TypeOK
  <2> QED
    BY <1>1, <2>1, <2>2
<1>5. CASE Disconnect
  BY <1>5, CalmBody DEF Disconnect, Destroyed
<1>6. ASSUME NEW c \in UserCommands, Send(c) PROVE BodyInv'
  BY <1>6, CalmBody DEF Send
<1>7. ASSUME NEW s \in Sockets, SocketEvent(s) PROVE BodyInv'
  <2>1. CASE HandleWelcome(s)
    BY <2>1, WelcomeBody
  <2>2. CASE HandleLine(s)
    <3>1. CASE AbsorbLine(s) /\ ~Completes(Head(toClient[s]))
      BY <2>2, <3>1, AbsorbKeepsBody
    <3>2. CASE Completes(Head(toClient[s]))
      <4>1. /\ conn[s] = "live" /\ conn' = conn /\ toClient[s] # <<>> /\ Head(toClient[s]) # Welcome
            /\ toClient' = [toClient EXCEPT ![s] = Tail(@)]
        BY <2>2 DEF HandleLine
      <4>2. toClient'[s] = <<>>
        <5>1. Tail(toClient[s]) = <<>>
          BY <3>2, <4>1, CompletingLine
        <5> QED
          BY <4>1, <5>1 DEF TypeOK
      <4>3. \A x \in Sockets : conn'[x] = "live" => x = s
        BY <4>1 DEF WireInv, SocketInv, OneLiveSocket
      <4>4. DOMAIN <<>> = {}
        OBVIOUS
      <4> QED
        BY <4>2, <4>3, <4>4 DEF BodyInv
    <3> QED
      BY <2>2, <3>1, <3>2 DEF HandleLine
  <2>3. CASE SocketError(s)
    BY <2>3, CalmBody DEF SocketError, Destroyed
  <2>4. CASE SocketEnd(s)
    BY <2>4, CalmBody DEF SocketEnd, Destroyed
  <2>5. CASE SocketClose(s)
    <3>1. \A x \in Sockets : conn'[x] = "live" => conn[x] = "live" /\ toClient'[x] = toClient[x]
      BY <2>5 DEF SocketClose, TypeOK
    <3> QED
      BY <2>5, <3>1, CalmBody DEF SocketClose
  <2> QED
    BY <1>7, <2>1, <2>2, <2>3, <2>4, <2>5 DEF SocketEvent
<1>8. ASSUME NEW a \in Sockets, WelcomeTimeout(a) PROVE BodyInv'
  BY <1>8, CalmBody DEF WelcomeTimeout
<1>9. ASSUME NEW i \in DOMAIN queue, CommandTimeout(i) PROVE BodyInv'
  BY <1>9, CalmBody DEF CommandTimeout, Destroyed
<1>10. ASSUME NEW s \in Sockets, PeerWelcome(s) PROVE BodyInv'
  <2>1. /\ toClient[s] = <<>> /\ UNCHANGED <<conn, frame>> /\ conn[s] = "live"
        /\ toClient' = [toClient EXCEPT ![s] = Append(@, Welcome)]
    BY <1>10 DEF PeerWelcome, WireInv, LinesInv
  <2>2. toClient'[s] = <<Welcome>>
    BY <2>1 DEF TypeOK
  <2>3. \A x \in Sockets : conn[x] = "live" => x = s
    BY <2>1 DEF WireInv, SocketInv, OneLiveSocket
  <2>4. \A i \in DOMAIN <<Welcome>> : <<Welcome>>[i].kind # "end"
    BY DEF Welcome
  <2> QED
    BY <2>1, <2>2, <2>3, <2>4 DEF BodyInv
<1>11. ASSUME NEW s \in Sockets, PeerReply(s) PROVE BodyInv'
  BY <1>11, ReplyBody
<1>12. CASE UNCHANGED vars
  BY <1>12, CalmBody DEF vars
<1> QED
  BY <1>3, <1>4, <1>5, <1>6, <1>7, <1>8, <1>9, <1>10, <1>11, <1>12
  DEF Next, Application, Timer, Peer

(* completeCurrent hands a command its own reply, with the whole body. *)
LEMMA ResolvedByOwnReplyStep ==
    ASSUME TypeOK, WireInv, QueueInv, BodyInv, ResolvedByOwnReply, [Next]_vars
    PROVE  ResolvedByOwnReply'
<1> SUFFICES ASSUME NEW c \in Commands, outcome'[c] = "resolved"
             PROVE  /\ answer'[c].by.cmd = c
                    /\ ExpectOf(c) = "end" => Line("data", c) \in answer'[c].lines
  BY DEF ResolvedByOwnReply, ExpectOf
<1>1. CASE outcome[c] = "resolved"
  <2>1. answer'[c] = answer[c]
    BY <1>1, AnswerStable
  <2> QED
    BY <1>1, <2>1 DEF ResolvedByOwnReply
<1>2. CASE outcome[c] # "resolved"
  <2>1. PICK s \in Sockets : /\ HandleLine(s) /\ Completes(Head(toClient[s]))
                             /\ CompleteCurrent(s) /\ c = Head(queue)
    BY <1>2, OnlyResolvedByLine
  <2> DEFINE line == Head(toClient[s])
  <2>2. conn[s] = "live" /\ toClient[s] # <<>> /\ line # Welcome
    BY <2>1 DEF HandleLine
  <2>3. queue # <<>> /\ line.cmd = c
    BY <2>1, <2>2, CompletingLine
  <2>4. line = toClient[s][1] /\ 1 \in DOMAIN toClient[s] /\ toClient[s] \in Seq(Lines)
    BY <2>2 DEF TypeOK
  <2>5. answer'[c].by = line /\ answer'[c].lines = Absorb(line)
    BY <2>1 DEF CompleteCurrent, TypeOK
  <2>6. busy
    BY <2>2, <2>4 DEF WireInv, PipelineMatchesQueue
  <2>7. ASSUME ExpectOf(c) = "end" PROVE Line("data", c) \in Absorb(line)
    <3>1. line.kind = "end"
      BY <2>1, <2>3, <2>6, <2>7 DEF Completes, ParseMode
    <3>2. BodyHeld(s, 1)
      BY <2>2, <2>4, <3>1 DEF BodyInv
    <3>3. \A j \in DOMAIN toClient[s] : ~(j < 1)
      BY <2>4
    <3> QED
      BY <2>3, <2>4, <3>1, <3>2, <3>3 DEF BodyHeld, Absorb
  <2> QED
    BY <2>3, <2>5, <2>7
<1> QED
  BY <1>1, <1>2

----------------------------------------------------------------------------
\* The wire: what is in flight was written, what comes back was executed

LEMMA PumpQueueWritten ==
    ASSUME TypeOK, ExecutedInv, NEW q \in Seq(Commands), NEW b, PumpQueue(q, b)
    PROVE  \A s \in Sockets : \A i \in DOMAIN toPeer'[s] : writes'[toPeer'[s][i]] > 0
<1>1. CASE UNCHANGED <<toPeer, writes>>
  BY <1>1 DEF ExecutedInv
<1>2. CASE ~b /\ q # <<>> /\ Writable
  <2>1. socket \in Sockets /\ Head(q) \in Commands /\ toPeer[socket] \in Seq(Commands)
    BY <1>2 DEF Writable, TypeOK
  <2>2. /\ toPeer' = [toPeer EXCEPT ![socket] = Append(@, Head(q))]
        /\ writes' = [writes EXCEPT ![Head(q)] = @ + 1]
    BY <1>2 DEF PumpQueue
  <2>3. \A c \in Commands : writes'[c] >= writes[c] /\ writes'[Head(q)] > 0 /\ writes[c] \in Nat
    BY <2>1, <2>2 DEF TypeOK
  <2>4. \A s \in Sockets : \A i \in DOMAIN toPeer[s] : toPeer[s][i] \in Commands
    <3> SUFFICES ASSUME NEW s \in Sockets, NEW i \in DOMAIN toPeer[s] PROVE toPeer[s][i] \in Commands
      OBVIOUS
    <3>1. toPeer[s] \in Seq(Commands)
      BY DEF TypeOK
    <3> QED
      BY <3>1
  <2> SUFFICES ASSUME NEW s \in Sockets, NEW i \in DOMAIN toPeer'[s]
               PROVE  writes'[toPeer'[s][i]] > 0
    OBVIOUS
  <2>5. \/ i \in DOMAIN toPeer[s] /\ toPeer'[s][i] = toPeer[s][i]
        \/ toPeer'[s][i] = Head(q)
    <3>1. CASE s = socket
      <4>1. toPeer'[s] = Append(toPeer[s], Head(q))
        BY <2>1, <2>2, <3>1 DEF TypeOK
      <4> QED
        BY <2>1, <3>1, <4>1, AppendPositions
    <3>2. CASE s # socket
      BY <2>1, <2>2, <3>2 DEF TypeOK
    <3> QED
      BY <3>1, <3>2
  <2>6. ASSUME i \in DOMAIN toPeer[s], toPeer'[s][i] = toPeer[s][i] PROVE writes'[toPeer'[s][i]] > 0
    <3> DEFINE c == toPeer[s][i]
    <3>1. c \in Commands /\ writes[c] > 0
      BY <2>4, <2>6 DEF ExecutedInv
    <3>2. writes'[c] >= writes[c] /\ writes[c] \in Nat /\ writes'[c] \in Nat
      <4>1. writes' \in [Commands -> Nat]
        BY <2>1, <2>2 DEF TypeOK
      <4> HIDE DEF c
      <4> QED
        BY <2>3, <3>1, <4>1
    <3> HIDE DEF c
    <3> QED
      BY <2>6, <3>1, <3>2 DEF c
  <2> QED
    BY <2>1, <2>3, <2>5, <2>6
<1> QED
  BY <1>1, <1>2 DEF PumpQueue

(* Lines that were there before, and commands that were written before. *)
LEMMA CalmExecuted ==
    ASSUME ExecutedInv, UNCHANGED <<writes, executed>>,
           \A x \in Sockets : \A i \in DOMAIN toPeer'[x] :
              \E j \in DOMAIN toPeer[x] : toPeer'[x][i] = toPeer[x][j],
           \A x \in Sockets : \A i \in DOMAIN toClient'[x] :
              toClient'[x][i] = Welcome \/ \E j \in DOMAIN toClient[x] : toClient'[x][i] = toClient[x][j]
    PROVE  ExecutedInv'
BY DEF ExecutedInv

LEMMA LineExecuted ==
    ASSUME TypeOK, WireInv, ExecutedInv, NEW s \in Sockets, HandleWelcome(s) \/ HandleLine(s)
    PROVE  ExecutedInv'
<1> USE DEF clientVars, readyVars, peerVars
<1>1. /\ conn[s] = "live" /\ toClient[s] # <<>> /\ executed' = executed
      /\ toClient' = [toClient EXCEPT ![s] = Tail(@)]
  BY DEF HandleWelcome, HandleLine
<1>2. \A x \in Sockets : \A i \in DOMAIN toClient'[x] :
         \E j \in DOMAIN toClient[x] : toClient'[x][i] = toClient[x][j]
  <2>1. /\ \A x \in Sockets \ {s} : toClient'[x] = toClient[x]
        /\ \A i \in DOMAIN toClient'[s] :
              i + 1 \in DOMAIN toClient[s] /\ toClient'[s][i] = toClient[s][i + 1]
    BY <1>1, ConsumeLine
  <2> QED
    BY <2>1
<1>3. CASE UNCHANGED <<toPeer, writes>>
  BY <1>1, <1>2, <1>3, CalmExecuted
<1>4. ASSUME NEW q \in Seq(Commands), NEW b, PumpQueue(q, b) PROVE ExecutedInv'
  <2>1. \A x \in Sockets : \A i \in DOMAIN toPeer'[x] : writes'[toPeer'[x][i]] > 0
    BY <1>4, PumpQueueWritten
  <2> QED
    BY <1>1, <1>2, <2>1 DEF ExecutedInv
<1>5. CASE HandleWelcome(s)
  <2>1. \A a \in Sockets : queue \o NextStep(a, 0) \in Seq(Commands)
    <3>1. queue \in Seq(Commands) /\ \A a \in Sockets : NextStep(a, 0) \in Seq(Commands)
      BY NextStepType DEF TypeOK
    <3> QED
      BY <3>1
  <2> QED
    BY <1>3, <1>4, <1>5, <2>1 DEF HandleWelcome, StartInitialize, AwaitingWelcome
<1>6. CASE HandleLine(s)
  <2>1. CASE AbsorbLine(s) \/ DropFrame
    BY <1>3, <2>1 DEF AbsorbLine, DropFrame
  <2>2. CASE CompleteCurrent(s)
    <3>1. Tail(queue) \in Seq(Commands) /\ Head(queue) \in Commands
      BY <2>2, TailPositions DEF CompleteCurrent, TypeOK
    <3>2. CASE Head(queue) \notin InitCommands
      BY <1>4, <2>2, <3>1, <3>2 DEF CompleteCurrent
    <3>3. CASE Head(queue) \in InitCommands
      <4>1. NextStep(Head(queue)[1], Head(queue)[2]) \in Seq(Commands)
        BY <3>3, InitCommandParts, NextStepType
      <4>2. Tail(queue) \o NextStep(Head(queue)[1], Head(queue)[2]) \in Seq(Commands)
        BY <3>1, <4>1
      <4> QED
        BY <1>4, <2>2, <3>3, <4>2 DEF CompleteCurrent
    <3> QED
      BY <3>2, <3>3
  <2> QED
    BY <1>6, <2>1, <2>2 DEF HandleLine
<1> QED
  BY <1>5, <1>6

LEMMA ReplyExecuted ==
    ASSUME TypeOK, ExecutedInv, NEW s \in Sockets, PeerReply(s)
    PROVE  ExecutedInv'
<1> DEFINE c == Head(toPeer[s])
<1>1. /\ toPeer[s] # <<>> /\ toPeer' = [toPeer EXCEPT ![s] = Tail(@)]
      /\ executed' = executed \cup {c} /\ writes' = writes
  BY DEF PeerReply
<1>2. toPeer[s] \in Seq(Commands) /\ c \in Commands
  BY <1>1 DEF TypeOK
<1>3. \A x \in Sockets : \A i \in DOMAIN toPeer'[x] : writes'[toPeer'[x][i]] > 0
  <2>1. \A i \in DOMAIN Tail(toPeer[s]) :
           i + 1 \in DOMAIN toPeer[s] /\ Tail(toPeer[s])[i] = toPeer[s][i + 1]
    BY <1>1, <1>2, TailPositions
  <2>2. toPeer'[s] = Tail(toPeer[s]) /\ \A x \in Sockets \ {s} : toPeer'[x] = toPeer[x]
    BY <1>1 DEF TypeOK
  <2> QED
    BY <1>1, <2>1, <2>2 DEF ExecutedInv
<1>4. CASE UNCHANGED toClient
  BY <1>1, <1>3, <1>4 DEF ExecutedInv
<1>5. ASSUME NEW reply \in Replies(c) \cup {<<Line("error", c)>>},
             reply \in Replies(c) \/ ExpectOf(c) = "end",
             toClient' = [toClient EXCEPT ![s] = @ \o reply]
      PROVE  ExecutedInv'
  <2>1. reply \in Seq(Lines) /\ \A j \in DOMAIN reply : reply[j].cmd = c
    <3> HIDE DEF c
    <3> QED
      BY <1>2, <1>5, RepliesShape
  <2>2. toClient[s] \in Seq(Lines) /\ toClient'[s] = toClient[s] \o reply
    BY <1>5 DEF TypeOK
  <2>3. \A x \in Sockets \ {s} : toClient'[x] = toClient[x]
    BY <1>5 DEF TypeOK
  <2> HIDE DEF c
  <2>4. \A i \in DOMAIN toClient'[s] :
           \/ i \in DOMAIN toClient[s] /\ toClient'[s][i] = toClient[s][i]
           \/ \E j \in DOMAIN reply : toClient'[s][i] = reply[j]
    <3> SUFFICES ASSUME NEW i \in DOMAIN toClient'[s]
                 PROVE  \/ i \in DOMAIN toClient[s] /\ toClient'[s][i] = toClient[s][i]
                        \/ i - Len(toClient[s]) \in DOMAIN reply
                           /\ toClient'[s][i] = reply[i - Len(toClient[s])]
      OBVIOUS
    <3> QED
      BY <2>1, <2>2
  <2>5. \A i \in DOMAIN toClient'[s] : toClient'[s][i] # Welcome => toClient'[s][i].cmd \in executed'
    BY <1>1, <2>1, <2>4 DEF ExecutedInv, c
  <2>6. \A x \in Sockets \ {s} : \A i \in DOMAIN toClient'[x] :
           toClient'[x][i] # Welcome => toClient'[x][i].cmd \in executed'
    BY <1>1, <2>3 DEF ExecutedInv
  <2> QED
    BY <1>3, <2>5, <2>6 DEF ExecutedInv
<1>6. ASSUME toClient' = [toClient EXCEPT ![s] = Append(@, Line("error", c))]
      PROVE  toClient' = [toClient EXCEPT ![s] = @ \o <<Line("error", c)>>]
  <2>1. Line("error", c) \in Lines /\ toClient[s] \in Seq(Lines)
    BY <1>2 DEF Line, Lines, LineKinds, TypeOK
  <2> QED
    BY <1>6, <2>1, AppendIsConcat
<1> QED
  BY <1>4, <1>5, <1>6 DEF PeerReply

LEMMA ExecutedInvStep ==
    ASSUME TypeOK, WireInv, ExecutedInv, [Next]_vars
    PROVE  ExecutedInv'
<1> USE DEF clientVars, readyVars, peerVars
<1>1. CASE UNCHANGED <<writes, executed, toPeer, toClient>>
  BY <1>1, CalmExecuted
<1>2. ASSUME NEW c \in UserCommands, Send(c) PROVE ExecutedInv'
  <2>1. Append(queue, c) \in Seq(Commands) /\ PumpQueue(Append(queue, c), busy)
    BY <1>2, AppendPositions DEF Send, Commands, TypeOK
  <2> QED
    BY <1>2, <2>1, PumpQueueWritten DEF Send, ExecutedInv
<1>3. ASSUME NEW s \in Sockets, SocketEvent(s) PROVE ExecutedInv'
  <2>1. CASE HandleWelcome(s) \/ HandleLine(s)
    BY <2>1, LineExecuted
  <2>2. CASE SocketError(s) \/ SocketEnd(s)
    BY <1>1, <2>2 DEF SocketError, SocketEnd
  <2>3. CASE SocketClose(s)
    <3>1. /\ \A x \in Sockets : toPeer'[x] = toPeer[x] \/ toPeer'[x] = <<>>
          /\ \A x \in Sockets : toClient'[x] = toClient[x] \/ toClient'[x] = <<>>
      BY <2>3 DEF SocketClose, TypeOK
    <3>2. DOMAIN <<>> = {}
      OBVIOUS
    <3> QED
      BY <2>3, <3>1, <3>2, CalmExecuted DEF SocketClose
  <2> QED
    BY <1>3, <2>1, <2>2, <2>3 DEF SocketEvent
<1>4. ASSUME NEW s \in Sockets, PeerWelcome(s) PROVE ExecutedInv'
  <2>1. /\ UNCHANGED <<writes, executed, toPeer>> /\ toClient[s] = <<>>
        /\ toClient' = [toClient EXCEPT ![s] = Append(@, Welcome)]
    BY <1>4 DEF PeerWelcome, WireInv, LinesInv
  <2>2. toClient'[s] = <<Welcome>> /\ \A x \in Sockets \ {s} : toClient'[x] = toClient[x]
    BY <2>1 DEF TypeOK
  <2>3. \A i \in DOMAIN <<Welcome>> : <<Welcome>>[i] = Welcome
    OBVIOUS
  <2> QED
    BY <2>1, <2>2, <2>3, CalmExecuted
<1>5. ASSUME NEW s \in Sockets, PeerReply(s) PROVE ExecutedInv'
  BY <1>5, ReplyExecuted
<1>6. CASE Connect \/ AttachSocket \/ Disconnect \/ Reconnect \/ UNCHANGED vars
  BY <1>1, <1>6 DEF Connect, AttachSocket, Disconnect, Reconnect, vars
<1>7. ASSUME (\E a \in Sockets : WelcomeTimeout(a)) \/ \E i \in DOMAIN queue : CommandTimeout(i)
      PROVE  ExecutedInv'
  BY <1>1, <1>7 DEF WelcomeTimeout, CommandTimeout
<1> QED
  BY <1>2, <1>3, <1>4, <1>5, <1>6, <1>7 DEF Next, Application, Timer, Peer

----------------------------------------------------------------------------
\* Reconnection: a lost connection is replaced, after a delay that counts losses

LEMMA LostInvStep ==
    ASSUME TypeOK, LostInv, [Next]_vars
    PROVE  LostInv'
<1> USE DEF clientVars, readyVars, peerVars, LostInv
<1>1. ASSUME OpenSocket PROVE conn'[socket'] = "live"
  <2>1. opened + 1 \in Sockets /\ socket' = opened + 1
    BY <1>1, BoundsAssumption DEF OpenSocket, Adopt, TypeOK, Sockets
  <2> QED
    BY <1>1, <2>1, DestroyedType DEF OpenSocket
<1>2. CASE Connect \/ Reconnect
  BY <1>1, <1>2 DEF Connect, Reconnect
<1>3. CASE AttachSocket
  <2>1. 1 \in Sockets
    BY BoundsAssumption DEF Sockets
  <2> QED
    BY <1>3, <2>1 DEF AttachSocket, Adopt, TypeOK
<1>4. CASE Disconnect
  BY <1>4 DEF Disconnect
<1>5. ASSUME NEW s, conn' = Destroyed(s), UNCHANGED clientVars PROVE LostInv'
  BY <1>5 DEF Destroyed, TypeOK
<1>6. ASSUME NEW s \in Sockets, SocketEvent(s) PROVE LostInv'
  <2>1. CASE HandleWelcome(s) \/ HandleLine(s)
    BY <2>1 DEF HandleWelcome, HandleLine
  <2>2. CASE SocketError(s) \/ SocketEnd(s)
    BY <1>5, <2>2 DEF SocketError, SocketEnd
  <2>3. CASE SocketClose(s)
    BY <2>3 DEF SocketClose, ScheduleReconnectIfNeeded, ReconnectWanted, TypeOK
  <2> QED
    BY <1>6, <2>1, <2>2, <2>3 DEF SocketEvent
<1>7. ASSUME NEW i \in DOMAIN queue, CommandTimeout(i) PROVE LostInv'
  BY <1>5, <1>7 DEF CommandTimeout
<1>8. ASSUME NEW c \in UserCommands, Send(c) PROVE LostInv'
  BY <1>8 DEF Send
<1>9. ASSUME NEW a \in Sockets, WelcomeTimeout(a) PROVE LostInv'
  BY <1>9 DEF WelcomeTimeout
<1>10. CASE Peer \/ UNCHANGED vars
  BY <1>10 DEF Peer, PeerWelcome, PeerReply, vars
<1> QED
  BY <1>2, <1>3, <1>4, <1>6, <1>7, <1>8, <1>9, <1>10 DEF Next, Application, Timer

(* No attempt counts as welcomed before its banner. *)
LEMMA WelcomedIsOpened ==
    ASSUME TypeOK, StepsInv, NEW a \in Welcomed
    PROVE  a \in Sockets /\ a <= opened
<1>1. a \in Sockets /\ (handshake[a] \in {"initialising", "ready"} \/ \E k \in Steps : outcome[<<a, k>>] # "new")
  BY DEF Welcomed
<1>2. handshake[a] # "idle"
  BY <1>1 DEF StepsInv
<1>3. ~(a > opened)
  BY <1>1, <1>2 DEF StepsInv
<1> QED
  BY <1>1, <1>3 DEF TypeOK, Sockets

LEMMA RejectWelcomed ==
    ASSUME TypeOK, QueueInv, StepsInv, NEW cs, NEW as, Reject(cs, as), cs \subseteq Queued,
           as \subseteq AwaitingWelcome
    PROVE  Welcomed' = Welcomed
<1>1. \A c \in cs : outcome[c] = "pending"
  BY DEF Queued, QueueInv
<1>2. \A a \in Sockets, k \in Steps : outcome'[<<a, k>>] # "new" <=> outcome[<<a, k>>] # "new"
  BY <1>1, StepIsCommand DEF Reject
<1>3. ASSUME NEW a \in Sockets, handshake'[a] # handshake[a]
      PROVE  a \in as \/ \E k \in Steps : outcome[<<a, k>>] # "new"
  BY <1>1, <1>3 DEF Reject
<1>4. \A a \in as : handshake[a] = "waiting" /\ handshake'[a] = "failed"
  BY DEF AwaitingWelcome, Reject
<1> QED
  BY <1>2, <1>3, <1>4 DEF Welcomed

LEMMA CompletedWelcomed ==
    ASSUME TypeOK, WireInv, QueueInv, StepsInv, NEW s \in Sockets, HandleLine(s),
           Completes(Head(toClient[s])), CompleteCurrent(s)
    PROVE  Welcomed' = Welcomed
<1>1. queue # <<>> /\ queue \in Seq(Commands)
  BY DEF CompleteCurrent, TypeOK
<1>2. Head(queue) \in Commands /\ outcome[Head(queue)] = "pending"
  BY <1>1, TailPositions DEF QueueInv
<1>3. CASE Head(queue) \notin InitCommands
  <2>1. handshake' = handshake /\ outcome' = [outcome EXCEPT ![Head(queue)] = "resolved"]
    BY <1>3 DEF CompleteCurrent
  <2> QED
    BY <1>2, <1>3, <2>1, StepIsCommand DEF Welcomed, TypeOK
<1>4. CASE Head(queue) \in InitCommands
  <2>1. PICK a \in Sockets, k \in Steps : Head(queue) = <<a, k>>
    BY <1>4 DEF InitCommands
  <2>2. Head(queue)[1] = a /\ Head(queue)[2] = k
    BY <2>1
  <2>3. /\ outcome' = [i \in Commands |-> IF i = <<a, k>> THEN "resolved"
                                          ELSE IF NextStep(a, k) = <<i>> THEN "pending"
                                          ELSE outcome[i]]
        /\ handshake' = [handshake EXCEPT ![a] = StageAfter(k)]
    BY <2>1, <2>2, <1>4 DEF CompleteCurrent
  <2>4. a \in Welcomed
    BY <1>2, <2>1 DEF Welcomed
  <2>5. a \in Welcomed'
    BY <2>3, StepIsCommand DEF Welcomed
  <2>6. \A x \in Sockets \ {a} : x \in Welcomed' <=> x \in Welcomed
    <3>1. \A x \in Sockets \ {a}, j \in Steps : NextStep(a, k) # <<<<x, j>>>> /\ <<x, j>> # <<a, k>>
      BY DEF NextStep
    <3>2. \A x \in Sockets \ {a}, j \in Steps : outcome'[<<x, j>>] = outcome[<<x, j>>]
      BY <2>3, <3>1, StepIsCommand
    <3>3. \A x \in Sockets \ {a} : handshake'[x] = handshake[x]
      BY <2>3 DEF TypeOK
    <3> QED
      BY <3>2, <3>3 DEF Welcomed
  <2> QED
    BY <2>4, <2>5, <2>6 DEF Welcomed
<1> QED
  BY <1>3, <1>4

(* Steps that leave the welcomed attempts and the delay alone. *)
LEMMA CalmBackoff ==
    ASSUME BackoffInv, Welcomed' = Welcomed, UNCHANGED <<reconnectAttempt, opened>>,
           manuallyClosed' \/ (UNCHANGED <<manuallyClosed, socket>> /\ Closed' = Closed)
    PROVE  BackoffInv'
BY DEF BackoffInv, Latest

LEMMA DestroyedClosed ==
    ASSUME TypeOK, NEW s, conn' = Destroyed(s), UNCHANGED socket, socket # 0
    PROVE  Closed' = Closed
BY DEF Destroyed, Closed, TypeOK

LEMMA OpenedBackoff ==
    ASSUME TypeOK, WireInv, QueueInv, StepsInv, BackoffInv, TimerInv, OpenSocket,
           opened = 0 \/ (reconnectTimer /\ UNCHANGED manuallyClosed),
           UNCHANGED <<outcome, reconnectAttempt>>
    PROVE  BackoffInv'
<1>1. /\ opened + 1 \in Sockets /\ opened \in Nat /\ socket' = opened + 1 /\ opened' = opened + 1
      /\ conn' = [Destroyed(socket) EXCEPT ![opened + 1] = "live"]
      /\ handshake' = [handshake EXCEPT ![opened + 1] = "waiting"]
  BY BoundsAssumption DEF OpenSocket, Adopt, TypeOK, Sockets
<1>2. Closed' = 0
  <2>1. conn'[opened + 1] = "live"
    BY <1>1, DestroyedType
  <2> QED
    BY <1>1, <2>1 DEF Closed
<1>3. Welcomed' = Welcomed
  <2>1. handshake[opened + 1] = "idle"
    BY <1>1 DEF StepsInv
  <2> QED
    BY <1>1, <2>1 DEF Welcomed, TypeOK
<1>4. CASE opened = 0
  <2>1. Welcomed = {}
    BY <1>4, WelcomedIsOpened DEF Sockets
  <2>2. reconnectAttempt' = (socket' - 1) + Closed' /\ 1 \in Sockets /\ opened' # 0
    BY <1>1, <1>2, <1>4 DEF BackoffInv
  <2> QED
    BY <1>3, <2>1, <2>2 DEF BackoffInv, Latest
<1>5. CASE reconnectTimer /\ UNCHANGED manuallyClosed
  <2>1. /\ socket # 0 /\ conn[socket] = "closed" /\ socket = opened /\ Closed = 1
        /\ opened' # 0 /\ socket \in Nat
    BY <1>1, <1>5 DEF WireInv, CloseInv, StepsInv, Closed
  <2> SUFFICES ASSUME AutoReconnect, ~manuallyClosed
               PROVE  \E m \in Sockets : Latest(m)' /\ reconnectAttempt' = (socket' - m) + Closed'
    BY <1>5, <2>1 DEF BackoffInv
  <2>2. PICK m \in Sockets : Latest(m) /\ reconnectAttempt = (socket - m) + Closed
    BY <2>1 DEF BackoffInv
  <2>3. (socket - m) + 1 = (socket' - m) + 0
    BY <1>1, <2>1 DEF Sockets
  <2>4. Latest(m)'
    BY <1>3, <2>2 DEF Latest
  <2> QED
    BY <1>2, <2>1, <2>2, <2>3, <2>4
<1> QED
  BY <1>4, <1>5

LEMMA WelcomeBackoff ==
    ASSUME TypeOK, WireInv, QueueInv, StepsInv, BackoffInv, NEW s \in Sockets, HandleWelcome(s)
    PROVE  BackoffInv'
<1>1. conn[s] = "live" /\ UNCHANGED <<conn, socket, opened, manuallyClosed>>
  BY DEF HandleWelcome
<1>2. CASE UNCHANGED <<reconnectAttempt, handshake, outcome>>
  BY <1>1, <1>2, CalmBackoff DEF Welcomed, Closed
<1>3. ASSUME NEW a \in AwaitingWelcome, StartInitialize(a) PROVE BackoffInv'
  <2>1. a = s /\ s = socket /\ s = opened /\ s \in Nat /\ opened # 0
    BY <1>1, <1>3, WelcomedAttempt DEF Sockets
  <2>2. /\ reconnectAttempt' = 0 /\ handshake' = [handshake EXCEPT ![s] = StageAfter(0)]
        /\ outcome' = outcome \/ outcome' = [outcome EXCEPT ![<<s, 1>>] = "pending"]
    BY <1>3, <2>1 DEF StartInitialize, ResetBackoff
  <2>3. s \in Welcomed'
    BY <2>2 DEF Welcomed, StageAfter, TypeOK
  <2>4. \A b \in Welcomed' : b \in Welcomed \/ b = s
    <3> SUFFICES ASSUME NEW b \in Welcomed', b # s PROVE b \in Welcomed
      OBVIOUS
    <3>1. b \in Sockets /\ handshake'[b] = handshake[b]
      BY <2>2 DEF Welcomed, TypeOK
    <3>2. \A k \in Steps : outcome'[<<b, k>>] = outcome[<<b, k>>]
      BY <2>2, <3>1, StepIsCommand DEF TypeOK
    <3> QED
      BY <3>1, <3>2 DEF Welcomed
  <2>5. \A b \in Welcomed' : b <= s
    BY <2>1, <2>4, WelcomedIsOpened
  <2>6. Latest(s)'
    BY <1>1, <2>3, <2>5 DEF Latest
  <2>7. reconnectAttempt' = (socket' - s) + Closed'
    BY <1>1, <2>1, <2>2 DEF Closed
  <2> QED
    BY <1>1, <2>1, <2>6, <2>7 DEF BackoffInv
<1> QED
  BY <1>2, <1>3 DEF HandleWelcome

LEMMA CloseBackoff ==
    ASSUME TypeOK, WireInv, QueueInv, StepsInv, BackoffInv, NEW s \in Sockets, SocketClose(s)
    PROVE  BackoffInv'
<1>1. /\ conn[s] = "destroyed" /\ conn' = [conn EXCEPT ![s] = "closed"]
      /\ UNCHANGED <<socket, opened, manuallyClosed>> /\ Reject(Queued, AwaitingWelcome)
      /\ ScheduleReconnectIfNeeded
  BY DEF SocketClose, RejectAllPending
<1>2. Welcomed' = Welcomed
  BY <1>1, RejectWelcomed
<1>3. opened # 0
  BY <1>1 DEF WireInv, SocketInv, Numbered, Sockets
<1> SUFFICES ASSUME AutoReconnect, ~manuallyClosed, socket # 0
             PROVE  \E m \in Sockets : Latest(m)' /\ reconnectAttempt' = (socket' - m) + Closed'
  BY <1>1, <1>3 DEF BackoffInv
<1>4. s = socket /\ Closed = 0 /\ Closed' = 1 /\ ~reconnectTimer
  BY <1>1 DEF WireInv, CloseInv, Closed, TypeOK
<1>5. reconnectAttempt' = reconnectAttempt + 1
  BY <1>1, <1>4 DEF ScheduleReconnectIfNeeded, ReconnectWanted
<1>6. PICK m \in Sockets : Latest(m) /\ reconnectAttempt = (socket - m) + Closed
  BY DEF BackoffInv
<1>7. Latest(m)'
  BY <1>2, <1>6 DEF Latest
<1>8. reconnectAttempt' = (socket' - m) + Closed'
  BY <1>1, <1>4, <1>5, <1>6 DEF Sockets
<1> QED
  BY <1>7, <1>8

LEMMA BackoffInvStep ==
    ASSUME ~Reuse, TypeOK, WireInv, QueueInv, StepsInv, BackoffInv, TimerInv, [Next]_vars
    PROVE  BackoffInv'
<1> USE DEF clientVars, readyVars, peerVars
<1>1. CASE Connect \/ Reconnect
  <2>1. /\ OpenSocket /\ UNCHANGED <<outcome, reconnectAttempt>>
        /\ opened = 0 \/ (reconnectTimer /\ UNCHANGED manuallyClosed)
    BY <1>1 DEF Connect, Reconnect
  <2> QED
    BY <2>1, OpenedBackoff
<1>2. CASE AttachSocket
  <2>1. ~AutoReconnect /\ opened' # 0
    BY <1>2 DEF AttachSocket, Adopt
  <2> QED
    BY <2>1 DEF BackoffInv
<1>3. CASE Disconnect
  BY <1>3 DEF Disconnect, BackoffInv
<1>4. ASSUME NEW c \in UserCommands, Send(c) PROVE BackoffInv'
  <2>1. c \in Commands /\ c \notin InitCommands /\ outcome' = [outcome EXCEPT ![c] = "pending"]
    BY <1>4, CommandsAssumption DEF Send, Commands
  <2>2. \A a \in Sockets, k \in Steps : outcome'[<<a, k>>] = outcome[<<a, k>>]
    BY <2>1, StepIsCommand DEF TypeOK
  <2>3. Welcomed' = Welcomed
    BY <1>4, <2>2 DEF Send, Welcomed
  <2> QED
    BY <1>4, <2>3, CalmBackoff DEF Send, Closed
<1>5. ASSUME NEW s \in Sockets, SocketEvent(s) PROVE BackoffInv'
  <2>1. CASE HandleWelcome(s)
    BY <2>1, WelcomeBackoff
  <2>2. CASE HandleLine(s)
    <3>1. Welcomed' = Welcomed
      BY <2>2, CompletedWelcomed DEF HandleLine, AbsorbLine, DropFrame, Welcomed
    <3> QED
      BY <2>2, <3>1, CalmBackoff DEF HandleLine, Closed
  <2>3. CASE SocketError(s)
    <3>1. Reject({}, AwaitingWelcome) /\ {} \subseteq Queued /\ conn' = Destroyed(s)
      BY <2>3 DEF SocketError
    <3>2. Welcomed' = Welcomed
      BY <3>1, RejectWelcomed
    <3>3. CASE socket = 0
      BY <2>3, <3>2, <3>3 DEF SocketError, BackoffInv
    <3>4. CASE socket # 0
      BY <2>3, <3>1, <3>2, <3>4, CalmBackoff, DestroyedClosed DEF SocketError
    <3> QED
      BY <3>3, <3>4
  <2>4. CASE SocketEnd(s)
    <3>1. Welcomed' = Welcomed /\ conn' = Destroyed(s)
      BY <2>4 DEF SocketEnd, Welcomed
    <3>2. CASE socket = 0
      BY <2>4, <3>2 DEF SocketEnd, BackoffInv
    <3>3. CASE socket # 0
      BY <2>4, <3>1, <3>3, CalmBackoff, DestroyedClosed DEF SocketEnd
    <3> QED
      BY <3>2, <3>3
  <2>5. CASE SocketClose(s)
    BY <2>5, CloseBackoff
  <2> QED
    BY <1>5, <2>1, <2>2, <2>3, <2>4, <2>5 DEF SocketEvent
<1>6. ASSUME NEW a \in Sockets, WelcomeTimeout(a) PROVE BackoffInv'
  <2>1. Reject({}, AwaitingWelcome) /\ {} \subseteq Queued
    BY <1>6 DEF WelcomeTimeout
  <2>2. Welcomed' = Welcomed
    BY <2>1, RejectWelcomed
  <2> QED
    BY <1>6, <2>2, CalmBackoff DEF WelcomeTimeout, Closed
<1>7. ASSUME NEW i \in DOMAIN queue, CommandTimeout(i) PROVE BackoffInv'
  <2>1. /\ Reject({queue[i]}, {}) /\ {queue[i]} \subseteq Queued /\ {} \subseteq AwaitingWelcome
        /\ conn' = Destroyed(socket)
    BY <1>7 DEF CommandTimeout, Queued
  <2>2. Welcomed' = Welcomed
    BY <2>1, RejectWelcomed
  <2>3. CASE socket = 0
    BY <1>7, <2>3 DEF CommandTimeout, BackoffInv
  <2>4. CASE socket # 0
    BY <1>7, <2>1, <2>2, <2>4, CalmBackoff, DestroyedClosed DEF CommandTimeout
  <2> QED
    BY <2>3, <2>4
<1>8. CASE Peer
  BY <1>8, CalmBackoff DEF Peer, PeerWelcome, PeerReply, Welcomed, Closed
<1>9. CASE UNCHANGED vars
  BY <1>9, CalmBackoff DEF vars, Welcomed, Closed
<1> QED
  BY <1>1, <1>2, <1>3, <1>4, <1>5, <1>6, <1>7, <1>8, <1>9 DEF Next, Application, Timer

(* The latest welcomed attempt is the one BackoffCountsFailures chooses. *)
LEMMA BackoffCounts ==
    ASSUME TypeOK, BackoffInv
    PROVE  BackoffCountsFailures
<1> DEFINE last == IF Welcomed = {} THEN 1
                   ELSE CHOOSE a \in Welcomed : \A b \in Welcomed : b <= a
<1>1. \A m \in Sockets : Latest(m) => m = last
  <2> SUFFICES ASSUME NEW m \in Sockets, Latest(m), Welcomed # {} PROVE m = last
    BY DEF Latest
  <2>1. m \in Welcomed /\ \A b \in Welcomed : b <= m
    BY DEF Latest
  <2>2. last \in Welcomed /\ \A b \in Welcomed : b <= last
    BY <2>1
  <2>3. Welcomed \subseteq Nat
    BY DEF Welcomed, Sockets
  <2> HIDE DEF last
  <2> QED
    BY <2>1, <2>2, <2>3
<1> HIDE DEF last
<1>2. AutoReconnect /\ ~manuallyClosed /\ socket # 0 => reconnectAttempt = (socket - last) + Closed
  BY <1>1 DEF BackoffInv
<1> QED
  BY <1>2 DEF BackoffCountsFailures, Closed, last, Welcomed

----------------------------------------------------------------------------
\* The theorems about the history of commands

LEMMA HistoryInvStep ==
    ASSUME ~Reuse, TypeOK, TypeOK', WireInv, TimerInv, HistoryInv, [Next]_vars
    PROVE  HistoryInv'
<1>1. QueueInv /\ StepsInv /\ BodyInv /\ ResolvedByOwnReply /\ ExecutedInv /\ LostInv /\ BackoffInv
  BY DEF HistoryInv
<1>2. CommandStep
  BY <1>1, NextIsCommandStep
<1>3. QueueInv'
  BY <1>1, <1>2, QueueInvStep
<1>4. StepsInv'
  BY <1>1, <1>2, StepsInvStep
<1>5. BodyInv' /\ ResolvedByOwnReply'
  BY <1>1, BodyInvStep, ResolvedByOwnReplyStep
<1>6. ExecutedInv' /\ LostInv' /\ BackoffInv'
  BY <1>1, ExecutedInvStep, LostInvStep, BackoffInvStep
<1> QED
  BY <1>3, <1>4, <1>5, <1>6 DEF HistoryInv

LEMMA InitHistory == Init => HistoryInv
<1> SUFFICES ASSUME Init PROVE HistoryInv
  OBVIOUS
<1>1. DOMAIN <<>> = {} /\ queue = <<>> /\ \A s \in Sockets : toPeer[s] = <<>> /\ toClient[s] = <<>>
  BY DEF Init
<1>2. QueueInv
  BY <1>1 DEF Init, QueueInv, WrittenAtMostOnce
<1>3. StepsInv
  <2>1. \A a \in Sockets, k \in Steps : outcome[<<a, k>>] = "new"
    BY StepIsCommand DEF Init
  <2>2. \A a \in Sockets : handshake[a] = "idle"
    BY DEF Init
  <2>3. ReadyMeansInitialised
    BY <2>2 DEF ReadyMeansInitialised
  <2> QED
    BY <1>1, <2>1, <2>2, <2>3 DEF Init, StepsInv
<1>4. BodyInv /\ ExecutedInv
  BY <1>1 DEF BodyInv, ExecutedInv
<1>5. ResolvedByOwnReply
  BY DEF Init, ResolvedByOwnReply
<1>6. LostInv /\ BackoffInv
  BY DEF Init, LostInv, BackoffInv
<1> QED
  BY <1>2, <1>3, <1>4, <1>5, <1>6 DEF HistoryInv

LEMMA InitWire == Init => WireInv /\ TimerInv
<1> SUFFICES ASSUME Init PROVE WireInv /\ TimerInv
  OBVIOUS
<1>1. \A s \in Sockets : conn[s] = "unused" /\ toPeer[s] = <<>> /\ toClient[s] = <<>>
  BY DEF Init
<1>2. SocketInv /\ CloseInv /\ BusyInv /\ TimerInv
  BY <1>1 DEF Init, SocketInv, OneLiveSocket, Numbered, CloseInv, BusyInv, TimerInv
<1>3. LinesInv /\ PipelineMatchesQueue
  BY <1>1 DEF Init, LinesInv, PipelineMatchesQueue
<1> QED
  BY <1>2, <1>3 DEF WireInv

(* The whole invariant of a client that is connected once. *)
LEMMA History == ASSUME ~Reuse PROVE Spec => [](TypeOK /\ WireInv /\ TimerInv /\ HistoryInv)
<1>1. TypeOK /\ WireInv /\ TimerInv /\ HistoryInv /\ [Next]_vars
        => (TypeOK /\ WireInv /\ TimerInv /\ HistoryInv)'
  <2> SUFFICES ASSUME TypeOK, WireInv, TimerInv, HistoryInv, [Next]_vars
               PROVE  (TypeOK /\ WireInv /\ TimerInv /\ HistoryInv)'
    OBVIOUS
  <2>1. TypeOK' /\ WireInv' /\ TimerInv'
    BY NextTypeOK, WireInvStep, TimerInvStep
  <2> QED
    BY <2>1, HistoryInvStep
<1> QED
  BY <1>1, InitTypeOK, InitWire, InitHistory, PTL DEF Spec

(* rejectAllPending and the timers never let a command be written to two   *)
(* connections, or twice to one: nothing the application asked for once is *)
(* done twice.                                                             *)
THEOREM NothingWrittenTwice == ASSUME ~Reuse PROVE Spec => []WrittenAtMostOnce
<1>1. HistoryInv => WrittenAtMostOnce
  BY DEF HistoryInv, QueueInv
<1> QED
  BY <1>1, History, PTL

(* completeCurrent gives every command the reply OpenVPN made to it, with  *)
(* the whole body, whatever was lost or expired before.                    *)
THEOREM OwnReplies == ASSUME ~Reuse PROVE Spec => []ResolvedByOwnReply
<1>1. HistoryInv => ResolvedByOwnReply
  BY DEF HistoryInv
<1> QED
  BY <1>1, History, PTL

(* initialize() reports an attempt ready only when its own connection      *)
(* answered every command of the sequence.                                 *)
THEOREM ReadyAfterInitialisation == ASSUME ~Reuse PROVE Spec => []ReadyMeansInitialised
<1>1. HistoryInv => ReadyMeansInitialised
  BY DEF HistoryInv, StepsInv
<1> QED
  BY <1>1, History, PTL

(* scheduleReconnectIfNeeded arms a timer for every lost connection, and   *)
(* none once the client is closed, however often connect() is called.      *)
THEOREM LossesAreRepaired == Spec => []ReconnectArmedWhenLost
<1>1. Init => TimerInv /\ LostInv
  BY DEF Init, TimerInv, LostInv
<1>2. TypeOK /\ TimerInv /\ LostInv /\ [Next]_vars => (TimerInv /\ LostInv)'
  BY TimerInvStep, LostInvStep
<1>3. TimerInv /\ LostInv => ReconnectArmedWhenLost
  BY DEF TimerInv, LostInv, ReconnectArmedWhenLost
<1> QED
  BY <1>1, <1>2, <1>3, TypeCorrect, PTL DEF Spec

(* The delay of the next reconnection counts the losses since the latest   *)
(* banner: late close events count no loss twice and reset nothing.        *)
THEOREM DelayCountsLosses == ASSUME ~Reuse PROVE Spec => []BackoffCountsFailures
<1>1. TypeOK /\ HistoryInv => BackoffCountsFailures
  BY BackoffCounts DEF HistoryInv
<1> QED
  BY <1>1, History, PTL

----------------------------------------------------------------------------
\* The queue moves by itself, for a client whose connect() is called once

OnWire(l) == \E i \in DOMAIN toClient[socket] : toClient[socket][i] = l

(* OpenVPN refused a command that should end with END by a bare ERROR:     *)
(* line, which does not complete its frame.                                *)
Refused(c) ==
    /\ ExpectOf(c) = "end"
    /\ Line("error", c) \in frame \/ OnWire(Line("error", c))

(* The command c is on its way to OpenVPN, the line that ends its reply on *)
(* its way back, or it was refused.                                        *)
UnderWay(c) ==
    \/ toPeer[socket] # <<>>
    \/ \E l \in Lines : EndsReply(l) /\ OnWire(l)
    \/ Refused(c)

(* On a usable socket the command in flight is under way; nothing is in    *)
(* flight only before the handshake, whose promise is the current one, or  *)
(* when initialize() has nothing to send.                                  *)
MovesInv ==
    /\ Writable /\ busy => UnderWay(Head(queue))
    /\ Writable /\ queue # <<>> /\ ~busy => handshake[socket] = "waiting" \/ InitSequence = <<>>
    /\ Writable /\ handshake[socket] = "waiting" => readyOwner = socket

(* The queue of a usable socket stops only where OpenVPN refused a command *)
(* by a bare ERROR: line, or where commands were queued before the socket  *)
(* was opened and initialize() sends none that would take them along.      *)
StopsOnlyWhenRefused ==
    Writable /\ queue # <<>> /\ Stalled =>
        \/ busy /\ Refused(Head(queue))
        \/ ~busy /\ InitSequence = <<>>

(* pumpQueue leaves nothing behind that could be written. *)
LEMMA PumpQueueMoves ==
    ASSUME TypeOK, NEW q \in Seq(Commands), NEW b \in BOOLEAN, PumpQueue(q, b)
    PROVE  /\ queue' = q
           /\ Writable /\ q # <<>> => busy'
           /\ Writable /\ busy' => toPeer'[socket] # <<>> \/ (b /\ UNCHANGED toPeer)
<1>1. CASE ~b /\ q # <<>> /\ Writable
  <2>1. socket \in Sockets /\ toPeer[socket] \in Seq(Commands) /\ Head(q) \in Commands
    BY <1>1 DEF Writable, TypeOK
  <2>2. /\ queue' = q /\ busy'
        /\ toPeer' = [toPeer EXCEPT ![socket] = Append(@, Head(q))]
    BY <1>1 DEF PumpQueue
  <2>3. toPeer'[socket] = Append(toPeer[socket], Head(q))
    BY <2>1, <2>2 DEF TypeOK
  <2>4. Append(toPeer[socket], Head(q)) # <<>>
    BY <2>1, AppendPositions
  <2> QED
    BY <2>2, <2>3, <2>4
<1>2. CASE ~(~b /\ q # <<>> /\ Writable)
  BY <1>2 DEF PumpQueue
<1> QED
  BY <1>1, <1>2

(* A line stays on the wire when another one is read. *)
LEMMA OtherLineStays ==
    ASSUME TypeOK, WireInv, NEW s \in Sockets, conn[s] = "live", toClient[s] # <<>>,
           toClient' = [toClient EXCEPT ![s] = Tail(@)], UNCHANGED socket,
           Writable, NEW l, l # Head(toClient[s]), OnWire(l)
    PROVE  OnWire(l)'
<1>1. s = socket
  BY DEF WireInv, SocketInv, OneLiveSocket
<1>2. toClient[s] \in Seq(Lines) /\ toClient'[s] = Tail(toClient[s])
  BY DEF TypeOK
<1>3. PICK i \in DOMAIN toClient[s] : toClient[s][i] = l
  BY <1>1 DEF OnWire
<1>4. i - 1 \in DOMAIN toClient'[s] /\ toClient'[s][i - 1] = l
  <2> DEFINE t == toClient[s]
  <2>1. t \in Seq(Lines) /\ t # <<>> /\ i \in 1 .. Len(t) /\ t[i] # Head(t)
    BY <1>2, <1>3
  <2> HIDE DEF t
  <2>2. i - 1 \in DOMAIN Tail(t) /\ Tail(t)[i - 1] = t[i]
    BY <2>1
  <2> QED
    BY <1>2, <1>3, <2>2 DEF t
<1> QED
  BY <1>1, <1>4 DEF OnWire

(* A command stays under way when a line is read that does not end its     *)
(* reply.                                                                  *)
LEMMA ReadingMoves ==
    ASSUME TypeOK, WireInv, NEW s \in Sockets, conn[s] = "live", toClient[s] # <<>>,
           toClient' = [toClient EXCEPT ![s] = Tail(@)], UNCHANGED <<socket, toPeer>>,
           Writable, ~EndsReply(Head(toClient[s])), NEW c,
           Head(toClient[s]) = Line("error", c) => Line("error", c) \in frame',
           Line("error", c) \in frame => Line("error", c) \in frame',
           UnderWay(c)
    PROVE  UnderWay(c)'
<1>1. CASE toPeer[socket] # <<>>
  BY <1>1 DEF UnderWay
<1>2. ASSUME NEW l \in Lines, EndsReply(l), OnWire(l) PROVE UnderWay(c)'
  <2>1. OnWire(l)'
    BY <1>2, OtherLineStays
  <2>2. EndsReply(l)'
    BY <1>2 DEF EndsReply
  <2> QED
    BY <2>1, <2>2 DEF UnderWay
<1>3. CASE Refused(c)
  <2>1. CASE Line("error", c) \in frame'
    BY <1>3, <2>1 DEF UnderWay, Refused
  <2>2. CASE Line("error", c) \notin frame'
    <3> DEFINE l == Line("error", c)
    <3>1. OnWire(l) /\ l # Head(toClient[s])
      BY <1>3, <2>2 DEF Refused
    <3> HIDE DEF l
    <3>2. OnWire(l)'
      BY <3>1, OtherLineStays
    <3>3. OnWire(Line("error", c))'
      BY <3>2 DEF l
    <3> QED
      BY <1>3, <3>3 DEF UnderWay, Refused
  <2> QED
    BY <2>1, <2>2
<1> QED
  BY <1>1, <1>2, <1>3 DEF UnderWay

(* What is under way is the command in flight. *)
LEMMA HeadUnderWay ==
    ASSUME NEW c, UnderWay(c)', Head(queue') = c
    PROVE  UnderWay(Head(queue))'
BY DEF UnderWay, Refused

(* Nothing has to move without a usable socket. *)
LEMMA DownMoves ==
    ASSUME TypeOK', \A s \in Sockets : conn'[s] # "live"
    PROVE  MovesInv'
<1>1. ~Writable'
  BY DEF Writable, TypeOK
<1> QED
  BY <1>1 DEF MovesInv

(* A new socket waits for its banner with the promise it was opened with. *)
LEMMA OpenedMoves ==
    ASSUME TypeOK, NEW s \in Sockets, Adopt(s), ~busy, UNCHANGED busy
    PROVE  MovesInv'
<1>1. socket' = s /\ readyOwner' = s /\ handshake'[s] = "waiting"
  BY DEF Adopt, TypeOK
<1> QED
  BY <1>1 DEF MovesInv

(* A command that is submitted is written at once or waits behind others. *)
LEMMA SendMoves ==
    ASSUME TypeOK, WireInv, MovesInv, NEW q \in Seq(Commands), PumpQueue(q, busy),
           busy => Head(q) = Head(queue),
           UNCHANGED <<conn, socket, frame, toClient>>,
           Writable /\ handshake'[socket] = "waiting" => readyOwner' = socket
    PROVE  MovesInv'
<1>1. busy \in BOOLEAN
  BY DEF TypeOK
<1>2. /\ queue' = q /\ (Writable /\ q # <<>> => busy')
      /\ Writable /\ busy' => toPeer'[socket] # <<>> \/ (busy /\ UNCHANGED toPeer)
  BY <1>1, PumpQueueMoves
<1>3. Writable' <=> Writable
  BY DEF Writable
<1>4. ASSUME Writable, busy' PROVE UnderWay(Head(queue))'
  <2>1. CASE toPeer'[socket] # <<>>
    BY <2>1 DEF UnderWay
  <2>2. CASE busy /\ UNCHANGED toPeer
    <3>1. UnderWay(Head(queue)) /\ Head(queue') = Head(queue)
      BY <1>2, <1>4, <2>2 DEF MovesInv
    <3>2. PICK c : c = Head(queue) /\ UnderWay(c) /\ Head(queue') = c
      BY <3>1
    <3>3. UnderWay(c)'
      BY <2>2, <3>2 DEF UnderWay, Refused, OnWire, EndsReply
    <3> QED
      BY <3>2, <3>3, HeadUnderWay
  <2> QED
    BY <1>2, <1>4, <2>1, <2>2
<1> QED
  BY <1>2, <1>3, <1>4 DEF MovesInv

(* A banner is read: the handshake it ends writes what waits in the queue. *)
LEMMA WelcomeMoves ==
    ASSUME TypeOK, TypeOK', WireInv, MovesInv, NEW s \in Sockets, HandleWelcome(s)
    PROVE  MovesInv'
<1>1. /\ conn[s] = "live" /\ toClient[s] # <<>> /\ Head(toClient[s]) = Welcome
      /\ toClient' = [toClient EXCEPT ![s] = Tail(@)]
      /\ UNCHANGED <<conn, socket, frame>>
  BY DEF HandleWelcome
<1>2. s = socket /\ Writable /\ (Writable' <=> Writable)
  BY <1>1 DEF WireInv, SocketInv, OneLiveSocket, Writable, Sockets
<1>3. handshake'[socket] # "waiting"
  <2>1. CASE handshake[socket] = "waiting"
    <3>1. AwaitingWelcome = {socket}
      BY <1>2, <2>1 DEF MovesInv, AwaitingWelcome
    <3>2. StartInitialize(socket)
      BY <3>1 DEF HandleWelcome
    <3>3. handshake' = [handshake EXCEPT ![socket] = StageAfter(0)]
      BY <3>2 DEF StartInitialize
    <3> QED
      BY <1>2, <3>3 DEF StageAfter, TypeOK
  <2>2. CASE handshake[socket] # "waiting"
    <3>1. ASSUME NEW a \in AwaitingWelcome, StartInitialize(a)
          PROVE  handshake'[socket] # "waiting"
      <4>1. handshake' = [handshake EXCEPT ![a] = StageAfter(0)]
        BY <3>1 DEF StartInitialize
      <4> QED
        BY <1>2, <2>2, <4>1 DEF StageAfter, TypeOK
    <3> QED
      BY <2>2, <3>1 DEF HandleWelcome
  <2> QED
    BY <2>1, <2>2
<1>4. ASSUME busy', toPeer'[socket] # <<>> PROVE UnderWay(Head(queue))'
  BY <1>1, <1>4 DEF UnderWay
<1>5. ASSUME busy, busy', UNCHANGED toPeer, Head(queue') = Head(queue)
      PROVE  UnderWay(Head(queue))'
  <2>1. PICK c : c = Head(queue) /\ UnderWay(c) /\ Head(queue') = c
    BY <1>2, <1>5 DEF MovesInv
  <2>2. ~EndsReply(Welcome) /\ Line("error", c) # Welcome
    BY DEF EndsReply, Welcome, Line
  <2>3. UnderWay(c)'
    BY <1>1, <1>2, <1>5, <2>1, <2>2, ReadingMoves
  <2> QED
    BY <2>1, <2>3, HeadUnderWay
<1>6. CASE AwaitingWelcome = {}
  <2>1. UNCHANGED <<queue, busy, toPeer, handshake>>
    BY <1>6 DEF HandleWelcome
  <2>2. handshake[socket] # "waiting"
    BY <1>3, <2>1
  <2> QED
    BY <1>1, <1>2, <1>3, <1>5, <2>1, <2>2 DEF MovesInv
<1>7. ASSUME NEW a \in AwaitingWelcome, StartInitialize(a) PROVE MovesInv'
  <2>1. CASE InitSequence = <<>>
    <3>1. UNCHANGED <<queue, busy, toPeer>>
      BY <1>7, <2>1 DEF StartInitialize
    <3> QED
      BY <1>1, <1>2, <1>3, <1>5, <2>1, <3>1 DEF MovesInv
  <2>2. CASE InitSequence # <<>>
    <3> DEFINE q == queue \o NextStep(a, 0)
    <3>1. /\ queue \in Seq(Commands) /\ NextStep(a, 0) \in Seq(Commands) /\ busy \in BOOLEAN
          /\ PumpQueue(q, busy)
      BY <1>7, <2>2, NextStepType DEF TypeOK, StartInitialize, AwaitingWelcome
    <3>2. q \in Seq(Commands)
      BY <3>1
    <3>3. busy => Head(q) = Head(queue)
      BY <3>1 DEF WireInv, BusyInv
    <3> HIDE DEF q
    <3>4. /\ queue' = q /\ (q # <<>> => busy')
          /\ busy' => toPeer'[socket] # <<>> \/ (busy /\ UNCHANGED toPeer)
      BY <1>2, <3>1, <3>2, PumpQueueMoves
    <3>5. busy' => UnderWay(Head(queue))'
      BY <1>4, <1>5, <3>3, <3>4
    <3> QED
      BY <1>1, <1>3, <3>4, <3>5 DEF MovesInv
  <2> QED
    BY <2>1, <2>2
<1> QED
  BY <1>6, <1>7 DEF HandleWelcome

(* A line of a reply is read: it ends the reply and the next command is    *)
(* written, or the rest of the reply is still to come.                     *)
LEMMA LineMoves ==
    ASSUME TypeOK, TypeOK', WireInv, MovesInv, NEW s \in Sockets, HandleLine(s)
    PROVE  MovesInv'
<1> DEFINE line == Head(toClient[s])
<1>1. /\ conn[s] = "live" /\ toClient[s] # <<>> /\ line # Welcome
      /\ toClient' = [toClient EXCEPT ![s] = Tail(@)]
      /\ UNCHANGED <<conn, socket, readyOwner>>
  BY DEF HandleLine, clientVars, readyVars
<1>2. s = socket /\ Writable /\ (Writable' <=> Writable)
  BY <1>1 DEF WireInv, SocketInv, OneLiveSocket, Writable, Sockets
<1>3. busy /\ queue # <<>> /\ line.cmd = Head(queue) /\ line \in Lines
  <2>1. line = toClient[s][1] /\ 1 \in DOMAIN toClient[s] /\ line \in Lines
    BY <1>1 DEF TypeOK
  <2> HIDE DEF line
  <2> QED
    BY <1>1, <2>1 DEF WireInv, PipelineMatchesQueue
<1>4. CASE ~Completes(line) /\ AbsorbLine(s)
  <2>1. /\ UNCHANGED <<handshake, queue, busy, toPeer>>
        /\ frame' = Absorb(line)
    BY <1>4 DEF AbsorbLine
  <2>2. PICK c : c = Head(queue) /\ UnderWay(c) /\ Head(queue') = c
    BY <1>2, <1>3, <2>1 DEF MovesInv
  <2>3. ~EndsReply(line) /\ line.kind # "end"
    BY <1>3, <1>4 DEF Completes, ParseMode, EndsReply
  <2>4. /\ line = Line("error", c) => Line("error", c) \in frame'
        /\ Line("error", c) \in frame => Line("error", c) \in frame'
    <3>1. line.kind = "error" => line = Line("error", c)
      BY <1>3, <2>2 DEF Lines, Line
    <3>2. Line("error", c).kind = "error"
      BY DEF Line
    <3> HIDE DEF line
    <3> QED
      BY <2>1, <2>3, <3>1, <3>2 DEF Absorb
  <2>5. UnderWay(c)'
    BY <1>1, <1>2, <2>1, <2>2, <2>3, <2>4, ReadingMoves
  <2>6. UnderWay(Head(queue))'
    BY <2>2, <2>5, HeadUnderWay
  <2> QED
    BY <1>1, <1>2, <1>3, <2>1, <2>6 DEF MovesInv
<1>5. CASE CompleteCurrent(s)
  <2>1. PICK q \in Seq(Commands) : PumpQueue(q, FALSE)
    <3>1. Tail(queue) \in Seq(Commands) /\ Head(queue) \in Commands
      BY <1>3 DEF TypeOK
    <3>2. CASE Head(queue) \notin InitCommands
      BY <1>5, <3>1, <3>2 DEF CompleteCurrent
    <3>3. CASE Head(queue) \in InitCommands
      <4>1. NextStep(Head(queue)[1], Head(queue)[2]) \in Seq(Commands)
        BY <3>3, InitCommandParts, NextStepType
      <4>2. Tail(queue) \o NextStep(Head(queue)[1], Head(queue)[2]) \in Seq(Commands)
        BY <3>1, <4>1
      <4> QED
        BY <1>5, <3>3, <4>2 DEF CompleteCurrent
    <3> QED
      BY <3>2, <3>3
  <2>2. /\ queue' = q /\ (q # <<>> => busy')
        /\ busy' => toPeer'[socket] # <<>>
    BY <1>2, <2>1, PumpQueueMoves
  <2>3. busy' => UnderWay(Head(queue))'
    BY <1>1, <2>2 DEF UnderWay
  <2>4. handshake'[socket] = "waiting" => handshake[socket] = "waiting"
    <3>1. UNCHANGED handshake \/ \E a, k : handshake' = [handshake EXCEPT ![a] = StageAfter(k)]
      BY <1>5 DEF CompleteCurrent
    <3>2. \A k : StageAfter(k) # "waiting"
      BY DEF StageAfter
    <3> QED
      BY <1>2, <3>1, <3>2 DEF TypeOK
  <2> QED
    BY <1>1, <1>2, <2>2, <2>3, <2>4 DEF MovesInv
<1> QED
  BY <1>3, <1>4, <1>5 DEF HandleLine, DropFrame

(* A reply brings the line that ends it, or the command was refused. *)
LEMMA ReplyMoves ==
    ASSUME TypeOK, TypeOK', WireInv, MovesInv, NEW s \in Sockets, PeerReply(s)
    PROVE  MovesInv'
<1>1. /\ toPeer[s] # <<>> /\ toPeer' = [toPeer EXCEPT ![s] = Tail(@)]
      /\ UNCHANGED <<conn, socket, readyOwner, handshake, queue, busy, frame>>
  BY DEF PeerReply, clientVars, readyVars
<1>2. CASE conn[s] = "destroyed"
  <2>1. ~Writable
    BY <1>2 DEF WireInv, CloseInv, Writable
  <2>2. ~Writable'
    BY <1>1, <2>1 DEF Writable
  <2> QED
    BY <2>2 DEF MovesInv
<1>3. CASE conn[s] = "live"
  <2>1. s = socket /\ Writable /\ (Writable' <=> Writable)
    BY <1>1, <1>3 DEF WireInv, SocketInv, OneLiveSocket, Writable, Sockets
  <2>2. PICK c : c = Head(toPeer[s])
    OBVIOUS
  <2>3. c \in Commands /\ c = Head(queue) /\ busy
    <3>1. toPeer[s] = <<Head(queue)>> /\ busy /\ queue # <<>>
      BY <1>1, <1>3 DEF WireInv, PipelineMatchesQueue
    <3>2. Head(<<Head(queue)>>) = Head(queue) /\ Head(queue) \in Commands
      BY <3>1 DEF TypeOK
    <3> QED
      BY <2>2, <3>1, <3>2
  <2>4. ASSUME NEW l \in Lines, NEW reply \in Seq(Lines), reply # <<>>, reply[Len(reply)] = l,
               toClient' = [toClient EXCEPT ![s] = @ \o reply]
        PROVE  OnWire(l)'
    <3>1. toClient'[s] = toClient[s] \o reply /\ toClient[s] \in Seq(Lines)
      BY <2>4 DEF TypeOK
    <3> DEFINE t == toClient[s]
               n == Len(t) + Len(reply)
    <3> HIDE DEF t
    <3>2. n \in DOMAIN (t \o reply) /\ (t \o reply)[n] = l
      BY <2>4, <3>1 DEF t
    <3> QED
      BY <1>1, <2>1, <3>1, <3>2 DEF OnWire, t
  <2>5. \A kind \in LineKinds : Line(kind, c) \in Lines
    BY <2>3 DEF Line, Lines
  <2>6. CASE ExpectOf(c) = "end" /\ toClient' = [toClient EXCEPT ![s] = Append(@, Line("error", c))]
    <3>1. PICK l \in Lines : l = Line("error", c)
      BY <2>5 DEF LineKinds
    <3>2. /\ <<l>> \in Seq(Lines) /\ <<l>> # <<>> /\ <<l>>[Len(<<l>>)] = l
          /\ toClient' = [toClient EXCEPT ![s] = @ \o <<l>>]
      <4>1. <<l>> \in Seq(Lines) /\ <<l>> # <<>> /\ <<l>>[Len(<<l>>)] = l
        OBVIOUS
      <4>2. toClient[s] \in Seq(Lines)
        BY DEF TypeOK
      <4>3. Append(toClient[s], l) = toClient[s] \o <<l>>
        BY <4>2, AppendIsConcat
      <4> QED
        BY <2>6, <3>1, <4>1, <4>3
    <3>3. OnWire(l)'
      BY <2>4, <3>2
    <3>4. OnWire(Line("error", c))'
      BY <3>1, <3>3
    <3>5. UnderWay(c)'
      BY <2>6, <3>4 DEF UnderWay, Refused
    <3>6. UnderWay(Head(queue))'
      BY <1>1, <2>3, <3>5, HeadUnderWay
    <3> QED
      BY <1>1, <2>1, <2>3, <3>6 DEF MovesInv
  <2>7. ASSUME NEW reply \in Replies(c), toClient' = [toClient EXCEPT ![s] = @ \o reply]
        PROVE  MovesInv'
    <3>1. PICK l \in Lines : /\ reply \in Seq(Lines) /\ reply # <<>>
                             /\ reply[Len(reply)] = l /\ EndsReply(l)
      <4>1. \A l, m \in Lines : /\ <<l>> \in Seq(Lines) /\ <<l, m>> \in Seq(Lines)
                                /\ <<l>> # <<>> /\ <<l, m>> # <<>>
                                /\ <<l>>[Len(<<l>>)] = l /\ <<l, m>>[Len(<<l, m>>)] = m
        OBVIOUS
      <4>2. CASE ExpectOf(c) = "single"
        <5>1. \A kind \in {"success", "error"} : EndsReply(Line(kind, c)) /\ Line(kind, c) \in Lines
          BY <2>5, <4>2 DEF EndsReply, Line, LineKinds
        <5>2. PICK kind \in {"success", "error"} : reply = <<Line(kind, c)>>
          BY <4>2 DEF Replies
        <5> QED
          BY <4>1, <5>1, <5>2
      <4>3. CASE ExpectOf(c) # "single"
        <5>1. reply = <<Line("data", c), Line("end", c)>>
          BY <4>3 DEF Replies
        <5>2. EndsReply(Line("end", c)) /\ Line("data", c) \in Lines /\ Line("end", c) \in Lines
          BY <2>5 DEF EndsReply, Line, LineKinds
        <5> QED
          BY <4>1, <5>1, <5>2
      <4> QED
        BY <4>2, <4>3
    <3>2. OnWire(l)'
      BY <2>4, <2>7, <3>1
    <3>3. EndsReply(l)'
      BY <3>1 DEF EndsReply
    <3>4. UnderWay(Head(queue))'
      BY <3>2, <3>3 DEF UnderWay
    <3> QED
      BY <1>1, <2>1, <2>3, <3>4 DEF MovesInv
  <2> QED
    BY <1>3, <2>2, <2>6, <2>7 DEF PeerReply
<1> QED
  BY <1>2, <1>3 DEF PeerReply

LEMMA MovesInvStep ==
    ASSUME ~Reuse, "welcome" \notin Faults, TypeOK, TypeOK', WireInv, MovesInv, [Next]_vars
    PROVE  MovesInv'
<1> USE DEF clientVars, readyVars, peerVars
<1>1. \A s \in Sockets : conn[s] = "live" => s = socket
  BY DEF WireInv, SocketInv, OneLiveSocket
<1>2. ASSUME conn' = Destroyed(socket) PROVE MovesInv'
  <2>1. \A s \in Sockets : conn'[s] # "live"
    BY <1>1, <1>2 DEF Destroyed
  <2> QED
    BY <2>1, DownMoves
<1>3. ASSUME UNCHANGED <<conn, socket, queue, busy, frame, toPeer, toClient, handshake, readyOwner>>
      PROVE  MovesInv'
  <2>1. Writable' <=> Writable
    BY <1>3 DEF Writable
  <2>2. ASSUME Writable, busy PROVE UnderWay(Head(queue))'
    <3>1. PICK c : c = Head(queue) /\ UnderWay(c) /\ Head(queue') = c
      BY <1>3, <2>2 DEF MovesInv
    <3>2. UnderWay(c)'
      BY <1>3, <3>1 DEF UnderWay, Refused, OnWire, EndsReply
    <3> QED
      BY <3>1, <3>2, HeadUnderWay
  <2> QED
    BY <1>3, <2>1, <2>2 DEF MovesInv
<1>4. CASE Connect \/ AttachSocket \/ Reconnect
  <2>1. PICK s \in Sockets : Adopt(s)
    <3>1. opened < MaxSockets => opened + 1 \in Sockets
      BY BoundsAssumption DEF TypeOK, Sockets
    <3>2. 1 \in Sockets
      BY BoundsAssumption DEF Sockets
    <3> QED
      BY <1>4, <3>1, <3>2 DEF Connect, AttachSocket, Reconnect, OpenSocket
  <2>2. ~busy /\ UNCHANGED busy
    <3>1. opened = 0 \/ reconnectTimer
      BY <1>4 DEF Connect, AttachSocket, Reconnect
    <3>2. ~busy
      BY <3>1 DEF WireInv, CloseInv, BusyInv
    <3> QED
      BY <1>4, <3>2 DEF Connect, AttachSocket, Reconnect
  <2> QED
    BY <2>1, <2>2, OpenedMoves
<1>5. CASE Disconnect
  BY <1>2, <1>5 DEF Disconnect
<1>6. ASSUME NEW c \in UserCommands, Send(c) PROVE MovesInv'
  <2>1. c \in Commands /\ queue \in Seq(Commands)
    BY DEF Commands, TypeOK
  <2>2. Append(queue, c) \in Seq(Commands) /\ (busy => Head(Append(queue, c)) = Head(queue))
    BY <2>1, AppendPositions DEF WireInv, BusyInv
  <2>3. /\ PumpQueue(Append(queue, c), busy)
        /\ UNCHANGED <<conn, socket, frame, toClient, handshake, readyOwner>>
    BY <1>6 DEF Send
  <2> QED
    BY <2>2, <2>3, SendMoves DEF MovesInv
<1>7. ASSUME NEW s \in Sockets, SocketEvent(s) PROVE MovesInv'
  <2>1. CASE SocketError(s) \/ SocketEnd(s)
    <3>1. conn[s] = "live" /\ conn' = Destroyed(s)
      BY <2>1 DEF SocketError, SocketEnd
    <3> QED
      BY <1>1, <1>2, <3>1
  <2>2. CASE SocketClose(s)
    <3>1. conn[s] = "destroyed" /\ \A x \in Sockets : conn'[x] = IF x = s THEN "closed" ELSE conn[x]
      BY <2>2 DEF SocketClose, TypeOK
    <3>2. socket # 0 => s = socket
      BY <3>1 DEF WireInv, CloseInv
    <3>3. \A x \in Sockets : conn'[x] # "live"
      BY <1>1, <3>1, <3>2 DEF Sockets
    <3> QED
      BY <3>3, DownMoves
  <2> QED
    BY <1>7, <2>1, <2>2, WelcomeMoves, LineMoves DEF SocketEvent
<1>8. ASSUME NEW a \in Sockets, WelcomeTimeout(a) PROVE MovesInv'
  <2>1. AwaitingWelcome = {} /\ Reject({}, AwaitingWelcome)
    BY <1>8 DEF WelcomeTimeout
  <2>2. handshake' = handshake
    BY <2>1 DEF Reject, TypeOK
  <2> QED
    BY <1>3, <1>8, <2>2 DEF WelcomeTimeout
<1>9. ASSUME NEW i \in DOMAIN queue, CommandTimeout(i) PROVE MovesInv'
  BY <1>2, <1>9 DEF CommandTimeout
<1>10. ASSUME NEW s \in Sockets, PeerWelcome(s) PROVE MovesInv'
  <2>1. /\ toClient[s] = <<>> /\ conn[s] = "live"
        /\ UNCHANGED <<conn, socket, queue, busy, frame, toPeer, handshake, readyOwner>>
    BY <1>10 DEF PeerWelcome, WireInv, LinesInv
  <2>2. s = socket /\ Writable /\ (Writable' <=> Writable)
    BY <1>1, <2>1 DEF Writable, Sockets
  <2>3. ASSUME busy PROVE UnderWay(Head(queue))'
    <3>1. PICK c : c = Head(queue) /\ UnderWay(c) /\ Head(queue') = c
      BY <2>1, <2>2, <2>3 DEF MovesInv
    <3>2. \A l : ~OnWire(l)
      BY <2>1, <2>2 DEF OnWire
    <3>3. UnderWay(c)'
      BY <2>1, <3>1, <3>2 DEF UnderWay, Refused
    <3> QED
      BY <3>1, <3>3, HeadUnderWay
  <2> QED
    BY <2>1, <2>2, <2>3 DEF MovesInv
<1>11. ASSUME NEW s \in Sockets, PeerReply(s) PROVE MovesInv'
  BY <1>11, ReplyMoves
<1>12. CASE UNCHANGED vars
  BY <1>3, <1>12 DEF vars
<1> QED
  BY <1>4, <1>5, <1>6, <1>7, <1>8, <1>9, <1>10, <1>11, <1>12
  DEF Next, Application, Timer, Peer

(* What completes a frame is the line that ends the reply. *)
LEMMA MovesOrRefused ==
    ASSUME TypeOK, WireInv, MovesInv
    PROVE  StopsOnlyWhenRefused
<1> SUFFICES ASSUME Writable, queue # <<>>, Stalled
             PROVE  (busy /\ Refused(Head(queue))) \/ (~busy /\ InitSequence = <<>>)
  BY DEF StopsOnlyWhenRefused
<1>1. CASE ~busy
  BY <1>1 DEF MovesInv, Stalled
<1>2. CASE busy
  <2>1. UnderWay(Head(queue)) /\ toPeer[socket] = <<>>
    BY <1>2 DEF MovesInv, Stalled
  <2>2. ASSUME NEW l \in Lines, EndsReply(l), OnWire(l) PROVE FALSE
    <3>1. PICK i \in DOMAIN toClient[socket] : toClient[socket][i] = l
      BY <2>2 DEF OnWire
    <3>2. socket \in Sockets /\ conn[socket] = "live" /\ l # Welcome
      BY <2>2 DEF Writable, TypeOK, EndsReply, Welcome
    <3>3. l.cmd = Head(queue)
      BY <3>1, <3>2 DEF WireInv, PipelineMatchesQueue
    <3>4. Completes(l)
      BY <1>2, <2>2, <3>3 DEF EndsReply, Completes, ParseMode
    <3> QED
      BY <1>2, <3>1, <3>4 DEF Stalled
  <2> QED
    BY <1>2, <2>1, <2>2 DEF UnderWay
<1> QED
  BY <1>1, <1>2

(* Every reply lets pumpQueue write the next command and every handshake   *)
(* the first one: as long as no welcome timer expires, a usable connection *)
(* needs a command timer to go on only after OpenVPN refused a multi-line  *)
(* command by a bare ERROR: line, or for commands queued before connect()  *)
(* when the initialisation sequence is empty.                              *)
THEOREM QueueMovesByItself ==
    ASSUME ~Reuse, "welcome" \notin Faults
    PROVE  Spec => []StopsOnlyWhenRefused
<1>1. Init => MovesInv
  BY DEF Init, MovesInv, Writable
<1>2. TypeOK /\ WireInv /\ MovesInv /\ [Next]_vars => MovesInv'
  BY NextTypeOK, MovesInvStep
<1>3. TypeOK /\ WireInv /\ MovesInv => StopsOnlyWhenRefused
  BY MovesOrRefused
<1> QED
  BY <1>1, <1>2, <1>3, InitWire, WireInvStep, TypeCorrect, PTL DEF Spec

----------------------------------------------------------------------------
\* The client implements the service its callers rely on

(* pumpQueue writes the head of the queue, and only a command that was     *)
(* never written.                                                          *)
LEMMA PumpQueueTransmits ==
    ASSUME TypeOK, QueueInv', NEW q \in Seq(Commands), NEW b, PumpQueue(q, b)
    PROVE  queue' = q /\ Service!MayTransmitHead
<1>1. queue' = q
  BY DEF PumpQueue
<1>2. CASE UNCHANGED writes
  BY <1>1, <1>2 DEF Service!MayTransmitHead
<1>3. CASE ~b /\ q # <<>> /\ Writable
  <2>1. Head(q) \in Commands /\ writes' = [writes EXCEPT ![Head(q)] = @ + 1]
    BY <1>3 DEF PumpQueue
  <2>2. \A c \in Commands : /\ writes[c] \in Nat
                            /\ writes'[c] = IF c = Head(q) THEN writes[c] + 1 ELSE writes[c]
    BY <2>1 DEF TypeOK
  <2>3. writes'[Head(q)] <= 1
    BY <2>1 DEF QueueInv, WrittenAtMostOnce
  <2>4. writes[Head(q)] = 0 /\ writes'[Head(q)] = 1
    BY <2>1, <2>2, <2>3
  <2>5. {c \in Commands : writes'[c] > 0} = {c \in Commands : writes[c] > 0} \cup {Head(q)}
    BY <2>1, <2>2, <2>4
  <2> QED
    BY <1>1, <1>3, <2>4, <2>5 DEF Service!MayTransmitHead
<1> QED
  BY <1>1, <1>2, <1>3 DEF PumpQueue

(* The line that completes the oldest command was sent after OpenVPN       *)
(* carried that command out.                                               *)
LEMMA HeadExecuted ==
    ASSUME TypeOK, ExecutedInv, NEW s \in Sockets, HeadAnswered(s)
    PROVE  Head(queue) \in executed
<1>1. toClient[s] \in Seq(Lines) /\ toClient[s] # <<>> /\ Head(toClient[s]) # Welcome
  BY DEF TypeOK, HeadAnswered
<1>2. 1 \in DOMAIN toClient[s] /\ Head(toClient[s]) = toClient[s][1]
  BY <1>1
<1> QED
  BY <1>1, <1>2 DEF ExecutedInv, HeadAnswered

(* A step that leaves OpenVPN's side alone is a step of the service. *)
LEMMA CommandStepServes ==
    ASSUME TypeOK, WireInv, QueueInv', ExecutedInv, CommandStep, UNCHANGED executed
    PROVE  [Service!Next]_(Service!vars)
<1>0. queue \in Seq(Commands)
  BY DEF TypeOK
<1>1. CASE Quiet
  BY <1>1 DEF Quiet, Service!vars
<1>2. ASSUME NEW c \in Commands, Enqueue(c) PROVE Service!Next
  <2>1. Append(queue, c) \in Seq(Commands)
    BY <1>0
  <2>2. queue' = Append(queue, c) /\ Service!MayTransmitHead
    BY <1>2, <2>1, PumpQueueTransmits DEF Enqueue
  <2>3. Service!Submit(c)
    BY <1>2, <2>2 DEF Enqueue, Service!Submit
  <2> QED
    BY <2>3 DEF Service!Next
<1>3. ASSUME NEW s \in Sockets, HeadAnswered(s), Resolved PROVE Service!Next
  <2>1. queue # <<>> /\ Tail(queue) \in Seq(Commands)
    BY <1>0, <1>3 DEF Resolved
  <2>2. queue' = Tail(queue) /\ Service!MayTransmitHead
    BY <1>3, <2>1, PumpQueueTransmits DEF Resolved
  <2>3. Service!Resolve
    BY <1>3, <2>1, <2>2, HeadExecuted DEF Resolved, Service!Resolve
  <2> QED
    BY <2>3 DEF Service!Next
<1>4. ASSUME NEW s \in Sockets, HeadAnswered(s), NEW c \in Commands, ResolvedAndEnqueue(c)
      PROVE  Service!Next
  <2>1. queue # <<>> /\ Append(Tail(queue), c) \in Seq(Commands)
    BY <1>0, <1>4 DEF ResolvedAndEnqueue
  <2>2. queue' = Append(Tail(queue), c) /\ Service!MayTransmitHead
    BY <1>4, <2>1, PumpQueueTransmits DEF ResolvedAndEnqueue
  <2>3. Service!ResolveAndSubmit(c)
    BY <1>4, <2>1, <2>2, HeadExecuted DEF ResolvedAndEnqueue, Service!ResolveAndSubmit
  <2> QED
    BY <2>3 DEF Service!Next
<1>5. ASSUME NEW i \in DOMAIN queue, Expired(i) PROVE Service!Next
  <2>1. Service!Expire(i)
    BY <1>5 DEF Expired, Without, Service!Expire
  <2> QED
    BY <2>1 DEF Service!Next
<1>6. CASE Abandoned
  <2>1. \A c \in Commands : c \in Queued <=> \E i \in DOMAIN queue : queue[i] = c
    BY DEF Queued
  <2>2. Service!Abandon
    BY <1>6, <2>1 DEF Abandoned, Service!Abandon
  <2> QED
    BY <2>2 DEF Service!Next
<1> QED
  BY <1>1, <1>2, <1>3, <1>4, <1>5, <1>6 DEF CommandStep

(* OpenVPN carries out only commands that were written to it. *)
LEMMA PeerReplyServes ==
    ASSUME TypeOK, ExecutedInv, NEW s \in Sockets, PeerReply(s)
    PROVE  [Service!Next]_(Service!vars)
<1> DEFINE c == Head(toPeer[s])
<1>1. toPeer[s] \in Seq(Commands) /\ toPeer[s] # <<>>
  BY DEF TypeOK, PeerReply
<1>2. c \in Commands /\ 1 \in DOMAIN toPeer[s] /\ c = toPeer[s][1]
  BY <1>1
<1>3. writes[c] > 0
  BY <1>2 DEF ExecutedInv
<1>4. executed' = executed \cup {c} /\ UNCHANGED <<queue, outcome, writes>>
  BY DEF PeerReply
<1> HIDE DEF c
<1>5. CASE c \in executed
  BY <1>4, <1>5 DEF Service!vars
<1>6. CASE c \notin executed
  <2>1. Service!Execute(c)
    BY <1>2, <1>3, <1>4, <1>6 DEF Service!Execute
  <2> QED
    BY <1>2, <2>1 DEF Service!Next
<1> QED
  BY <1>5, <1>6

(* Every step of the client is a step of the service or changes nothing of *)
(* it.                                                                     *)
LEMMA NextServes ==
    ASSUME ~Reuse, TypeOK, WireInv, HistoryInv, QueueInv', [Next]_vars
    PROVE  [Service!Next]_(Service!vars)
<1>1. StepsInv /\ ExecutedInv
  BY DEF HistoryInv
<1>2. ASSUME NEW s \in Sockets, PeerReply(s) PROVE [Service!Next]_(Service!vars)
  BY <1>1, <1>2, PeerReplyServes
<1>3. (\E s \in Sockets : PeerReply(s)) \/ UNCHANGED executed
  <2> USE DEF clientVars, readyVars, peerVars
  <2>1. Application => UNCHANGED executed
    BY DEF Application, Connect, AttachSocket, Disconnect, Send
  <2>2. ASSUME NEW s \in Sockets, SocketEvent(s) PROVE UNCHANGED executed
    BY <2>2 DEF SocketEvent, HandleWelcome, HandleLine, SocketError, SocketEnd, SocketClose
  <2>3. Timer => UNCHANGED executed
    BY DEF Timer, Reconnect, WelcomeTimeout, CommandTimeout
  <2>4. \A s \in Sockets : PeerWelcome(s) => UNCHANGED executed
    BY DEF PeerWelcome
  <2> QED
    BY <2>1, <2>2, <2>3, <2>4 DEF Next, Peer, vars
<1>4. CommandStep
  BY <1>1, NextIsCommandStep
<1> QED
  BY <1>1, <1>2, <1>3, <1>4, CommandStepServes

(* A client that is connected once implements CommandService: every        *)
(* command is settled at most once, executed at most once and resolved in  *)
(* submission order, whatever sockets, frames and timers do.               *)
THEOREM ImplementsCommandService == ASSUME ~Reuse PROVE Spec => ImplementsService
<1>1. Init => Service!Init
  <2> SUFFICES ASSUME Init PROVE Service!Init
    OBVIOUS
  <2>1. {c \in Commands : writes[c] > 0} = {}
    BY DEF Init
  <2> QED
    BY <2>1 DEF Init, Service!Init
<1> DEFINE Inv == TypeOK /\ WireInv /\ TimerInv /\ HistoryInv
<1>2. Inv /\ Inv' /\ [Next]_vars => [Service!Next]_(Service!vars)
  <2> SUFFICES ASSUME TypeOK, WireInv, HistoryInv, HistoryInv', [Next]_vars
               PROVE  [Service!Next]_(Service!vars)
    OBVIOUS
  <2>1. QueueInv'
    BY DEF HistoryInv
  <2> QED
    BY <2>1, NextServes
<1> QED
  BY <1>1, <1>2, History, PTL DEF Spec, ImplementsService, Service!Spec
=============================================================================
