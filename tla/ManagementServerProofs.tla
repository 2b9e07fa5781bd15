------------------------ MODULE ManagementServerProofs ------------------------
(* Theorems about ManagementServer, for every number of connections. *)
EXTENDS ManagementServer, TLAPS

(* A server that does not listen has no usable connection: stop() has      *)
(* destroyed them all, because this.clients names them all.                *)
NothingOpenAfterStop == ~listening => \A i \in Connections : conn[i] # "open"

(* accept() is under way only for a socket that was not closed. *)
AcceptingHasSocket ==
    \A i \in Connections : accept[i] \in Accepting => conn[i] \in {"open", "destroyed"}

IInv == TypeOK /\ ClientsHaveSockets /\ NothingOpenAfterStop /\ AcceptingHasSocket

Step(i) == Accept(i) \/ Advance(i) \/ Timeout(i) \/ SocketClosed(i) \/ DisconnectClient(i)

----------------------------------------------------------------------------
\* disconnect() of some clients

LEMMA DisconnectDestroys ==
    ASSUME TypeOK, NEW cs, Disconnect(cs)
    PROVE  /\ conn' \in [Connections -> {"none", "open", "destroyed", "closed"}]
           /\ accept' \in [Connections -> {"none", "ready", "failed"} \cup Accepting]
           /\ \A i \in Connections :
                 /\ conn'[i] \in {"open", "destroyed"} <=> conn[i] \in {"open", "destroyed"}
                 /\ conn'[i] = "open" => conn[i] = "open" /\ i \notin cs
                 /\ accept'[i] = "ready" => accept[i] = "ready"
                 /\ accept'[i] \in Accepting => accept[i] \in Accepting
BY DEF TypeOK, Disconnect, Accepting

----------------------------------------------------------------------------
\* The invariant is inductive

LEMMA Initially == Init => IInv
<1> SUFFICES ASSUME Init PROVE IInv
  OBVIOUS
<1>1. TypeOK
  <2>1. started \in 0 .. MaxStarts
    BY SMT DEF Init, MaxStarts
  <2> QED
    BY <2>1 DEF Init, TypeOK, Accepting
<1>2. ClientsHaveSockets /\ NothingOpenAfterStop /\ AcceptingHasSocket
  BY DEF Init, ClientsHaveSockets, NothingOpenAfterStop, AcceptingHasSocket, Accepting
<1> QED
  BY <1>1, <1>2 DEF IInv

LEMMA StepKeeps ==
    ASSUME IInv, NEW i \in Connections, Step(i)
    PROVE  IInv'
<1> USE DEF IInv, TypeOK, ClientsHaveSockets, NothingOpenAfterStop, AcceptingHasSocket, Accepting
<1>1. CASE Accept(i)
  BY <1>1 DEF Accept
<1>2. CASE Advance(i)
  BY <1>2 DEF Advance
<1>3. CASE Timeout(i)
  <2>1. /\ accept' \in [Connections -> {"none", "ready", "failed"} \cup Accepting]
        /\ \A j \in Connections : accept'[j] \in Accepting => accept[j] \in Accepting /\ j # i
    <3>1. accept' = [accept EXCEPT ![i] = "failed"]
      BY <1>3 DEF Timeout
    <3> QED
      BY <3>1
  <2>2. /\ conn' \in [Connections -> {"none", "open", "destroyed", "closed"}]
        /\ \A j \in Connections : conn'[j] = conn[j] \/ (j = i /\ conn'[j] = "destroyed")
    BY <1>3 DEF Timeout
  <2>3. conn[i] \in {"open", "destroyed"}
    BY <1>3 DEF Timeout
  <2> QED
    BY <1>3, <2>1, <2>2, <2>3 DEF Timeout
<1>4. CASE SocketClosed(i)
  BY <1>4 DEF SocketClosed, Forgotten
<1>5. CASE DisconnectClient(i)
  BY <1>5, DisconnectDestroys DEF DisconnectClient
<1> QED
  BY <1>1, <1>2, <1>3, <1>4, <1>5 DEF Step

LEMMA Inductive == IInv /\ [Next]_vars => IInv'
<1> SUFFICES ASSUME IInv, [Next]_vars PROVE IInv'
  OBVIOUS
<1> USE DEF IInv, TypeOK, ClientsHaveSockets, NothingOpenAfterStop, AcceptingHasSocket
<1>1. CASE Start
  BY <1>1 DEF Start, MaxStarts
<1>2. CASE Stop
  <2>1. Disconnect(clients)
    BY <1>2 DEF Stop, StopTargets
  <2>2. NothingOpenAfterStop' /\ ClientsHaveSockets'
    BY <1>2, <2>1, DisconnectDestroys DEF Stop
  <2> QED
    BY <1>2, <2>1, <2>2, DisconnectDestroys DEF Stop
<1>3. CASE ServerClosed
  BY <1>3 DEF ServerClosed
<1>4. ASSUME NEW i \in Connections, Step(i) PROVE IInv'
  BY <1>4, StepKeeps
<1>5. CASE UNCHANGED vars
  BY <1>5 DEF vars
<1> QED
  BY <1>1, <1>2, <1>3, <1>4, <1>5 DEF Next, Step

LEMMA Invariance == Spec => []IInv
BY Initially, Inductive, PTL DEF Spec

----------------------------------------------------------------------------
\* Theorems

(* Every reachable state of the server and its connections is well typed. *)
THEOREM TypeCorrect == Spec => []TypeOK
<1>1. IInv => TypeOK
  BY DEF IInv
<1> QED
  BY <1>1, Invariance, PTL

(* this.clients holds exactly the clients with a socket, however many      *)
(* connections there are and however they end.                             *)
THEOREM ClientsMatchSockets == Spec => []ClientsHaveSockets
<1>1. IInv => ClientsHaveSockets
  BY DEF IInv
<1> QED
  BY <1>1, Invariance, PTL

(* No client becomes ready between a stop() and the next start(): only an  *)
(* open connection can, and stop() has destroyed every one of them.        *)
THEOREM NothingReadyAfterStop == Spec => NoClientReadyAfterStop
<1>1. IInv /\ [Next]_vars =>
        [~listening => \A i \in Connections : accept'[i] = "ready" => accept[i] = "ready"]_vars
  <2> SUFFICES ASSUME IInv, Next, ~listening, NEW i \in Connections, accept'[i] = "ready"
               PROVE  accept[i] = "ready"
    OBVIOUS
  <2>1. CASE Start \/ ServerClosed
    BY <2>1 DEF Start, ServerClosed
  <2>2. CASE Stop
    BY <2>2, DisconnectDestroys DEF Stop, IInv
  <2>3. ASSUME NEW j \in Connections, Step(j) PROVE accept[i] = "ready"
    <3>1. CASE DisconnectClient(j)
      BY <3>1, DisconnectDestroys DEF DisconnectClient, IInv
    <3>2. CASE ~DisconnectClient(j)
      BY <2>3, <3>2 DEF Step, Accept, Advance, Timeout, SocketClosed, IInv, TypeOK,
         NothingOpenAfterStop, Accepting
    <3> QED
      BY <3>1, <3>2
  <2> QED
    BY <2>1, <2>2, <2>3 DEF Next, Step
<1> QED
  BY <1>1, Invariance, PTL DEF Spec, NoClientReadyAfterStop
===============================================================================
