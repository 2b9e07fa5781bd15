--------------------------- MODULE ManagementServer ---------------------------
(***************************************************************************)
(* The server of packages/core/src/management-server.ts, to which OpenVPN  *)
(* connects in --management-client mode.  Every connection accepted gets a *)
(* ManagementClient of its own, which is the number of the connection      *)
(* here; of the client only what the server calls is left: attachSocket()  *)
(* with the wait for the banner, initialize() and disconnect(), which      *)
(* ManagementClient has in detail.                                         *)
(***************************************************************************)
EXTENDS Naturals

CONSTANT MaxConnections  \* bound on the number of connections

ASSUME BoundAssumption == MaxConnections \in Nat \ {0}

Connections == 1 .. MaxConnections

VARIABLES
    listening,  \* does this.server listen?
    started,    \* the number of start() calls that resolved
    stopping,   \* does a stop() wait for server.close()?
    clients,    \* this.clients
    conn,       \* how each socket stands
    accept      \* how far accept() got with it

vars == <<listening, started, stopping, clients, conn, accept>>

MaxStarts == 2
Accepting == {"welcome", "initialising"}

TypeOK ==
    /\ listening \in BOOLEAN
    /\ started \in 0 .. MaxStarts
    /\ stopping \in BOOLEAN
    /\ clients \subseteq Connections
    /\ conn \in [Connections -> {"none", "open", "destroyed", "closed"}]
    /\ accept \in [Connections -> {"none", "ready", "failed"} \cup Accepting]

Init ==
    /\ listening = FALSE
    /\ started = 0
    /\ stopping = FALSE
    /\ clients = {}
    /\ conn = [i \in Connections |-> "none"]
    /\ accept = [i \in Connections |-> "none"]

----------------------------------------------------------------------------
\* Application calls

(* start(); when the port is taken it rejects and nothing changes. *)
Start ==
    /\ ~listening
    /\ started < MaxStarts
    /\ listening' = TRUE
    /\ started' = started + 1
    /\ UNCHANGED <<stopping, clients, conn, accept>>

(* client.disconnect() for every client of cs: the commands of             *)
(* initialize() are rejected, a wait for the banner goes on, and the close *)
(* event of the socket is still to come.                                   *)
Disconnect(cs) ==
    /\ conn' = [i \in Connections |->
                  IF i \in cs /\ conn[i] = "open" THEN "destroyed" ELSE conn[i]]
    /\ accept' = [i \in Connections |->
                    IF i \in cs /\ accept[i] = "initialising" THEN "failed" ELSE accept[i]]

StopReadyOnly == {i \in clients : accept[i] = "ready"}

(* The clients stop() disconnects before server.close(). *)
StopTargets == clients

(* stop(): nothing in its loop waits for I/O, so that no connection is     *)
(* accepted between two passes.                                            *)
Stop ==
    /\ Disconnect(StopTargets)
    /\ listening' = FALSE
    /\ stopping' = TRUE
    /\ UNCHANGED <<started, clients>>

(* The application closes one of the clients it was given. *)
DisconnectClient(i) ==
    /\ i \in clients
    /\ Disconnect({i})
    /\ UNCHANGED <<listening, started, stopping, clients>>

----------------------------------------------------------------------------
\* The turns of accept()

Accept(i) ==
    /\ listening
    /\ conn[i] = "none"
    /\ conn' = [conn EXCEPT ![i] = "open"]
    /\ clients' = clients \cup {i}
    /\ accept' = [accept EXCEPT ![i] = "welcome"]
    /\ UNCHANGED <<listening, started, stopping>>

(* The banner arrives and initialize() begins, then its last reply arrives *)
(* and 'client-ready' is emitted.                                          *)
Advance(i) ==
    /\ conn[i] = "open"
    /\ accept[i] \in Accepting
    /\ accept' = [accept EXCEPT ![i] = IF @ = "welcome" THEN "initialising" ELSE "ready"]
    /\ UNCHANGED <<listening, started, stopping, clients, conn>>

(* A timer expires and 'error' is emitted.  The timer of a command also    *)
(* destroys the socket, the welcome timer does not.                        *)
Timeout(i) ==
    /\ accept[i] \in Accepting
    /\ accept' = [accept EXCEPT ![i] = "failed"]
    /\ conn' = IF accept[i] = "welcome" THEN conn ELSE [conn EXCEPT ![i] = "destroyed"]
    /\ UNCHANGED <<listening, started, stopping, clients>>

ForgottenUnlessFailed(i) == IF accept[i] = "failed" THEN clients ELSE clients \ {i}

(* this.clients after the close event of socket i. *)
Forgotten(i) == clients \ {i}

(* The close event: of a socket that was destroyed, or because OpenVPN     *)
(* closed it or the connection broke.                                      *)
SocketClosed(i) ==
    /\ conn[i] \in {"open", "destroyed"}
    /\ conn' = [conn EXCEPT ![i] = "closed"]
    /\ clients' = Forgotten(i)
    /\ accept' = [accept EXCEPT ![i] = IF @ \in Accepting THEN "failed" ELSE @]
    /\ UNCHANGED <<listening, started, stopping>>

(* server.close() calls back when it neither listens nor has connections.  *)
ServerClosed ==
    /\ stopping
    /\ ~listening
    /\ \A i \in Connections : conn[i] \in {"none", "closed"}
    /\ stopping' = FALSE
    /\ UNCHANGED <<listening, started, clients, conn, accept>>

----------------------------------------------------------------------------
\* The specification

Next ==
    \/ Start \/ Stop \/ ServerClosed
    \/ \E i \in Connections :
         \/ Accept(i) \/ Advance(i) \/ Timeout(i)
         \/ SocketClosed(i) \/ DisconnectClient(i)

Spec == Init /\ [][Next]_vars

(* Timers expire, the close event follows a destroyed socket and the       *)
(* server's callback the last of them; OpenVPN need not close anything.    *)
Fairness ==
    /\ WF_vars(ServerClosed)
    /\ \A i \in Connections :
        /\ WF_vars(Timeout(i))
        /\ WF_vars(conn[i] = "destroyed" /\ SocketClosed(i))

FairSpec == Spec /\ Fairness

----------------------------------------------------------------------------
\* Properties

(* this.clients holds exactly the clients with a socket: stop() reaches    *)
(* every connection and nothing is kept of a closed one, whichever of the  *)
(* many ways it ended (management-server.ts:63-65).                        *)
ClientsHaveSockets == clients = {i \in Connections : conn[i] \in {"open", "destroyed"}}

(* From a stop() until the next start() no client becomes ready: the       *)
(* accept() calls under way end in 'error' instead.                        *)
NoClientReadyAfterStop ==
    [][~listening => \A i \in Connections : accept'[i] = "ready" => accept[i] = "ready"]_vars

(* stop() resolves, unless the server is started again before: Node then   *)
(* leaves the callback to the next close().                                *)
StopSettles == stopping ~> (~stopping \/ listening)
===============================================================================
