---------------------------- MODULE OpenVpnClient ----------------------------
(***************************************************************************)
(* The session controller of packages/openvpn-sdk/src/index.ts: connect(), *)
(* disconnect() and waitFor() of OpenVpnClient, with the process, the      *)
(* temporary directory, the TAP adapter and the management client it owns. *)
(*                                                                         *)
(* A call of an async method runs from one await to the next without       *)
(* interruption, so an action is the code between two awaits and the       *)
(* program counter of a call names what it is waiting for.  The process,   *)
(* the directory and the management client a connect() call creates carry  *)
(* the number of that call; 0 stands for `null`.                           *)
(***************************************************************************)
EXTENDS Naturals

CONSTANTS
    Platforms,       \* the values of process.platform === 'win32' to consider
    Overlap,         \* may calls start while others are running?
    Faults,          \* which faults the environment may cause
    TunnelStates,    \* the tunnel states a process reports
    MaxConnects,     \* bound on the number of connect() calls
    MaxDisconnects,  \* bound on the number of disconnect() calls
    MaxWaits         \* bound on the number of waitFor() calls

Connects == 1 .. MaxConnects
Disconnects == 1 .. MaxDisconnects
Waits == 1 .. MaxWaits
FaultKinds == {"adapter", "service", "tempdir", "config", "notready", "handshake",
               "crash", "unanswered", "slow", "stubborn", "kill", "release", "rm",
               "slowrm"}

ASSUME OptionsAssumption ==
    /\ Platforms \subseteq BOOLEAN
    /\ Overlap \in BOOLEAN
    /\ Faults \subseteq FaultKinds
    /\ "none" \notin TunnelStates
ASSUME BoundsAssumption ==
    /\ MaxConnects \in Nat /\ MaxDisconnects \in Nat /\ MaxWaits \in Nat

VARIABLES
    windows,             \* process.platform === 'win32', with manageAdapter
    child,               \* this.child
    management,          \* this.management
    tempDir,             \* this.tempDir; this.configFile is set and cleared with it
    createdAdapterGuid,  \* is this.createdAdapterGuid set?
    devNode,             \* does this.configText name a dev-node? (matters on Windows only)
    current,             \* this.current
    removing,            \* the directory that this.cleanupPromise removes, if any
    connectPc,           \* what each connect() call waits for
    disconnectPc,        \* what each disconnect() call waits for
    waitsFor,            \* the process whose exit each disconnect() call waits for
    waitPc,              \* how each waitFor() promise stands
    process,             \* the OpenVPN processes
    clients,             \* the management clients
    dirs,                \* the temporary directories on disk
    adapterUses          \* the count AdapterManager keeps for the adapter

ownVars == <<child, tempDir, removing>>
adapterVars == <<createdAdapterGuid, devNode, adapterUses>>
managementVars == <<management, clients>>
stateVars == <<current, waitPc>>
vars == <<windows, ownVars, adapterVars, managementVars, stateVars, connectPc,
          disconnectPc, waitsFor, process, dirs>>

----------------------------------------------------------------------------
ConnectStates == {"idle", "adapter", "tempdir", "config", "ready", "management",
                  "done", "failed"}
DisconnectStates == {"idle", "signal", "exit", "kill", "release", "cleanup",
                     "done", "failed"}
ProcessStates == {"none", "running", "dying", "exited", "killed"}
Ended == {"exited", "killed"}  \* with an exit code, or by a signal
Settled == {"idle", "done", "failed"}
StateNames == {"none"} \cup TunnelStates
NoState == [of |-> 0, name |-> "none"]

TypeOK ==
    /\ windows \in BOOLEAN
    /\ child \in Connects \cup {0}
    /\ management \in Connects \cup {0}
    /\ tempDir \in Connects \cup {0}
    /\ createdAdapterGuid \in BOOLEAN
    /\ devNode \in BOOLEAN
    /\ current \in [of : Connects \cup {0}, name : StateNames]
    /\ removing \in Connects \cup {0}
    /\ connectPc \in [Connects -> ConnectStates]
    /\ disconnectPc \in [Disconnects -> DisconnectStates]
    /\ waitsFor \in [Disconnects -> Connects \cup {0}]
    /\ waitPc \in [Waits -> {"idle", "waiting", "resolved", "rejected"}]
    /\ process \in [Connects -> ProcessStates]
    /\ clients \in [Connects -> {"none", "open", "closed"}]
    /\ dirs \subseteq Connects
    /\ adapterUses \in Nat

Init ==
    /\ windows \in Platforms
    /\ child = 0
    /\ management = 0
    /\ tempDir = 0
    /\ createdAdapterGuid = FALSE
    /\ devNode \in BOOLEAN /\ (devNode => windows)
    /\ current = NoState
    /\ removing = 0
    /\ connectPc = [k \in Connects |-> "idle"]
    /\ disconnectPc = [d \in Disconnects |-> "idle"]
    /\ waitsFor = [d \in Disconnects |-> 0]
    /\ waitPc = [w \in Waits |-> "idle"]
    /\ process = [k \in Connects |-> "none"]
    /\ clients = [k \in Connects |-> "none"]
    /\ dirs = {}
    /\ adapterUses = 0

----------------------------------------------------------------------------
\* The application and the environment

Alive(k) == process[k] \in {"running", "dying"}

Fault(kind) == kind \in Faults

(* A patient application makes a call when the earlier ones have returned. *)
(* A process may still be going down then, a directory being removed.      *)
Patient ==
    /\ \A k \in Connects : connectPc[k] \in Settled
    /\ \A d \in Disconnects : disconnectPc[d] \in Settled

MayCall == Overlap \/ Patient

(* Calls are numbered in the order they are made. *)
NextConnect(k) == connectPc[k] = "idle" /\ \A j \in 1 .. k - 1 : connectPc[j] # "idle"
NextDisconnect(d) == disconnectPc[d] = "idle" /\ \A e \in 1 .. d - 1 : disconnectPc[e] # "idle"

----------------------------------------------------------------------------
\* Cleanup

CleanupForgetsDir ==
    IF removing # 0 THEN UNCHANGED ownVars
    ELSE /\ child' = 0
         /\ removing' = 0
         /\ tempDir' = 0

(* cleanup() with the part of doCleanup() before its first await: a        *)
(* removal that is still under way is joined, and then nothing is done for *)
(* the process that has exited since.                                      *)
Cleanup ==
    IF removing # 0 THEN UNCHANGED ownVars
    ELSE /\ child' = 0
         /\ removing' = tempDir
         /\ tempDir' = 0

(* rm() has removed the directory (a second failure to do so is ignored),  *)
(* and the disconnect() calls that waited for it return.                   *)
RemovalDone ==
    /\ removing # 0
    /\ removing' = 0
    /\ \/ dirs' = dirs \ {removing}
       \/ dirs' = dirs /\ Fault("rm")
    /\ disconnectPc' = [d \in Disconnects |->
                          IF disconnectPc[d] = "cleanup" THEN "done" ELSE disconnectPc[d]]
    /\ UNCHANGED <<windows, child, tempDir, adapterVars, managementVars, stateVars,
                   connectPc, waitsFor, process>>

----------------------------------------------------------------------------
\* connect()

AlreadyStarted == child # 0

(* The call goes on to the adapter on Windows, to mkdtemp elsewhere.       *)
Connect(k) ==
    /\ MayCall
    /\ NextConnect(k)
    /\ connectPc' = [connectPc EXCEPT ![k] =
                       IF AlreadyStarted THEN "failed"
                       ELSE IF windows THEN "adapter" ELSE "tempdir"]
    /\ UNCHANGED <<windows, ownVars, adapterVars, managementVars, stateVars,
                   disconnectPc, waitsFor, process, dirs>>

(* A call gives up: nothing it has done so far is undone. *)
ConnectFails(k) ==
    /\ connectPc' = [connectPc EXCEPT ![k] = "failed"]
    /\ UNCHANGED <<windows, ownVars, adapterVars, managementVars, stateVars,
                   disconnectPc, waitsFor, process, dirs>>

(* adapters.ensure() answers.  An adapter of tapctl is counted; the one of *)
(* the service has an empty guid and is not.                               *)
AdapterEnsured(k) ==
    /\ connectPc[k] = "adapter"
    /\ \/ Fault("adapter") /\ ConnectFails(k)
       \/ /\ connectPc' = [connectPc EXCEPT ![k] = "tempdir"]
          /\ \/ /\ adapterUses' = adapterUses + 1
                /\ createdAdapterGuid' = (createdAdapterGuid \/ ~devNode)
             \/ /\ Fault("service")
                /\ createdAdapterGuid' = (createdAdapterGuid /\ devNode)
                /\ UNCHANGED adapterUses
          /\ devNode' = TRUE
          /\ UNCHANGED <<windows, ownVars, managementVars, stateVars, disconnectPc,
                         waitsFor, process, dirs>>

TempDirMade(k) ==
    /\ connectPc[k] = "tempdir"
    /\ \/ Fault("tempdir") /\ ConnectFails(k)
       \/ /\ connectPc' = [connectPc EXCEPT ![k] = "config"]
          /\ tempDir' = k
          /\ dirs' = dirs \cup {k}
          /\ UNCHANGED <<windows, child, removing, adapterVars, managementVars,
                         stateVars, disconnectPc, waitsFor, process>>

(* writeFile() answers, and fails if the directory went away before.  The  *)
(* process is started with the file that this.configFile names now; one    *)
(* that is gone makes it end at once.                                      *)
ConfigWritten(k) ==
    /\ connectPc[k] = "config"
    /\ \/ (Fault("config") \/ k \notin dirs) /\ ConnectFails(k)
       \/ /\ connectPc' = [connectPc EXCEPT ![k] = "ready"]
          /\ child' = k
          /\ process' = [process EXCEPT ![k] =
                            IF tempDir \in dirs THEN "running" ELSE "dying"]
          /\ UNCHANGED <<windows, tempDir, removing, adapterVars, managementVars,
                         stateVars, disconnectPc, waitsFor, dirs>>

(* The management port accepts connections: a management client is made,   *)
(* and its connect() awaited.  Or the port is not there in time.           *)
ManagementReady(k) ==
    /\ connectPc[k] = "ready"
    /\ \/ Fault("notready") /\ ConnectFails(k)
       \/ /\ Alive(k)
          /\ connectPc' = [connectPc EXCEPT ![k] = "management"]
          /\ management' = k
          /\ clients' = [clients EXCEPT ![k] = "open"]
          /\ UNCHANGED <<windows, ownVars, adapterVars, stateVars, disconnectPc,
                         waitsFor, process, dirs>>

(* management.connect() settles. *)
ManagementConnected(k) ==
    /\ connectPc[k] = "management"
    /\ \/ Fault("handshake") /\ ConnectFails(k)
       \/ (clients[k] = "closed" \/ ~Alive(k)) /\ ConnectFails(k)
       \/ /\ clients[k] = "open" /\ Alive(k)
          /\ connectPc' = [connectPc EXCEPT ![k] = "done"]
          /\ UNCHANGED <<windows, ownVars, adapterVars, managementVars, stateVars,
                         disconnectPc, waitsFor, process, dirs>>

----------------------------------------------------------------------------
\* The process

(* A directory is removed before the process that was started meanwhile    *)
(* ends or disconnect() has given it up, unless the removal is slow.       *)
RemovalOutlasts == child # 0 /\ removing # 0

(* The 'exit' event: the handler of connect() cleans up, whichever process *)
(* it was, and waitForManagementReady() rejects.                           *)
ProcessExit(k) ==
    /\ \/ process[k] = "dying"
       \/ process[k] = "running" /\ Fault("crash")
    /\ child = k /\ RemovalOutlasts => Fault("slowrm")
    /\ \E how \in Ended : process' = [process EXCEPT ![k] = how]
    /\ Cleanup
    /\ connectPc' = [connectPc EXCEPT ![k] = IF @ = "ready" THEN "failed" ELSE @]
    /\ UNCHANGED <<windows, adapterVars, managementVars, stateVars, disconnectPc,
                   waitsFor, dirs>>

(* isChildRunning(): a child without an exit code, which one that a signal *)
(* ended never gets.                                                       *)
ChildRuns == \E k \in Connects : k = child /\ process[k] # "exited"

(* SIGTERM or a kill reaches the process, unless it has exited. *)
Told(k) == [process EXCEPT ![k] = IF @ = "running" THEN "dying" ELSE @]

----------------------------------------------------------------------------
\* disconnect()

(* The end of disconnect(): `await this.cleanup()`. *)
FinishDisconnect(d) ==
    /\ Cleanup
    /\ disconnectPc' = [disconnectPc EXCEPT ![d] =
                          IF removing' = 0 THEN "done" ELSE "cleanup"]

ManagementKept == UNCHANGED managementVars

ManagementClosedOnly ==
    /\ management' = management
    /\ clients' = [k \in Connects |-> IF k = management THEN "closed" ELSE clients[k]]

CloseManagement ==
    /\ management' = 0
    /\ clients' = [k \in Connects |-> IF k = management THEN "closed" ELSE clients[k]]

UsesReleasedUnchecked == adapterUses - 1

(* The count of AdapterManager after release(): an adapter it does not     *)
(* count is deleted all the same.                                          *)
UsesReleased == IF adapterUses > 0 THEN adapterUses - 1 ELSE 0

(* The management client is closed and the adapter released: the count of  *)
(* AdapterManager drops at once, the guid is cleared when it answers.      *)
LetGo(d) ==
    /\ CloseManagement
    /\ \/ /\ createdAdapterGuid
          /\ adapterUses' = UsesReleased
          /\ disconnectPc' = [disconnectPc EXCEPT ![d] = "release"]
          /\ UNCHANGED <<ownVars, createdAdapterGuid, devNode>>
       \/ /\ ~createdAdapterGuid
          /\ FinishDisconnect(d)
          /\ UNCHANGED adapterVars

(* After the wait for the exit: what `this.child` refers to now is killed  *)
(* if it still runs, with taskkill on Windows and by SIGTERM elsewhere.    *)
KillAndLetGo(d) ==
    \/ /\ ChildRuns /\ windows
       /\ process' = Told(child)
       /\ disconnectPc' = [disconnectPc EXCEPT ![d] = "kill"]
       /\ UNCHANGED <<ownVars, adapterVars, managementVars>>
    \/ /\ ChildRuns /\ ~windows
       /\ \/ process' = Told(child)
          \/ process' = process /\ Fault("stubborn")
       /\ LetGo(d)
    \/ ~ChildRuns /\ LetGo(d) /\ UNCHANGED process

(* The exit promise: at once if there is no process or it has an exit      *)
(* code, else on the next exit of the child.                               *)
AwaitExit(d) ==
    \/ /\ ~ChildRuns
       /\ KillAndLetGo(d)
       /\ UNCHANGED waitsFor
    \/ /\ ChildRuns
       /\ waitsFor' = [waitsFor EXCEPT ![d] = child]
       /\ disconnectPc' = [disconnectPc EXCEPT ![d] = "exit"]
       /\ UNCHANGED <<ownVars, adapterVars, managementVars, process>>

(* disconnect() sends `signal SIGTERM`, which reaches the process if the   *)
(* management client is connected to it.                                   *)
Disconnect(d) ==
    /\ MayCall
    /\ NextDisconnect(d)
    /\ \/ /\ child = 0
          /\ disconnectPc' = [disconnectPc EXCEPT ![d] = "done"]
          /\ UNCHANGED <<ownVars, adapterVars, managementVars, waitsFor, process>>
       \/ child # 0 /\ management = 0 /\ AwaitExit(d)
       \/ /\ child # 0 /\ management # 0
          /\ disconnectPc' = [disconnectPc EXCEPT ![d] = "signal"]
          /\ \/ process' = Told(management)
             \/ process' = process /\ Fault("unanswered")
          /\ UNCHANGED <<ownVars, adapterVars, managementVars, waitsFor>>
    /\ UNCHANGED <<windows, stateVars, connectPc, dirs>>

(* The command was answered, rejected or timed out. *)
SignalSettled(d) ==
    /\ disconnectPc[d] = "signal"
    /\ AwaitExit(d)
    /\ UNCHANGED <<windows, stateVars, connectPc, dirs>>

ExitOnly(d) == process[waitsFor[d]] \in Ended

(* The race of the exit with the timer.  The timer wins over a process     *)
(* that was told to end only if that process is slow.                      *)
ExitOrTimer(d) == process[waitsFor[d]] = "dying" => Fault("slow")

ExitWaited(d) ==
    /\ disconnectPc[d] = "exit"
    /\ ExitOrTimer(d)
    /\ RemovalOutlasts => Fault("slowrm")
    /\ KillAndLetGo(d)
    /\ UNCHANGED <<windows, stateVars, connectPc, waitsFor, dirs>>

(* taskkill answers; disconnect() rejects if it failed. *)
KillAnswered(d) ==
    /\ disconnectPc[d] = "kill"
    /\ \/ LetGo(d)
       \/ /\ Fault("kill")
          /\ disconnectPc' = [disconnectPc EXCEPT ![d] = "failed"]
          /\ UNCHANGED <<ownVars, adapterVars, managementVars>>
    /\ UNCHANGED <<windows, stateVars, connectPc, waitsFor, process, dirs>>

(* adapters.release() answers.  When it failed and nobody listens to       *)
(* 'error', the emit throws and disconnect() rejects.                      *)
AdapterReleased(d) ==
    /\ disconnectPc[d] = "release"
    /\ \/ /\ createdAdapterGuid' = FALSE
          /\ FinishDisconnect(d)
       \/ /\ Fault("release")
          /\ disconnectPc' = [disconnectPc EXCEPT ![d] = "failed"]
          /\ UNCHANGED <<ownVars, createdAdapterGuid>>
    /\ UNCHANGED <<windows, devNode, adapterUses, managementVars, stateVars,
                   connectPc, waitsFor, process, dirs>>

----------------------------------------------------------------------------
\* Tunnel states

(* onState: a >STATE: notification of a process resolves the waiters.  The *)
(* only state waited for is CONNECTED.                                     *)
OnState(k, name) ==
    /\ clients[k] = "open" /\ Alive(k)
    /\ current' = [of |-> k, name |-> name]
    /\ waitPc' = [w \in Waits |->
                    IF waitPc[w] = "waiting" /\ name = "CONNECTED" THEN "resolved"
                    ELSE waitPc[w]]
    /\ UNCHANGED <<windows, ownVars, adapterVars, managementVars, connectPc,
                   disconnectPc, waitsFor, process, dirs>>

WaitFor(w) ==
    /\ waitPc[w] = "idle"
    /\ waitPc' = [waitPc EXCEPT ![w] =
                    IF current.name = "CONNECTED" THEN "resolved" ELSE "waiting"]
    /\ UNCHANGED <<windows, ownVars, adapterVars, managementVars, current, connectPc,
                   disconnectPc, waitsFor, process, dirs>>

WaitTimeout(w) ==
    /\ waitPc[w] = "waiting"
    /\ waitPc' = [waitPc EXCEPT ![w] = "rejected"]
    /\ UNCHANGED <<windows, ownVars, adapterVars, managementVars, current, connectPc,
                   disconnectPc, waitsFor, process, dirs>>

----------------------------------------------------------------------------
ConnectStep(k) ==
    \/ AdapterEnsured(k) \/ TempDirMade(k) \/ ConfigWritten(k)
    \/ ManagementReady(k) \/ ManagementConnected(k)

DisconnectStep(d) ==
    SignalSettled(d) \/ ExitWaited(d) \/ KillAnswered(d) \/ AdapterReleased(d)

Next ==
    \/ \E k \in Connects :
          \/ Connect(k) \/ ConnectStep(k) \/ ProcessExit(k)
          \/ \E name \in TunnelStates : OnState(k, name)
    \/ \E d \in Disconnects : Disconnect(d) \/ DisconnectStep(d)
    \/ \E w \in Waits : WaitFor(w) \/ WaitTimeout(w)
    \/ RemovalDone

Spec == Init /\ [][Next]_vars

(* Every await is answered: ports are probed and files written, processes  *)
(* told to end do so, and timers fire.                                     *)
Fairness ==
    /\ \A k \in Connects :
          /\ WF_vars(ConnectStep(k))
          /\ WF_vars(process[k] = "dying" /\ ProcessExit(k))
    /\ \A d \in Disconnects : WF_vars(DisconnectStep(d))
    /\ \A w \in Waits : WF_vars(WaitTimeout(w))
    /\ WF_vars(RemovalDone)

FairSpec == Spec /\ Fairness

----------------------------------------------------------------------------
\* Properties

(* No temporary directory, which holds the configuration, is forgotten:    *)
(* each on disk is the client's own or the one being removed.              *)
NoDirForgotten == dirs \subseteq {tempDir, removing}

(* The management client an OpenVpnClient refers to was not closed, so     *)
(* that sendManagement() and the second of two disconnect() calls never    *)
(* use one whose commands cannot be answered any more.                     *)
ManagementUsable == management # 0 => clients[management] = "open"

(* A disconnect() call that emits 'disconnected', "Clean disconnect        *)
(* finished" (README.md:128), leaves this client without a child, a        *)
(* management client, a directory or the guid of an adapter to release.    *)
(* It says nothing of the process, which may still be going down, nor of   *)
(* an adapter that a second connect() counted without keeping its guid.    *)
DisconnectedMeansClean ==
    [][\A d \in Disconnects :
          disconnectPc[d] \notin Settled /\ disconnectPc'[d] = "done" =>
             child' = 0 /\ management' = 0 /\ tempDir' = 0 /\ ~createdAdapterGuid']_vars

(* disconnect() is "signal SIGTERM, wait for exit, force kill, cleanup"    *)
(* (README.md:106): when it returns, no management client goes on          *)
(* connecting and no adapter is held.                                      *)
DisconnectStops ==
    [][\A d \in Disconnects : disconnectPc[d] # "done" /\ disconnectPc'[d] = "done" =>
          management' = 0 /\ ~createdAdapterGuid']_vars

(* Every call settles, however the calls overlap and whatever happens to   *)
(* the process: no await of connect() and disconnect() waits forever, and  *)
(* no promise of waitFor() stays open.                                     *)
CallsSettle ==
    /\ \A k \in Connects : connectPc[k] # "idle" ~> connectPc[k] \in {"done", "failed"}
    /\ \A d \in Disconnects :
          disconnectPc[d] # "idle" ~> disconnectPc[d] \in {"done", "failed"}
    /\ \A w \in Waits : waitPc[w] # "idle" ~> waitPc[w] \in {"resolved", "rejected"}

(* The directory of a process goes once the process has exited. *)
DirRemovedAfterExit == \A k \in Connects : process[k] \in Ended ~> k \notin dirs
=============================================================================
