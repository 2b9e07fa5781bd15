------------------------- MODULE OpenVpnClientProofs -------------------------
(***************************************************************************)
(* Theorems about OpenVpnClient, for any number of calls of each method    *)
(* and every set of tunnel states: types and the usable management client  *)
(* whatever the calls and the faults, and what an OpenVpnClient owns when  *)
(* its application is patient and the machine does not fail it.            *)
(***************************************************************************)
EXTENDS OpenVpnClient, TLAPS

----------------------------------------------------------------------------
\* Types

LEMMA CleanupType ==
    ASSUME TypeOK, Cleanup
    PROVE  /\ child' \in Connects \cup {0}
           /\ tempDir' \in Connects \cup {0}
           /\ removing' \in Connects \cup {0}
BY DEF Cleanup, ownVars, TypeOK

LEMMA LetGoType ==
    ASSUME TypeOK, NEW d \in Disconnects, LetGo(d)
    PROVE  /\ child' \in Connects \cup {0}
           /\ tempDir' \in Connects \cup {0}
           /\ removing' \in Connects \cup {0}
           /\ management' \in Connects \cup {0}
           /\ clients' \in [Connects -> {"none", "open", "closed"}]
           /\ createdAdapterGuid' \in BOOLEAN
           /\ devNode' \in BOOLEAN
           /\ adapterUses' \in Nat
           /\ disconnectPc' \in [Disconnects -> DisconnectStates]
<1>1. /\ management' \in Connects \cup {0}
      /\ clients' \in [Connects -> {"none", "open", "closed"}]
  BY DEF LetGo, CloseManagement, TypeOK
<1>2. CASE createdAdapterGuid /\ adapterUses' = UsesReleased
           /\ disconnectPc' = [disconnectPc EXCEPT ![d] = "release"]
           /\ UNCHANGED <<ownVars, createdAdapterGuid, devNode>>
  BY <1>1, <1>2 DEF UsesReleased, ownVars, TypeOK, DisconnectStates
<1>3. CASE ~createdAdapterGuid /\ FinishDisconnect(d) /\ UNCHANGED adapterVars
  BY <1>1, <1>3, CleanupType
  DEF FinishDisconnect, adapterVars, TypeOK, DisconnectStates
<1> QED
  BY <1>2, <1>3 DEF LetGo

LEMMA ToldType ==
    ASSUME TypeOK, NEW k
    PROVE  Told(k) \in [Connects -> ProcessStates]
BY DEF Told, TypeOK, ProcessStates

LEMMA KillAndLetGoType ==
    ASSUME TypeOK, NEW d \in Disconnects, KillAndLetGo(d)
    PROVE  /\ child' \in Connects \cup {0}
           /\ tempDir' \in Connects \cup {0}
           /\ removing' \in Connects \cup {0}
           /\ management' \in Connects \cup {0}
           /\ clients' \in [Connects -> {"none", "open", "closed"}]
           /\ createdAdapterGuid' \in BOOLEAN
           /\ devNode' \in BOOLEAN
           /\ adapterUses' \in Nat
           /\ disconnectPc' \in [Disconnects -> DisconnectStates]
           /\ process' \in [Connects -> ProcessStates]
<1>1. CASE LetGo(d) /\ (process' = Told(child) \/ UNCHANGED process)
  BY <1>1, LetGoType, ToldType DEF TypeOK
<1>2. CASE /\ process' = Told(child)
           /\ disconnectPc' = [disconnectPc EXCEPT ![d] = "kill"]
           /\ UNCHANGED <<ownVars, adapterVars, managementVars>>
  BY <1>2, ToldType
  DEF TypeOK, ownVars, adapterVars, managementVars, DisconnectStates
<1> QED
  BY <1>1, <1>2 DEF KillAndLetGo

LEMMA AwaitExitType ==
    ASSUME TypeOK, NEW d \in Disconnects, AwaitExit(d)
    PROVE  /\ child' \in Connects \cup {0}
           /\ tempDir' \in Connects \cup {0}
           /\ removing' \in Connects \cup {0}
           /\ management' \in Connects \cup {0}
           /\ clients' \in [Connects -> {"none", "open", "closed"}]
           /\ createdAdapterGuid' \in BOOLEAN
           /\ devNode' \in BOOLEAN
           /\ adapterUses' \in Nat
           /\ disconnectPc' \in [Disconnects -> DisconnectStates]
           /\ process' \in [Connects -> ProcessStates]
           /\ waitsFor' \in [Disconnects -> Connects \cup {0}]
<1>1. CASE KillAndLetGo(d) /\ UNCHANGED waitsFor
  BY <1>1, KillAndLetGoType DEF TypeOK
<1>2. CASE /\ waitsFor' = [waitsFor EXCEPT ![d] = child]
           /\ disconnectPc' = [disconnectPc EXCEPT ![d] = "exit"]
           /\ UNCHANGED <<ownVars, adapterVars, managementVars, process>>
  BY <1>2 DEF TypeOK, ownVars, adapterVars, managementVars, DisconnectStates
<1> QED
  BY <1>1, <1>2 DEF AwaitExit

LEMMA ConnectType ==
    ASSUME TypeOK, NEW k \in Connects, Connect(k) \/ ConnectStep(k) \/ ProcessExit(k)
    PROVE  TypeOK'
<1> USE DEF TypeOK, ownVars, adapterVars, managementVars, stateVars
<1>1. CASE Connect(k)
  BY <1>1 DEF Connect, ConnectStates
<1>2. CASE ConnectFails(k)
  BY <1>2 DEF ConnectFails, ConnectStates
<1>3. CASE AdapterEnsured(k)
  <2>1. CASE UNCHANGED <<windows, ownVars, managementVars, stateVars, disconnectPc,
                         waitsFor, process, dirs>>
             /\ connectPc' = [connectPc EXCEPT ![k] = "tempdir"]
             /\ devNode' = TRUE
             /\ adapterUses' \in {adapterUses, adapterUses + 1}
    <3>1. createdAdapterGuid' \in BOOLEAN
      BY <1>2, <1>3, <2>1, Zenon DEF AdapterEnsured
    <3> QED
      BY <2>1, <3>1 DEF ConnectStates
  <2> QED
    BY <1>2, <1>3, <2>1 DEF AdapterEnsured
<1>4. CASE TempDirMade(k)
  BY <1>2, <1>4 DEF TempDirMade, ConnectStates
<1>5. CASE ConfigWritten(k)
  BY <1>2, <1>5 DEF ConfigWritten, ConnectStates, ProcessStates
<1>6. CASE ManagementReady(k)
  BY <1>2, <1>6 DEF ManagementReady, ConnectStates
<1>7. CASE ManagementConnected(k)
  BY <1>2, <1>7 DEF ManagementConnected, ConnectStates
<1>8. CASE ProcessExit(k)
  <2>1. process' \in [Connects -> ProcessStates]
    BY <1>8 DEF ProcessExit, ProcessStates, Ended
  <2>2. connectPc' \in [Connects -> ConnectStates]
    BY <1>8 DEF ProcessExit, ConnectStates
  <2> QED
    BY <1>8, <2>1, <2>2, CleanupType DEF ProcessExit
<1> QED
  BY <1>1, <1>3, <1>4, <1>5, <1>6, <1>7, <1>8 DEF ConnectStep

LEMMA DisconnectType ==
    ASSUME TypeOK, NEW d \in Disconnects, Disconnect(d) \/ DisconnectStep(d)
    PROVE  TypeOK'
<1>1. CASE Disconnect(d)
  <2>1. CASE child # 0 /\ management = 0 /\ AwaitExit(d)
    BY <1>1, <2>1, AwaitExitType DEF Disconnect, TypeOK, stateVars
  <2>2. CASE /\ child = 0
             /\ disconnectPc' = [disconnectPc EXCEPT ![d] = "done"]
             /\ UNCHANGED <<ownVars, adapterVars, managementVars, waitsFor, process>>
    BY <1>1, <2>2
    DEF Disconnect, TypeOK, ownVars, adapterVars, managementVars, stateVars, DisconnectStates
  <2>3. CASE /\ disconnectPc' = [disconnectPc EXCEPT ![d] = "signal"]
             /\ process' = Told(management) \/ process' = process
             /\ UNCHANGED <<ownVars, adapterVars, managementVars, waitsFor>>
    BY <1>1, <2>3, ToldType
    DEF Disconnect, TypeOK, ownVars, adapterVars, managementVars, stateVars, DisconnectStates
  <2> QED
    BY <1>1, <2>1, <2>2, <2>3 DEF Disconnect
<1>2. CASE SignalSettled(d)
  BY <1>2, AwaitExitType DEF SignalSettled, TypeOK, stateVars
<1>3. CASE ExitWaited(d)
  BY <1>3, KillAndLetGoType DEF ExitWaited, TypeOK, stateVars
<1>4. CASE KillAnswered(d)
  <2>1. CASE LetGo(d)
    BY <1>4, <2>1, LetGoType DEF KillAnswered, TypeOK, stateVars
  <2>2. CASE /\ disconnectPc' = [disconnectPc EXCEPT ![d] = "failed"]
             /\ UNCHANGED <<ownVars, adapterVars, managementVars>>
    BY <1>4, <2>2
    DEF KillAnswered, TypeOK, ownVars, adapterVars, managementVars, stateVars, DisconnectStates
  <2> QED
    BY <1>4, <2>1, <2>2 DEF KillAnswered
<1>5. CASE AdapterReleased(d)
  <2>1. CASE createdAdapterGuid' = FALSE /\ FinishDisconnect(d)
    BY <1>5, <2>1, CleanupType
    DEF AdapterReleased, FinishDisconnect, TypeOK, managementVars, stateVars, DisconnectStates
  <2>2. CASE /\ disconnectPc' = [disconnectPc EXCEPT ![d] = "failed"]
             /\ UNCHANGED <<ownVars, createdAdapterGuid>>
    BY <1>5, <2>2
    DEF AdapterReleased, TypeOK, ownVars, managementVars, stateVars, DisconnectStates
  <2> QED
    BY <1>5, <2>1, <2>2 DEF AdapterReleased
<1> QED
  BY <1>1, <1>2, <1>3, <1>4, <1>5 DEF DisconnectStep

LEMMA RemovalDoneType ==
    ASSUME TypeOK, RemovalDone
    PROVE  TypeOK'
BY DEF TypeOK, RemovalDone, adapterVars, managementVars, stateVars, DisconnectStates

LEMMA StateType ==
    ASSUME TypeOK,
           \/ \E k \in Connects, name \in TunnelStates : OnState(k, name)
           \/ \E w \in Waits : WaitFor(w) \/ WaitTimeout(w)
    PROVE  TypeOK'
<1> USE DEF TypeOK, ownVars, adapterVars, managementVars
<1>1. ASSUME NEW k \in Connects, NEW name \in TunnelStates, OnState(k, name)
      PROVE  TypeOK'
  <2>1. current' \in [of : Connects \cup {0}, name : StateNames]
    BY <1>1 DEF OnState, StateNames
  <2>2. waitPc' \in [Waits -> {"idle", "waiting", "resolved", "rejected"}]
    BY <1>1 DEF OnState
  <2> QED
    BY <1>1, <2>1, <2>2 DEF OnState
<1>2. ASSUME NEW w \in Waits, WaitFor(w) \/ WaitTimeout(w)
      PROVE  TypeOK'
  BY <1>2 DEF WaitFor, WaitTimeout
<1> QED
  BY <1>1, <1>2

(* Every variable keeps its type, whatever the calls, the faults and their *)
(* order.                                                                  *)
THEOREM TypeCorrect == Spec => []TypeOK
<1>1. Init => TypeOK
  <2> SUFFICES ASSUME Init PROVE TypeOK
    OBVIOUS
  <2>1. windows \in BOOLEAN /\ current \in [of : Connects \cup {0}, name : StateNames]
    BY OptionsAssumption DEF Init, NoState, StateNames
  <2> QED
    BY <2>1 DEF Init, TypeOK, ConnectStates, DisconnectStates, ProcessStates
<1>2. TypeOK /\ [Next]_vars => TypeOK'
  <2> SUFFICES ASSUME TypeOK, [Next]_vars PROVE TypeOK'
    OBVIOUS
  <2>1. CASE UNCHANGED vars
    BY <2>1 DEF vars, ownVars, adapterVars, managementVars, stateVars, TypeOK
  <2>2. CASE Next
    BY <2>2, ConnectType, DisconnectType, StateType, RemovalDoneType DEF Next
  <2> QED
    BY <2>1, <2>2
<1> QED
  BY <1>1, <1>2, PTL DEF Spec

----------------------------------------------------------------------------
\* The management client

LEMMA LetGoUsable ==
    ASSUME NEW d \in Disconnects, ManagementUsable,
           LetGo(d) \/ KillAndLetGo(d) \/ AwaitExit(d)
    PROVE  ManagementUsable'
BY DEF ManagementUsable, LetGo, KillAndLetGo, AwaitExit, CloseManagement, managementVars

(* The management client that an OpenVpnClient refers to is open, however  *)
(* its calls overlap.                                                      *)
THEOREM ManagementStaysUsable == Spec => []ManagementUsable
<1>1. Init => ManagementUsable
  BY DEF Init, ManagementUsable
<1>2. TypeOK /\ ManagementUsable /\ [Next]_vars => ManagementUsable'
  <2> SUFFICES ASSUME TypeOK, ManagementUsable, [Next]_vars PROVE ManagementUsable'
    OBVIOUS
  <2>1. CASE UNCHANGED managementVars
    BY <2>1 DEF ManagementUsable, managementVars
  <2>2. ASSUME NEW k \in Connects, ConnectStep(k) PROVE ManagementUsable'
    <3>1. CASE ManagementReady(k) /\ ~UNCHANGED managementVars
      BY <3>1 DEF ManagementReady, ConnectFails, ManagementUsable, TypeOK
    <3> QED
      BY <2>1, <2>2, <3>1
      DEF ConnectStep, AdapterEnsured, TempDirMade, ConfigWritten, ManagementConnected,
          ConnectFails
  <2>3. ASSUME NEW d \in Disconnects, Disconnect(d) \/ DisconnectStep(d)
        PROVE  ManagementUsable'
    BY <2>1, <2>3, LetGoUsable
    DEF Disconnect, DisconnectStep, SignalSettled, ExitWaited, KillAnswered, AdapterReleased
  <2>4. CASE UNCHANGED vars
    BY <2>1, <2>4 DEF vars
  <2> QED
    BY <2>1, <2>2, <2>3, <2>4
    DEF Next, Connect, ProcessExit, OnState, WaitFor, WaitTimeout, RemovalDone
<1> QED
  BY <1>1, <1>2, TypeCorrect, PTL DEF Spec

----------------------------------------------------------------------------
\* A patient application on a machine that lets it write and delete

(* Calls are made when the earlier ones have returned, temporary files can *)
(* be written and removed, and a removal does not outlast the process that *)
(* is started meanwhile.  A process may still be going down when the next  *)
(* call is made.                                                           *)
Orderly == ~Overlap /\ Faults \cap {"config", "rm", "slowrm"} = {}

Busy(k) == connectPc[k] \notin Settled
Ending(d) == disconnectPc[d] \notin Settled

(* One call is under way at a time. *)
OneCall ==
    /\ \A j, k \in Connects : Busy(j) /\ Busy(k) => j = k
    /\ \A d, e \in Disconnects : Ending(d) /\ Ending(e) => d = e
    /\ \A k \in Connects, d \in Disconnects : ~(Busy(k) /\ Ending(d))

(* The child has not ended, a connect() call that has not started one has  *)
(* none, and a disconnect() call past the exit joins no removal while      *)
(* there is a child.                                                       *)
ChildKnown ==
    /\ child # 0 => Alive(child)
    /\ \A k \in Connects : connectPc[k] \in {"adapter", "tempdir", "config"} => child = 0
    /\ \A d \in Disconnects :
          /\ disconnectPc[d] \in {"kill", "release", "cleanup"} /\ child # 0 => removing = 0
          /\ disconnectPc[d] = "cleanup" => child = 0 /\ tempDir = 0

(* Without a child there is no directory, but for the one whose file is    *)
(* being written; the late exit of an earlier process may take that away.  *)
DirKnown ==
    /\ child = 0 => tempDir = 0 \/ \E k \in Connects : connectPc[k] = "config"
    /\ removing # 0 => removing # tempDir
    /\ \A k \in Connects :
          /\ connectPc[k] \in {"adapter", "tempdir"} => tempDir = 0
          /\ connectPc[k] = "config" /\ tempDir # 0 => tempDir = k /\ k \in dirs
          /\ k \in {tempDir, removing} => connectPc[k] \notin {"idle", "adapter", "tempdir"}

(* What disconnect() has let go of when it waits for the adapter and for   *)
(* the directory.                                                          *)
LetGoOf ==
    \A d \in Disconnects :
       /\ disconnectPc[d] \in {"release", "cleanup"} => management = 0
       /\ disconnectPc[d] = "cleanup" => ~createdAdapterGuid

Safe == OneCall /\ ChildKnown /\ DirKnown /\ LetGoOf /\ NoDirForgotten

IInv == TypeOK /\ Safe

----------------------------------------------------------------------------
\* One call at a time

LEMMA ConnectGoesOn ==
    ASSUME TypeOK, OneCall, NEW k \in Connects, Busy(k), UNCHANGED disconnectPc,
           \A j \in Connects \ {k} : connectPc'[j] = connectPc[j]
    PROVE  /\ OneCall'
           /\ \A j \in Connects \ {k} : connectPc'[j] \in Settled
           /\ \A d \in Disconnects : disconnectPc'[d] \in Settled
BY DEF TypeOK, OneCall, Busy, Ending

LEMMA DisconnectGoesOn ==
    ASSUME TypeOK, OneCall, NEW d \in Disconnects, Ending(d), UNCHANGED connectPc,
           \A e \in Disconnects \ {d} : disconnectPc'[e] = disconnectPc[e]
    PROVE  /\ OneCall'
           /\ \A k \in Connects : connectPc'[k] \in Settled
           /\ \A e \in Disconnects \ {d} : disconnectPc'[e] \in Settled
BY DEF TypeOK, OneCall, Busy, Ending

(* A patient application calls when no call runs. *)
LEMMA PatientCalls ==
    ASSUME IInv, Patient
    PROVE  /\ \A k \in Connects : connectPc[k] \in Settled
           /\ \A d \in Disconnects : disconnectPc[d] \in Settled
           /\ child = 0 => tempDir = 0
BY DEF IInv, Safe, Patient, DirKnown, Settled

----------------------------------------------------------------------------
\* The steps of connect() and of the process

LEMMA ConnectSafe ==
    ASSUME Orderly, IInv, NEW k \in Connects, Connect(k)
    PROVE  Safe'
<1> USE DEF IInv, Safe
<1>1. Patient
  BY DEF Connect, MayCall, Orderly
<1>2. /\ connectPc[k] = "idle"
      /\ connectPc'[k] \in {"adapter", "tempdir"} => child = 0
      /\ \A j \in Connects \ {k} : connectPc'[j] = connectPc[j] /\ connectPc'[j] \in Settled
      /\ connectPc'[k] # "config"
      /\ UNCHANGED <<ownVars, adapterVars, managementVars, disconnectPc, process, dirs>>
  BY <1>1, PatientCalls DEF Connect, NextConnect, AlreadyStarted, TypeOK, Settled
<1>3. OneCall'
  BY <1>1, <1>2, PatientCalls DEF OneCall, Busy, Ending
<1>4. ChildKnown'
  BY <1>1, <1>2, PatientCalls DEF ChildKnown, Alive, ownVars, Settled
<1>5. DirKnown'
  BY <1>1, <1>2, PatientCalls DEF DirKnown, ownVars, Settled
<1>6. LetGoOf' /\ NoDirForgotten'
  BY <1>2 DEF LetGoOf, NoDirForgotten, ownVars, adapterVars, managementVars
<1> QED
  BY <1>3, <1>4, <1>5, <1>6

LEMMA AdapterEnsuredSafe ==
    ASSUME Orderly, IInv, NEW k \in Connects, AdapterEnsured(k)
    PROVE  Safe'
<1> USE DEF IInv, Safe
<1>1. /\ UNCHANGED <<ownVars, managementVars, disconnectPc, process, dirs>>
      /\ connectPc[k] = "adapter"
      /\ connectPc'[k] \in {"tempdir", "failed"}
      /\ \A j \in Connects \ {k} : connectPc'[j] = connectPc[j]
  BY DEF AdapterEnsured, ConnectFails, TypeOK
<1>2. /\ OneCall'
      /\ \A j \in Connects \ {k} : connectPc'[j] \in Settled
      /\ \A d \in Disconnects : disconnectPc'[d] \in Settled
  BY <1>1, ConnectGoesOn DEF Busy, Settled
<1>3. child = 0 /\ tempDir = 0
  BY <1>1, <1>2 DEF ChildKnown, DirKnown
<1>4. ChildKnown' /\ DirKnown'
  BY <1>1, <1>2, <1>3 DEF ChildKnown, DirKnown, Alive, ownVars, Settled
<1>5. LetGoOf' /\ NoDirForgotten'
  BY <1>1, <1>2 DEF LetGoOf, NoDirForgotten, ownVars, Settled
<1> QED
  BY <1>2, <1>4, <1>5

LEMMA TempDirMadeSafe ==
    ASSUME Orderly, IInv, NEW k \in Connects, TempDirMade(k)
    PROVE  Safe'
<1> USE DEF IInv, Safe
<1>1. /\ UNCHANGED <<child, removing, disconnectPc, process>>
      /\ connectPc[k] = "tempdir"
      /\ \/ connectPc'[k] = "failed" /\ UNCHANGED <<tempDir, dirs>>
         \/ connectPc'[k] = "config" /\ tempDir' = k /\ dirs' = dirs \cup {k}
      /\ \A j \in Connects \ {k} : connectPc'[j] = connectPc[j]
  BY DEF TempDirMade, ConnectFails, TypeOK, ownVars
<1>2. /\ OneCall'
      /\ \A j \in Connects \ {k} : connectPc'[j] \in Settled
      /\ \A d \in Disconnects : disconnectPc'[d] \in Settled
  BY <1>1, ConnectGoesOn DEF Busy, Settled
<1>3. child = 0 /\ tempDir = 0 /\ removing # k /\ dirs \subseteq {removing}
  BY <1>1 DEF ChildKnown, DirKnown, NoDirForgotten, TypeOK, Connects
<1>4. ChildKnown'
  BY <1>1, <1>2, <1>3 DEF ChildKnown, Settled
<1>5. DirKnown'
  BY <1>1, <1>2, <1>3 DEF DirKnown, Settled
<1>6. LetGoOf' /\ NoDirForgotten'
  BY <1>1, <1>2, <1>3 DEF LetGoOf, NoDirForgotten, Settled
<1> QED
  BY <1>2, <1>4, <1>5, <1>6

(* The file can be written unless the directory has been removed, and then *)
(* it is not the client's any more.                                        *)
LEMMA ConfigWrittenSafe ==
    ASSUME Orderly, IInv, NEW k \in Connects, ConfigWritten(k)
    PROVE  Safe'
<1> USE DEF IInv, Safe
<1>0. connectPc[k] = "config"
  BY DEF ConfigWritten
<1>1. connectPc[k] = "config" /\ child = 0 /\ (tempDir # 0 => tempDir = k /\ k \in dirs)
  BY <1>0 DEF DirKnown, ChildKnown
<1>2. /\ UNCHANGED <<tempDir, removing, dirs, disconnectPc>>
      /\ \/ connectPc'[k] = "failed" /\ tempDir = 0 /\ UNCHANGED <<child, process>>
         \/ connectPc'[k] = "ready" /\ child' = k /\ Alive(k)'
      /\ \A j \in Connects \ {k} : connectPc'[j] = connectPc[j]
  BY <1>1 DEF ConfigWritten, ConnectFails, Orderly, Fault, TypeOK, Alive, ownVars
<1>3. /\ OneCall'
      /\ \A j \in Connects \ {k} : connectPc'[j] \in Settled
      /\ \A d \in Disconnects : disconnectPc'[d] \in Settled
  BY <1>1, <1>2, ConnectGoesOn DEF Busy, Settled
<1>4. ChildKnown'
  BY <1>1, <1>2, <1>3 DEF ChildKnown, Settled
<1>5. DirKnown'
  BY <1>1, <1>2, <1>3 DEF DirKnown, Settled, Connects
<1>6. LetGoOf' /\ NoDirForgotten'
  BY <1>1, <1>2, <1>3 DEF LetGoOf, NoDirForgotten, Settled
<1> QED
  BY <1>3, <1>4, <1>5, <1>6

LEMMA ManagementStepSafe ==
    ASSUME Orderly, IInv, NEW k \in Connects, ManagementReady(k) \/ ManagementConnected(k)
    PROVE  Safe'
<1> USE DEF IInv, Safe
<1>1. /\ UNCHANGED <<ownVars, process, dirs, disconnectPc>>
      /\ connectPc[k] \in {"ready", "management"}
      /\ connectPc'[k] \in {"management", "done", "failed"}
      /\ \A j \in Connects \ {k} : connectPc'[j] = connectPc[j]
  BY DEF ManagementReady, ManagementConnected, ConnectFails, TypeOK
<1>2. /\ OneCall'
      /\ \A j \in Connects \ {k} : connectPc'[j] \in Settled
      /\ \A d \in Disconnects : disconnectPc'[d] \in Settled
  BY <1>1, ConnectGoesOn DEF Busy, Settled
<1>3. \A j \in Connects : connectPc[j] # "config"
  BY <1>1 DEF OneCall, Busy, Settled
<1>4. ChildKnown' /\ DirKnown'
  BY <1>1, <1>2, <1>3 DEF ChildKnown, DirKnown, Alive, ownVars, Settled
<1>5. LetGoOf' /\ NoDirForgotten'
  BY <1>1, <1>2 DEF LetGoOf, NoDirForgotten, ownVars, Settled
<1> QED
  BY <1>2, <1>4, <1>5

(* What cleanup() leaves, unless it joins a removal while there is a child. *)
LEMMA CleanupLeaves ==
    ASSUME TypeOK, DirKnown, NoDirForgotten, Cleanup, child # 0 => removing = 0
    PROVE  /\ child' = 0
           /\ tempDir' \in {0, tempDir} /\ removing' \in {removing, tempDir}
           /\ tempDir' # 0 => \E k \in Connects : connectPc[k] = "config"
           /\ removing' # 0 => removing' # tempDir'
           /\ dirs \subseteq {tempDir', removing'}
BY DEF TypeOK, DirKnown, NoDirForgotten, Cleanup, ownVars, Connects

LEMMA ProcessExitSafe ==
    ASSUME Orderly, IInv, NEW k \in Connects, ProcessExit(k)
    PROVE  Safe'
<1> USE DEF IInv, Safe
<1>1. /\ \A j \in Connects : connectPc'[j] \in {connectPc[j], "failed"}
      /\ \A j \in Connects : connectPc'[j] # connectPc[j] => connectPc[j] = "ready"
      /\ UNCHANGED <<disconnectPc, managementVars, adapterVars, dirs>>
      /\ \A j \in Connects \ {k} : process'[j] = process[j]
  BY DEF ProcessExit, TypeOK
<1>2. OneCall'
  BY <1>1 DEF OneCall, Busy, Ending, Settled
<1>3. CASE removing = 0
  <2>1. child' = 0 /\ removing' = tempDir /\ tempDir' = 0
    BY <1>3 DEF ProcessExit, Cleanup
  <2>2. ChildKnown'
    BY <1>1, <2>1 DEF ChildKnown
  <2>3. DirKnown'
    BY <1>1, <2>1 DEF DirKnown, TypeOK, Connects
  <2>4. LetGoOf' /\ NoDirForgotten'
    BY <1>1, <1>3, <2>1 DEF LetGoOf, NoDirForgotten, TypeOK, adapterVars, managementVars
  <2> QED
    BY <1>2, <2>2, <2>3, <2>4
<1>4. CASE removing # 0
  <2>1. UNCHANGED ownVars /\ child # k
    BY <1>4 DEF ProcessExit, Cleanup, RemovalOutlasts, Orderly, Fault, Connects
  <2>2. ChildKnown'
    BY <1>1, <2>1 DEF ChildKnown, Alive, ownVars, TypeOK
  <2>3. DirKnown'
    BY <1>1, <2>1 DEF DirKnown, ownVars
  <2>4. LetGoOf' /\ NoDirForgotten'
    BY <1>1, <2>1 DEF LetGoOf, NoDirForgotten, ownVars, adapterVars, managementVars
  <2> QED
    BY <1>2, <2>2, <2>3, <2>4
<1> QED
  BY <1>3, <1>4

----------------------------------------------------------------------------
\* The steps of disconnect()

(* cleanup() at the end of a disconnect() call. *)
LEMMA FinishSafe ==
    ASSUME IInv, NEW d \in Disconnects, FinishDisconnect(d), OneCall',
           \A e \in Disconnects \ {d} : disconnectPc'[e] \in Settled,
           \A k \in Connects : connectPc[k] \in Settled,
           child # 0 => removing = 0, management' = 0, ~createdAdapterGuid',
           UNCHANGED <<connectPc, dirs>>
    PROVE  Safe'
<1> USE DEF IInv, Safe
<1>1. /\ child' = 0 /\ tempDir' = 0
      /\ removing' \in {removing, tempDir} /\ dirs \subseteq {removing'}
  BY CleanupLeaves DEF FinishDisconnect, Settled, TypeOK, NoDirForgotten, Connects
<1>2. ChildKnown'
  BY <1>1 DEF ChildKnown, Settled
<1>3. DirKnown'
  BY <1>1 DEF DirKnown, Settled, TypeOK
<1>4. LetGoOf' /\ NoDirForgotten'
  BY <1>1 DEF LetGoOf, NoDirForgotten
<1> QED
  BY <1>2, <1>3, <1>4

(* A disconnect() call that lets go of everything. *)
LEMMA LetGoSafe ==
    ASSUME IInv, NEW d \in Disconnects, LetGo(d), OneCall',
           \A e \in Disconnects \ {d} : disconnectPc'[e] \in Settled,
           \A k \in Connects : connectPc[k] \in Settled,
           child # 0 => removing = 0 /\ process'[child] \in {"running", "dying"},
           UNCHANGED <<connectPc, dirs>>
    PROVE  Safe'
<1> USE DEF IInv, Safe
<1>1. management' = 0
  BY DEF LetGo, CloseManagement
<1>2. CASE /\ disconnectPc' = [disconnectPc EXCEPT ![d] = "release"]
           /\ UNCHANGED <<ownVars, createdAdapterGuid, devNode>>
  <2>1. disconnectPc'[d] = "release"
    BY <1>2 DEF TypeOK
  <2>2. ChildKnown'
    BY <1>2, <2>1 DEF ChildKnown, Alive, ownVars, Settled
  <2>3. DirKnown' /\ NoDirForgotten'
    BY <1>2 DEF DirKnown, NoDirForgotten, ownVars, Settled
  <2>4. LetGoOf'
    BY <1>1, <2>1 DEF LetGoOf, Settled
  <2> QED
    BY <2>2, <2>3, <2>4
<1>3. CASE ~createdAdapterGuid /\ FinishDisconnect(d) /\ UNCHANGED adapterVars
  BY <1>1, <1>3, FinishSafe DEF adapterVars
<1> QED
  BY <1>2, <1>3 DEF LetGo

(* A process that is told to end has not ended yet. *)
LEMMA ToldAlive ==
    ASSUME TypeOK, NEW k, NEW j \in Connects, Alive(j)
    PROVE  Told(k)[j] \in {"running", "dying"}
BY DEF TypeOK, Told, Alive

(* What runs is told to end before a call lets go. *)
LEMMA KillAndLetGoSafe ==
    ASSUME IInv, NEW d \in Disconnects, KillAndLetGo(d), OneCall',
           \A e \in Disconnects \ {d} : disconnectPc'[e] \in Settled,
           \A k \in Connects : connectPc[k] \in Settled,
           child # 0 => removing = 0,
           UNCHANGED <<connectPc, dirs>>
    PROVE  Safe'
<1> USE DEF IInv, Safe
<1>1. child # 0 => child \in Connects /\ Alive(child)
  BY DEF ChildKnown, TypeOK
<1>2. process' \in {process, Told(child)}
  BY DEF KillAndLetGo
<1>3. child # 0 => process'[child] \in {"running", "dying"}
  <2> SUFFICES ASSUME child # 0 PROVE process'[child] \in {"running", "dying"}
    OBVIOUS
  <2>1. Told(child)[child] \in {"running", "dying"}
    BY <1>1, ToldAlive
  <2> QED
    BY <1>1, <1>2, <2>1 DEF Alive
<1>4. CASE LetGo(d)
  BY <1>3, <1>4, LetGoSafe
<1>5. CASE /\ disconnectPc' = [disconnectPc EXCEPT ![d] = "kill"]
           /\ UNCHANGED <<ownVars, adapterVars, managementVars>>
  <2>1. disconnectPc'[d] = "kill"
    BY <1>5 DEF TypeOK
  <2>2. ChildKnown'
    BY <1>3, <1>5, <2>1 DEF ChildKnown, Alive, ownVars, Settled
  <2>3. DirKnown' /\ NoDirForgotten' /\ LetGoOf'
    BY <1>5, <2>1 DEF DirKnown, NoDirForgotten, LetGoOf, ownVars, adapterVars,
                      managementVars, Settled
  <2> QED
    BY <2>2, <2>3
<1> QED
  BY <1>4, <1>5 DEF KillAndLetGo

LEMMA AwaitExitSafe ==
    ASSUME IInv, NEW d \in Disconnects, AwaitExit(d), OneCall',
           \A e \in Disconnects \ {d} : disconnectPc'[e] \in Settled,
           \A k \in Connects : connectPc[k] \in Settled,
           UNCHANGED <<connectPc, dirs>>
    PROVE  Safe'
<1> USE DEF IInv, Safe
<1>1. CASE ~ChildRuns /\ KillAndLetGo(d)
  <2>1. child = 0
    BY <1>1 DEF ChildKnown, ChildRuns, Alive, TypeOK
  <2> QED
    BY <1>1, <2>1, KillAndLetGoSafe
<1>2. CASE /\ disconnectPc' = [disconnectPc EXCEPT ![d] = "exit"]
           /\ UNCHANGED <<ownVars, adapterVars, managementVars, process>>
  <2>1. disconnectPc'[d] = "exit"
    BY <1>2 DEF TypeOK
  <2>2. ChildKnown'
    BY <1>2, <2>1 DEF ChildKnown, Alive, ownVars, Settled
  <2>3. DirKnown' /\ NoDirForgotten' /\ LetGoOf'
    BY <1>2, <2>1 DEF DirKnown, NoDirForgotten, LetGoOf, ownVars, adapterVars,
                      managementVars, Settled
  <2> QED
    BY <2>2, <2>3
<1> QED
  BY <1>1, <1>2 DEF AwaitExit

(* The program counter that moves is that of the call. *)
LEMMA DisconnectMoves ==
    ASSUME TypeOK, NEW d \in Disconnects,
           Disconnect(d) \/ DisconnectStep(d)
    PROVE  /\ \A e \in Disconnects \ {d} : disconnectPc'[e] = disconnectPc[e]
           /\ UNCHANGED <<connectPc, dirs>>
BY DEF TypeOK, Disconnect, DisconnectStep, SignalSettled, ExitWaited, KillAnswered,
       AdapterReleased, AwaitExit, KillAndLetGo, LetGo, FinishDisconnect

LEMMA DisconnectSafe ==
    ASSUME Orderly, IInv, NEW d \in Disconnects, Disconnect(d)
    PROVE  Safe'
<1> USE DEF IInv, Safe
<1>1. Patient
  BY DEF Disconnect, MayCall, Orderly
<1>2. /\ \A k \in Connects : connectPc[k] \in Settled
      /\ \A e \in Disconnects \ {d} : disconnectPc'[e] \in Settled
      /\ UNCHANGED <<connectPc, dirs>>
  BY <1>1, PatientCalls, DisconnectMoves
<1>3. OneCall'
  BY <1>2 DEF OneCall, Busy, Ending
<1>4. CASE AwaitExit(d)
  BY <1>2, <1>3, <1>4, AwaitExitSafe
<1>5. CASE /\ disconnectPc'[d] \in {"signal", "done"}
           /\ process' = Told(management) \/ process' = process
           /\ UNCHANGED <<ownVars, adapterVars, managementVars>>
  <2>1. child # 0 => process'[child] \in {"running", "dying"}
    BY <1>5, ToldAlive DEF ChildKnown, TypeOK, Alive
  <2>2. ChildKnown'
    BY <1>2, <1>5, <2>1 DEF ChildKnown, Alive, ownVars, Settled
  <2>3. DirKnown' /\ NoDirForgotten' /\ LetGoOf'
    BY <1>2, <1>5
    DEF DirKnown, NoDirForgotten, LetGoOf, ownVars, adapterVars, managementVars, Settled
  <2> QED
    BY <1>3, <2>2, <2>3
<1> QED
  BY <1>4, <1>5 DEF Disconnect, TypeOK

LEMMA DisconnectStepSafe ==
    ASSUME Orderly, IInv, NEW d \in Disconnects, DisconnectStep(d)
    PROVE  Safe'
<1> USE DEF IInv, Safe
<1>1. Ending(d)
  BY DEF DisconnectStep, SignalSettled, ExitWaited, KillAnswered, AdapterReleased,
         Ending, Settled
<1>2. /\ OneCall'
      /\ \A k \in Connects : connectPc[k] \in Settled
      /\ \A e \in Disconnects \ {d} : disconnectPc'[e] \in Settled
      /\ UNCHANGED <<connectPc, dirs>>
  BY <1>1, DisconnectMoves, DisconnectGoesOn
<1>3. CASE SignalSettled(d)
  BY <1>2, <1>3, AwaitExitSafe DEF SignalSettled
<1>4. CASE ExitWaited(d)
  BY <1>2, <1>4, KillAndLetGoSafe DEF ExitWaited, RemovalOutlasts, Orderly, Fault
<1>5. CASE /\ disconnectPc[d] \in {"kill", "release"}
           /\ disconnectPc'[d] = "failed"
           /\ UNCHANGED <<ownVars, createdAdapterGuid, managementVars, process>>
  <2>1. ChildKnown'
    BY <1>2, <1>5 DEF ChildKnown, Alive, ownVars, Settled
  <2>2. DirKnown' /\ NoDirForgotten' /\ LetGoOf'
    BY <1>2, <1>5 DEF DirKnown, NoDirForgotten, LetGoOf, ownVars, managementVars, Settled
  <2> QED
    BY <1>2, <2>1, <2>2
<1>6. CASE KillAnswered(d)
  <2>1. CASE LetGo(d)
    <3>1. child # 0 => removing = 0 /\ process'[child] \in {"running", "dying"}
      BY <1>6 DEF KillAnswered, ChildKnown, Alive
    <3> QED
      BY <1>2, <2>1, <3>1, LetGoSafe
  <2> QED
    BY <1>5, <1>6, <2>1 DEF KillAnswered, TypeOK, adapterVars
<1>7. CASE AdapterReleased(d)
  <2>1. CASE createdAdapterGuid' = FALSE /\ FinishDisconnect(d)
    <3>1. child # 0 => removing = 0
      BY <1>7 DEF AdapterReleased, ChildKnown
    <3>2. management = 0 /\ management' = management
      BY <1>7 DEF AdapterReleased, LetGoOf, managementVars
    <3> QED
      BY <1>2, <2>1, <3>1, <3>2, FinishSafe
  <2> QED
    BY <1>5, <1>7, <2>1 DEF AdapterReleased, TypeOK
<1> QED
  BY <1>3, <1>4, <1>6, <1>7 DEF DisconnectStep

LEMMA RemovalDoneSafe ==
    ASSUME Orderly, IInv, RemovalDone
    PROVE  Safe'
<1> USE DEF IInv, Safe
<1>1. /\ removing # 0 /\ removing' = 0
      /\ dirs' = dirs \ {removing}
      /\ UNCHANGED <<child, tempDir, adapterVars, managementVars, connectPc, process>>
      /\ \A d \in Disconnects : disconnectPc'[d] \in {disconnectPc[d], "done"}
  BY DEF RemovalDone, Orderly, Fault, TypeOK
<1>2. OneCall'
  BY <1>1 DEF OneCall, Busy, Ending, Settled
<1>3. ChildKnown'
  BY <1>1 DEF ChildKnown, Alive
<1>4. DirKnown'
  BY <1>1 DEF DirKnown, Connects
<1>5. LetGoOf' /\ NoDirForgotten'
  BY <1>1 DEF LetGoOf, NoDirForgotten, adapterVars, managementVars
<1> QED
  BY <1>2, <1>3, <1>4, <1>5

(* Waiters and tunnel states concern nothing of the above. *)
LEMMA QuietSafe ==
    ASSUME Safe, UNCHANGED <<ownVars, createdAdapterGuid, managementVars, connectPc,
                             disconnectPc, process, dirs>>
    PROVE  Safe'
BY DEF Safe, OneCall, Busy, Ending, ChildKnown, DirKnown, LetGoOf,
       NoDirForgotten, Alive, ownVars, managementVars

----------------------------------------------------------------------------
\* Theorems

LEMMA InvariantHolds ==
    ASSUME Orderly
    PROVE  Spec => []IInv
<1>1. Init => Safe
  BY DEF Init, Safe, OneCall, Busy, Ending, ChildKnown, DirKnown, LetGoOf,
         NoDirForgotten, Alive, Settled, Connects
<1>2. IInv /\ [Next]_vars => Safe'
  <2> SUFFICES ASSUME IInv, [Next]_vars PROVE Safe'
    OBVIOUS
  <2>1. ASSUME NEW k \in Connects, ConnectStep(k) PROVE Safe'
    BY <2>1, AdapterEnsuredSafe, TempDirMadeSafe, ConfigWrittenSafe, ManagementStepSafe
    DEF ConnectStep
  <2>2. ASSUME NEW k \in Connects, NEW name \in TunnelStates, OnState(k, name)
        PROVE  Safe'
    BY <2>2, QuietSafe DEF OnState, IInv, adapterVars
  <2>3. ASSUME NEW w \in Waits, WaitFor(w) \/ WaitTimeout(w) PROVE Safe'
    BY <2>3, QuietSafe DEF WaitFor, WaitTimeout, IInv, adapterVars
  <2>4. CASE UNCHANGED vars
    BY <2>4, QuietSafe DEF vars, IInv, adapterVars
  <2> QED
    BY <2>1, <2>2, <2>3, <2>4, ConnectSafe, ProcessExitSafe, DisconnectSafe,
       DisconnectStepSafe, RemovalDoneSafe DEF Next
<1>3. TypeOK /\ Safe => IInv
  BY DEF IInv
<1> QED
  BY <1>1, <1>2, <1>3, TypeCorrect, PTL DEF Spec

(* No directory with a configuration in it is forgotten on disk.           *)
THEOREM NoDirIsForgotten ==
    ASSUME Orderly
    PROVE  Spec => []NoDirForgotten
<1>1. IInv => NoDirForgotten
  BY DEF IInv, Safe
<1> QED
  BY <1>1, InvariantHolds, PTL

(* The conclusion of DisconnectedMeansClean for one call.                  *)
CleanWhenDone(d) ==
    Ending(d) /\ disconnectPc'[d] = "done" =>
        child' = 0 /\ management' = 0 /\ tempDir' = 0 /\ ~createdAdapterGuid'

LEMMA FinishClean ==
    ASSUME IInv, NEW d \in Disconnects, FinishDisconnect(d), disconnectPc'[d] = "done"
    PROVE  child' = 0 /\ tempDir' = 0
<1>1. removing' = 0
  BY DEF FinishDisconnect, IInv, TypeOK
<1> QED
  BY <1>1 DEF FinishDisconnect, Cleanup, ownVars

LEMMA LetGoClean ==
    ASSUME IInv, NEW d \in Disconnects, LetGo(d) \/ KillAndLetGo(d) \/ AwaitExit(d)
    PROVE  CleanWhenDone(d)
<1>1. CASE LetGo(d)
  BY <1>1, FinishClean
  DEF LetGo, CloseManagement, CleanWhenDone, IInv, TypeOK, adapterVars
<1> QED
  BY <1>1 DEF KillAndLetGo, AwaitExit, CleanWhenDone, IInv, TypeOK

LEMMA DisconnectStepClean ==
    ASSUME IInv, NEW d \in Disconnects, DisconnectStep(d)
    PROVE  CleanWhenDone(d)
<1>1. CASE SignalSettled(d) \/ ExitWaited(d) \/ KillAnswered(d)
  BY <1>1, LetGoClean
  DEF SignalSettled, ExitWaited, KillAnswered, CleanWhenDone, IInv, TypeOK
<1>2. CASE AdapterReleased(d)
  <2>1. management' = 0
    BY <1>2 DEF AdapterReleased, IInv, Safe, LetGoOf, managementVars
  <2> QED
    BY <1>2, <2>1, FinishClean DEF AdapterReleased, CleanWhenDone, IInv, TypeOK
<1> QED
  BY <1>1, <1>2 DEF DisconnectStep

(* A disconnect() call that finishes leaves this client no child, no       *)
(* management client, no directory and no guid of an adapter, also when it *)
(* joined a removal already under way.                                     *)
THEOREM DisconnectLeavesNothing ==
    ASSUME Orderly
    PROVE  Spec => DisconnectedMeansClean
<1>1. IInv /\ [Next]_vars => [\A d \in Disconnects : CleanWhenDone(d)]_vars
  <2> SUFFICES ASSUME IInv, Next, NEW d \in Disconnects PROVE CleanWhenDone(d)
    OBVIOUS
  <2>1. CASE disconnectPc'[d] = disconnectPc[d]
    BY <2>1 DEF CleanWhenDone, Ending, Settled
  <2>2. CASE Disconnect(d)
    BY <2>2 DEF Disconnect, NextDisconnect, CleanWhenDone, Ending, Settled
  <2>3. CASE RemovalDone
    BY <2>3
    DEF RemovalDone, CleanWhenDone, Ending, Settled, IInv, Safe, ChildKnown, LetGoOf,
        adapterVars, managementVars
  <2>4. ASSUME NEW e \in Disconnects \ {d}, Disconnect(e) \/ DisconnectStep(e)
        PROVE  CleanWhenDone(d)
    BY <2>1, <2>4, DisconnectMoves DEF IInv
  <2>5. ASSUME NEW k \in Connects,
               \/ Connect(k) \/ ConnectStep(k) \/ ProcessExit(k)
               \/ \E name \in TunnelStates : OnState(k, name)
        PROVE  CleanWhenDone(d)
    BY <2>1, <2>5
    DEF Connect, ConnectStep, AdapterEnsured, TempDirMade, ConfigWritten, ManagementReady,
        ManagementConnected, ConnectFails, ProcessExit, OnState
  <2>6. ASSUME NEW w \in Waits, WaitFor(w) \/ WaitTimeout(w) PROVE CleanWhenDone(d)
    BY <2>1, <2>6 DEF WaitFor, WaitTimeout
  <2> QED
    BY <2>2, <2>3, <2>4, <2>5, <2>6, DisconnectStepClean DEF Next
<1>2. (\A d \in Disconnects : CleanWhenDone(d)) <=>
      \A d \in Disconnects :
          disconnectPc[d] \notin Settled /\ disconnectPc'[d] = "done" =>
             child' = 0 /\ management' = 0 /\ tempDir' = 0 /\ ~createdAdapterGuid'
  BY DEF CleanWhenDone, Ending
<1> QED
  BY <1>1, <1>2, InvariantHolds, PTL DEF Spec, DisconnectedMeansClean

=============================================================================
