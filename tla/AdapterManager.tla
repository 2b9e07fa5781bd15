---------------------------- MODULE AdapterManager ----------------------------
(***************************************************************************)
(* The TAP adapter manager of packages/tap/src/index.ts on Windows: one    *)
(* AdapterManager shared by several users, each of which calls ensure()    *)
(* and later release() for the adapter it got, as OpenVpnClient does.      *)
(*                                                                         *)
(* tapctl.exe runs while a call waits for it, so its effect on the system  *)
(* and the code that handles its answer are separate actions.  An adapter  *)
(* stands for its GUID; adapters are numbered in the order they are made.  *)
(***************************************************************************)
EXTENDS Naturals, Sequences, FiniteSets

CONSTANTS
    Users,       \* the callers
    Candidates,  \* the drivers tried for hwid 'auto', in their order
    Wishes,      \* the values of opts.hwid to consider: "auto" or a driver
    Before,      \* the drivers of the adapters that exist at the start
    Overlaps,    \* may calls start while others are running? (a set of answers)
    Elevations,  \* does the process have administrator rights? (likewise)
    Faults,      \* which commands may fail for another reason
    MaxAdapters  \* bound on the number of adapters

Drivers == {Candidates[i] : i \in DOMAIN Candidates}
Adapters == 1 .. MaxAdapters
FaultKinds == {"list", "create", "service", "delete"}

ASSUME UsersAssumption == IsFiniteSet(Users)
ASSUME CandidatesAssumption ==
    /\ Candidates \in Seq(STRING) /\ Candidates # <<>>
    /\ "auto" \notin Drivers
    /\ Wishes \subseteq Drivers \cup {"auto"}
ASSUME OptionsAssumption ==
    /\ Overlaps \subseteq BOOLEAN /\ Elevations \subseteq BOOLEAN
    /\ Faults \subseteq FaultKinds
ASSUME BoundsAssumption ==
    /\ MaxAdapters \in Nat
    /\ Before \in Seq(Drivers) /\ Len(Before) <= MaxAdapters

VARIABLES
    overlap,     \* calls may start while others are running
    elevated,    \* the process has administrator rights
    wish,        \* opts.hwid of each user
    pc,          \* what each user's call waits for, or how it ended
    tried,       \* how many candidates the ensure() of each user has tried
    seen,        \* the adapters in tapctl's answer to each user
    adapter,     \* the adapter each user was given
    refCounts,   \* this.refCounts, 0 for a missing entry
    drivers,     \* the driver of every adapter made so far
    byTapctl,    \* the adapters made by `tapctl create`
    present      \* the adapters on the system

configVars == <<overlap, elevated, wish>>
systemVars == <<drivers, byTapctl, present>>
vars == <<configVars, pc, tried, seen, adapter, refCounts, systemVars>>

----------------------------------------------------------------------------
Waiting == {"list", "listed", "create", "created", "refused", "service", "delete"}
Ended == {"idle", "holding", "viaService", "released", "failed"}

TypeOK ==
    /\ overlap \in BOOLEAN
    /\ elevated \in BOOLEAN
    /\ wish \in [Users -> Wishes]
    /\ pc \in [Users -> Waiting \cup Ended]
    /\ tried \in [Users -> 0 .. Len(Candidates)]
    /\ seen \in [Users -> SUBSET Adapters]
    /\ adapter \in [Users -> Adapters \cup {0}]
    /\ refCounts \in [Adapters -> Nat]
    /\ drivers \in Seq(Drivers)
    /\ byTapctl \subseteq DOMAIN drivers
    /\ present \subseteq DOMAIN drivers

Init ==
    /\ overlap \in Overlaps
    /\ elevated \in Elevations
    /\ wish \in [Users -> Wishes]
    /\ pc = [u \in Users |-> "idle"]
    /\ tried = [u \in Users |-> 0]
    /\ seen = [u \in Users |-> {}]
    /\ adapter = [u \in Users |-> 0]
    /\ refCounts = [a \in Adapters |-> 0]
    /\ drivers = Before
    /\ byTapctl = {}
    /\ present = DOMAIN Before

----------------------------------------------------------------------------
Goto(u, state) == pc' = [pc EXCEPT ![u] = state]

(* A call of a careful application waits until the others have returned.   *)
MayCall == overlap \/ \A u \in Users : pc[u] \in Ended

(* tapctl fails with error 740 only without administrator rights, and for  *)
(* other reasons if the environment may cause that.                        *)
MayFail(command) == command \in Faults

----------------------------------------------------------------------------
\* ensure()

EnsureCall(u) ==
    /\ MayCall
    /\ pc[u] = "idle"
    /\ Goto(u, "list")
    /\ UNCHANGED <<configVars, tried, seen, adapter, refCounts, systemVars>>

(* `tapctl list`.  Error 740 is treated as an empty list. *)
TapctlList(u) ==
    /\ pc[u] = "list"
    /\ \/ /\ Goto(u, "listed")
          /\ \/ seen' = [seen EXCEPT ![u] = present]
             \/ seen' = [seen EXCEPT ![u] = {}] /\ ~elevated
       \/ /\ MayFail("list")
          /\ Goto(u, "failed")
          /\ UNCHANGED seen
    /\ UNCHANGED <<configVars, tried, adapter, refCounts, systemVars>>

Matches(u) == {a \in seen[u] : wish[u] # "auto" => drivers[a] = wish[u]}

(* The drivers create() is tried with. *)
CandidatesOf(u) == IF wish[u] = "auto" THEN Candidates ELSE <<wish[u]>>

CountedOnce(a) == [refCounts EXCEPT ![a] = 1]

(* One user more for an adapter that was found. *)
Counted(a) == [refCounts EXCEPT ![a] = @ + 1]

(* The answer of list: the first match is counted and returned, or the     *)
(* first candidate is created.                                             *)
Listed(u) ==
    /\ pc[u] = "listed"
    /\ \/ \E a \in Matches(u) :
             /\ refCounts' = Counted(a)
             /\ adapter' = [adapter EXCEPT ![u] = a]
             /\ Goto(u, "holding")
             /\ UNCHANGED tried
       \/ /\ Matches(u) = {}
          /\ tried' = [tried EXCEPT ![u] = 1]
          /\ Goto(u, "create")
          /\ UNCHANGED <<refCounts, adapter>>
    /\ UNCHANGED <<configVars, seen, systemVars>>

(* `tapctl create --hwid` for the current candidate. *)
TapctlCreate(u) ==
    /\ pc[u] = "create"
    /\ \/ /\ elevated
          /\ Len(drivers) < MaxAdapters
          /\ drivers' = Append(drivers, CandidatesOf(u)[tried[u]])
          /\ byTapctl' = byTapctl \cup {Len(drivers')}
          /\ present' = present \cup {Len(drivers')}
          /\ seen' = [seen EXCEPT ![u] = {Len(drivers')}]
          /\ Goto(u, "created")
       \/ /\ \/ ~elevated /\ Goto(u, "service")
             \/ MayFail("create") /\ Goto(u, "refused")
          /\ UNCHANGED <<seen, systemVars>>
    /\ UNCHANGED <<configVars, tried, adapter, refCounts>>

Created(u) ==
    /\ pc[u] = "created"
    /\ \E a \in seen[u] :
          /\ refCounts' = CountedOnce(a)
          /\ adapter' = [adapter EXCEPT ![u] = a]
    /\ Goto(u, "holding")
    /\ UNCHANGED <<configVars, tried, seen, systemVars>>

CreateTriedAgain(u) ==
    /\ pc[u] = "refused"
    /\ Goto(u, "create")
    /\ UNCHANGED <<configVars, tried, seen, adapter, refCounts, systemVars>>

(* create() failed, not for want of rights: the next candidate, if any. *)
CreateRefused(u) ==
    /\ pc[u] = "refused"
    /\ \/ /\ tried[u] < Len(CandidatesOf(u))
          /\ tried' = [tried EXCEPT ![u] = @ + 1]
          /\ Goto(u, "create")
       \/ /\ tried[u] = Len(CandidatesOf(u))
          /\ Goto(u, "failed")
          /\ UNCHANGED tried
    /\ UNCHANGED <<configVars, seen, adapter, refCounts, systemVars>>

(* ensureViaService(): the interactive service makes an adapter, but does  *)
(* not tell which; the caller gets an empty GUID and has nothing to        *)
(* release.  Or it refuses, or does not answer in time.                    *)
ServiceAnswers(u) ==
    /\ pc[u] = "service"
    /\ \/ /\ Len(drivers) < MaxAdapters
          /\ drivers' = Append(drivers, CandidatesOf(u)[tried[u]])
          /\ present' = present \cup {Len(drivers')}
          /\ Goto(u, "viaService")
       \/ /\ MayFail("service")
          /\ Goto(u, "failed")
          /\ UNCHANGED <<drivers, present>>
    /\ UNCHANGED <<configVars, tried, seen, adapter, refCounts, byTapctl>>

----------------------------------------------------------------------------
\* release()

StillUsedByTwo(a) == refCounts[a] > 2
StillUsedByOne(a) == refCounts[a] > 0
StillUsedUnlessOne(a) == refCounts[a] # 1

(* Other users keep the adapter. *)
StillUsed(a) == refCounts[a] > 1

(* The entry is dropped before the delete that may fail. *)
Release(u) ==
    /\ MayCall
    /\ pc[u] = "holding"
    /\ \/ /\ StillUsed(adapter[u])
          /\ refCounts' = [refCounts EXCEPT ![adapter[u]] = @ - 1]
          /\ Goto(u, "released")
       \/ /\ ~StillUsed(adapter[u])
          /\ refCounts' = [refCounts EXCEPT ![adapter[u]] = 0]
          /\ Goto(u, "delete")
    /\ UNCHANGED <<configVars, tried, seen, adapter, systemVars>>

(* `tapctl delete`. *)
TapctlDelete(u) ==
    /\ pc[u] = "delete"
    /\ \/ /\ elevated /\ adapter[u] \in present
          /\ present' = present \ {adapter[u]}
          /\ Goto(u, "released")
       \/ /\ ~elevated \/ adapter[u] \notin present \/ MayFail("delete")
          /\ Goto(u, "failed")
          /\ UNCHANGED present
    /\ UNCHANGED <<configVars, tried, seen, adapter, refCounts, drivers, byTapctl>>

----------------------------------------------------------------------------
CallStep(u) ==
    \/ TapctlList(u) \/ Listed(u) \/ TapctlCreate(u) \/ Created(u) \/ CreateRefused(u)
    \/ ServiceAnswers(u) \/ TapctlDelete(u)

Next == \E u \in Users : EnsureCall(u) \/ Release(u) \/ CallStep(u)

Spec == Init /\ [][Next]_vars

(* tapctl ends, the service answers or its timer fires, and the promise    *)
(* continuations run.                                                      *)
Fairness == \A u \in Users : WF_vars(CallStep(u))

FairSpec == Spec /\ Fairness

----------------------------------------------------------------------------
\* Properties

Holders(a) == {u \in Users : pc[u] = "holding" /\ adapter[u] = a}

(* refCounts never counts more users than hold the adapter, or the last    *)
(* release would not delete it, and counts all of them when calls do not   *)
(* overlap.                                                                *)
CountMatchesHolders ==
    \A a \in Adapters :
        /\ refCounts[a] <= Cardinality(Holders(a))
        /\ ~overlap => refCounts[a] = Cardinality(Holders(a))

(* "Ref-counted release/delete" (README.md:215): no adapter goes while a   *)
(* user has it.                                                            *)
HeldAdapterPresent ==
    \A a \in Adapters : Holders(a) # {} => a \in present

(* A user has an adapter with the driver asked for, whichever way through  *)
(* list, the candidates and their failures it came by it; and when calls   *)
(* do not overlap no release of another user takes the adapter away.       *)
HeldAdapterFits ==
    /\ \A u \in Users : pc[u] = "holding" => wish[u] \in {"auto", drivers[adapter[u]]}
    /\ ~overlap => HeldAdapterPresent

(* An adapter made by `tapctl create` has an owner who is going to delete  *)
(* it, a user or a call that has not returned yet, unless a delete of it   *)
(* failed; this holds however calls overlap.                               *)
NothingLeaks ==
    \A a \in byTapctl \cap present :
        \E u \in Users :
            \/ pc[u] \in {"holding", "delete", "failed"} /\ adapter[u] = a
            \/ pc[u] = "created" /\ seen[u] = {a}

(* Every ensure() and release() settles, whichever candidates and fallbacks *)
(* it has to go through.                                                    *)
CallsSettle == \A u \in Users : pc[u] \in Waiting ~> pc[u] \in Ended
=============================================================================
