------------------------- MODULE AdapterManagerProofs -------------------------
(***************************************************************************)
(* Theorems about AdapterManager, for every finite set of users, every     *)
(* list of drivers, every set of adapters at the start and every fault,    *)
(* with calls that overlap or not.                                         *)
(***************************************************************************)
EXTENDS AdapterManager, FiniteSetTheorems, TLAPS

----------------------------------------------------------------------------
\* The inductive invariant

(* Every adapter a call refers to was made. *)
Indexed ==
    /\ Len(drivers) <= MaxAdapters
    /\ \A u \in Users :
          /\ seen[u] \subseteq DOMAIN drivers
          /\ adapter[u] \in DOMAIN drivers \cup {0}
          /\ pc[u] \in {"holding", "delete"} => adapter[u] # 0

(* A call that creates an adapter has a candidate to create it with. *)
Trying ==
    \A u \in Users : pc[u] \in {"create", "refused", "service"} =>
        tried[u] \in DOMAIN CandidatesOf(u)

(* The answer of a successful create names one adapter with the right driver. *)
Making ==
    \A u \in Users : pc[u] = "created" =>
        \E a \in byTapctl : seen[u] = {a} /\ wish[u] \in {"auto", drivers[a]}

Shape == TypeOK /\ Indexed /\ Trying /\ Making

(* When calls do not overlap one call is under way at a time: what tapctl  *)
(* told it is still so, and nobody holds the adapter it made or deletes.   *)
Alone(u) ==
    /\ pc[u] \in Waiting => \A v \in Users : pc[v] \in Waiting => v = u
    /\ pc[u] \in {"listed", "created"} => seen[u] \subseteq present
    /\ pc[u] = "created" => \A a \in seen[u] : Holders(a) = {}
    /\ pc[u] = "delete" => Holders(adapter[u]) = {}

Serial == ~overlap => \A u \in Users : Alone(u)

IInv == Shape /\ Serial /\ CountMatchesHolders /\ HeldAdapterFits /\ NothingLeaks

Step(u) == EnsureCall(u) \/ Release(u) \/ CallStep(u)

----------------------------------------------------------------------------
\* Candidates

LEMMA CandidatesType ==
    ASSUME TypeOK, NEW u \in Users
    PROVE  /\ CandidatesOf(u) \in Seq(Drivers)
           /\ Len(CandidatesOf(u)) >= 1
           /\ Len(CandidatesOf(u)) <= Len(Candidates)
<1>1. Candidates \in Seq(Drivers) /\ Len(Candidates) >= 1
  BY CandidatesAssumption DEF Drivers
<1>2. wish[u] \in Drivers \cup {"auto"}
  BY CandidatesAssumption DEF TypeOK
<1>3. CASE wish[u] = "auto"
  BY <1>1, <1>3 DEF CandidatesOf
<1>4. CASE wish[u] # "auto"
  BY <1>1, <1>2, <1>4 DEF CandidatesOf
<1> QED
  BY <1>3, <1>4

(* The driver of a new adapter is the one asked for. *)
LEMMA CandidateFits ==
    ASSUME TypeOK, NEW u \in Users, NEW i \in DOMAIN CandidatesOf(u)
    PROVE  /\ CandidatesOf(u)[i] \in Drivers
           /\ wish[u] \in {"auto", CandidatesOf(u)[i]}
           /\ i \in 0 .. Len(Candidates)
<1>1. CandidatesOf(u)[i] \in Drivers /\ i \in 0 .. Len(Candidates)
  BY CandidatesType, CandidatesAssumption
<1>2. wish[u] \in {"auto", CandidatesOf(u)[i]}
  BY DEF CandidatesOf
<1> QED
  BY <1>1, <1>2

----------------------------------------------------------------------------
\* How the steps change the holders of an adapter

LEMMA HoldersFinite ==
    ASSUME NEW a
    PROVE  /\ IsFiniteSet(Holders(a))
           /\ Cardinality(Holders(a)) \in Nat
           /\ Holders(a) = {} => Cardinality(Holders(a)) = 0
           /\ Holders(a) # {} => Cardinality(Holders(a)) >= 1
<1>1. IsFiniteSet(Holders(a))
  BY UsersAssumption, FS_Subset DEF Holders
<1> QED
  BY <1>1, FS_CardinalityType, FS_EmptySet

LEMMA HoldersKept ==
    ASSUME TypeOK, NEW u \in Users, pc[u] # "holding", NEW s, s # "holding",
           Goto(u, s), UNCHANGED adapter, NEW a
    PROVE  Holders(a)' = Holders(a)
BY DEF Holders, Goto, TypeOK

LEMMA HoldersGrow ==
    ASSUME TypeOK, NEW u \in Users, pc[u] # "holding", Goto(u, "holding"),
           NEW a, adapter' = [adapter EXCEPT ![u] = a]
    PROVE  /\ Holders(a)' = Holders(a) \cup {u}
           /\ Cardinality(Holders(a))' = Cardinality(Holders(a)) + 1
           /\ \A b : b # a => Holders(b)' = Holders(b)
<1>1. Holders(a)' = Holders(a) \cup {u}
  BY DEF Holders, Goto, TypeOK
<1>2. u \notin Holders(a)
  BY DEF Holders
<1>3. Cardinality(Holders(a) \cup {u}) = Cardinality(Holders(a)) + 1
  BY <1>2, HoldersFinite, FS_AddElement
<1>4. \A b : b # a => Holders(b)' = Holders(b)
  BY DEF Holders, Goto, TypeOK
<1> QED
  BY <1>1, <1>3, <1>4

LEMMA HoldersShrink ==
    ASSUME TypeOK, NEW u \in Users, pc[u] = "holding", NEW s, s # "holding",
           Goto(u, s), UNCHANGED adapter
    PROVE  /\ Holders(adapter[u])' = Holders(adapter[u]) \ {u}
           /\ Cardinality(Holders(adapter[u]))' = Cardinality(Holders(adapter[u])) - 1
           /\ \A b : b # adapter[u] => Holders(b)' = Holders(b)
<1> DEFINE a == adapter[u]
<1>1. Holders(a)' = Holders(a) \ {u}
  BY DEF Holders, Goto, TypeOK
<1>2. u \in Holders(a)
  BY DEF Holders
<1>3. Cardinality(Holders(a) \ {u}) = Cardinality(Holders(a)) - 1
  BY <1>2, HoldersFinite, FS_RemoveElement
<1>4. \A b : b # a => Holders(b)' = Holders(b)
  BY DEF Holders, Goto, TypeOK
<1> QED
  BY <1>1, <1>3, <1>4

----------------------------------------------------------------------------
\* Types and shape

LEMMA AdapterMade ==
    ASSUME Shape, NEW d \in Drivers, Len(drivers) < MaxAdapters,
           drivers' = Append(drivers, d)
    PROVE  /\ drivers' \in Seq(Drivers)
           /\ Len(drivers') = Len(drivers) + 1
           /\ Len(drivers') <= MaxAdapters
           /\ DOMAIN drivers' = DOMAIN drivers \cup {Len(drivers')}
           /\ DOMAIN drivers' \subseteq Adapters
           /\ Len(drivers') \notin DOMAIN drivers
           /\ drivers'[Len(drivers')] = d
           /\ \A a \in DOMAIN drivers : drivers'[a] = drivers[a]
BY BoundsAssumption DEF Shape, TypeOK, Indexed, Adapters

LEMMA TypeStep ==
    ASSUME Shape, NEW u \in Users, Step(u)
    PROVE  TypeOK' /\ Indexed'
<1> USE DEF Shape, TypeOK, Indexed, Goto, configVars, systemVars
<1>1. DOMAIN drivers \subseteq Adapters
  BY BoundsAssumption DEF Adapters
<1>2. CASE EnsureCall(u)
  BY <1>2 DEF EnsureCall, Waiting
<1>3. CASE Release(u)
  <2>1. adapter[u] \in Adapters /\ refCounts[adapter[u]] \in Nat
    BY <1>1, <1>3 DEF Release, Adapters
  <2>2. refCounts' \in [Adapters -> Nat]
    <3>1. StillUsed(adapter[u]) => refCounts[adapter[u]] - 1 \in Nat
      BY <2>1 DEF StillUsed
    <3> QED
      BY <1>3, <2>1, <3>1, 0 \in Nat DEF Release
  <2>3. /\ pc' \in [Users -> Waiting \cup Ended]
        /\ \A v \in Users : pc'[v] \in {"holding", "delete"} => adapter[v] # 0
    BY <1>3 DEF Release, Waiting, Ended
  <2> QED
    BY <1>3, <2>2, <2>3 DEF Release
<1>4. CASE TapctlList(u)
  BY <1>1, <1>4 DEF TapctlList, Waiting, Ended
<1>5. CASE Listed(u)
  <2>1. CASE \E a \in Matches(u) : /\ refCounts' = Counted(a)
                                   /\ adapter' = [adapter EXCEPT ![u] = a]
                                   /\ Goto(u, "holding")
                                   /\ UNCHANGED tried
    <3>1. PICK a \in Matches(u) : /\ refCounts' = Counted(a)
                                  /\ adapter' = [adapter EXCEPT ![u] = a]
      BY <2>1
    <3>2. a \in DOMAIN drivers /\ a \in Adapters /\ a # 0
      BY <1>1 DEF Matches, Adapters
    <3>3. refCounts' \in [Adapters -> Nat]
      BY <3>1, <3>2 DEF Counted
    <3> QED
      BY <1>5, <2>1, <3>1, <3>2, <3>3 DEF Listed, Ended
  <2>2. CASE /\ tried' = [tried EXCEPT ![u] = 1]
             /\ Goto(u, "create")
             /\ UNCHANGED <<refCounts, adapter>>
    <3>1. 1 \in 0 .. Len(Candidates)
      BY CandidatesAssumption
    <3> QED
      BY <1>5, <2>2, <3>1 DEF Listed, Waiting
  <2> QED
    BY <1>5, <2>1, <2>2 DEF Listed
<1>6. CASE TapctlCreate(u)
  <2>1. CASE /\ Len(drivers) < MaxAdapters
             /\ drivers' = Append(drivers, CandidatesOf(u)[tried[u]])
             /\ byTapctl' = byTapctl \cup {Len(drivers')}
             /\ present' = present \cup {Len(drivers')}
             /\ seen' = [seen EXCEPT ![u] = {Len(drivers')}]
             /\ Goto(u, "created")
    <3>1. CandidatesOf(u)[tried[u]] \in Drivers
      BY <1>6, CandidateFits DEF TapctlCreate, Trying
    <3>2. /\ drivers' \in Seq(Drivers) /\ Len(drivers') <= MaxAdapters
          /\ DOMAIN drivers' = DOMAIN drivers \cup {Len(drivers')}
          /\ DOMAIN drivers' \subseteq Adapters
      BY <2>1, <3>1, AdapterMade
    <3>3. seen' \in [Users -> SUBSET Adapters]
      BY <1>1, <2>1, <3>2
    <3>4. \A v \in Users : seen'[v] \subseteq DOMAIN drivers'
      BY <2>1, <3>2
    <3> QED
      BY <1>6, <2>1, <3>2, <3>3, <3>4 DEF TapctlCreate, Waiting
  <2>2. CASE (Goto(u, "service") \/ Goto(u, "refused")) /\ UNCHANGED <<seen, systemVars>>
    BY <1>6, <2>2 DEF TapctlCreate, Waiting
  <2> QED
    BY <1>6, <2>1, <2>2 DEF TapctlCreate
<1>7. CASE Created(u)
  <2>1. PICK a \in seen[u] : /\ refCounts' = CountedOnce(a)
                             /\ adapter' = [adapter EXCEPT ![u] = a]
    BY <1>7 DEF Created
  <2>2. a \in DOMAIN drivers /\ a \in Adapters /\ a # 0
    BY <1>1 DEF Adapters
  <2> QED
    BY <1>7, <2>1, <2>2 DEF Created, CountedOnce, Ended
<1>8. CASE CreateRefused(u)
  <2>1. tried[u] < Len(CandidatesOf(u)) => tried[u] + 1 \in 0 .. Len(Candidates)
    BY CandidatesType, CandidatesAssumption
  <2> QED
    BY <1>8, <2>1 DEF CreateRefused, Waiting, Ended
<1>9. CASE ServiceAnswers(u)
  <2>1. CASE Len(drivers) < MaxAdapters /\ Goto(u, "viaService")
    <3>1. CandidatesOf(u)[tried[u]] \in Drivers
      BY <1>9, CandidateFits DEF ServiceAnswers, Trying
    <3> QED
      BY <1>1, <1>9, <2>1, <3>1, AdapterMade DEF ServiceAnswers, Ended
  <2>2. CASE UNCHANGED <<drivers, present>>
    BY <1>9, <2>2 DEF ServiceAnswers, Ended
  <2> QED
    BY <1>9, <2>1, <2>2 DEF ServiceAnswers
<1>10. CASE TapctlDelete(u)
  BY <1>10 DEF TapctlDelete, Ended
<1> QED
  BY <1>2, <1>3, <1>4, <1>5, <1>6, <1>7, <1>8, <1>9, <1>10 DEF Step, CallStep

(* A step concerns the call of one user. *)
LEMMA OthersKept ==
    ASSUME TypeOK, NEW u \in Users, Step(u), NEW v \in Users, v # u
    PROVE  /\ pc'[v] = pc[v] /\ tried'[v] = tried[v]
           /\ seen'[v] = seen[v] /\ adapter'[v] = adapter[v]
<1> USE DEF TypeOK, Goto
<1>1. CASE EnsureCall(u) \/ Release(u) \/ CreateRefused(u) \/ ServiceAnswers(u)
  BY <1>1 DEF EnsureCall, Release, CreateRefused, ServiceAnswers
<1>2. CASE TapctlList(u) \/ TapctlDelete(u) \/ TapctlCreate(u)
  BY <1>2 DEF TapctlList, TapctlDelete, TapctlCreate
<1>3. CASE Listed(u) \/ Created(u)
  BY <1>3 DEF Listed, Created
<1> QED
  BY <1>1, <1>2, <1>3 DEF Step, CallStep

LEMMA ConfigKept ==
    ASSUME NEW u \in Users, Step(u)
    PROVE  /\ UNCHANGED <<overlap, elevated, wish>>
           /\ \A v \in Users : CandidatesOf(v)' = CandidatesOf(v)
<1>1. UNCHANGED <<overlap, elevated, wish>>
  BY DEF Step, CallStep, EnsureCall, Release, TapctlList, Listed, TapctlCreate, Created,
         CreateRefused, ServiceAnswers, TapctlDelete, configVars
<1> QED
  BY <1>1 DEF CandidatesOf

(* Adapters are only added to those made, and keep their drivers. *)
LEMMA AdaptersKept ==
    ASSUME Shape, NEW u \in Users, Step(u)
    PROVE  /\ byTapctl \subseteq byTapctl'
           /\ \A a \in DOMAIN drivers : drivers'[a] = drivers[a]
<1>1. CASE TapctlCreate(u)
  <2>1. CandidatesOf(u)[tried[u]] \in Drivers
    BY <1>1, CandidateFits DEF TapctlCreate, Shape, Trying
  <2> QED
    BY <1>1, <2>1, AdapterMade DEF TapctlCreate, systemVars
<1>2. CASE ServiceAnswers(u)
  <2>1. CandidatesOf(u)[tried[u]] \in Drivers
    BY <1>2, CandidateFits DEF ServiceAnswers, Shape, Trying
  <2> QED
    BY <1>2, <2>1, AdapterMade DEF ServiceAnswers
<1> QED
  BY <1>1, <1>2 DEF Step, CallStep, EnsureCall, Release, TapctlList, Listed, Created,
         CreateRefused, TapctlDelete, systemVars

LEMMA TryingStep ==
    ASSUME Shape, NEW u \in Users, Step(u)
    PROVE  Trying'
<1>1. pc'[u] \in {"create", "refused", "service"} => tried'[u] \in DOMAIN CandidatesOf(u)
  <2> USE DEF Shape, TypeOK, Goto
  <2>1. CASE Listed(u)
    BY <2>1, CandidatesType DEF Listed
  <2>2. CASE TapctlCreate(u)
    BY <2>2 DEF TapctlCreate, Trying
  <2>3. CASE CreateRefused(u)
    <3>1. tried[u] \in DOMAIN CandidatesOf(u)
      BY <2>3 DEF CreateRefused, Trying
    <3>2. tried[u] < Len(CandidatesOf(u)) => tried[u] + 1 \in DOMAIN CandidatesOf(u)
      BY <3>1, CandidatesType
    <3> QED
      BY <2>3, <3>2 DEF CreateRefused
  <2>4. CASE EnsureCall(u) \/ Release(u) \/ TapctlList(u)
    BY <2>4 DEF EnsureCall, Release, TapctlList
  <2>5. CASE Created(u) \/ ServiceAnswers(u) \/ TapctlDelete(u)
    BY <2>5 DEF Created, ServiceAnswers, TapctlDelete
  <2> QED
    BY <2>1, <2>2, <2>3, <2>4, <2>5 DEF Step, CallStep
<1> QED
  BY <1>1, OthersKept, ConfigKept DEF Shape, Trying

LEMMA MakingStep ==
    ASSUME Shape, NEW u \in Users, Step(u)
    PROVE  Making'
<1>1. ASSUME pc'[u] = "created"
      PROVE  \E a \in byTapctl' : seen'[u] = {a} /\ wish'[u] \in {"auto", drivers'[a]}
  <2>1. /\ TapctlCreate(u)
        /\ Len(drivers) < MaxAdapters
        /\ drivers' = Append(drivers, CandidatesOf(u)[tried[u]])
        /\ byTapctl' = byTapctl \cup {Len(drivers')}
        /\ seen' = [seen EXCEPT ![u] = {Len(drivers')}]
    <3> USE <1>1 DEF Shape, TypeOK, Goto
    <3>1. CASE EnsureCall(u) \/ Release(u) \/ TapctlList(u) \/ Listed(u)
      BY <3>1 DEF EnsureCall, Release, TapctlList, Listed
    <3>2. CASE Created(u) \/ ServiceAnswers(u) \/ TapctlDelete(u) \/ CreateRefused(u)
      BY <3>2 DEF Created, ServiceAnswers, TapctlDelete, CreateRefused
    <3>3. CASE TapctlCreate(u)
      BY <3>3 DEF TapctlCreate
    <3> QED
      BY <3>1, <3>2, <3>3 DEF Step, CallStep
  <2>2. /\ CandidatesOf(u)[tried[u]] \in Drivers
        /\ wish[u] \in {"auto", CandidatesOf(u)[tried[u]]}
    BY <2>1, CandidateFits DEF TapctlCreate, Shape, Trying
  <2>3. drivers'[Len(drivers')] = CandidatesOf(u)[tried[u]]
    BY <2>1, <2>2, AdapterMade
  <2>4. seen'[u] = {Len(drivers')}
    BY <2>1 DEF Shape, TypeOK
  <2> QED
    BY <2>1, <2>2, <2>3, <2>4, ConfigKept
<1>2. ASSUME NEW v \in Users, v # u, pc'[v] = "created"
      PROVE  \E a \in byTapctl' : seen'[v] = {a} /\ wish'[v] \in {"auto", drivers'[a]}
  <2>1. PICK a \in byTapctl : seen[v] = {a} /\ wish[v] \in {"auto", drivers[a]}
    BY <1>2, OthersKept DEF Shape, Making
  <2>2. a \in byTapctl' /\ drivers'[a] = drivers[a]
    BY AdaptersKept DEF Shape, TypeOK
  <2> QED
    BY <1>2, <2>1, <2>2, OthersKept, ConfigKept DEF Shape
<1> QED
  BY <1>1, <1>2 DEF Making

LEMMA ShapeInit == Init => Shape
<1>1. ASSUME Init PROVE TypeOK
  <2>1. DOMAIN Before \subseteq Adapters
    BY BoundsAssumption DEF Adapters
  <2> QED
    BY <1>1, <2>1, BoundsAssumption, OptionsAssumption DEF Init, TypeOK, Ended
<1>2. ASSUME Init PROVE Indexed
  BY <1>2, BoundsAssumption DEF Init, Indexed
<1> QED
  BY <1>1, <1>2 DEF Shape, Init, Trying, Making

LEMMA ShapeStep ==
    ASSUME Shape, [Next]_vars
    PROVE  Shape'
<1>1. CASE UNCHANGED vars
  BY <1>1 DEF Shape, TypeOK, Indexed, Trying, Making, CandidatesOf, vars, configVars, systemVars
<1>2. ASSUME NEW u \in Users, Step(u)
      PROVE  Shape'
  BY <1>2, TypeStep, TryingStep, MakingStep DEF Shape
<1> QED
  BY <1>1, <1>2 DEF Next, Step

(* The manager's counts, the calls and the adapters they refer to are well *)
(* typed, whatever the calls and their failures.                           *)
THEOREM TypeCorrect == Spec => []TypeOK
<1>1. Spec => []Shape
  BY ShapeInit, ShapeStep, PTL DEF Spec
<1>2. Shape => TypeOK
  BY DEF Shape
<1> QED
  BY <1>1, <1>2, PTL

----------------------------------------------------------------------------
\* Counts

Quiet(u) ==
    \/ EnsureCall(u) \/ TapctlList(u) \/ TapctlCreate(u) \/ CreateRefused(u)
    \/ ServiceAnswers(u) \/ TapctlDelete(u)

LEMMA QuietStep ==
    ASSUME TypeOK, NEW u \in Users, Quiet(u)
    PROVE  refCounts' = refCounts /\ \A a : Holders(a)' = Holders(a)
<1>1. /\ pc[u] # "holding"
      /\ UNCHANGED <<refCounts, adapter>>
      /\ \E s \in (Waiting \cup Ended) \ {"holding"} : Goto(u, s)
  BY DEF Quiet, EnsureCall, TapctlList, TapctlCreate, CreateRefused, ServiceAnswers,
         TapctlDelete, Waiting, Ended
<1> QED
  BY <1>1, HoldersKept

LEMMA CountStep ==
    ASSUME IInv, NEW u \in Users, Step(u)
    PROVE  CountMatchesHolders'
<1>1. CASE Quiet(u)
  <2>1. \A a : Cardinality(Holders(a))' = Cardinality(Holders(a))
    BY <1>1, QuietStep DEF IInv, Shape
  <2> QED
    BY <1>1, <2>1, QuietStep, ConfigKept DEF IInv, Shape, CountMatchesHolders
<1>2. CASE Release(u)
  <2>0. PICK a : a = adapter[u]
    OBVIOUS
  <2>1. /\ pc[u] = "holding" /\ a \in Adapters
        /\ Cardinality(Holders(a))' = Cardinality(Holders(a)) - 1
        /\ \A b : b # a => Cardinality(Holders(b))' = Cardinality(Holders(b))
    <3>1. pc[u] = "holding" /\ adapter' = adapter /\ (Goto(u, "released") \/ Goto(u, "delete"))
      BY <1>2 DEF Release
    <3>2. a \in Adapters
      BY <2>0, <3>1 DEF IInv, Shape, TypeOK, Indexed
    <3> QED
      BY <2>0, <3>1, <3>2, HoldersShrink DEF IInv, Shape
  <2>2. Cardinality(Holders(a)) \in Nat /\ Cardinality(Holders(a)) >= 1
    BY <2>0, <2>1, HoldersFinite DEF Holders
  <2>3. \A b \in Adapters : b # a => refCounts'[b] = refCounts[b]
    BY <1>2, <2>0, <2>1 DEF Release, IInv, Shape, TypeOK
  <2>4. refCounts'[a] = IF refCounts[a] > 1 THEN refCounts[a] - 1 ELSE 0
    BY <1>2, <2>0, <2>1 DEF Release, StillUsed, IInv, Shape, TypeOK
  <2>5. refCounts[a] \in Nat /\ refCounts[a] <= Cardinality(Holders(a))
        /\ (~overlap => refCounts[a] = Cardinality(Holders(a)))
    BY <2>1 DEF IInv, Shape, TypeOK, CountMatchesHolders
  <2>6. refCounts'[a] <= Cardinality(Holders(a))'
        /\ (~overlap => refCounts'[a] = Cardinality(Holders(a))')
    BY <2>1, <2>2, <2>4, <2>5
  <2> QED
    BY <2>1, <2>3, <2>6, ConfigKept DEF IInv, CountMatchesHolders
<1>3. CASE Listed(u)
  <2>1. CASE UNCHANGED <<refCounts, adapter>> /\ Goto(u, "create")
    <3>1. \A a : Holders(a)' = Holders(a)
      BY <1>3, <2>1, HoldersKept DEF Listed, IInv, Shape
    <3>2. \A a : Cardinality(Holders(a))' = Cardinality(Holders(a))
      BY <3>1
    <3> QED
      BY <2>1, <3>2, ConfigKept DEF IInv, CountMatchesHolders
  <2>2. ASSUME NEW a \in Matches(u), refCounts' = Counted(a),
               adapter' = [adapter EXCEPT ![u] = a], Goto(u, "holding")
        PROVE  CountMatchesHolders'
    <3>1. a \in Adapters
      BY DEF Matches, IInv, Shape, TypeOK
    <3>2. /\ Cardinality(Holders(a))' = Cardinality(Holders(a)) + 1
          /\ \A b : b # a => Cardinality(Holders(b))' = Cardinality(Holders(b))
      BY <1>3, <2>2, HoldersGrow DEF Listed, IInv, Shape
    <3>3. /\ refCounts'[a] = refCounts[a] + 1
          /\ \A b \in Adapters : b # a => refCounts'[b] = refCounts[b]
      BY <2>2, <3>1 DEF Counted, IInv, Shape, TypeOK
    <3>4. refCounts[a] \in Nat /\ Cardinality(Holders(a)) \in Nat
      BY <3>1, HoldersFinite DEF IInv, Shape, TypeOK
    <3> QED
      BY <3>1, <3>2, <3>3, <3>4, ConfigKept DEF IInv, CountMatchesHolders
  <2> QED
    BY <1>3, <2>1, <2>2 DEF Listed
<1>4. CASE Created(u)
  <2>1. PICK a \in seen[u] : /\ refCounts' = CountedOnce(a)
                             /\ adapter' = [adapter EXCEPT ![u] = a]
    BY <1>4 DEF Created
  <2>2. a \in Adapters
    BY DEF IInv, Shape, TypeOK
  <2>3. /\ Cardinality(Holders(a))' = Cardinality(Holders(a)) + 1
        /\ \A b : b # a => Cardinality(Holders(b))' = Cardinality(Holders(b))
    BY <1>4, <2>1, HoldersGrow DEF Created, IInv, Shape
  <2>4. /\ refCounts'[a] = 1
        /\ \A b \in Adapters : b # a => refCounts'[b] = refCounts[b]
    BY <2>1, <2>2 DEF CountedOnce, IInv, Shape, TypeOK
  <2>5. /\ Cardinality(Holders(a)) \in Nat
        /\ ~overlap => Cardinality(Holders(a)) = 0
    BY <1>4, HoldersFinite DEF Created, IInv, Serial, Alone
  <2> QED
    BY <2>2, <2>3, <2>4, <2>5, ConfigKept DEF IInv, CountMatchesHolders
<1> QED
  BY <1>1, <1>2, <1>3, <1>4 DEF Quiet, Step, CallStep

----------------------------------------------------------------------------
\* One call at a time

(* When calls do not overlap, every call but the one of the step has ended. *)
LEMMA OthersEnded ==
    ASSUME IInv, ~overlap, NEW u \in Users, Step(u), NEW v \in Users, v # u
    PROVE  pc[v] \notin Waiting /\ pc'[v] = pc[v]
<1>1. pc[v] \notin Waiting
  <2>1. CASE EnsureCall(u) \/ Release(u)
    BY <2>1 DEF EnsureCall, Release, MayCall, Ended, Waiting
  <2>2. CASE CallStep(u)
    <3>1. pc[u] \in Waiting
      BY <2>2 DEF CallStep, TapctlList, Listed, TapctlCreate, Created, CreateRefused,
             ServiceAnswers, TapctlDelete, Waiting
    <3> QED
      BY <3>1 DEF IInv, Serial, Alone
  <2> QED
    BY <2>1, <2>2 DEF Step
<1> QED
  BY <1>1, OthersKept DEF IInv, Shape

LEMMA NewAdapterUnheld ==
    ASSUME Shape, NEW a, a \notin DOMAIN drivers, a # 0
    PROVE  Holders(a) = {}
BY DEF Shape, Indexed, Holders

LEMMA LastHolder ==
    ASSUME NEW a, NEW u \in Holders(a), Cardinality(Holders(a)) <= 1
    PROVE  Holders(a) \ {u} = {}
<1>1. /\ IsFiniteSet(Holders(a) \ {u})
      /\ Cardinality(Holders(a) \ {u}) = Cardinality(Holders(a)) - 1
  BY HoldersFinite, FS_RemoveElement
<1>2. Cardinality(Holders(a)) \in Nat /\ Cardinality(Holders(a)) >= 1
  BY HoldersFinite
<1> QED
  BY <1>1, <1>2, FS_EmptySet

(* The two ways a create call can find tapctl's answer ready. *)
LEMMA CreatedBy ==
    ASSUME Shape, NEW u \in Users, Step(u), pc'[u] = "created"
    PROVE  /\ TapctlCreate(u)
           /\ drivers' = Append(drivers, CandidatesOf(u)[tried[u]])
           /\ byTapctl' = byTapctl \cup {Len(drivers) + 1}
           /\ present' = present \cup {Len(drivers) + 1}
           /\ seen'[u] = {Len(drivers) + 1}
           /\ Len(drivers) + 1 \notin DOMAIN drivers /\ Len(drivers) + 1 # 0
<1> USE DEF Shape, TypeOK, Goto
<1>1. TapctlCreate(u)
  <2>1. CASE EnsureCall(u) \/ Release(u) \/ TapctlList(u) \/ Listed(u)
    BY <2>1 DEF EnsureCall, Release, TapctlList, Listed
  <2>2. CASE Created(u) \/ ServiceAnswers(u) \/ TapctlDelete(u) \/ CreateRefused(u)
    BY <2>2 DEF Created, ServiceAnswers, TapctlDelete, CreateRefused
  <2> QED
    BY <2>1, <2>2 DEF Step, CallStep
<1>2. /\ Len(drivers) < MaxAdapters
      /\ drivers' = Append(drivers, CandidatesOf(u)[tried[u]])
      /\ byTapctl' = byTapctl \cup {Len(drivers')}
      /\ present' = present \cup {Len(drivers')}
      /\ seen' = [seen EXCEPT ![u] = {Len(drivers')}]
  BY <1>1 DEF TapctlCreate
<1>3. Len(drivers') = Len(drivers) + 1
  BY <1>1, <1>2, CandidateFits, AdapterMade DEF TapctlCreate, Trying
<1> QED
  BY <1>1, <1>2, <1>3

LEMMA SerialStep ==
    ASSUME IInv, NEW u \in Users, Step(u)
    PROVE  Serial'
<1> SUFFICES ASSUME ~overlap
             PROVE  \A v \in Users : Alone(v)'
  BY ConfigKept DEF Serial
<1>1. \A v \in Users : v # u => pc'[v] \notin Waiting
  BY OthersEnded
<1>2. \A v \in Users : v # u => Alone(v)'
  BY <1>1 DEF Alone, Waiting
<1>3. pc'[u] \in Waiting => \A v \in Users : pc'[v] \in Waiting => v = u
  BY <1>1
<1>4. pc'[u] = "listed" => seen'[u] \subseteq present'
  <2> USE DEF IInv, Shape, TypeOK, Goto
  <2>1. CASE TapctlList(u)
    BY <2>1 DEF TapctlList, systemVars
  <2>2. CASE EnsureCall(u) \/ Release(u) \/ TapctlCreate(u) \/ Listed(u)
    BY <2>2 DEF EnsureCall, Release, TapctlCreate, Listed
  <2>3. CASE Created(u) \/ ServiceAnswers(u) \/ TapctlDelete(u) \/ CreateRefused(u)
    BY <2>3 DEF Created, ServiceAnswers, TapctlDelete, CreateRefused
  <2> QED
    BY <2>1, <2>2, <2>3 DEF Step, CallStep
<1>5. ASSUME pc'[u] = "created"
      PROVE  seen'[u] \subseteq present' /\ \A a \in seen'[u] : Holders(a)' = {}
  <2>1. /\ TapctlCreate(u)
        /\ seen'[u] = {Len(drivers) + 1} /\ present' = present \cup {Len(drivers) + 1}
        /\ Len(drivers) + 1 \notin DOMAIN drivers /\ Len(drivers) + 1 # 0
    BY <1>5, CreatedBy DEF IInv
  <2>2. \A a : Holders(a)' = Holders(a)
    BY <2>1, QuietStep DEF Quiet, IInv, Shape
  <2>3. Holders(Len(drivers) + 1) = {}
    BY <2>1, NewAdapterUnheld DEF IInv
  <2> QED
    BY <2>1, <2>2, <2>3
<1>6. ASSUME pc'[u] = "delete"
      PROVE  Holders(adapter[u])' = {}
  <2>1. Release(u) /\ ~StillUsed(adapter[u]) /\ Goto(u, "delete")
    <3> USE <1>6 DEF IInv, Shape, TypeOK, Goto
    <3>1. CASE Release(u)
      BY <3>1 DEF Release
    <3>2. CASE EnsureCall(u) \/ TapctlList(u) \/ TapctlCreate(u) \/ Listed(u)
      BY <3>2 DEF EnsureCall, TapctlList, TapctlCreate, Listed
    <3>3. CASE Created(u) \/ ServiceAnswers(u) \/ TapctlDelete(u) \/ CreateRefused(u)
      BY <3>3 DEF Created, ServiceAnswers, TapctlDelete, CreateRefused
    <3> QED
      BY <3>1, <3>2, <3>3 DEF Step, CallStep
  <2>2. pc[u] = "holding" /\ adapter' = adapter /\ adapter[u] \in Adapters
    BY <2>1 DEF Release, IInv, Shape, TypeOK, Indexed
  <2>3. Cardinality(Holders(adapter[u])) <= 1
    <3>1. refCounts[adapter[u]] \in Nat /\ ~(refCounts[adapter[u]] > 1)
      BY <2>1, <2>2 DEF StillUsed, IInv, Shape, TypeOK
    <3> QED
      BY <2>2, <3>1 DEF IInv, CountMatchesHolders
  <2>4. Holders(adapter[u]) \ {u} = {}
    BY <2>2, <2>3, LastHolder DEF Holders
  <2> QED
    BY <2>1, <2>2, <2>4, HoldersShrink DEF IInv, Shape
<1>7. Alone(u)'
  BY <1>3, <1>4, <1>5, <1>6 DEF Alone
<1> QED
  BY <1>2, <1>7

----------------------------------------------------------------------------
\* Adapters in use

LEMMA FitsStep ==
    ASSUME IInv, NEW u \in Users, Step(u)
    PROVE  HeldAdapterFits'
<1>1. ASSUME NEW v \in Users, pc'[v] = "holding"
      PROVE  wish'[v] \in {"auto", drivers'[adapter'[v]]}
  <2>1. CASE v # u
    <3>1. pc[v] = "holding" /\ adapter'[v] = adapter[v] /\ adapter[v] \in DOMAIN drivers
      BY <1>1, <2>1, OthersKept DEF IInv, Shape, Indexed
    <3>2. drivers'[adapter[v]] = drivers[adapter[v]]
      BY <3>1, AdaptersKept DEF IInv
    <3> QED
      BY <3>1, <3>2, ConfigKept DEF IInv, HeldAdapterFits
  <2>2. CASE v = u
    <3>1. CASE Listed(u)
      BY <1>1, <2>2, <3>1 DEF Listed, Matches, IInv, Shape, TypeOK, Goto, configVars, systemVars
    <3>2. CASE Created(u)
      <4>1. \A a \in seen[u] : wish[u] \in {"auto", drivers[a]}
        BY <3>2 DEF Created, IInv, Shape, Making
      <4> QED
        BY <2>2, <3>2, <4>1 DEF Created, IInv, Shape, TypeOK, configVars, systemVars
    <3>3. CASE Quiet(u) \/ Release(u)
      BY <1>1, <2>2, <3>3 DEF Quiet, EnsureCall, TapctlList, TapctlCreate, CreateRefused,
             ServiceAnswers, TapctlDelete, Release, IInv, Shape, TypeOK, Goto
    <3> QED
      BY <3>1, <3>2, <3>3 DEF Quiet, Step, CallStep
  <2> QED
    BY <2>1, <2>2
<1>2. ASSUME ~overlap, NEW a \in Adapters, Holders(a)' # {}
      PROVE  a \in present'
  <2>1. CASE Holders(a) # {}
    <3>1. a \in present
      BY <1>2, <2>1 DEF IInv, HeldAdapterFits, HeldAdapterPresent
    <3>2. CASE TapctlDelete(u)
      <4>1. Holders(adapter[u]) = {}
        BY <1>2, <3>2 DEF TapctlDelete, IInv, Serial, Alone
      <4> QED
        BY <2>1, <3>1, <3>2, <4>1 DEF TapctlDelete
    <3>3. CASE ~TapctlDelete(u)
      BY <3>1, <3>3 DEF Step, CallStep, EnsureCall, Release, TapctlList, Listed,
             TapctlCreate, Created, CreateRefused, ServiceAnswers, systemVars
    <3> QED
      BY <3>2, <3>3
  <2>2. CASE Holders(a) = {}
    <3>1. PICK v \in Users : pc'[v] = "holding" /\ adapter'[v] = a
      BY <1>2 DEF Holders
    <3>2. v = u
      BY <2>2, <3>1, OthersKept DEF IInv, Shape, Holders
    <3>3. ~Quiet(u)
      BY <1>2, <2>2, QuietStep DEF IInv, Shape
    <3>4. ~Release(u)
      BY <2>2, <3>1, <3>2 DEF Release, IInv, Shape, TypeOK, Goto
    <3>5. CASE Listed(u)
      <4>1. seen[u] \subseteq present
        BY <1>2, <3>5 DEF Listed, IInv, Serial, Alone
      <4> QED
        BY <3>1, <3>2, <3>5, <4>1 DEF Listed, Matches, IInv, Shape, TypeOK, Goto, systemVars
    <3>6. CASE Created(u)
      <4>1. seen[u] \subseteq present
        BY <1>2, <3>6 DEF Created, IInv, Serial, Alone
      <4> QED
        BY <3>1, <3>2, <3>6, <4>1 DEF Created, IInv, Shape, TypeOK, systemVars
    <3> QED
      BY <3>3, <3>4, <3>5, <3>6 DEF Quiet, Step, CallStep
  <2> QED
    BY <2>1, <2>2
<1> QED
  BY <1>1, <1>2, ConfigKept DEF HeldAdapterFits, HeldAdapterPresent

----------------------------------------------------------------------------
\* No leak

Owns(u, a) ==
    \/ pc[u] \in {"holding", "delete", "failed"} /\ adapter[u] = a
    \/ pc[u] = "created" /\ seen[u] = {a}

(* An adapter that tapctl made in this step, or that stays: none comes back. *)
LEMMA NewOrPresent ==
    ASSUME Shape, NEW u \in Users, Step(u), NEW a \in byTapctl' \cap present'
    PROVE  a \in byTapctl \cap present \/ (pc'[u] = "created" /\ seen'[u] = {a})
<1>1. CASE TapctlCreate(u)
  <2>1. CASE pc'[u] = "created"
    <3>1. /\ byTapctl' = byTapctl \cup {Len(drivers) + 1}
          /\ present' = present \cup {Len(drivers) + 1}
          /\ seen'[u] = {Len(drivers) + 1}
          /\ Len(drivers) + 1 \notin DOMAIN drivers
      BY <1>1, <2>1, CreatedBy
    <3> QED
      BY <2>1, <3>1 DEF Shape, TypeOK
  <2>2. CASE pc'[u] # "created"
    BY <1>1, <2>2 DEF TapctlCreate, Goto, Shape, TypeOK, systemVars
  <2> QED
    BY <2>1, <2>2
<1>2. CASE ServiceAnswers(u)
  <2>1. byTapctl' = byTapctl /\ present' \subseteq present \cup {Len(drivers) + 1}
    <3>1. CandidatesOf(u)[tried[u]] \in Drivers
      BY <1>2, CandidateFits DEF ServiceAnswers, Shape, Trying
    <3> QED
      BY <1>2, <3>1, AdapterMade DEF ServiceAnswers
  <2>2. Len(drivers) + 1 \notin byTapctl
    BY DEF Shape, TypeOK
  <2> QED
    BY <2>1, <2>2
<1> QED
  BY <1>1, <1>2 DEF Step, CallStep, EnsureCall, Release, TapctlList, Listed, Created,
         CreateRefused, TapctlDelete, systemVars

LEMMA LeaksStep ==
    ASSUME IInv, NEW u \in Users, Step(u)
    PROVE  NothingLeaks'
<1> SUFFICES ASSUME NEW a \in byTapctl' \cap present'
             PROVE  \E v \in Users : Owns(v, a)'
  BY DEF NothingLeaks, Owns
<1>1. CASE pc'[u] = "created" /\ seen'[u] = {a}
  BY <1>1 DEF Owns
<1>2. CASE a \in byTapctl \cap present
  <2>1. PICK v \in Users : Owns(v, a)
    BY <1>2 DEF IInv, NothingLeaks, Owns
  <2>2. CASE v # u
    BY <2>1, <2>2, OthersKept DEF IInv, Shape, Owns
  <2>3. CASE v = u /\ pc[u] = "holding"
    <3>1. Release(u) /\ adapter[u] = a /\ adapter' = adapter
      BY <2>1, <2>3 DEF Owns, Step, CallStep, EnsureCall, Release, TapctlList, Listed,
             TapctlCreate, Created, CreateRefused, ServiceAnswers, TapctlDelete
    <3>2. CASE StillUsed(a)
      <4>1. a \in Adapters /\ u \in Holders(a)
        BY <2>3, <3>1 DEF IInv, Shape, TypeOK, Indexed, Holders
      <4>2. Cardinality(Holders(a)) > 1
        BY <3>2, <4>1, HoldersFinite DEF StillUsed, IInv, Shape, TypeOK, CountMatchesHolders
      <4>3. Cardinality(Holders(a) \ {u}) = Cardinality(Holders(a)) - 1
        BY <4>1, HoldersFinite, FS_RemoveElement
      <4>4. Cardinality(Holders(a) \ {u}) # 0
        BY <4>2, <4>3, HoldersFinite
      <4>5. PICK w \in Users : w # u /\ pc[w] = "holding" /\ adapter[w] = a
        BY <4>4, FS_EmptySet DEF Holders
      <4> QED
        BY <4>5, OthersKept DEF IInv, Shape, Owns
    <3>3. CASE ~StillUsed(a)
      BY <3>1, <3>3 DEF Release, Goto, IInv, Shape, TypeOK, Owns
    <3> QED
      BY <3>2, <3>3
  <2>4. CASE v = u /\ pc[u] = "created" /\ seen[u] = {a}
    BY <2>4 DEF Step, CallStep, EnsureCall, Release, TapctlList, Listed, TapctlCreate,
           Created, CreateRefused, ServiceAnswers, TapctlDelete, Goto, IInv, Shape, TypeOK, Owns
  <2>5. CASE v = u /\ pc[u] \in {"delete", "failed"} /\ adapter[u] = a
    <3>1. TapctlDelete(u)
      BY <2>5 DEF Step, CallStep, EnsureCall, Release, TapctlList, Listed, TapctlCreate,
             Created, CreateRefused, ServiceAnswers
    <3>2. pc'[u] = "failed" /\ adapter'[u] = a
      BY <2>5, <3>1 DEF TapctlDelete, Goto, IInv, Shape, TypeOK
    <3> QED
      BY <3>2 DEF Owns
  <2> QED
    BY <2>1, <2>2, <2>3, <2>4, <2>5 DEF Owns
<1> QED
  BY <1>1, <1>2, NewOrPresent DEF IInv

----------------------------------------------------------------------------
\* The theorems

LEMMA InvInit == Init => IInv
<1> SUFFICES ASSUME Init PROVE IInv
  OBVIOUS
<1>1. \A a : Holders(a) = {}
  BY DEF Init, Holders
<1>2. \A a : Cardinality(Holders(a)) = 0
  BY <1>1, HoldersFinite
<1> QED
  BY <1>1, <1>2, ShapeInit DEF Init, IInv, Serial, Alone, Waiting, CountMatchesHolders,
         HeldAdapterFits, HeldAdapterPresent, NothingLeaks

LEMMA InvStep ==
    ASSUME IInv, [Next]_vars
    PROVE  IInv'
<1>1. CASE UNCHANGED vars
  <2>1. Shape'
    BY <1>1, ShapeStep DEF IInv
  <2>2. \A a : Holders(a)' = Holders(a)
    BY <1>1 DEF vars, Holders
  <2>3. \A a : Cardinality(Holders(a))' = Cardinality(Holders(a))
    BY <2>2
  <2>4. Serial'
    BY <1>1, <2>2 DEF IInv, Serial, Alone, vars, configVars, systemVars
  <2>5. CountMatchesHolders' /\ HeldAdapterFits' /\ NothingLeaks'
    BY <1>1, <2>2, <2>3 DEF IInv, CountMatchesHolders, HeldAdapterFits, HeldAdapterPresent,
           NothingLeaks, vars, configVars, systemVars
  <2> QED
    BY <2>1, <2>4, <2>5 DEF IInv
<1>2. ASSUME NEW u \in Users, Step(u)
      PROVE  IInv'
  BY <1>2, ShapeStep, SerialStep, CountStep, FitsStep, LeaksStep DEF IInv, Next, Step
<1> QED
  BY <1>1, <1>2 DEF Next, Step

LEMMA Invariant == Spec => []IInv
BY InvInit, InvStep, PTL DEF Spec

(* refCounts never exceeds the number of users that hold an adapter, so    *)
(* the last of them to release it does delete it; when calls do not        *)
(* overlap it is that number.                                              *)
THEOREM CountsMatch == Spec => []CountMatchesHolders
<1>1. IInv => CountMatchesHolders
  BY DEF IInv
<1> QED
  BY <1>1, Invariant, PTL

(* ensure() gives its caller an adapter with the driver asked for, and     *)
(* without overlapping calls no release of another user removes it.        *)
THEOREM AdaptersFit == Spec => []HeldAdapterFits
<1>1. IInv => HeldAdapterFits
  BY DEF IInv
<1> QED
  BY <1>1, Invariant, PTL

(* However calls overlap, an adapter made by `tapctl create` is one that a *)
(* user holds or a call is returning or deleting, unless its deletion      *)
(* failed.                                                                 *)
THEOREM NoAdapterLeaks == Spec => []NothingLeaks
<1>1. IInv => NothingLeaks
  BY DEF IInv
<1> QED
  BY <1>1, Invariant, PTL
=============================================================================
