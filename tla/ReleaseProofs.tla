----------------------------- MODULE ReleaseProofs -----------------------------
(***************************************************************************)
(* Theorems about Release, for every set of platforms and files, every     *)
(* number of releases, and scripts that fail or are killed at any step.    *)
(***************************************************************************)
EXTENDS Release, TLAPS

----------------------------------------------------------------------------
\* The inductive invariant

(* The fetch that runs works on one platform, which does not count as      *)
(* fetched meanwhile; a source of nothing leaves nothing to copy.          *)
Fetching ==
    step \in FetchSteps =>
        /\ job \in Targets \X (0 .. MaxVersion)
        /\ job[1] \notin fetched
        /\ \A c \in todo : c[1] = job[1] /\ job[2] # 0

(* A platform fetched with the self check has the pinned executable. *)
Checked == "unchecked" \notin Faults
FetchedIsPinned == Checked => \A t \in fetched : bin[t][Exe] = version

(* The binaries copied so far, while vendor/ has no openvpn.json. *)
Vendoring ==
    step = "vendor" =>
        /\ ~json.exists /\ json.platforms = {}
        /\ \A t \in Ready : \A f \in FilesOf[t] : <<t, f>> \in todo \/ vendor[t][f] # 0
        /\ Checked => \A t \in Ready \cap fetched :
                         <<t, Exe>> \in todo \/ vendor[t][Exe] = version

(* What openvpn.json says of the binaries beside it, unless they are being *)
(* deleted or their deletion was cut short.                                *)
Vendored ==
    ~cut /\ step # "wipe" =>
        /\ \A t \in json.platforms :
              json.version \in Versions /\ \A f \in FilesOf[t] : vendor[t][f] # 0
        /\ Checked /\ pinned => \A t \in json.platforms : vendor[t][Exe] = json.version

(* An openvpn.json that is not there names nothing. *)
Named == ~json.exists => json = NoJson

IInv == TypeOK /\ Fetching /\ FetchedIsPinned /\ Vendoring /\ Vendored /\ Named

----------------------------------------------------------------------------
\* The constants

LEMMA Numbers ==
    /\ MaxVersion \in Nat /\ 1 \in Versions /\ 0 \notin Versions
    /\ 0 \in Contents /\ Torn \in Contents /\ Torn # 0
    /\ Versions \subseteq 0 .. MaxVersion /\ 0 .. MaxVersion \subseteq Contents
BY BoundsAssumption DEF Versions, Contents, Torn

LEMMA FilesNamed ==
    ASSUME NEW t \in Targets
    PROVE  Exe \in FilesOf[t] /\ FilesOf[t] \subseteq Files /\ Exe \in Files
BY FilesAssumption DEF Files

(* A file written somewhere below platform-packages/ or vendor/. *)
LEMMA Written ==
    ASSUME NEW S \in [Targets -> [Files -> Contents]], NEW t \in Targets, NEW f \in Files,
           NEW x \in Contents
    PROVE  /\ [S EXCEPT ![t][f] = x] \in [Targets -> [Files -> Contents]]
           /\ \A u \in Targets, g \in Files :
                [S EXCEPT ![t][f] = x][u][g] = IF u = t /\ g = f THEN x ELSE S[u][g]
OBVIOUS

----------------------------------------------------------------------------
\* The first state

LEMMA Initially == Init => IInv
<1> SUFFICES ASSUME Init PROVE IInv
  OBVIOUS
<1>1. /\ version \in Versions /\ metadata \in [Targets -> Versions]
      /\ bin \in [Targets -> [Files -> Contents]]
      /\ vendor \in [Targets -> [Files -> Contents]]
  <2>1. 1 \in Contents /\ 0 \in Contents
    BY Numbers
  <2> QED
    BY <2>1, Numbers DEF Init, NoFiles
<1>2. json \in Jsons
  BY Numbers DEF Init, NoJson, Jsons
<1>3. TypeOK
  BY <1>1, <1>2, SourcesAssumption DEF Init, TypeOK
<1> QED
  BY <1>3 DEF Init, IInv, Fetching, FetchedIsPinned, Named, Vendoring, Vendored, NoJson,
     FetchSteps, BuildSteps

----------------------------------------------------------------------------
\* The manifest

LEMMA EditKeeps == IInv /\ Edit => IInv'
<1> SUFFICES ASSUME IInv, Edit PROVE IInv'
  OBVIOUS
<1> USE DEF manifestVars, stagedVars, packageVars, scriptVars, outcomeVars
<1>1. CASE Bump
  <2>1. version' \in Versions
    BY <1>1, Numbers DEF Bump, IInv, TypeOK, Versions
  <2>2. TypeOK'
    BY <1>1, <2>1 DEF Bump, IInv, TypeOK
  <2> QED
    BY <1>1, <2>2 DEF Bump, IInv, Fetching, FetchedIsPinned, Named, Vendoring, Vendored,
       FetchSteps, BuildSteps
<1>2. ASSUME NEW t \in Targets, NEW s \in Sources, SetSource(t, s) PROVE IInv'
  <2>1. TypeOK'
    BY <1>2 DEF SetSource, IInv, TypeOK
  <2> QED
    BY <1>2, <2>1 DEF SetSource, IInv, Fetching, FetchedIsPinned, Named, Vendoring,
       Vendored, FetchSteps, BuildSteps
<1> QED
  BY <1>1, <1>2 DEF Edit

----------------------------------------------------------------------------
\* fetch-openvpn-binaries.mjs

LEMMA FetchBegins ==
    ASSUME IInv, NEW t \in Targets,
           FetchRefused(t) \/ \E v \in 0 .. MaxVersion : FetchStart(t, v)
    PROVE  IInv'
<1> USE DEF manifestVars, stagedVars, packageVars, scriptVars, outcomeVars
<1>1. CASE FetchRefused(t)
  BY <1>1 DEF FetchRefused, IInv, TypeOK, Fetching, FetchedIsPinned, Named, Vendoring,
     Vendored, FetchSteps, BuildSteps
<1>2. ASSUME NEW v \in 0 .. MaxVersion, FetchStart(t, v) PROVE IInv'
  <2>1. /\ job' \in Targets \X (0 .. MaxVersion) /\ job'[1] = t /\ job'[2] = v
        /\ todo' \subseteq {t} \X Files
        /\ v = 0 => todo' = {}
    BY <1>2, FilesNamed DEF FetchStart
  <2>2. TypeOK'
    BY <1>2, <2>1 DEF FetchStart, IInv, TypeOK, FetchSteps
  <2>3. Fetching'
    BY <1>2, <2>1 DEF FetchStart, Fetching
  <2> QED
    BY <1>2, <2>2, <2>3 DEF FetchStart, IInv, FetchedIsPinned, Named, Vendoring, Vendored,
       BuildSteps
<1> QED
  BY <1>1, <1>2

LEMMA CopyKeeps ==
    ASSUME IInv, NEW t \in Targets, NEW f \in Files, CopyFile(t, f)
    PROVE  IInv'
<1> USE DEF manifestVars, packageVars, outcomeVars
<1>1. job \in Targets \X (0 .. MaxVersion) /\ t = job[1] /\ t \notin fetched
  BY DEF CopyFile, IInv, Fetching, FetchSteps
<1>2. job[2] \in Contents
  BY <1>1, Numbers
<1>3. /\ bin' \in [Targets -> [Files -> Contents]]
      /\ \A u \in Targets : u # t => bin'[u] = bin[u]
  BY <1>2 DEF CopyFile, IInv, TypeOK
<1>4. TypeOK'
  BY <1>3 DEF CopyFile, IInv, TypeOK
<1>5. FetchedIsPinned'
  BY <1>1, <1>3 DEF CopyFile, IInv, TypeOK, FetchedIsPinned
<1> QED
  BY <1>4, <1>5 DEF CopyFile, IInv, Fetching, Named, Vendoring, Vendored, FetchSteps,
     BuildSteps

LEMMA FetchEnds == IInv /\ (SyncPackageMetadata \/ FetchEnd) => IInv'
<1> SUFFICES ASSUME IInv, SyncPackageMetadata \/ FetchEnd PROVE IInv'
  OBVIOUS
<1> USE DEF manifestVars, stagedVars, packageVars, outcomeVars
<1>1. job \in Targets \X (0 .. MaxVersion) /\ job[1] \in Targets
  BY DEF SyncPackageMetadata, FetchEnd, IInv, Fetching, FetchSteps
<1>2. CASE SyncPackageMetadata
  <2>1. TypeOK'
    BY <1>1, <1>2 DEF SyncPackageMetadata, IInv, TypeOK, FetchSteps
  <2> QED
    BY <1>2, <2>1 DEF SyncPackageMetadata, IInv, Fetching, FetchedIsPinned, Named,
       Vendoring, Vendored, FetchSteps, BuildSteps
<1>3. CASE FetchEnd
  <2>1. TypeOK'
    BY <1>1, <1>3 DEF FetchEnd, IInv, TypeOK
  <2>2. FetchedIsPinned'
    BY <1>3 DEF FetchEnd, SelfCheck, IInv, FetchedIsPinned, Checked
  <2> QED
    BY <1>3, <2>1, <2>2 DEF FetchEnd, IInv, Fetching, Named, Vendoring, Vendored,
       FetchSteps, BuildSteps
<1> QED
  BY <1>2, <1>3

LEMMA FetchKeeps == IInv /\ Fetch => IInv'
BY FetchBegins, CopyKeeps, FetchEnds DEF Fetch

----------------------------------------------------------------------------
\* build-single.mjs

LEMMA CompileKeeps == IInv /\ (BuildStart \/ Clean \/ Compile \/ Rewrite) => IInv'
<1> SUFFICES ASSUME IInv, BuildStart \/ Clean \/ Compile \/ Rewrite PROVE IInv'
  OBVIOUS
<1> USE DEF manifestVars, stagedVars, packageVars, outcomeVars, Stop
<1>1. TypeOK'
  BY DEF BuildStart, Clean, Compile, Rewrite, IInv, TypeOK, BuildSteps
<1>2. /\ step' \notin FetchSteps \cup {"vendor"} /\ step # "wipe"
      /\ UNCHANGED <<version, source, bin, vendor, json, fetched, cut, pinned>>
  BY DEF BuildStart, Clean, Compile, Rewrite, FetchSteps
<1> QED
  BY <1>1, <1>2 DEF IInv, Fetching, FetchedIsPinned, Vendoring, Vendored, Named

LEMMA WipeKeeps ==
    ASSUME IInv, WipeJson \/ (\E t \in Targets, f \in Files : WipeFile(t, f)) \/ WipeEnd
    PROVE  IInv'
<1> USE DEF manifestVars, stagedVars, packageVars, scriptVars, outcomeVars
<1>1. CASE WipeJson
  <2>1. json' \in Jsons
    BY <1>1, Numbers DEF WipeJson, NoJson, Jsons
  <2>2. TypeOK'
    BY <1>1, <2>1 DEF WipeJson, IInv, TypeOK
  <2> QED
    BY <1>1, <2>2 DEF WipeJson, IInv, Fetching, FetchedIsPinned, Vendoring, Vendored, Named,
       FetchSteps
<1>2. ASSUME NEW t \in Targets, NEW f \in Files, WipeFile(t, f) PROVE IInv'
  <2>1. vendor' \in [Targets -> [Files -> Contents]]
    BY <1>2, Numbers, Written DEF WipeFile, IInv, TypeOK
  <2>2. TypeOK'
    BY <1>2, <2>1 DEF WipeFile, IInv, TypeOK
  <2> QED
    BY <1>2, <2>2 DEF WipeFile, IInv, Fetching, FetchedIsPinned, Vendoring, Vendored, Named,
       FetchSteps
<1>3. CASE WipeEnd
  <2>1. /\ todo' \subseteq Targets \X Files
        /\ \A t \in Ready, f \in Files : f \in FilesOf[t] => <<t, f>> \in todo'
    BY <1>3 DEF WipeEnd, Ready
  <2>2. ~json.exists /\ json.platforms = {}
    BY <1>3 DEF WipeEnd, Wiped, IInv, Named, NoJson
  <2>3. TypeOK'
    BY <1>3, <2>1 DEF WipeEnd, IInv, TypeOK, BuildSteps
  <2>4. Vendoring'
    BY <1>3, <2>1, <2>2, FilesNamed DEF WipeEnd, Vendoring, Ready
  <2> QED
    BY <1>3, <2>2, <2>3, <2>4
    DEF WipeEnd, IInv, Fetching, FetchedIsPinned, Vendored, Named, FetchSteps
<1> QED
  BY <1>1, <1>2, <1>3

LEMMA VendorFileKeeps ==
    ASSUME IInv, NEW t \in Targets, NEW f \in Files, VendorFile(t, f)
    PROVE  IInv'
<1> USE DEF manifestVars, stagedVars, outcomeVars
<1>1. CASE bin[t][f] = 0
  BY <1>1 DEF VendorFile, Stop, IInv, TypeOK, Fetching, FetchedIsPinned, Named, Vendoring,
     Vendored, FetchSteps, BuildSteps
<1>2. CASE bin[t][f] # 0
  <2>1. bin[t][f] \in Contents
    BY DEF IInv, TypeOK
  <2>2. /\ vendor' \in [Targets -> [Files -> Contents]]
        /\ \A u \in Targets, g \in Files :
             vendor'[u][g] = IF u = t /\ g = f THEN bin[t][f] ELSE vendor[u][g]
    <3>1. vendor' = [vendor EXCEPT ![t][f] = bin[t][f]]
      BY <1>2 DEF VendorFile
    <3> QED
      BY <2>1, <3>1, Written DEF IInv, TypeOK
  <2>3. TypeOK'
    BY <1>2, <2>2 DEF VendorFile, IInv, TypeOK
  <2>4. /\ step' = "vendor" /\ ~json'.exists /\ json'.platforms = {}
        /\ todo' = todo \ {<<t, f>>}
    BY <1>2 DEF VendorFile, IInv, Vendoring
  <2>5. \A u \in Ready : \A g \in FilesOf[u] : <<u, g>> \in todo' \/ vendor'[u][g] # 0
    <3> SUFFICES ASSUME NEW u \in Ready, NEW g \in FilesOf[u]
                 PROVE  <<u, g>> \in todo' \/ vendor'[u][g] # 0
      OBVIOUS
    <3>1. u \in Targets /\ g \in Files
      BY FilesNamed DEF Ready
    <3>2. <<u, g>> \in todo \/ vendor[u][g] # 0
      BY DEF VendorFile, IInv, Vendoring
    <3> QED
      BY <1>2, <2>2, <2>4, <3>1, <3>2
  <2>6. ASSUME Checked, NEW u \in Ready \cap fetched
        PROVE  <<u, Exe>> \in todo' \/ vendor'[u][Exe] = version
    <3>1. u \in Targets /\ Exe \in Files /\ bin[u][Exe] = version
      BY <2>6, FilesNamed DEF IInv, FetchedIsPinned, Ready
    <3>2. vendor'[u][Exe] = IF u = t /\ Exe = f THEN version ELSE vendor[u][Exe]
      BY <2>2, <3>1
    <3>3. <<u, Exe>> \in todo \/ vendor[u][Exe] = version
      BY <2>6 DEF VendorFile, IInv, Vendoring
    <3> QED
      BY <2>4, <3>2, <3>3
  <2>7. Vendoring'
    BY <2>4, <2>5, <2>6 DEF VendorFile, Vendoring, Ready, Checked
  <2> QED
    BY <1>2, <2>3, <2>4, <2>7 DEF VendorFile, IInv, Fetching, FetchedIsPinned, Named,
       Vendored, FetchSteps, BuildSteps
<1> QED
  BY <1>1, <1>2

LEMMA RecordKeeps == IInv /\ Record => IInv'
<1> SUFFICES ASSUME IInv, Record PROVE IInv'
  OBVIOUS
<1> USE DEF manifestVars, stagedVars
<1>1. /\ json' \in Jsons
      /\ json'.exists /\ json'.version = version /\ json'.platforms = Ready
  BY Numbers DEF Record, Jsons, IInv, TypeOK, Ready
<1>2. TypeOK'
  BY <1>1 DEF Record, IInv, TypeOK
<1>3. Vendored'
  BY <1>1 DEF Record, IInv, TypeOK, Vendoring, Vendored, Checked
<1> QED
  BY <1>2, <1>3 DEF Record, IInv, Fetching, FetchedIsPinned, Named, Vendoring,
     FetchSteps, BuildSteps

LEMMA BuildKeeps == IInv /\ Build => IInv'
BY CompileKeeps, WipeKeeps, VendorFileKeeps, RecordKeeps DEF Build

----------------------------------------------------------------------------
\* The other scripts, and a script that is killed

LEMMA ShipKeeps == IInv /\ Ship => IInv'
BY DEF Ship, Prepare, RestoreManifest, IInv, TypeOK, Fetching, FetchedIsPinned, Named,
   Vendoring, Vendored, FetchSteps, BuildSteps, Ready, manifestVars, stagedVars, scriptVars,
   outcomeVars

LEMMA InterruptKeeps == IInv /\ Interrupt => IInv'
<1> SUFFICES ASSUME IInv, Interrupt PROVE IInv'
  OBVIOUS
<1> USE DEF manifestVars, packageVars
<1>1. /\ bin' \in [Targets -> [Files -> Contents]]
      /\ \A t \in fetched : bin'[t] = bin[t]
  <2>1. CASE UNCHANGED bin
    BY <2>1 DEF IInv, TypeOK
  <2>2. ASSUME step = "copy", NEW c \in todo, bin' = [bin EXCEPT ![c[1]][c[2]] = Torn]
        PROVE  <1>1!1 /\ <1>1!2
    BY <2>2, Numbers DEF IInv, TypeOK, Fetching, FetchSteps
  <2> QED
    BY <2>1, <2>2 DEF Interrupt, CutShort
<1>2. /\ vendor' \in [Targets -> [Files -> Contents]]
      /\ UNCHANGED vendor \/ step = "vendor"
  <2>1. ASSUME step = "vendor", NEW c \in todo, vendor' = [vendor EXCEPT ![c[1]][c[2]] = Torn]
        PROVE  vendor' \in [Targets -> [Files -> Contents]]
    BY <2>1, Numbers DEF IInv, TypeOK
  <2> QED
    BY <2>1 DEF Interrupt, CutShort, IInv, TypeOK
<1>3. /\ dist' \in BOOLEAN /\ cut' \in BOOLEAN
      /\ step = "wipe" => cut'
      /\ cut => cut'
  <2>1. CASE CutShort
    BY <2>1 DEF CutShort, IInv, TypeOK
  <2>2. CASE cut' = (cut \/ step = "wipe") /\ UNCHANGED packageVars
    <3>1. dist' \in BOOLEAN /\ cut \in BOOLEAN
      BY <2>2 DEF IInv, TypeOK
    <3> QED
      BY <2>2, <3>1, Zenon
  <2> QED
    BY <2>1, <2>2, Zenon DEF Interrupt
<1>4. step' = "idle" /\ job' = NoJob /\ todo' = {}
  BY DEF Interrupt, Stop
<1>5. /\ json' \in Jsons
      /\ \/ UNCHANGED json
         \/ step = "vendor" /\ json'.exists /\ json'.platforms = {}
  <2>1. CASE step = "vendor" /\ json' = [NoJson EXCEPT !.exists = TRUE]
    <3>1. json' = [exists |-> TRUE, version |-> 0, platforms |-> {}]
      BY <2>1 DEF NoJson
    <3>2. 0 \in 0 .. MaxVersion
      BY BoundsAssumption
    <3>3. json' \in Jsons
      BY <3>1, <3>2 DEF Jsons
    <3>4. json'.exists /\ json'.platforms = {}
      BY <3>1
    <3>5. step = "vendor"
      BY <2>1
    <3> QED
      BY <3>3, <3>4, <3>5
  <2>2. CASE UNCHANGED json
    BY <2>2 DEF IInv, TypeOK
  <2>3. CASE CutShort
    <3>1. \/ UNCHANGED json
          \/ step = "vendor" /\ json' = [NoJson EXCEPT !.exists = TRUE]
      BY <2>3 DEF CutShort
    <3> QED
      BY <2>1, <2>2, <3>1
  <2>4. CASE UNCHANGED packageVars
    BY <2>2, <2>4
  <2> QED
    BY <2>3, <2>4, Zenon DEF Interrupt
<1>6. TypeOK'
  <2>1. UNCHANGED <<version, source, metadata, shape, fetched, pinned>>
    BY DEF Interrupt, CutShort
  <2> QED
    BY <1>1, <1>2, <1>3, <1>4, <1>5, <2>1 DEF IInv, TypeOK
<1>7. FetchedIsPinned'
  BY <1>1 DEF Interrupt, IInv, TypeOK, FetchedIsPinned
<1>8. Vendored'
  <2>1. CASE step = "vendor"
    <3>1. json'.platforms = {}
      BY <1>5, <2>1 DEF IInv, Vendoring
    <3> QED
      BY <3>1 DEF Vendored
  <2>2. CASE step # "vendor"
    BY <1>2, <1>3, <1>5, <2>2 DEF Interrupt, IInv, Vendored
  <2> QED
    BY <2>1, <2>2
<1>9. Named'
  BY <1>5 DEF IInv, Named
<1> QED
  BY <1>4, <1>6, <1>7, <1>8, <1>9 DEF IInv, Fetching, Vendoring, FetchSteps

LEMMA Inductive == IInv /\ [Next]_vars => IInv'
<1>1. IInv /\ UNCHANGED vars => IInv'
  BY DEF vars, manifestVars, stagedVars, packageVars, scriptVars, outcomeVars, IInv, TypeOK,
     Fetching, FetchedIsPinned, Named, Vendoring, Vendored, Ready
<1> QED
  BY <1>1, EditKeeps, FetchKeeps, BuildKeeps, ShipKeeps, InterruptKeeps DEF Next

LEMMA Invariance == Spec => []IInv
BY Initially, Inductive, PTL DEF Spec

----------------------------------------------------------------------------
\* What BinaryManager finds in the package

(* A path given by the caller that is not there, and a vendor/ that has    *)
(* the binary of the expected version: the search ends at the third place. *)
LEMMA BundledWins ==
    ASSUME NEW m, NEW v \in Versions,
           m.explicit \in {"unset", "dangling"}, m.env \in {"unset", "dangling"},
           m.vendor = [known |-> TRUE, version |-> v, exe |-> TRUE], m.expected = v
    PROVE  Resolve(m) = Found("bundled", v, 0)
<1> DEFINE decisive == {i \in 1 .. 7 : Lookups(m)[i].outcome # "absent"}
<1>1. Lookups(m)[1] = Absent /\ Lookups(m)[2] = Absent
  BY DEF Lookups, Given
<1>2. Lookups(m)[3] = Found("bundled", v, 0)
  BY DEF Lookups, Pinned
<1>3. Absent.outcome = "absent" /\ Found("bundled", v, 0).outcome = "found"
  BY DEF Absent, Found
<1>4. 3 \in decisive /\ \A i \in decisive : 3 <= i
  BY <1>1, <1>2, <1>3
<1>5. (CHOOSE i \in decisive : \A j \in decisive : i <= j) = 3
  <2> HIDE DEF decisive
  <2> DEFINE least == CHOOSE i \in decisive : \A j \in decisive : i <= j
  <2>1. least \in decisive /\ \A j \in decisive : least <= j
    BY <1>4
  <2> HIDE DEF least
  <2>2. least \in Nat
    BY <2>1 DEF decisive
  <2>3. least <= 3 /\ 3 <= least
    BY <1>4, <2>1
  <2>4. least = 3
    BY <2>2, <2>3
  <2> QED
    BY <2>4 DEF least
<1> QED
  BY <1>2, <1>4, <1>5 DEF Resolve

LEMMA ServedExactly ==
    ASSUME NEW t \in Targets, json.version \in Versions, t \in json.platforms,
           vendor[t][Exe] = json.version
    PROVE  ServesExactly(t, json.version)
<1> SUFFICES ASSUME NEW m \in Machines(t, json.version)
             PROVE  Resolve(m).source = "bundled" /\ Resolve(m).version = vendor[t][Exe]
  BY DEF ServesExactly
<1>1. m.vendor = [known |-> TRUE, version |-> json.version, exe |-> TRUE]
  <2>1. m.vendor = [known |-> t \in json.platforms, version |-> json.version,
                    exe |-> vendor[t][Exe] # 0]
    BY DEF Machines
  <2>2. (t \in json.platforms) = TRUE /\ (vendor[t][Exe] # 0) = TRUE
    BY Numbers
  <2> QED
    BY <2>1, <2>2
<1>2. /\ m.explicit \in {"unset", "dangling"} /\ m.env \in {"unset", "dangling"}
      /\ m.expected = json.version
  BY DEF Machines
<1>3. Resolve(m) = Found("bundled", json.version, 0)
  BY <1>1, <1>2, BundledWins
<1> QED
  BY <1>3 DEF Found

----------------------------------------------------------------------------
\* Theorems

(* Every reachable state of the files and the scripts is well typed. *)
THEOREM TypeCorrect == Spec => []TypeOK
<1>1. IInv => TypeOK
  BY DEF IInv
<1> QED
  BY <1>1, Invariance, PTL

(* A package that publish.mjs lets through has every file of every         *)
(* platform it names, whatever platforms, files and releases there are and *)
(* wherever scripts failed or were killed but in the deletion of vendor/.  *)
THEOREM PublishedPackageIsWhole == Spec => []PublishedIsWhole
<1>1. IInv => PublishedIsWhole
  BY DEF IInv, TypeOK, Jsons, Vendored, PublishedIsWhole, Publishable
<1> QED
  BY <1>1, Invariance, PTL

(* If the self check of fetch-openvpn-binaries.mjs is never skipped, a     *)
(* user's BinaryManager reports the version that its binary prints.        *)
THEOREM BundledVersionIsExact ==
    ASSUME Checked
    PROVE  Spec => []BundledIsExact
<1>1. IInv => BundledIsExact
  <2> SUFFICES ASSUME IInv, Publishable, ~cut, pinned
               PROVE  /\ \A t \in json.platforms : ServesExactly(t, json.version)
                      /\ VerifySucceeds => \A t \in Ready : ServesExactly(t, version)
    BY DEF BundledIsExact
  <2>1. json.exists /\ json.platforms \subseteq Targets
    BY DEF IInv, TypeOK, Jsons, Publishable, BuildOutputs
  <2>2. \A t \in json.platforms : ServesExactly(t, json.version)
    BY <2>1, ServedExactly, Checked DEF IInv, Vendored, Publishable
  <2>3. VerifySucceeds => \A t \in Ready : t \in json.platforms /\ json.version = version
    BY <2>1 DEF VerifySucceeds, VendorVerified
  <2> QED
    BY <2>2, <2>3
<1> QED
  BY <1>1, Invariance, PTL
===============================================================================
