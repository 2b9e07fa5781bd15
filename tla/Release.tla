------------------------------- MODULE Release -------------------------------
(***************************************************************************)
(* The maintainer's scripts under scripts/, which take the OpenVPN release *)
(* pinned in openvpn-binaries.json to the published package, and what      *)
(* BinaryManager then finds in that package.                               *)
(*                                                                         *)
(* The scripts keep their state in files.  One runs at a time, a step is   *)
(* one file written or deleted or one check, and a script may die between  *)
(* any two of them, also in the middle of a file, or fail and leave what   *)
(* it did behind.  Releases of OpenVPN are numbered; for the contents of a *)
(* file the number is the release it comes from, 0 means that it is        *)
(* missing and Torn that it was cut off.                                   *)
(***************************************************************************)
EXTENDS Naturals, BinaryManager

CONSTANTS
    Targets,     \* the platforms listed in openvpn-binaries.json
    FilesOf,     \* spec.files of each platform
    Exe,         \* openvpnBinaryName(spec)
    FirstSource, \* spec.source of each platform to begin with
    Faults,      \* what may go wrong
    MaxVersion   \* bound on the number of OpenVPN releases

Versions == 1 .. MaxVersion
Torn == MaxVersion + 1
Contents == 0 .. Torn
Sources == {"vendored", "release", "pending"}
Files == UNION {FilesOf[t] : t \in Targets}
FaultKinds == {"interrupt", "tsc", "specifiers", "unchecked"}

ASSUME FilesAssumption == \A t \in Targets : Exe \in FilesOf[t]
ASSUME SourcesAssumption == FirstSource \in [Targets -> Sources]
ASSUME BoundsAssumption == MaxVersion \in Nat \ {0} /\ Faults \subseteq FaultKinds

VARIABLES
    version,      \* openvpn.version of openvpn-binaries.json
    source,       \* spec.source of each platform
    bin,          \* platform-packages/openvpn-<target>/bin
    metadata,     \* openvpnVersion in the platform's package.json and index.js
    dist,         \* are the entry modules there in dist/?
    vendor,       \* vendor/openvpn-<target>/bin
    json,         \* vendor/openvpn.json
    shape,        \* the SDK's package.json: "workspace" or "published"
    step,         \* what the running script does next
    job,          \* the platform being fetched and the release of its source
    todo,         \* the files still to be copied
    fetched,      \* the platforms whose last fetch succeeded, for this version
    cut,          \* was the last deletion of vendor/ cut short?
    pinned        \* was every platform in openvpn.json fetched before?

manifestVars == <<version, source>>
stagedVars == <<bin, metadata>>
packageVars == <<dist, vendor, json, shape>>
scriptVars == <<step, job, todo>>
outcomeVars == <<fetched, cut, pinned>>
vars == <<manifestVars, stagedVars, packageVars, scriptVars, outcomeVars>>

FetchSteps == {"copy", "check"}
BuildSteps == {"clean", "compile", "rewrite", "wipe", "vendor"}
NoJson == [exists |-> FALSE, version |-> 0, platforms |-> {}]
Jsons == [exists : BOOLEAN, version : 0 .. MaxVersion, platforms : SUBSET Targets]
NoJob == <<>>
NoFiles == [t \in Targets |-> [f \in Files |-> 0]]

TypeOK ==
    /\ version \in Versions
    /\ source \in [Targets -> Sources]
    /\ bin \in [Targets -> [Files -> Contents]]
    /\ metadata \in [Targets -> Versions]
    /\ dist \in BOOLEAN
    /\ vendor \in [Targets -> [Files -> Contents]]
    /\ json \in Jsons
    /\ shape \in {"workspace", "published"}
    /\ step \in {"idle"} \cup FetchSteps \cup BuildSteps
    /\ job \in {NoJob} \cup (Targets \X (0 .. MaxVersion))
    /\ todo \subseteq Targets \X Files
    /\ fetched \subseteq Targets
    /\ cut \in BOOLEAN
    /\ pinned \in BOOLEAN

(* A clone of the repository: vendored binaries are committed. *)
Init ==
    /\ version = 1
    /\ source = FirstSource
    /\ bin = [t \in Targets |-> [f \in Files |->
                IF FirstSource[t] = "vendored" /\ f \in FilesOf[t] THEN 1 ELSE 0]]
    /\ metadata = [t \in Targets |-> 1]
    /\ dist = FALSE
    /\ vendor = NoFiles
    /\ json = NoJson
    /\ shape = "workspace"
    /\ step = "idle"
    /\ job = NoJob
    /\ todo = {}
    /\ fetched = {}
    /\ cut = FALSE
    /\ pinned = FALSE

----------------------------------------------------------------------------
\* Editing openvpn-binaries.json

(* isReady *)
Ready == {t \in Targets : source[t] \in {"vendored", "release"}}

(* Step 1 of the procedure of README.md:363-371: a new release. *)
Bump ==
    /\ step = "idle"
    /\ version < MaxVersion
    /\ version' = version + 1
    /\ fetched' = {}
    /\ UNCHANGED <<source, stagedVars, packageVars, scriptVars, cut, pinned>>

(* A platform that was pending gets its binaries. *)
SetSource(t, s) ==
    /\ step = "idle"
    /\ source[t] = "pending"
    /\ source' = [source EXCEPT ![t] = s]
    /\ UNCHANGED <<version, stagedVars, packageVars, scriptVars, outcomeVars>>

----------------------------------------------------------------------------
\* fetch-openvpn-binaries.mjs

(* resolveSourceDir: the releases the files may come from, 0 for "nothing  *)
(* to copy", which is also what --verify-only does when all files are      *)
(* there.  --source takes a directory or archive of any release; the       *)
(* sha256 of an archive, checked where the manifest has one, can only      *)
(* leave the pinned one, as it does for spec.url.                          *)
SourcesFor(t) ==
    Versions \cup {v \in {0} : source[t] = "vendored" \/ \A f \in FilesOf[t] : bin[t][f] # 0}

(* The script gives up before it writes anything: bad arguments, no source *)
(* (a pending platform without --source), another hash, a missing file.    *)
FetchRefused(t) ==
    /\ step = "idle"
    /\ t \in fetched
    /\ fetched' = fetched \ {t}
    /\ UNCHANGED <<manifestVars, stagedVars, packageVars, scriptVars, cut, pinned>>

FetchStart(t, v) ==
    /\ step = "idle"
    /\ v \in SourcesFor(t)
    /\ step' = "copy"
    /\ job' = <<t, v>>
    /\ todo' = IF v = 0 THEN {} ELSE {t} \X FilesOf[t]
    /\ fetched' = fetched \ {t}
    /\ UNCHANGED <<manifestVars, stagedVars, packageVars, cut, pinned>>

CopyFile(t, f) ==
    /\ step = "copy"
    /\ <<t, f>> \in todo
    /\ bin' = [bin EXCEPT ![t][f] = job[2]]
    /\ todo' = todo \ {<<t, f>>}
    /\ UNCHANGED <<manifestVars, metadata, packageVars, step, job,
                   outcomeVars>>

SyncPackageMetadata ==
    /\ step = "copy"
    /\ todo = {}
    /\ metadata' = [metadata EXCEPT ![job[1]] = version]
    /\ step' = "check"
    /\ UNCHANGED <<manifestVars, bin, packageVars, job, todo, outcomeVars>>

SelfCheckOfAny == bin[job[1]][Exe] \in Versions

(* `openvpn --version` prints the pinned version.  With --no-exec, or when *)
(* the spawn is blocked (EPERM), the script succeeds without having asked. *)
SelfCheck == bin[job[1]][Exe] = version \/ "unchecked" \in Faults

FetchEnd ==
    /\ step = "check"
    /\ step' = "idle"
    /\ job' = NoJob
    /\ fetched' = IF SelfCheck THEN fetched \cup {job[1]} ELSE fetched
    /\ UNCHANGED <<manifestVars, stagedVars, packageVars, todo, cut, pinned>>

----------------------------------------------------------------------------
\* build-single.mjs

BuildStart ==
    /\ step = "idle"
    /\ step' = "clean"
    /\ UNCHANGED <<manifestVars, stagedVars, packageVars, job, todo, outcomeVars>>

(* rmSync(OUT_DIR) *)
Clean ==
    /\ step = "clean"
    /\ dist' = FALSE
    /\ step' = "compile"
    /\ UNCHANGED <<manifestVars, stagedVars, vendor, json, shape, job, todo, outcomeVars>>

(* The script fails: nothing is undone. *)
Stop ==
    /\ step' = "idle"
    /\ job' = NoJob
    /\ todo' = {}

(* runTsc: a compilation with type errors emits its output and fails. *)
Compile ==
    /\ step = "compile"
    /\ \/ /\ dist' = TRUE
          /\ step' = "rewrite"
          /\ UNCHANGED <<job, todo>>
       \/ /\ "tsc" \in Faults
          /\ dist' \in BOOLEAN
          /\ Stop
    /\ UNCHANGED <<manifestVars, stagedVars, vendor, json, shape, outcomeVars>>

(* rewriteInternalSpecifiers, which throws if an import of a workspace     *)
(* package is left.                                                        *)
Rewrite ==
    /\ step = "rewrite"
    /\ \/ step' = "wipe" /\ UNCHANGED <<job, todo>>
       \/ "specifiers" \in Faults /\ Stop
    /\ UNCHANGED <<manifestVars, stagedVars, packageVars, outcomeVars>>

(* rmSync(VENDOR_DIR) deletes file by file, openvpn.json before or after   *)
(* the binaries as the directory lists them.                               *)
WipeFile(t, f) ==
    /\ step = "wipe"
    /\ vendor[t][f] # 0
    /\ vendor' = [vendor EXCEPT ![t][f] = 0]
    /\ UNCHANGED <<manifestVars, stagedVars, dist, json, shape, scriptVars, outcomeVars>>

WipeJson ==
    /\ step = "wipe"
    /\ json.exists
    /\ json' = NoJson
    /\ UNCHANGED <<manifestVars, stagedVars, dist, vendor, shape, scriptVars, outcomeVars>>

WipedButJson == vendor = NoFiles

(* Nothing is left in vendor/. *)
Wiped == vendor = NoFiles /\ ~json.exists

WipeEnd ==
    /\ step = "wipe"
    /\ Wiped
    /\ cut' = FALSE
    /\ todo' = {c \in Ready \X Files : c[2] \in FilesOf[c[1]]}
    /\ step' = "vendor"
    /\ UNCHANGED <<manifestVars, stagedVars, packageVars, job, fetched, pinned>>

(* One pass of the inner loop of vendorBinaries: a missing file throws. *)
VendorFile(t, f) ==
    /\ step = "vendor"
    /\ <<t, f>> \in todo
    /\ \/ /\ bin[t][f] # 0
          /\ vendor' = [vendor EXCEPT ![t][f] = bin[t][f]]
          /\ todo' = todo \ {<<t, f>>}
          /\ UNCHANGED <<step, job>>
       \/ /\ bin[t][f] = 0
          /\ UNCHANGED vendor
          /\ Stop
    /\ UNCHANGED <<manifestVars, stagedVars, dist, json, shape, outcomeVars>>

(* vendor/openvpn.json is written last, and the build is done. *)
Record ==
    /\ step = "vendor"
    /\ todo = {}
    /\ json' = [exists |-> TRUE, version |-> version, platforms |-> Ready]
    /\ pinned' = (Ready \subseteq fetched)
    /\ step' = "idle"
    /\ UNCHANGED <<manifestVars, stagedVars, dist, vendor, shape, job, todo,
                   fetched, cut>>

----------------------------------------------------------------------------
\* prepare-release.mjs and publish.mjs

(* Both scripts look only for the files, not at what is in them. *)
BuildOutputs == dist /\ json.exists

(* The documents are copied first and the manifest is rewritten last, so   *)
(* that a package.json in the published shape means that both are there.   *)
Prepare ==
    /\ step = "idle"
    /\ BuildOutputs
    /\ shape' = "published"
    /\ UNCHANGED <<manifestVars, stagedVars, dist, vendor, json, scriptVars, outcomeVars>>

(* git checkout -- packages/openvpn-sdk/package.json *)
RestoreManifest ==
    /\ step = "idle"
    /\ shape = "published"
    /\ shape' = "workspace"
    /\ UNCHANGED <<manifestVars, stagedVars, dist, vendor, json, scriptVars,
                   outcomeVars>>

(* publish.mjs finds no problem: `npm publish` packs what is there.  It    *)
(* changes nothing in the tree, so that it is no action of this module.    *)
Publishable == step = "idle" /\ shape = "published" /\ BuildOutputs

----------------------------------------------------------------------------
\* A script is interrupted

(* What a step that is cut short leaves of the file it wrote or of the     *)
(* directory it was deleting; a cut off openvpn.json names no platform.    *)
CutShort ==
    \/ /\ step = "copy"
       /\ \E c \in todo : bin' = [bin EXCEPT ![c[1]][c[2]] = Torn]
       /\ UNCHANGED <<packageVars, cut>>
    \/ /\ step = "clean"
       /\ dist' = FALSE
       /\ UNCHANGED <<bin, vendor, json, shape, cut>>
    \/ /\ step = "compile"
       /\ dist' = TRUE
       /\ UNCHANGED <<bin, vendor, json, shape, cut>>
    \/ /\ step = "vendor"
       /\ \E c \in todo : vendor' = [vendor EXCEPT ![c[1]][c[2]] = Torn]
       /\ UNCHANGED <<bin, dist, json, shape, cut>>
    \/ /\ step = "vendor"
       /\ todo = {}
       /\ json' = [NoJson EXCEPT !.exists = TRUE]
       /\ UNCHANGED <<bin, dist, vendor, shape, cut>>

(* The script is killed, or cannot delete a file. *)
Interrupt ==
    /\ step # "idle"
    /\ "interrupt" \in Faults
    /\ Stop
    /\ \/ CutShort
       \/ /\ cut' = (cut \/ step = "wipe")
          /\ UNCHANGED <<bin, packageVars>>
    /\ UNCHANGED <<manifestVars, metadata, fetched, pinned>>

----------------------------------------------------------------------------
\* verify-platform-packages.mjs, which changes nothing

(* checkTarget: the metadata of every platform, and the binaries of those  *)
(* that are ready.  Whether the binary is run too depends on the host.     *)
TargetVerified(t) ==
    /\ metadata[t] = version
    /\ t \in Ready => \A f \in FilesOf[t] : bin[t][f] # 0

(* checkSinglePackageMetadata: an openvpn.json that exists must be legible *)
(* and pin the version.                                                    *)
VendorVerified ==
    json.exists =>
        /\ json.version # 0
        /\ \A t \in Ready : t \in json.platforms /\ json.version = version

VerifySucceeds == VendorVerified /\ \A t \in Targets : TargetVerified(t)

----------------------------------------------------------------------------
\* The specification

Edit == Bump \/ \E t \in Targets, s \in Sources : SetSource(t, s)

Fetch ==
    \/ \E t \in Targets : FetchRefused(t) \/ \E v \in 0 .. MaxVersion : FetchStart(t, v)
    \/ \E t \in Targets, f \in Files : CopyFile(t, f)
    \/ SyncPackageMetadata
    \/ FetchEnd

Build ==
    \/ BuildStart
    \/ Clean
    \/ Compile
    \/ Rewrite
    \/ WipeJson
    \/ \E t \in Targets, f \in Files : WipeFile(t, f)
    \/ WipeEnd
    \/ \E t \in Targets, f \in Files : VendorFile(t, f)
    \/ Record

Ship == Prepare \/ RestoreManifest

Next == Edit \/ Fetch \/ Build \/ Ship \/ Interrupt

Spec == Init /\ [][Next]_vars

----------------------------------------------------------------------------
\* What publish.mjs would ship, and what its user gets

(* A machine that has the package installed, with an expected version e    *)
(* and whatever else is on it, but no path given by the caller.            *)
Machines(t, e) ==
    [explicit : {"unset", "dangling"}, env : {"unset", "dangling"},
     vendor : {[known |-> t \in json.platforms, version |-> json.version,
                exe |-> vendor[t][Exe] # 0]},
     package : [known : BOOLEAN, version : {0, 1}, exe : BOOLEAN],
     legacy : BOOLEAN, installDirs : SUBSET {1}, onPath : SUBSET {1}, expected : {e}]

(* A package that can be published has every file that its                 *)
(* vendor/openvpn.json names, whatever it holds: that file is written last *)
(* (build-single.mjs:105-113) and publish.mjs asks for it.  This holds     *)
(* however the scripts were ordered, failed or were killed, except in the  *)
(* deletion of vendor/, which may leave openvpn.json without the binaries: *)
(* then it holds again when a later build has deleted the rest.            *)
PublishedIsWhole ==
    Publishable /\ ~cut =>
        \A t \in json.platforms, f \in Files : f \in FilesOf[t] => vendor[t][f] # 0

(* The version resolveOpenVpn() reports to a user on platform t who       *)
(* expects version e is the one that the binary it returns prints.        *)
ServesExactly(t, e) ==
    \A m \in Machines(t, e) :
        /\ Resolve(m).source = "bundled"
        /\ Resolve(m).version = vendor[t][Exe]

(* "BinaryManager reports source: "bundled" with the exact version"        *)
(* (README.md:375): if every ready platform was fetched successfully since *)
(* its version was pinned, and the deletion of vendor/ was not cut short,  *)
(* this holds of every platform in the package, whatever was staged, built *)
(* or interrupted before; and of every ready platform, with the version    *)
(* pinned now, if the verification succeeds                                *)
(* (verify-platform-packages.mjs:199-219).                                 *)
BundledIsExact ==
    Publishable /\ ~cut /\ pinned =>
        /\ \A t \in json.platforms : ServesExactly(t, json.version)
        /\ VerifySucceeds => \A t \in Ready : ServesExactly(t, version)
=============================================================================
