---------------------------- MODULE BinaryManager ----------------------------
(***************************************************************************)
(* How packages/binary/src/index.ts finds an OpenVPN binary.  The search   *)
(* keeps no state: it is an operator over what is on the machine.  A       *)
(* machine m is a record:                                                  *)
(*   explicit, env   the option and the environment variable: "unset",     *)
(*                   "dangling" (no such file) or "present"                *)
(*   vendor          vendor/openvpn.json, and the binary beside it         *)
(*   package         the platform package's package.json, and its binary   *)
(*   legacy          does the resolver find the package's binary itself?   *)
(*   installDirs     the positions of the install directories that have it *)
(*   onPath          the positions in PATH that have it, empty entries out *)
(*   expected        options.expectedVersion                               *)
(* vendor and package are records [known, version, exe]: is there readable *)
(* metadata for this platform, which version does it record, and does the  *)
(* binary exist?  Version 0 stands for none.                               *)
(***************************************************************************)
EXTENDS Naturals

Absent == [outcome |-> "absent", source |-> "none", version |-> 0, dir |-> 0]
Thrown == [Absent EXCEPT !.outcome = "thrown"]
Found(s, v, d) == [outcome |-> "found", source |-> s, version |-> v, dir |-> d]

(* A path given by the caller or the environment counts if it exists. *)
Given(state, s) == IF state = "present" THEN Found(s, 0, 0) ELSE Absent

PinnedUnchecked(p, expected, s) ==
    IF p.known /\ p.exe THEN Found(s, p.version, 0) ELSE Absent

(* resolveFromVendor and resolveFromPlatformPackage: a recorded version    *)
(* that is not the expected one is an error even when the file is missing. *)
Pinned(p, expected, s) ==
    IF p.known /\ {p.version, expected} \cap {0} = {} /\ p.version # expected
    THEN Thrown
    ELSE IF p.known /\ p.exe THEN Found(s, p.version, 0) ELSE Absent

(* The first of several directories that has the file. *)
FirstOf(dirs, s) ==
    IF dirs = {} THEN Absent
    ELSE Found(s, 0, CHOOSE d \in dirs : \A e \in dirs : d <= e)

(* The searches of resolve(), in the order it makes them. *)
Lookups(m) ==
    << Given(m.explicit, "explicit"),
       Given(m.env, "env"),
       Pinned(m.vendor, m.expected, "bundled"),
       Pinned(m.package, m.expected, "platform-package"),
       IF m.legacy THEN Found("platform-package", 0, 0) ELSE Absent,
       FirstOf(m.installDirs, "install-dir"),
       FirstOf(m.onPath, "path") >>

(* resolve(): the first search that finds something or throws decides;     *)
(* when none does, resolve() throws too.                                   *)
Resolve(m) ==
    LET decisive == {i \in 1 .. 7 : Lookups(m)[i].outcome # "absent"}
    IN  IF decisive = {} THEN Thrown
        ELSE Lookups(m)[CHOOSE i \in decisive : \A j \in decisive : i <= j]
=============================================================================
