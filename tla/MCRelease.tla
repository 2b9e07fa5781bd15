------------------------------ MODULE MCRelease ------------------------------
(* Instances of Release for TLC. *)
EXTENDS Release

(* openvpn-binaries.json in small: a vendored platform and a pending one,  *)
(* each with its executable.  Two platforms that ship have two files to    *)
(* copy, which is all that further libraries would add.                    *)
WindowsAndLinux == {"win32", "linux"}
TheirFiles == [t \in WindowsAndLinux |-> {"openvpn"}]
TheirSources == [t \in WindowsAndLinux |-> IF t = "win32" THEN "vendored" ELSE "pending"]
=============================================================================
