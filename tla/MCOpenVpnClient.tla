--------------------------- MODULE MCOpenVpnClient ---------------------------
(* Instances of OpenVpnClient for TLC. *)
EXTENDS OpenVpnClient

Everywhere == BOOLEAN
=============================================================================
