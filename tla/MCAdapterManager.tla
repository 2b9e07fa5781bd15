-------------------------- MODULE MCAdapterManager --------------------------
(* Instances of AdapterManager for TLC. *)
EXTENDS AdapterManager

AnyOf == BOOLEAN
AutoCandidates == <<"ovpn-dco", "root\\tap0901", "tap0901">>
OneBefore == <<"tap0901">>
=============================================================================
