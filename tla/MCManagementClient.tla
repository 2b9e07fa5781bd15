------------------------- MODULE MCManagementClient -------------------------
(* Instances of ManagementClient for TLC. *)
EXTENDS ManagementClient

(* The shape of DEFAULT_INIT_SEQUENCE with one command of each mode. *)
ShortInit == <<"single", "end">>

(* initSequence: [], as most of the client tests use. *)
NoInit == <<>>
=============================================================================
