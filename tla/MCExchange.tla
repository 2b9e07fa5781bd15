----------------------------- MODULE MCExchange -----------------------------
(* Instances of Exchange for TLC. *)
EXTENDS Exchange

EitherRole == {"tunnel", "server"}
AllKinds == {"auth"} \cup Written
=============================================================================
