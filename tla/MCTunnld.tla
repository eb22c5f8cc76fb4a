------------------------------ MODULE MCTunnld ------------------------------
(* The process of tunnld, for TLC. *)
EXTENDS Tunnld
=============================================================================
