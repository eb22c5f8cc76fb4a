------------------------------ MODULE MCProxy ------------------------------
(* Proxy on small instances: see the .cfg files of this name.              *)
EXTENDS Proxy, TLC

RequestSymmetry == Permutations(Requests)
=============================================================================
