--------------------------- MODULE MCDnsReconcile ---------------------------
(* DnsReconcile on small instances: see the .cfg files of this name.       *)
EXTENDS DnsReconcile, TLC

CONSTANTS v4, w4, v6

TypeOfTarget == [t \in Targets |-> IF t = v6 THEN "AAAA" ELSE "A"]

DnsSymmetry == Permutations(Calls) \cup Permutations(Ids) \cup Permutations({v4, w4})
=============================================================================
