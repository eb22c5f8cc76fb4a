--------------------------- MODULE MCTunnelServer ---------------------------
(* TunnelServer on small instances: see the .cfg files of this name.       *)
EXTENDS TunnelServer, TLC

\* Names play interchangeable parts. Connections do not: they are numbered; nor
\* do tokens where only some are bootstrap tokens.
NameSymmetry == Permutations(Domains)
=============================================================================
