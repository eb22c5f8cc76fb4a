--------------------------- MODULE MCTunnelSystem ---------------------------
(* TunnelSystem on small instances: see the .cfg files of this name.       *)
EXTENDS TunnelSystem, TLC

CONSTANTS t1, t2, d1, d2

AutomaticFlags == {[token |-> t1, domain |-> Unnamed]}
MachineFlags == [token : {t1, t2}, domain : {Unnamed}] \cup {[token |-> t1, domain |-> d1]}

\* The bound of the run over three connections: the third is dialled while the
\* relay is up, when the first two were answered with a Welcome and their handlers
\* have ended. The first two overlap as they like.
ThirdAfterTwoWelcomes ==
    pc[3] # "new" => mode = "up" /\ \A c \in {1, 2} : pc[c] = "done" /\ told[c] = "ok"
=============================================================================
