---------------------------- MODULE MCStateFile ----------------------------
(* StateFile on small instances: see the .cfg files of this name.          *)
EXTENDS StateFile, TLC

CONSTANTS d1

\* An older version has saved a name for every key.
OldName == [k \in Keys |-> d1]

CallSymmetry == Permutations(Procs)

\* What no call is going to write tells no two states apart: a save takes its
\* argument anew, and loads have none.
NamesInUse ==
    <<replaces, readable, file, past, pc, key, temp, answer,
      [p \in Procs |-> IF CallOf[pc[p]] = "save" THEN name[p] ELSE NoName]>>
=============================================================================
