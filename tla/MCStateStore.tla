---------------------------- MODULE MCStateStore ----------------------------
(* An instance of StateStore, and of the invariant of its proofs, for TLC: an older
   and a newer program. *)
EXTENDS StateStoreProofs, TLC

CONSTANTS older, newer

MCSupported == [p \in Procs |-> IF p = newer THEN 2 ELSE 1]

UpdateSymmetry == Permutations(Updates)
=============================================================================
