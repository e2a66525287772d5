-------------------------- MODULE MCSessionControl --------------------------
(* Instances of SessionControl, and of the invariant of its proofs, for TLC. *)
EXTENDS SessionControlProofs, TLC

CallerSymmetry == Permutations(Actors) \union Permutations(Pids)
=============================================================================
