---------------------------- MODULE MCDapChannel ----------------------------
(* Instances of DapChannel, and of the invariant of its proofs, for TLC. *)
EXTENDS DapChannelProofs, TLC

CallerSymmetry == Permutations(Callers)
=============================================================================
