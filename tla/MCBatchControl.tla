--------------------------- MODULE MCBatchControl ---------------------------
(* Instances of BatchControl, and of the invariant of its proofs, for TLC. *)
EXTENDS BatchControlProofs
=============================================================================
