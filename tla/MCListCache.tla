---------------------------- MODULE MCListCache ----------------------------
(* Instances of ListCache, and of the invariant of its proofs, for TLC. *)
EXTENDS ListCacheProofs
=============================================================================
