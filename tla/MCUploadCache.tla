---------------------------- MODULE MCUploadCache ----------------------------
(* Instances of UploadCache for TLC: calls are interchangeable. *)
EXTENDS UploadCache, TLC

Symmetry == Permutations(Calls)
=============================================================================
