------------------------ MODULE MCSnapshotPolicies -------------------------
(***************************************************************************)
(* Instances of SnapshotPolicies for TLC: two cycles, so that a callback   *)
(* of the first can wait into the second, and two lifetimes, so that       *)
(* set_duration may shorten or extend one.                                 *)
(***************************************************************************)
EXTENDS SnapshotPolicies, TLC
=============================================================================
