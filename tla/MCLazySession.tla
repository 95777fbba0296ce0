--------------------------- MODULE MCLazySession ---------------------------
(***************************************************************************)
(* Instances of LazySession for TLC.  A configuration names the calls that *)
(* race; each is made at most once, in any order, and Racing bounds how    *)
(* many are.  Nothing else is bounded: the calls bound the VMs, entries    *)
(* and events.                                                             *)
(***************************************************************************)
EXTENDS LazySession, TLC

\* Commands are interchangeable: no definition tells one from another.
Symmetry == Permutations(Commands)
=============================================================================
