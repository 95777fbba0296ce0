------------------------- MODULE MCOperationEvents -------------------------
(***************************************************************************)
(* Instances of OperationEvents for TLC.  A configuration names the calls; *)
(* each is made at most once, at any time.  A process writes at most once  *)
(* and the size cap comes at most once, so the calls bound the events.     *)
(***************************************************************************)
EXTENDS OperationEvents, TLC
=============================================================================
