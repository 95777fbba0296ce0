-------------------------- MODULE MCSessionHistory --------------------------
(***************************************************************************)
(* Instances of SessionHistory for TLC.  A configuration names the calls;  *)
(* each is made once, on any session object, at any time.  Nothing else is *)
(* bounded: the calls bound the tree and the position versions.            *)
(***************************************************************************)
EXTENDS SessionHistory, TLC

\* No definition tells two operations, files, collectors or sessions apart,
\* unless one of the sessions is resumed or used by one thread.
Symmetry == Permutations(Runs) \cup Permutations(Stages) \cup Permutations(Waits)
            \cup (IF Serial \cup Resumed = {} THEN Permutations(Sessions) ELSE {})
=============================================================================
