----------------------------- MODULE EventLogs -----------------------------
(***************************************************************************)
(* What an operation promises to the readers of its events: one log, and   *)
(* for every reader a position in it.  A reader is given the events that    *)
(* concern it, each once and in order; it reaches the end only after the   *)
(* last of them, and a failure of the log never looks like its end.        *)
(***************************************************************************)
EXTENDS Sequences, Naturals, FiniteSets

CONSTANTS
    Events,             \* what a log holds
    Readers,            \* handles of subprocesses and subscriptions
    Concerns(_, _),     \* Concerns(r, e): reader r is given event e
    Last(_, _)          \* Last(r, e): r wants nothing after e

VARIABLES
    log, open, failed,
    read,               \* read[r]: the events given to r so far
    over                \* over[r]: "no", "whole", "broken" or "left"

vars == <<log, open, failed, read, over>>

\* How many of the first n events concern r; which of them r is given next.
Count(r, n) == Cardinality({i \in 1 .. n : Concerns(r, log[i])})
IsNext(r, i) == Concerns(r, log[i]) /\ Count(r, i) = Len(read[r]) + 1

Init ==
    /\ log = <<>> /\ open = TRUE /\ failed = FALSE
    /\ read = [r \in Readers |-> <<>>]
    /\ over = [r \in Readers |-> "no"]

Publish ==
    /\ open /\ ~failed /\ log' # log
    /\ \E e \in Events : log' = Append(log, e)
    /\ UNCHANGED <<open, failed, read, over>>

Fail == open /\ ~failed /\ failed' = TRUE /\ UNCHANGED <<log, open, read, over>>

Close == open /\ open' = FALSE /\ UNCHANGED <<log, failed, read, over>>

Read(r) ==
    /\ over[r] = "no" /\ read'[r] # read[r]
    /\ \E i \in DOMAIN log :
         /\ IsNext(r, i) /\ read' = [read EXCEPT ![r] = Append(@, log[i])]
         /\ over' = [over EXCEPT ![r] = IF Last(r, log[i]) THEN "whole" ELSE "no"]
    /\ UNCHANGED <<log, open, failed>>

Ends(r) ==
    /\ over[r] = "no" /\ over'[r] # "no" /\ ~open
    /\ \/ ~failed /\ Len(read[r]) = Count(r, Len(log)) /\ over' = [over EXCEPT ![r] = "whole"]
       \/ failed /\ over' = [over EXCEPT ![r] = "broken"]
    /\ UNCHANGED <<log, open, failed, read>>

Leaves(r) ==
    /\ over[r] = "no" /\ over' = [over EXCEPT ![r] = "left"]
    /\ UNCHANGED <<log, open, failed, read>>

Next ==
    \/ Publish \/ Fail \/ Close
    \/ \E r \in Readers : Read(r) \/ Ends(r) \/ Leaves(r)

Spec == Init /\ [][Next]_vars
=============================================================================
