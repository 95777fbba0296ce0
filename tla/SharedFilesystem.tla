-------------------------- MODULE SharedFilesystem --------------------------
(***************************************************************************)
(* What a lazy session promises about files, with no VM in sight.  Every   *)
(* command sees the effects of those before it; a save adds an entry that  *)
(* holds exactly those effects; another entry is selected only when        *)
(* nothing is unsaved; the end of the session drops what is unsaved.       *)
(***************************************************************************)
EXTENDS Naturals, Sequences

CONSTANT Commands

VARIABLES files,  \* commands whose effects the next command sees
          saved,  \* those that the selected entry holds
          log,    \* the entries, each the set of commands it holds
          acked,  \* commands whose callers got a result
          ended   \* the session closed or failed

vars == <<files, saved, log, acked, ended>>

Logged == UNION {log[i] : i \in DOMAIN log}

Init == files = {} /\ saved = {} /\ log = <<{}>> /\ acked = {} /\ ended = FALSE

RunCommand(c) ==
    /\ ~ended /\ files' = files \cup {c}
    /\ UNCHANGED <<saved, log, acked, ended>>

\* Only an ended session may answer for effects that were dropped since.
Acknowledge(c) ==
    /\ c \in files \cup Logged \/ ended
    /\ acked' = acked \cup {c}
    /\ UNCHANGED <<files, saved, log, ended>>

Save ==
    /\ ~ended /\ log' = Append(log, files) /\ saved' = files
    /\ UNCHANGED <<files, acked, ended>>

Select(i) ==
    /\ ~ended /\ files = saved
    /\ saved' = log[i] /\ files' = log[i]
    /\ UNCHANGED <<log, acked, ended>>

End ==
    /\ ~ended /\ ended' = TRUE /\ files' = saved
    /\ UNCHANGED <<saved, log, acked>>

Next ==
    \/ \E c \in Commands : RunCommand(c) \/ Acknowledge(c)
    \/ Save \/ End
    \/ \E i \in DOMAIN log : Select(i)

Spec == Init /\ [][Next]_vars

\* A result that was returned is never lost while the session lives: its
\* effects are visible to the next command or held by an entry.
AckedIsKept == ~ended => acked \subseteq files \cup Logged
=============================================================================
