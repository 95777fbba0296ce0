----------------------- MODULE SharedFilesystemProofs -----------------------
(***************************************************************************)
(* What the shared filesystem promises follows from its steps alone, so    *)
(* every implementation of SharedFilesystem!Spec inherits it.              *)
(***************************************************************************)
EXTENDS SharedFilesystem, SequenceTheorems, TLAPS

\* The selected files are those of some entry, and an acknowledged command is
\* visible or in an entry as long as the session lives.
Kept ==
    /\ log \in Seq(SUBSET Commands) /\ files \subseteq Commands
    /\ \E i \in DOMAIN log : log[i] = saved
    /\ AckedIsKept

\* Entries are only added: what the log held, it still holds.
LEMMA LogGrows ==
    ASSUME log \in Seq(SUBSET Commands), NEW f \in SUBSET Commands, log' = Append(log, f)
    PROVE  /\ log' \in Seq(SUBSET Commands)
           /\ Len(log) + 1 \in DOMAIN log' /\ log'[Len(log) + 1] = f
           /\ Logged \subseteq Logged'
<1>1. /\ DOMAIN log = 1 .. Len(log) /\ DOMAIN log' = 1 .. Len(log) + 1 /\ Len(log) \in Nat
      /\ \A i \in 1 .. Len(log) : log'[i] = log[i]
      /\ log'[Len(log) + 1] = f
  OBVIOUS
<1>2. Logged \subseteq Logged'
  <2> SUFFICES ASSUME NEW c, NEW i \in DOMAIN log, c \in log[i] PROVE c \in Logged'
    BY DEF Logged
  <2>1. i \in DOMAIN log' /\ c \in log'[i]
    BY <1>1
  <2> QED BY <2>1 DEF Logged
<1>3. log' \in Seq(SUBSET Commands)
  OBVIOUS
<1> QED BY <1>1, <1>2, <1>3

\* Every step of the abstract filesystem preserves Kept.
LEMMA KeptStep == Kept /\ [Next]_vars => Kept'
<1> SUFFICES ASSUME Kept, [Next]_vars PROVE Kept'
  OBVIOUS
<1>1. ASSUME NEW c \in Commands, RunCommand(c) PROVE Kept'
  BY <1>1 DEF Kept, AckedIsKept, RunCommand, Logged
<1>2. ASSUME NEW c \in Commands, Acknowledge(c) PROVE Kept'
  BY <1>2 DEF Kept, AckedIsKept, Acknowledge, Logged
<1>3. ASSUME Save PROVE Kept'
  <2>1. /\ log' \in Seq(SUBSET Commands) /\ Logged \subseteq Logged'
        /\ Len(log) + 1 \in DOMAIN log' /\ log'[Len(log) + 1] = files
    BY <1>3, LogGrows DEF Kept, Save
  <2> QED BY <1>3, <2>1 DEF Kept, AckedIsKept, Save
<1>4. ASSUME End PROVE Kept'
  <2>1. saved \subseteq Commands
    BY DEF Kept
  <2> QED BY <1>4, <2>1 DEF Kept, AckedIsKept, End
<1>5. ASSUME NEW i \in DOMAIN log, Select(i) PROVE Kept'
  <2>1. log[i] \subseteq Commands
    BY DEF Kept
  <2>2. files \subseteq Logged
    BY <1>5 DEF Kept, Select, Logged
  <2> QED BY <1>5, <2>1, <2>2 DEF Kept, AckedIsKept, Select, Logged
<1>6. ASSUME UNCHANGED vars PROVE Kept'
  BY <1>6 DEF Kept, AckedIsKept, vars, Logged
<1> QED BY <1>1, <1>2, <1>3, <1>4, <1>5, <1>6 DEF Next

\* A result once returned is never lost while the session lives: not by a
\* save, not by selecting another entry.
THEOREM AckedStaysKept == Spec => []AckedIsKept
<1>1. Init => Kept
  BY DEF Init, Kept, AckedIsKept, Logged
<1>2. Kept => AckedIsKept
  BY DEF Kept
<1> QED BY <1>1, <1>2, KeptStep, PTL DEF Spec
=============================================================================
