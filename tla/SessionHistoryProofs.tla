------------------------ MODULE SessionHistoryProofs ------------------------
(***************************************************************************)
(* Theorems about SessionHistory, for any sessions, calls and branch names *)
(* and any schedule: IInv is inductive; what follows from it is that the   *)
(* store holds one immutable tree, that positions and branches are entries *)
(* that can be resumed, that collectors agree, and that a late result does *)
(* not move the position.                                                  *)
(***************************************************************************)
EXTENDS SessionHistory, TLAPS

-----------------------------------------------------------------------------
(* The tree grows                                                          *)

\* No node is changed or removed.
Grown == \A m \in DOMAIN tree : m \in DOMAIN tree' /\ tree'[m] = tree[m]

\* append() adds its node or leaves the tree as it is.
LEMMA AppendAdds ==
    ASSUME NEW n, NEW node, Append(n, node)
    PROVE  /\ Grown /\ DOMAIN tree' = DOMAIN tree \cup {n}
           /\ n \notin DOMAIN tree => tree'[n] = node
  BY DEF Append, With, Grown

\* What could be resumed still can.
LEMMA EntriesStay ==
    ASSUME Grown
    PROVE  /\ Entries \subseteq Entries'
           /\ \A n \in Entries : tree'[n] = tree[n]
  BY DEF Grown, Entries, HasImage

\* The parts of the invariant that say something of nodes survive growth when
\* what else they speak of stays.
LEMMA PositionStays ==
    ASSUME PositionIsEntry, Grown, UNCHANGED <<tip, image, branches>>,
           \A i \in Sessions : status'[i] = "ready" => status[i] = "ready"
    PROVE  PositionIsEntry'
  BY EntriesStay DEF PositionIsEntry

\* A navigation under way still aims at an entry.
LEMMA MovesStay ==
    ASSUME MovesAimed, Grown, goal' = goal, \A m \in Moves : pc'[m] = pc[m]
    PROVE  MovesAimed'
  BY EntriesStay DEF MovesAimed

\* An outcome stays when no other collector has answered since.
LEMMA OutcomesStay ==
    ASSUME OneOutcome, Grown, wait' = wait, \A w \in Waits : pc'[w] = pc[w]
    PROVE  OneOutcome'
  BY DEF OneOutcome, Grown, Kept

\* A node that fits the tree keeps its shape.
LEMMA TreeFits ==
    ASSUME TypeOK, TreeGrown, NEW n \in Ids, NEW node \in Node, Append(n, node),
           node.parent = None <=> n \in Sessions,
           n \in Sessions /\ n \notin DOMAIN tree => ~HasRoot,
           n \notin Sessions => node.parent \in Entries,
           n \in Jobs => (node.kind = "run" <=> node.image # None),
           n \notin Jobs => node.image # None
    PROVE  /\ TreeGrown'
           /\ DOMAIN tree' \subseteq Ids /\ tree' \in [DOMAIN tree' -> Node]
<1>1. Grown /\ DOMAIN tree' = DOMAIN tree \cup {n} /\ (n \notin DOMAIN tree => tree'[n] = node)
  BY AppendAdds
<1>2. Entries \subseteq Entries' BY <1>1, EntriesStay
<1>3. DOMAIN tree' \subseteq Ids /\ tree' \in [DOMAIN tree' -> Node]
  BY <1>1 DEF TypeOK, Grown, Append, With
<1>4. \A m \in DOMAIN tree' : tree'[m].parent = None <=> m \in Sessions
  BY <1>1 DEF TreeGrown, Grown
<1>5. \A m, k \in DOMAIN tree' \cap Sessions : m = k
  BY <1>1 DEF TreeGrown, Grown, HasRoot
<1>6. \A m \in DOMAIN tree' \ Sessions : tree'[m].parent \in Entries'
  BY <1>1, <1>2 DEF TreeGrown, Grown
<1>7. \A m \in DOMAIN tree' : m \in Jobs => (Kept(m)' <=> HasImage(m)')
  BY <1>1 DEF TreeGrown, Grown, Kept, HasImage
<1>8. \A m \in DOMAIN tree' \ Jobs : HasImage(m)'
  BY <1>1 DEF TreeGrown, Grown, HasImage
<1> QED BY <1>3, <1>4, <1>5, <1>6, <1>7, <1>8 DEF TreeGrown

\* A position that is an entry, and branches that name entries.
LEMMA PositionMoves ==
    ASSUME TypeOK, PositionIsEntry, UNCHANGED <<tree, status>>, NEW i \in Sessions,
           NEW names \in [Names -> Entries \cup {None}], Keep(i, names),
           UNCHANGED <<tip, image>> \/ \E n \in Entries : Select(i, n)
    PROVE  /\ PositionIsEntry'
           /\ tip' \in [Sessions -> Ids \cup {None}]
           /\ image' \in [Sessions -> Image] /\ \A k \in Sessions : image'[k] # None
           /\ branches' \in [Sessions -> [Names -> Ids \cup {None}]]
<1>1. Entries' = Entries /\ Entries \subseteq Ids
  BY DEF TypeOK, Entries, HasImage
<1>2. names \in [Names -> Ids \cup {None}] BY <1>1
<1>3. branches' \in [Sessions -> [Names -> Ids \cup {None}]]
  BY <1>2 DEF TypeOK, Keep
<1>4. ASSUME NEW k \in Sessions, status[k] = "ready", NEW b \in Names
      PROVE  branches'[k][b] \in Entries \cup {None}
  BY <1>4 DEF TypeOK, PositionIsEntry, Keep
<1>5. CASE UNCHANGED <<tip, image>>
  BY <1>1, <1>3, <1>4, <1>5 DEF TypeOK, PositionIsEntry
<1>6. ASSUME NEW n \in Entries, Select(i, n)
      PROVE  /\ tip' \in [Sessions -> Ids \cup {None}]
             /\ image' \in [Sessions -> Image] /\ \A k \in Sessions : image'[k] # None
             /\ \A k \in Sessions : status[k] = "ready" =>
                    tip'[k] \in Entries /\ image'[k] = tree[tip'[k]].image
  <2>1. n \in Ids /\ n \in DOMAIN tree /\ tree[n].image # None /\ tree[n].image \in Image
    BY <1>1 DEF Entries, HasImage, TypeOK, Node
  <2>2. tip' = [tip EXCEPT ![i] = n] /\ image' = [image EXCEPT ![i] = tree[n].image]
    BY <1>6 DEF Select
  <2>3. tip' \in [Sessions -> Ids \cup {None}] BY <2>1, <2>2 DEF TypeOK
  <2>4. image' \in [Sessions -> Image] /\ \A k \in Sessions : image'[k] # None
    BY <2>1, <2>2 DEF TypeOK
  <2>5. \A k \in Sessions : status[k] = "ready" =>
            tip'[k] \in Entries /\ image'[k] = tree[tip'[k]].image
    BY <2>1, <2>2 DEF TypeOK, PositionIsEntry
  <2> QED BY <2>3, <2>4, <2>5
<1>7. CASE \E n \in Entries : Select(i, n)
  BY <1>1, <1>3, <1>4, <1>6, <1>7 DEF PositionIsEntry
<1> QED BY <1>5, <1>7

\* A new version outruns the calls begun before it.
LEMMA VersionMoves ==
    ASSUME TypeOK, NEW i \in Sessions, NewVersion(i)
    PROVE  /\ version' \in [Sessions -> Nat]
           /\ \A k \in Sessions : version[k] <= version'[k]
           /\ version[i] < version'[i]
  BY DEF TypeOK, NewVersion

\* What a session's branches may become: they keep their entries, follow a
\* result, or are moved to an entry by name.
NamesOf == [Names -> Entries \cup {None}]

\* The branches of an opened session are such, and its position is an entry.
LEMMA NamesNow ==
    ASSUME TypeOK, PositionIsEntry, NEW i \in Sessions, status[i] = "ready"
    PROVE  branches[i] \in NamesOf /\ tip[i] \in Entries
  BY DEF TypeOK, PositionIsEntry, NamesOf

\* A branch moved to an entry.
LEMMA NamesMoved ==
    ASSUME NEW names \in NamesOf, NEW n \in Entries, NEW b \in Names
    PROVE  [names EXCEPT ![b] = n] \in NamesOf
  BY DEF NamesOf

\* Branches that follow a result.
LEMMA NamesFollow ==
    ASSUME NEW i \in Sessions, branches[i] \in NamesOf, NEW n \in Entries, NEW x
    PROVE  Followed(i, n, x) \in NamesOf
  BY DEF Followed, NamesOf

\* The step that ends a call leaves the other calls where they are.
LEMMA Gone ==
    ASSUME TypeOK, NEW c \in Calls, NEW where, Go(c, where),
           where \in Steps
    PROVE  /\ pc' \in [Calls -> Steps]
           /\ pc'[c] = where
           /\ \A d \in Calls \ {c} : pc'[d] = pc[d]
  BY DEF TypeOK, Go

-----------------------------------------------------------------------------
(* Every action keeps the invariant: one lemma per action, one step per    *)
(* part of IInv                                                            *)

\* Looking for a root changes nothing that is stored.
LEMMA OpenLooksKeeps ==
    ASSUME IInv, NEW i \in Sessions, OpenLooks(i)
    PROVE  IInv'
<1>1. TypeOK'
  BY DEF IInv, TypeOK, OpenLooks, store, position, contexts
<1>2. TreeGrown'
  BY DEF IInv, TreeGrown, OpenLooks, store, Entries, HasImage, Kept
<1>3. PositionIsEntry'
  BY DEF IInv, PositionIsEntry, OpenLooks, store, position, Entries, HasImage
<1>4. CallsSourced'
  BY DEF IInv, CallsSourced, OpenLooks, store, position, contexts, Entries, HasImage
<1>5. MovesAimed'
  BY DEF IInv, MovesAimed, OpenLooks, store, contexts, Entries, HasImage
<1>6. WaitsMatched'
  BY DEF IInv, WaitsMatched, OpenLooks, store, position, contexts
<1>7. OneOutcome'
  BY DEF IInv, OneOutcome, OpenLooks, store, contexts, Kept
<1>8. StaleOutrun'
  BY DEF IInv, StaleOutrun, OpenLooks, position, contexts
<1> QED BY <1>1, <1>2, <1>3, <1>4, <1>5, <1>6, <1>7, <1>8 DEF IInv

\* A root is appended only where there is none.
LEMMA OpenAppendsKeeps ==
    ASSUME IInv, NEW i \in Sessions, OpenAppends(i)
    PROVE  IInv'
<1>call. Grown /\ TreeGrown' /\ DOMAIN tree' \subseteq Ids /\ tree' \in [DOMAIN tree' -> Node]
  <2>1. CASE UNCHANGED tree
    BY <2>1 DEF IInv, TypeOK, TreeGrown, Grown, Entries, HasImage, Kept
  <2>2. CASE Append(i, RootNode) /\ ~HasRoot
    <3>1. RootNode \in Node /\ RootNode.parent = None /\ RootNode.image # None
      BY HistoryAssumption DEF RootNode, Node, Image, Kinds
    <3>2. i \in Ids /\ i \notin Jobs
      BY HistoryAssumption DEF Ids, Calls, Sources
    <3> QED BY <2>2, <3>1, <3>2, TreeFits, AppendAdds DEF IInv
  <2> QED BY <2>1, <2>2 DEF OpenAppends, RootIsFirst
<1>1. TypeOK'
  BY <1>call DEF IInv, TypeOK, OpenAppends, position, contexts
<1>2. TreeGrown'
  BY <1>call
<1>3. PositionIsEntry'
  <2>1. \A k \in Sessions : status'[k] = "ready" => status[k] = "ready"
    BY DEF IInv, TypeOK, OpenAppends
  <2> QED BY <1>call, <2>1, PositionStays DEF IInv, OpenAppends, position
<1>4. CallsSourced'
  BY <1>call, EntriesStay DEF IInv, TypeOK, CallsSourced, Grown, OpenAppends, position, contexts
<1>5. MovesAimed'
  BY <1>call, MovesStay DEF IInv, OpenAppends, contexts
<1>6. WaitsMatched'
  BY DEF IInv, WaitsMatched, OpenAppends, position, contexts
<1>7. OneOutcome'
  BY <1>call, OutcomesStay DEF IInv, OpenAppends, contexts
<1>8. StaleOutrun'
  BY DEF IInv, StaleOutrun, OpenAppends, position, contexts
<1> QED BY <1>1, <1>2, <1>3, <1>4, <1>5, <1>6, <1>7, <1>8 DEF IInv

\* A session opens at an entry that can be resumed.
LEMMA OpenSelectsKeeps ==
    ASSUME IInv, NEW i \in Sessions, OpenSelects(i)
    PROVE  IInv'
<1>1. TypeOK'
  <2>1. PICK n \in Entries :
            Select(i, n) /\ Keep(i, [b \in Names |-> IF b = Main THEN n ELSE None])
    BY DEF OpenSelects
  <2>2. n \in Ids /\ tree[n].image \in Image /\ tree[n].image # None
    BY DEF IInv, TypeOK, Entries, HasImage, Node
  <2>3. tip' \in [Sessions -> Ids \cup {None}] /\ image' \in [Sessions -> Image]
    BY <2>1, <2>2 DEF IInv, TypeOK, Select
  <2>4. \A k \in Sessions : image'[k] # None
    BY <2>1, <2>2 DEF IInv, TypeOK, Select
  <2>5. branches' \in [Sessions -> [Names -> Ids \cup {None}]]
    BY <2>1, <2>2 DEF IInv, TypeOK, Keep
  <2> QED BY <2>3, <2>4, <2>5 DEF IInv, TypeOK, OpenSelects, store, contexts
<1>2. TreeGrown'
  BY DEF IInv, TreeGrown, OpenSelects, store, Entries, HasImage, Kept
<1>3. PositionIsEntry'
  BY DEF IInv, TypeOK, PositionIsEntry, OpenSelects, store, Keep, Select, Entries,
     HasImage
<1>4. CallsSourced'
  BY DEF IInv, CallsSourced, OpenSelects, store, contexts, Entries, HasImage
<1>5. MovesAimed'
  BY DEF IInv, MovesAimed, OpenSelects, store, contexts, Entries, HasImage
<1>6. WaitsMatched'
  BY DEF IInv, WaitsMatched, OpenSelects, store, contexts
<1>7. OneOutcome'
  BY DEF IInv, OneOutcome, OpenSelects, store, contexts, Kept
<1>8. StaleOutrun'
  BY DEF IInv, StaleOutrun, OpenSelects, contexts
<1> QED BY <1>1, <1>2, <1>3, <1>4, <1>5, <1>6, <1>7, <1>8 DEF IInv

\* A call captures the entry its session is at.
LEMMA BeginKeeps ==
    ASSUME IInv, NEW c \in Sources, NEW i \in Sessions, Begin(c, i)
    PROVE  IInv'
<1> DEFINE where == IF c \in Runs \cup Jobs THEN "spawned" ELSE "preparing"
<1>call. /\ c \in Calls /\ pc[c] = "idle" /\ status[i] = "ready"
         /\ pc' = [pc EXCEPT ![c] = where] /\ home' = [home EXCEPT ![c] = i]
  BY DEF Begin, MayCall, Go, Calls
<1>step. PICK b \in Names \cup {None} :
          ctx' = [ctx EXCEPT ![c] = [parent |-> tip[i], branch |-> active[i],
                                     version |-> version[i], image |-> Result(c, i),
                                     into |-> b]]
  BY DEF Begin
<1>other. /\ tip[i] \in Entries /\ tip[i] \in Ids /\ image[i] \in SUBSET Effects
          /\ active[i] \in Names /\ version[i] \in Nat
  BY <1>call DEF IInv, TypeOK, PositionIsEntry, Image, Entries
<1>went. Result(c, i) \in SUBSET Effects /\ Result(c, i) # None
  BY <1>other, HistoryAssumption DEF Result, PendingFiles, Effects
<1>1. TypeOK'
  <2>1. pc' \in [Calls -> Steps]
    BY <1>call DEF IInv, TypeOK, Steps, Within
  <2>2. home' \in [Calls -> Sessions \cup {None}]
    BY <1>call DEF IInv, TypeOK
  <2>3. ctx' \in [Sources -> Context]
    BY <1>step, <1>other, <1>went DEF IInv, TypeOK, Context, Image
  <2> QED BY <2>1, <2>2, <2>3 DEF IInv, TypeOK, Begin, store, position
<1>2. TreeGrown'
  BY DEF IInv, TreeGrown, Begin, store, Entries, HasImage, Kept
<1>3. PositionIsEntry'
  BY DEF IInv, PositionIsEntry, Begin, store, position, Entries, HasImage
<1>4. CallsSourced'
  <2>1. UNCHANGED <<tree, status, version>> /\ Entries' = Entries
    BY DEF Begin, store, position, Entries, HasImage
  <2>2. \A d \in Calls : /\ pc'[d] = "idle" <=> home'[d] = None
                         /\ pc'[d] # "idle" => status[home'[d]] = "ready"
    BY <1>call, HistoryAssumption DEF IInv, TypeOK, CallsSourced, Ids
  <2>3. ASSUME NEW d \in Sources, pc'[d] # "idle"
        PROVE  /\ ctx'[d].parent \in Entries /\ ctx'[d].image # None
               /\ ctx'[d].version <= version[home'[d]]
    <3>1. CASE d = c
      BY <1>call, <1>step, <1>other, <1>went, <3>1 DEF IInv, TypeOK
    <3>2. CASE d # c
      BY <1>call, <1>step, <2>3, <3>2 DEF IInv, TypeOK, CallsSourced, Calls
    <3> QED BY <3>1, <3>2
  <2>4. \A d \in Sources \ Jobs : pc'[d] = "appended" => d \in DOMAIN tree
    BY <1>call DEF IInv, TypeOK, CallsSourced, Calls
  <2>5. Entries' = Entries /\ DOMAIN tree' = DOMAIN tree /\ version' = version /\ status' = status
    BY <2>1
  <2> QED BY <2>2, <2>3, <2>4, <2>5 DEF CallsSourced
<1>5. MovesAimed'
  BY DEF IInv, MovesAimed, Begin, store, Go, Entries, HasImage
<1>6. WaitsMatched'
  BY HistoryAssumption DEF IInv, WaitsMatched, Begin, store, position, Go, Sources
<1>7. OneOutcome'
  BY DEF IInv, OneOutcome, Begin, store, Go, Kept
<1>8. StaleOutrun'
  BY DEF IInv, StaleOutrun, Begin, position, Go
<1> QED BY <1>1, <1>2, <1>3, <1>4, <1>5, <1>6, <1>7, <1>8 DEF IInv

\* A result that is not kept leaves the history alone.
LEMMA DropKeeps ==
    ASSUME IInv, NEW r \in Runs, Drop(r)
    PROVE  IInv'
<1>1. TypeOK'
  BY DEF IInv, TypeOK, Drop, store, position, contexts, Go, Calls, Sources, Steps
<1>2. TreeGrown'
  BY DEF IInv, TreeGrown, Drop, store, Entries, HasImage, Kept
<1>3. PositionIsEntry'
  BY DEF IInv, PositionIsEntry, Drop, store, position, Entries, HasImage
<1>4. CallsSourced'
  BY DEF IInv, CallsSourced, Drop, store, position, contexts, Go, Entries, HasImage
<1>5. MovesAimed'
  BY DEF IInv, MovesAimed, Drop, store, contexts, Go, Entries, HasImage
<1>6. WaitsMatched'
  BY DEF IInv, WaitsMatched, Drop, store, position, contexts, Go
<1>7. OneOutcome'
  BY DEF IInv, OneOutcome, Drop, store, contexts, Go, Kept
<1>8. StaleOutrun'
  BY DEF IInv, StaleOutrun, Drop, position, contexts, Go
<1> QED BY <1>1, <1>2, <1>3, <1>4, <1>5, <1>6, <1>7, <1>8 DEF IInv

\* A call that appends its entry, whether or not the answer arrives, leaves the
\* positions alone; commit_result() may name a branch at the same time.
LEMMA AppendsToKeeps ==
    ASSUME IInv, NEW c \in Runs \cup Stages \cup Settings, AppendsTo(c), pc[c] # "idle",
           ctx' = ctx \/ \E b \in Names \cup {None} : ctx' = [ctx EXCEPT ![c].into = b]
    PROVE  IInv'
<1>call. /\ c \in Sources \ Jobs /\ c \in Calls /\ c \in Ids /\ c \notin Sessions
  BY HistoryAssumption DEF Calls, Sources, Ids
<1>step. /\ \/ Append(c, NodeOf(c)) /\ (Go(c, "appended") \/ Go(c, "raised"))
            \/ UNCHANGED tree /\ Go(c, "raised")
         /\ UNCHANGED <<registered, outcome, status, position, home, wait, goal>>
  BY DEF AppendsTo
<1>other. /\ c \notin Moves \cup Waits /\ pc[c] # "idle"
  BY HistoryAssumption
<1>went. PICK where \in {"appended", "raised"} :
          Go(c, where) /\ (where = "appended" => Append(c, NodeOf(c)))
  BY <1>step
<1>grows. Grown /\ TreeGrown' /\ DOMAIN tree' \subseteq Ids /\ tree' \in [DOMAIN tree' -> Node]
  <2>1. CASE UNCHANGED tree
    BY <2>1 DEF IInv, TypeOK, TreeGrown, Grown, Entries, HasImage, Kept
  <2>2. CASE Append(c, NodeOf(c))
    <3>1. ctx[c] \in Context /\ ctx[c].parent \in Entries /\ ctx[c].image # None
      BY <1>call, <1>other DEF IInv, TypeOK, CallsSourced
    <3>2. ctx[c].parent # None /\ ctx[c].parent \in Ids
      BY <3>1, HistoryAssumption DEF IInv, TypeOK, Entries
    <3>3. NodeOf(c) \in Node
      BY <3>1, <3>2 DEF NodeOf, Node, Context, Kinds
    <3>4. NodeOf(c).parent = ctx[c].parent /\ NodeOf(c).image = ctx[c].image
      BY DEF NodeOf
    <3> QED BY <1>call, <2>2, <3>1, <3>2, <3>3, <3>4, TreeFits, AppendAdds DEF IInv
  <2> QED BY <1>step, <2>1, <2>2
<1>added. c \in DOMAIN tree' \/ where = "raised"
  BY <1>went, AppendAdds
<1>pc. \A d \in Calls \ {c} : pc'[d] = pc[d]
  BY <1>call, <1>went DEF Go, IInv, TypeOK
<1>1. TypeOK'
  <2>1. pc' \in [Calls -> Steps]
    BY <1>call, <1>went DEF IInv, TypeOK, Go, Steps, Within
  <2>2. ctx' \in [Sources -> Context]
    <3>1. ctx' = ctx \/ \E b \in Names \cup {None} : ctx' = [ctx EXCEPT ![c].into = b]
      OBVIOUS
    <3>2. ctx[c] \in Context
      BY <1>call DEF IInv, TypeOK
    <3>3. ASSUME NEW b \in Names \cup {None}
          PROVE  [ctx[c] EXCEPT !.into = b] \in Context
      BY <3>2 DEF Context
    <3>4. ASSUME NEW b \in Names \cup {None}, ctx' = [ctx EXCEPT ![c].into = b]
          PROVE  ctx' \in [Sources -> Context]
      BY <1>call, <3>3, <3>4 DEF IInv, TypeOK
    <3> QED BY <3>1, <3>4 DEF IInv, TypeOK
  <2> QED BY <1>step, <1>grows, <2>1, <2>2 DEF IInv, TypeOK, position
<1>2. TreeGrown'
  BY <1>grows
<1>3. PositionIsEntry'
  BY <1>step, <1>grows, PositionStays DEF IInv, position
<1>4. CallsSourced'
  <2>1. /\ \A d \in Sources : /\ ctx'[d].parent = ctx[d].parent /\ ctx'[d].image = ctx[d].image
                             /\ ctx'[d].version = ctx[d].version
        /\ UNCHANGED <<home, status, version>>
    BY <1>step DEF IInv, TypeOK, Context, position
  <2>2. \A d \in Calls : pc'[d] = "idle" <=> pc[d] = "idle"
    BY <1>call, <1>other, <1>went, <1>pc DEF Go, IInv, TypeOK
  <2>3. \A d \in Sources \ Jobs : pc'[d] = "appended" => d \in DOMAIN tree'
    BY <1>call, <1>went, <1>grows, <1>added, <1>pc DEF IInv, TypeOK, CallsSourced, Grown, Go, Calls
  <2> QED BY <1>grows, <2>1, <2>2, <2>3, EntriesStay DEF IInv, CallsSourced, Calls
<1>5. MovesAimed'
  <2>1. \A m \in Moves : pc'[m] = pc[m]
    BY <1>other, <1>pc DEF Calls
  <2> QED BY <1>step, <1>grows, <2>1, MovesStay DEF IInv
<1>6. WaitsMatched'
  BY DEF IInv, TypeOK, WaitsMatched, position, Go, AppendsTo, Calls,
     Sources
<1>7. OneOutcome'
  <2>1. \A w \in Waits : pc'[w] = pc[w]
    BY <1>other, <1>pc DEF Calls
  <2> QED BY <1>step, <1>grows, <2>1, OutcomesStay DEF IInv
<1>8. StaleOutrun'
  <2>1. /\ \A d \in Sources : ctx'[d].version = ctx[d].version
        /\ UNCHANGED <<home, version, wait, stale>>
    BY <1>step DEF IInv, TypeOK, Context, position
  <2> QED BY <1>call, <1>other, <1>went, <1>pc, <2>1 DEF Go, IInv, TypeOK, StaleOutrun
<1> QED BY <1>1, <1>2, <1>3, <1>4, <1>5, <1>6, <1>7, <1>8 DEF IInv

\* A file or a setting is appended under its source.
LEMMA EntryAppendsKeeps ==
    ASSUME IInv, NEW c \in Stages \cup Settings, EntryAppends(c)
    PROVE  IInv'
  BY AppendsToKeeps DEF EntryAppends

\* A result is appended under its source, once or again.
LEMMA CommitAppendsKeeps ==
    ASSUME IInv, NEW r \in Runs, CommitAppends(r)
    PROVE  IInv'
<1>1. pc[r] # "idle" BY DEF CommitAppends
<1>2. ctx' = ctx \/ \E b \in Names \cup {None} : ctx' = [ctx EXCEPT ![r].into = b]
  BY DEF CommitAppends
<1> QED BY <1>1, <1>2, AppendsToKeeps DEF CommitAppends

\* A result moves branches and position to its own entry.
LEMMA CommitMovesKeeps ==
    ASSUME IInv, NEW r \in Runs, CommitMoves(r)
    PROVE  IInv'
<1> DEFINE i == home[r]
<1>call. /\ r \in Calls /\ i \in Sessions /\ status[i] = "ready"
         /\ Go(r, "done") /\ pc[r] = "appended" /\ "done" \in Steps
  BY HistoryAssumption DEF CommitMoves, IInv, TypeOK, CallsSourced, Calls, Sources, Ids, Steps
<1>entry. r \in Entries
  BY <1>call, HistoryAssumption DEF CommitMoves, IInv, TreeGrown, CallsSourced, Entries, Sources
<1>names. PICK names \in NamesOf :
          Keep(i, names) /\ (UNCHANGED <<tip, image>> \/ \E n \in Entries : Select(i, n))
  <2> DEFINE x == ctx[r]  followed == Followed(i, r, x)
  <2>1. x \in Context /\ active[i] \in Names
    BY <1>call DEF IInv, TypeOK, Sources
  <2>2. CASE x.into # None
    <3>1. x.into \in Names BY <2>1, <2>2 DEF Context
    <3>2. followed \in NamesOf BY <1>call, <1>entry, NamesNow, NamesFollow DEF IInv
    <3> HIDE DEF followed
    <3>3. [followed EXCEPT ![x.into] = r] \in NamesOf
      BY <1>entry, <3>1, <3>2, NamesMoved
    <3> QED BY <1>entry, <2>2, <3>3 DEF CommitMoves, followed
  <2>3. CASE x.into = None
    <3>1. followed \in NamesOf BY <1>call, <1>entry, NamesNow, NamesFollow DEF IInv
    <3> HIDE DEF followed
    <3>2. [followed EXCEPT ![active[i]] = r] \in NamesOf
      BY <1>entry, <2>1, <3>1, NamesMoved
    <3> QED BY <1>entry, <2>3, <3>1, <3>2 DEF CommitMoves, followed
  <2> QED BY <2>2, <2>3
<1>1. TypeOK'
  <2>1. pc' \in [Calls -> Steps]
    BY <1>call, Gone DEF IInv
  <2>2. active' \in [Sessions -> Names]
    <3>1. ctx[r] \in Context BY DEF IInv, TypeOK, Sources
    <3> QED BY <1>call, <3>1 DEF CommitMoves, IInv, TypeOK, Context
  <2>3. /\ tip' \in [Sessions -> Ids \cup {None}]
        /\ image' \in [Sessions -> Image] /\ \A k \in Sessions : image'[k] # None
        /\ branches' \in [Sessions -> [Names -> Ids \cup {None}]]
    BY <1>call, <1>names, PositionMoves DEF IInv, NamesOf, CommitMoves, store, position
  <2> QED BY <2>1, <2>2, <2>3 DEF IInv, TypeOK, CommitMoves, store, position, contexts
<1>2. TreeGrown'
  BY DEF IInv, TreeGrown, CommitMoves, store, Entries, HasImage, Kept
<1>3. PositionIsEntry'
  BY <1>call, <1>names, PositionMoves DEF IInv, NamesOf, CommitMoves, store, position
<1>4. CallsSourced'
  BY DEF IInv, CallsSourced, CommitMoves, store, contexts, Go, Entries, HasImage
<1>5. MovesAimed'
  BY DEF IInv, MovesAimed, CommitMoves, store, contexts, Go, Entries, HasImage
<1>6. WaitsMatched'
  BY DEF IInv, WaitsMatched, CommitMoves, store, contexts, Go
<1>7. OneOutcome'
  BY HistoryAssumption DEF IInv, OneOutcome, CommitMoves, store, contexts, Go, Kept
<1>8. StaleOutrun'
  BY DEF IInv, StaleOutrun, CommitMoves, contexts, Go
<1> QED BY <1>1, <1>2, <1>3, <1>4, <1>5, <1>6, <1>7, <1>8 DEF IInv

\* A staged file moves branches and position to its own entry.
LEMMA StageMovesKeeps ==
    ASSUME IInv, NEW s \in Stages \cup Settings, StageMoves(s)
    PROVE  IInv'
<1> DEFINE i == home[s]
<1>call. /\ s \in Calls /\ i \in Sessions /\ status[i] = "ready"
         /\ Go(s, "done") /\ pc[s] = "appended" /\ "done" \in Steps
  BY HistoryAssumption DEF StageMoves, IInv, TypeOK, CallsSourced, Calls, Sources, Ids, Steps
<1>entry. s \in Entries
  BY <1>call, HistoryAssumption DEF StageMoves, IInv, TreeGrown, CallsSourced, Entries, Sources
<1>names. PICK names \in NamesOf :
          Keep(i, names) /\ (UNCHANGED <<tip, image>> \/ \E n \in Entries : Select(i, n))
  <2> DEFINE x == ctx[s]  followed == Followed(i, s, x)
  <2>1. active[i] \in Names
    BY <1>call DEF IInv, TypeOK
  <2>2. followed \in NamesOf BY <1>call, <1>entry, NamesNow, NamesFollow DEF IInv
  <2> HIDE DEF followed
  <2>3. [followed EXCEPT ![active[i]] = s] \in NamesOf
    BY <1>entry, <2>1, <2>2, NamesMoved
  <2> QED BY <1>entry, <2>2, <2>3 DEF StageMoves, followed
<1>1. TypeOK'
  <2>1. pc' \in [Calls -> Steps]
    BY <1>call, Gone DEF IInv
  <2>2. active' \in [Sessions -> Names]
    BY DEF StageMoves, IInv, TypeOK
  <2>3. /\ tip' \in [Sessions -> Ids \cup {None}]
        /\ image' \in [Sessions -> Image] /\ \A k \in Sessions : image'[k] # None
        /\ branches' \in [Sessions -> [Names -> Ids \cup {None}]]
    BY <1>call, <1>names, PositionMoves DEF IInv, NamesOf, StageMoves, store, position
  <2> QED BY <2>1, <2>2, <2>3 DEF IInv, TypeOK, StageMoves, store, position, contexts
<1>2. TreeGrown'
  BY DEF IInv, TreeGrown, StageMoves, store, Entries, HasImage, Kept
<1>3. PositionIsEntry'
  BY <1>call, <1>names, PositionMoves DEF IInv, NamesOf, StageMoves, store, position
<1>4. CallsSourced'
  BY DEF IInv, CallsSourced, StageMoves, store, contexts, Go, Entries, HasImage
<1>5. MovesAimed'
  BY DEF IInv, MovesAimed, StageMoves, store, contexts, Go, Entries, HasImage
<1>6. WaitsMatched'
  BY DEF IInv, WaitsMatched, StageMoves, store, contexts, Go
<1>7. OneOutcome'
  BY HistoryAssumption DEF IInv, OneOutcome, StageMoves, store, contexts, Go, Kept
<1>8. StaleOutrun'
  BY DEF IInv, StaleOutrun, StageMoves, contexts, Go
<1> QED BY <1>1, <1>2, <1>3, <1>4, <1>5, <1>6, <1>7, <1>8 DEF IInv

\* A setting moves its branch and position to its own entry, and outruns older calls.
LEMMA SettingMovesKeeps ==
    ASSUME IInv, NEW c \in Stages \cup Settings, SettingMoves(c)
    PROVE  IInv'
<1> DEFINE i == home[c]
<1>call. /\ c \in Calls /\ i \in Sessions /\ status[i] = "ready"
         /\ Go(c, "done") /\ pc[c] = "appended" /\ "done" \in Steps
  BY HistoryAssumption DEF SettingMoves, IInv, TypeOK, CallsSourced, Calls, Sources, Ids, Steps
<1>entry. c \in Entries
  BY <1>call, HistoryAssumption DEF SettingMoves, IInv, TreeGrown, CallsSourced, Entries, Sources
<1>names. PICK names \in NamesOf :
          Keep(i, names) /\ (UNCHANGED <<tip, image>> \/ \E n \in Entries : Select(i, n))
  <2>1. active[i] \in Names
    BY <1>call DEF IInv, TypeOK
  <2>2. branches[i] \in NamesOf
    BY <1>call, NamesNow DEF IInv
  <2>3. [branches[i] EXCEPT ![active[i]] = c] \in NamesOf
    BY <1>entry, <2>1, <2>2, NamesMoved
  <2> QED BY <1>entry, <2>3 DEF SettingMoves
<1>version. /\ version' \in [Sessions -> Nat] /\ version[i] < version'[i]
            /\ \A k \in Sessions : version[k] <= version'[k]
            /\ version \in [Sessions -> Nat]
  BY <1>call, VersionMoves DEF SettingMoves, IInv, TypeOK
<1>pc. pc'[c] = "done" /\ \A d \in Calls \ {c} : pc'[d] = pc[d]
  BY <1>call, Gone DEF IInv
<1>home. \A d \in Calls : pc[d] # "idle" => home[d] \in Sessions
  BY HistoryAssumption DEF IInv, TypeOK, CallsSourced, Ids
<1>nat. /\ \A d \in Sources : ctx[d].version \in Nat
        /\ \A w \in Waits : wait[w].version \in Nat
  BY DEF IInv, TypeOK, Context, Wait
<1>rest. /\ UNCHANGED <<tree, registered, status, home, ctx, wait, goal>>
         /\ stale' = stale \cup {d \in Calls : home[d] = i} /\ Entries' = Entries
  BY DEF SettingMoves, store, contexts, Navigated, Entries, HasImage
<1>1. TypeOK'
  <2>1. pc' \in [Calls -> Steps]
    BY <1>call, Gone DEF IInv
  <2>2. active' \in [Sessions -> Names]
    BY DEF SettingMoves, IInv, TypeOK
  <2>3. /\ tip' \in [Sessions -> Ids \cup {None}]
        /\ image' \in [Sessions -> Image] /\ \A k \in Sessions : image'[k] # None
        /\ branches' \in [Sessions -> [Names -> Ids \cup {None}]]
    BY <1>call, <1>names, PositionMoves DEF IInv, NamesOf, SettingMoves, store, position
  <2>4. version' \in [Sessions -> Nat]
    BY <1>version
  <2>5. stale' \subseteq Calls
    BY DEF SettingMoves, Navigated, IInv, TypeOK
  <2> QED BY <2>1, <2>2, <2>3, <2>4, <2>5 DEF IInv, TypeOK, SettingMoves, store, position, contexts
<1>2. TreeGrown'
  BY DEF IInv, TreeGrown, SettingMoves, store, Entries, HasImage, Kept
<1>3. PositionIsEntry'
  BY <1>call, <1>names, PositionMoves DEF IInv, NamesOf, SettingMoves, store, position
<1>4. CallsSourced'
  <2>1. \A d \in Sources : pc'[d] # "idle" => ctx[d].version <= version'[home[d]]
    BY <1>call, <1>pc, <1>version, <1>nat, <1>home DEF IInv, CallsSourced, Calls
  <2>2. \A d \in Calls : pc'[d] = "idle" <=> pc[d] = "idle"
    BY <1>call, <1>pc
  <2>3. \A d \in Sources \ Jobs : pc'[d] = "appended" => pc[d] = "appended"
    BY <1>call, <1>pc DEF Calls
  <2> QED BY <1>rest, <2>1, <2>2, <2>3 DEF IInv, CallsSourced, Calls
<1>5. MovesAimed'
  BY DEF IInv, MovesAimed, SettingMoves, store, contexts, Go, Entries, HasImage
<1>6. WaitsMatched'
  <2>1. \A w \in Waits : pc[w] # "idle" => wait[w].version <= version'[home[w]]
    BY <1>version, <1>nat, <1>home DEF IInv, WaitsMatched, Calls
  <2>2. \A d \in Calls : pc'[d] = "idle" <=> pc[d] = "idle"
    BY <1>call, <1>pc
  <2>3. Jobs \subseteq Calls /\ Waits \subseteq Calls /\ registered \subseteq Jobs
    BY DEF Calls, Sources, IInv, TypeOK
  <2> QED BY <1>rest, <2>1, <2>2, <2>3 DEF IInv, WaitsMatched
<1>7. OneOutcome'
  BY HistoryAssumption DEF IInv, OneOutcome, SettingMoves, store, contexts, Go, Kept
<1>8. StaleOutrun'
  <2>1. \A d \in Calls : pc'[d] = "idle" <=> pc[d] = "idle"
    BY <1>call, <1>pc
  <2>2. \A d \in stale' : pc[d] # "idle"
    BY <1>call, <1>rest, HistoryAssumption DEF IInv, StaleOutrun, CallsSourced, Ids
  <2>3. \A d \in stale' \cap Sources : ctx[d].version < version'[home[d]]
    BY <1>rest, <1>version, <1>nat, <1>home, <2>2 DEF IInv, StaleOutrun, CallsSourced, Calls
  <2>4. \A w \in stale' \cap Waits : wait[w].version < version'[home[w]]
    BY <1>rest, <1>version, <1>nat, <1>home, <2>2 DEF IInv, StaleOutrun, WaitsMatched, Calls
  <2>5. stale' \subseteq Calls
    BY <1>rest DEF IInv, TypeOK
  <2> QED BY <1>rest, <2>1, <2>2, <2>3, <2>4, <2>5 DEF StaleOutrun
<1> QED BY <1>1, <1>2, <1>3, <1>4, <1>5, <1>6, <1>7, <1>8 DEF IInv

\* A new branch names an entry that can be resumed.
LEMMA CreateBranchKeeps ==
    ASSUME IInv, NEW i \in Sessions, NEW b \in Names, CreateBranch(i, b)
    PROVE  IInv'
<1>names. PICK names \in NamesOf : Keep(i, names)
  <2>1. status[i] = "ready" BY DEF CreateBranch, MayCall
  <2>2. branches[i] \in NamesOf /\ tip[i] \in Entries
    BY <2>1 DEF IInv, TypeOK, PositionIsEntry, NamesOf
  <2>3. \A n \in Entries : [branches[i] EXCEPT ![b] = n] \in NamesOf
    BY <2>2 DEF NamesOf
  <2>4. \A d \in Names : branches[i][d] # None => branches[i][d] \in Entries
    BY <2>2 DEF NamesOf
  <2> QED BY <2>2, <2>3, <2>4 DEF CreateBranch
<1>position. /\ PositionIsEntry'
             /\ branches' \in [Sessions -> [Names -> Ids \cup {None}]]
  BY <1>names, PositionMoves DEF IInv, NamesOf, CreateBranch, store
<1>1. TypeOK'
  BY <1>position DEF IInv, TypeOK, CreateBranch, store, contexts
<1>2. TreeGrown'
  BY DEF IInv, TreeGrown, CreateBranch, store, Entries, HasImage, Kept
<1>3. PositionIsEntry'
  BY <1>position
<1>4. CallsSourced'
  BY DEF IInv, CallsSourced, CreateBranch, store, contexts, Entries, HasImage
<1>5. MovesAimed'
  BY DEF IInv, MovesAimed, CreateBranch, store, contexts, Entries, HasImage
<1>6. WaitsMatched'
  BY DEF IInv, WaitsMatched, CreateBranch, store, contexts
<1>7. OneOutcome'
  BY DEF IInv, OneOutcome, CreateBranch, store, contexts, Kept
<1>8. StaleOutrun'
  BY DEF IInv, StaleOutrun, CreateBranch, contexts
<1> QED BY <1>1, <1>2, <1>3, <1>4, <1>5, <1>6, <1>7, <1>8 DEF IInv

\* A deleted branch names nothing.
LEMMA DeleteBranchKeeps ==
    ASSUME IInv, NEW i \in Sessions, NEW b \in Names, DeleteBranch(i, b)
    PROVE  IInv'
<1>1. TypeOK'
  BY DEF IInv, TypeOK, DeleteBranch, store, contexts, Keep
<1>2. TreeGrown'
  BY DEF IInv, TreeGrown, DeleteBranch, store, Entries, HasImage, Kept
<1>3. PositionIsEntry'
  BY DEF IInv, PositionIsEntry, DeleteBranch, store, Keep, Entries, HasImage
<1>4. CallsSourced'
  BY DEF IInv, CallsSourced, DeleteBranch, store, contexts, Entries, HasImage
<1>5. MovesAimed'
  BY DEF IInv, MovesAimed, DeleteBranch, store, contexts, Entries, HasImage
<1>6. WaitsMatched'
  BY DEF IInv, WaitsMatched, DeleteBranch, store, contexts
<1>7. OneOutcome'
  BY DEF IInv, OneOutcome, DeleteBranch, store, contexts, Kept
<1>8. StaleOutrun'
  BY DEF IInv, StaleOutrun, DeleteBranch, contexts
<1> QED BY <1>1, <1>2, <1>3, <1>4, <1>5, <1>6, <1>7, <1>8 DEF IInv

\* A navigation aims at an entry.
LEMMA MoveBeginsKeeps ==
    ASSUME IInv, NEW m \in Moves, NEW i \in Sessions, MoveBegins(m, i)
    PROVE  IInv'
<1>call. /\ m \in Calls /\ pc[m] = "idle" /\ status[i] = "ready" /\ home' = [home EXCEPT ![m] = i]
         /\ pc' = [pc EXCEPT ![m] = "moving"] /\ m \notin Sources /\ m \notin Waits
  BY HistoryAssumption DEF MoveBegins, MayCall, Go, Calls, Sources
<1>goal. PICK b \in Names \cup {None}, n \in Entries :
            goal' = [goal EXCEPT ![m] = [name |-> b, target |-> n]]
  <2>1. \A b \in Names : branches[i][b] # None => branches[i][b] \in Entries
    BY <1>call DEF IInv, PositionIsEntry
  <2> QED BY <2>1 DEF MoveBegins
<1>rest. UNCHANGED <<tree, status, version, ctx>> /\ Entries' = Entries
  BY DEF MoveBegins, store, position, Entries, HasImage
<1>1. TypeOK'
  <2>1. pc' \in [Calls -> Steps]
    BY <1>call DEF IInv, TypeOK, Steps, Within
  <2>2. home' \in [Calls -> Sessions \cup {None}]
    BY <1>call DEF IInv, TypeOK
  <2>3. goal' \in [Moves -> Goal]
    <3>1. [name |-> b, target |-> n] \in Goal BY DEF Goal, Entries, IInv, TypeOK
    <3> QED BY <1>goal, <3>1 DEF IInv, TypeOK
  <2> QED BY <2>1, <2>2, <2>3 DEF IInv, TypeOK, MoveBegins, store, position
<1>2. TreeGrown'
  BY DEF IInv, TreeGrown, MoveBegins, store, Entries, HasImage, Kept
<1>3. PositionIsEntry'
  BY DEF IInv, PositionIsEntry, MoveBegins, store, position, Entries, HasImage
<1>4. CallsSourced'
  <2>1. \A d \in Calls : /\ pc'[d] = "idle" <=> home'[d] = None
                         /\ pc'[d] # "idle" => status[home'[d]] = "ready"
    BY <1>call, HistoryAssumption DEF IInv, TypeOK, CallsSourced, Ids
  <2>2. \A d \in Sources : pc'[d] = pc[d] /\ home'[d] = home[d]
    BY <1>call DEF IInv, TypeOK, Calls
  <2> QED BY <1>rest, <2>1, <2>2 DEF IInv, CallsSourced
<1>5. MovesAimed'
  BY <1>call, <1>goal, <1>rest DEF IInv, TypeOK, MovesAimed, Calls
<1>6. WaitsMatched'
  BY HistoryAssumption DEF IInv, WaitsMatched, MoveBegins, store, position, Go
<1>7. OneOutcome'
  BY DEF IInv, OneOutcome, MoveBegins, store, Go, Kept
<1>8. StaleOutrun'
  BY DEF IInv, StaleOutrun, MoveBegins, position, Go
<1> QED BY <1>1, <1>2, <1>3, <1>4, <1>5, <1>6, <1>7, <1>8 DEF IInv

\* A navigation arrives where it aimed, and outruns older calls.
LEMMA MoveEndsKeeps ==
    ASSUME IInv, NEW m \in Moves, MoveEnds(m)
    PROVE  IInv'
<1> DEFINE i == home[m]
<1>call. /\ m \in Calls /\ i \in Sessions /\ status[i] = "ready"
         /\ Go(m, "done") /\ pc[m] = "moving" /\ "done" \in Steps
  BY HistoryAssumption DEF MoveEnds, IInv, TypeOK, CallsSourced, Calls, Sources, Ids, Steps
<1>entry. goal[m] \in Goal /\ goal[m].target \in Entries
  BY <1>call DEF IInv, TypeOK, MovesAimed
<1>names. PICK names \in NamesOf :
          Keep(i, names) /\ (UNCHANGED <<tip, image>> \/ \E n \in Entries : Select(i, n))
  <2>1. active[i] \in Names
    BY <1>call DEF IInv, TypeOK
  <2>2. branches[i] \in NamesOf
    BY <1>call, NamesNow DEF IInv
  <2>3. [branches[i] EXCEPT ![active[i]] = goal[m].target] \in NamesOf
    BY <1>entry, <2>1, <2>2, NamesMoved
  <2>4. branches' = branches => Keep(i, branches[i])
    BY <1>call DEF Keep, IInv, TypeOK
  <2> QED BY <1>entry, <2>2, <2>3, <2>4 DEF MoveEnds
<1>version. /\ version' \in [Sessions -> Nat] /\ version[i] < version'[i]
            /\ \A k \in Sessions : version[k] <= version'[k]
            /\ version \in [Sessions -> Nat]
  BY <1>call, VersionMoves DEF MoveEnds, IInv, TypeOK
<1>pc. pc'[m] = "done" /\ \A d \in Calls \ {m} : pc'[d] = pc[d]
  BY <1>call, Gone DEF IInv
<1>home. \A d \in Calls : pc[d] # "idle" => home[d] \in Sessions
  BY HistoryAssumption DEF IInv, TypeOK, CallsSourced, Ids
<1>nat. /\ \A d \in Sources : ctx[d].version \in Nat
        /\ \A w \in Waits : wait[w].version \in Nat
  BY DEF IInv, TypeOK, Context, Wait
<1>rest. /\ UNCHANGED <<tree, registered, status, home, ctx, wait, goal>>
         /\ stale' = stale \cup {d \in Calls : home[d] = i} /\ Entries' = Entries
  BY DEF MoveEnds, store, contexts, Navigated, Entries, HasImage
<1>1. TypeOK'
  <2>1. pc' \in [Calls -> Steps]
    BY <1>call, Gone DEF IInv
  <2>2. active' \in [Sessions -> Names]
    <3>1. goal[m].name \in Names \cup {None}
      BY SMT, <1>entry DEF Goal
    <3> QED BY <1>call, <3>1 DEF MoveEnds, IInv, TypeOK
  <2>3. /\ tip' \in [Sessions -> Ids \cup {None}]
        /\ image' \in [Sessions -> Image] /\ \A k \in Sessions : image'[k] # None
        /\ branches' \in [Sessions -> [Names -> Ids \cup {None}]]
    BY <1>call, <1>names, PositionMoves DEF IInv, NamesOf, MoveEnds, store, position
  <2>4. version' \in [Sessions -> Nat]
    BY <1>version
  <2>5. stale' \subseteq Calls
    BY DEF MoveEnds, Navigated, IInv, TypeOK
  <2> QED BY <2>1, <2>2, <2>3, <2>4, <2>5 DEF IInv, TypeOK, MoveEnds, store, position, contexts
<1>2. TreeGrown'
  BY DEF IInv, TreeGrown, MoveEnds, store, Entries, HasImage, Kept
<1>3. PositionIsEntry'
  BY <1>call, <1>names, PositionMoves DEF IInv, NamesOf, MoveEnds, store, position
<1>4. CallsSourced'
  <2>1. \A d \in Sources : pc'[d] # "idle" => ctx[d].version <= version'[home[d]]
    BY <1>call, <1>pc, <1>version, <1>nat, <1>home DEF IInv, CallsSourced, Calls
  <2>2. \A d \in Calls : pc'[d] = "idle" <=> pc[d] = "idle"
    BY <1>call, <1>pc
  <2>3. \A d \in Sources \ Jobs : pc'[d] = "appended" => pc[d] = "appended"
    BY <1>call, <1>pc DEF Calls
  <2> QED BY <1>rest, <2>1, <2>2, <2>3 DEF IInv, CallsSourced, Calls
<1>5. MovesAimed'
  BY DEF IInv, MovesAimed, MoveEnds, store, contexts, Go, Entries, HasImage
<1>6. WaitsMatched'
  <2>1. \A w \in Waits : pc[w] # "idle" => wait[w].version <= version'[home[w]]
    BY <1>version, <1>nat, <1>home DEF IInv, WaitsMatched, Calls
  <2>2. \A d \in Calls : pc'[d] = "idle" <=> pc[d] = "idle"
    BY <1>call, <1>pc
  <2>3. Jobs \subseteq Calls /\ Waits \subseteq Calls /\ registered \subseteq Jobs
    BY DEF Calls, Sources, IInv, TypeOK
  <2> QED BY <1>rest, <2>1, <2>2, <2>3 DEF IInv, WaitsMatched
<1>7. OneOutcome'
  BY HistoryAssumption DEF IInv, OneOutcome, MoveEnds, store, contexts, Go, Kept
<1>8. StaleOutrun'
  <2>1. \A d \in Calls : pc'[d] = "idle" <=> pc[d] = "idle"
    BY <1>call, <1>pc
  <2>2. \A d \in stale' : pc[d] # "idle"
    BY <1>call, <1>rest, HistoryAssumption DEF IInv, StaleOutrun, CallsSourced, Ids
  <2>3. \A d \in stale' \cap Sources : ctx[d].version < version'[home[d]]
    BY <1>rest, <1>version, <1>nat, <1>home, <2>2 DEF IInv, StaleOutrun, CallsSourced, Calls
  <2>4. \A w \in stale' \cap Waits : wait[w].version < version'[home[w]]
    BY <1>rest, <1>version, <1>nat, <1>home, <2>2 DEF IInv, StaleOutrun, WaitsMatched, Calls
  <2>5. stale' \subseteq Calls
    BY <1>rest DEF IInv, TypeOK
  <2> QED BY <1>rest, <2>1, <2>2, <2>3, <2>4, <2>5 DEF StaleOutrun
<1> QED BY <1>1, <1>2, <1>3, <1>4, <1>5, <1>6, <1>7, <1>8 DEF IInv

\* An operation is registered after it was spawned.
LEMMA RegisterKeeps ==
    ASSUME IInv, NEW j \in Jobs, Register(j)
    PROVE  IInv'
<1>1. TypeOK'
  <2>1. pc' \in [Calls -> Steps]
    BY DEF Register, Go, IInv, TypeOK, Steps, Within
  <2>2. outcome' \in [Jobs -> {"running", "success", "failed", "cancelled"}]
    BY DEF Register, Cancelled, IInv, TypeOK
  <2>3. registered' \subseteq Jobs
    BY DEF Register, IInv, TypeOK
  <2> QED BY <2>1, <2>2, <2>3 DEF IInv, TypeOK, Register, position, contexts
<1>2. TreeGrown'
  BY DEF IInv, TreeGrown, Register, Entries, HasImage, Kept
<1>3. PositionIsEntry'
  BY DEF IInv, PositionIsEntry, Register, position, Entries, HasImage
<1>4. CallsSourced'
  BY DEF IInv, TypeOK, CallsSourced, Register, position, contexts, Go, Calls, Entries,
     HasImage
<1>5. MovesAimed'
  BY DEF IInv, TypeOK, MovesAimed, Register, contexts, Go, Calls, Entries, HasImage
<1>6. WaitsMatched'
  BY DEF IInv, TypeOK, WaitsMatched, Register, position, contexts, Go, Calls, Sources
<1>7. OneOutcome'
  BY HistoryAssumption DEF IInv, TypeOK, OneOutcome, Register, contexts, Go, Calls,
     Kept
<1>8. StaleOutrun'
  BY DEF IInv, TypeOK, StaleOutrun, Register, position, contexts, Go
<1> QED BY <1>1, <1>2, <1>3, <1>4, <1>5, <1>6, <1>7, <1>8 DEF IInv

\* An operation that ends changes no history.
LEMMA JobEndsKeeps ==
    ASSUME IInv, NEW j \in Jobs, JobEnds(j)
    PROVE  IInv'
<1>1. TypeOK'
  BY DEF IInv, TypeOK, JobEnds, store, position, contexts
<1>2. TreeGrown'
  BY DEF IInv, TreeGrown, JobEnds, store, Entries, HasImage, Kept
<1>3. PositionIsEntry'
  BY DEF IInv, PositionIsEntry, JobEnds, store, position, Entries, HasImage
<1>4. CallsSourced'
  BY DEF IInv, CallsSourced, JobEnds, store, position, contexts, Entries, HasImage
<1>5. MovesAimed'
  BY DEF IInv, MovesAimed, JobEnds, store, contexts, Entries, HasImage
<1>6. WaitsMatched'
  BY DEF IInv, WaitsMatched, JobEnds, store, position, contexts
<1>7. OneOutcome'
  BY DEF IInv, OneOutcome, JobEnds, store, contexts, Kept
<1>8. StaleOutrun'
  BY DEF IInv, StaleOutrun, JobEnds, position, contexts
<1> QED BY <1>1, <1>2, <1>3, <1>4, <1>5, <1>6, <1>7, <1>8 DEF IInv

\* A collector holds its session's version and what is stored.
LEMMA WaitBeginsKeeps ==
    ASSUME IInv, NEW w \in Waits, NEW i \in Sessions, NEW j \in Jobs, WaitBegins(w, i, j)
    PROVE  IInv'
<1>call. /\ w \in Calls /\ pc[w] = "idle" /\ status[i] = "ready" /\ home' = [home EXCEPT ![w] = i]
         /\ pc' = [pc EXCEPT ![w] = IF j \in DOMAIN tree THEN "answered" ELSE "waiting"]
         /\ w \notin Sources /\ w \notin Moves /\ j \in registered
  BY HistoryAssumption DEF WaitBegins, MayCall, Go, Calls, Sources
<1>wait. PICK b \in Names \cup {None}, v \in Nat, advances \in BOOLEAN, keeps \in BOOLEAN :
            /\ wait' = [wait EXCEPT ![w] = [job |-> j, version |-> v, into |-> b,
                                           advances |-> advances, keeps |-> keeps]]
            /\ v <= version[i]
            /\ pc'[w] = "answered" => j \in DOMAIN tree /\ (keeps <=> Kept(j))
  <2>1. PICK b \in Names \cup {None} :
            wait' = [wait EXCEPT ![w] = [job |-> j, version |-> version[i], into |-> b,
                                       advances |-> j \notin DOMAIN tree,
                                       keeps |-> j \in DOMAIN tree /\ Kept(j)]]
    BY DEF WaitBegins
  <2>2. version[i] \in Nat BY DEF IInv, TypeOK
  <2> DEFINE stored == j \in DOMAIN tree  kept == stored /\ Kept(j)
  <2>3. pc'[w] = "answered" => stored
    BY <1>call DEF IInv, TypeOK
  <2>4. wait' = [wait EXCEPT ![w] = [job |-> j, version |-> version[i], into |-> b,
                                   advances |-> ~stored, keeps |-> kept]]
    BY <2>1
  <2>5. (~stored) \in BOOLEAN /\ kept \in BOOLEAN /\ (stored => (kept <=> Kept(j)))
    OBVIOUS
  <2>6. version[i] <= version[i] BY <2>2
  <2> HIDE DEF kept
  <2> QED BY <2>2, <2>3, <2>4, <2>5, <2>6, Zenon DEF stored
<1>rest. UNCHANGED <<tree, registered, status, version, ctx, goal>> /\ Entries' = Entries
  BY DEF WaitBegins, store, position, Entries, HasImage
<1>1. TypeOK'
  <2>1. pc' \in [Calls -> Steps]
    BY <1>call DEF IInv, TypeOK, Steps, Within
  <2>2. home' \in [Calls -> Sessions \cup {None}]
    BY <1>call DEF IInv, TypeOK
  <2>3. wait' \in [Waits -> Wait]
    <3>1. [job |-> j, version |-> v, into |-> b, advances |-> advances, keeps |-> keeps] \in Wait
      BY DEF Wait
    <3> QED BY <1>wait, <3>1 DEF IInv, TypeOK
  <2> QED BY <2>1, <2>2, <2>3 DEF IInv, TypeOK, WaitBegins, store, position
<1>2. TreeGrown'
  BY DEF IInv, TreeGrown, WaitBegins, store, Entries, HasImage, Kept
<1>3. PositionIsEntry'
  BY DEF IInv, PositionIsEntry, WaitBegins, store, position, Entries, HasImage
<1>4. CallsSourced'
  <2>1. \A d \in Calls : /\ pc'[d] = "idle" <=> home'[d] = None
                         /\ pc'[d] # "idle" => status[home'[d]] = "ready"
    BY <1>call, HistoryAssumption DEF IInv, TypeOK, CallsSourced, Ids
  <2>2. \A d \in Sources : pc'[d] = pc[d] /\ home'[d] = home[d]
    BY <1>call DEF IInv, TypeOK, Calls
  <2> QED BY <1>rest, <2>1, <2>2 DEF IInv, CallsSourced
<1>5. MovesAimed'
  BY DEF IInv, MovesAimed, WaitBegins, store, Go, Entries, HasImage
<1>6. WaitsMatched'
  <2>1. \A d \in Calls : pc[d] # "idle" => pc'[d] # "idle"
    BY <1>call DEF IInv, TypeOK
  <2>2. /\ home'[w] = i /\ wait'[w].job = j /\ wait'[w].version = v
    BY <1>call, <1>wait DEF IInv, TypeOK
  <2>3. \A u \in Waits \ {w} : wait'[u] = wait[u] /\ home'[u] = home[u] /\ pc'[u] = pc[u]
    BY <1>call, <1>wait DEF IInv, TypeOK, Calls
  <2>4. Jobs \subseteq Calls /\ registered \subseteq Jobs
    BY DEF Calls, Sources, IInv, TypeOK
  <2> QED BY <1>call, <1>wait, <1>rest, <2>1, <2>2, <2>3, <2>4 DEF IInv, WaitsMatched
<1>7. OneOutcome'
  <2>1. wait'[w].job = j /\ wait'[w].keeps = keeps
    BY <1>wait DEF IInv, TypeOK
  <2>2. \A u \in Waits \ {w} : wait'[u] = wait[u] /\ pc'[u] = pc[u]
    BY <1>call, <1>wait DEF IInv, TypeOK, Calls
  <2>3. pc'[w] \in {"answered", "waiting"} /\ tree' = tree
    BY <1>call, <1>rest DEF IInv, TypeOK
  <2> QED BY <1>wait, <2>1, <2>2, <2>3 DEF IInv, OneOutcome, Kept
<1>8. StaleOutrun'
  BY DEF IInv, StaleOutrun, WaitBegins, position, Go
<1> QED BY <1>1, <1>2, <1>3, <1>4, <1>5, <1>6, <1>7, <1>8 DEF IInv

\* A handle holds a version its session had.
LEMMA HandleBeginsKeeps ==
    ASSUME IInv, NEW w \in Waits, NEW i \in Sessions, NEW j \in Jobs, HandleBegins(w, i, j)
    PROVE  IInv'
<1>call. /\ w \in Calls /\ pc[w] = "idle" /\ status[i] = "ready" /\ home' = [home EXCEPT ![w] = i]
         /\ pc' = [pc EXCEPT ![w] = "waiting"]
         /\ w \notin Sources /\ w \notin Moves /\ j \in registered
  BY HistoryAssumption DEF HandleBegins, MayCall, Go, Calls, Sources
<1>wait. PICK b \in Names \cup {None}, v \in Nat, advances \in BOOLEAN, keeps \in BOOLEAN :
            /\ wait' = [wait EXCEPT ![w] = [job |-> j, version |-> v, into |-> b,
                                           advances |-> advances, keeps |-> keeps]]
            /\ v <= version[i]
            /\ pc'[w] = "waiting"
  <2>1. PICK v \in {0} \cup {ctx[c].version : c \in {j} \cap Spawned(i)} :
            wait' = [wait EXCEPT ![w] = [job |-> j, version |-> v, into |-> None,
                                       advances |-> TRUE, keeps |-> FALSE]]
    BY DEF HandleBegins
  <2>2. v \in Nat /\ v <= version[i]
    <3>1. version[i] \in Nat /\ ctx[j].version \in Nat
      BY DEF IInv, TypeOK, Context, Sources
    <3>2. j \in Spawned(i) => ctx[j].version <= version[i]
      BY DEF Spawned, IInv, CallsSourced, Sources
    <3> QED BY <2>1, <3>1, <3>2
  <2>3. pc'[w] = "waiting" BY <1>call DEF IInv, TypeOK
  <2> QED BY <2>1, <2>2, <2>3
<1>rest. UNCHANGED <<tree, registered, status, version, ctx, goal>> /\ Entries' = Entries
  BY DEF HandleBegins, store, position, Entries, HasImage
<1>1. TypeOK'
  <2>1. pc' \in [Calls -> Steps]
    BY <1>call DEF IInv, TypeOK, Steps, Within
  <2>2. home' \in [Calls -> Sessions \cup {None}]
    BY <1>call DEF IInv, TypeOK
  <2>3. wait' \in [Waits -> Wait]
    <3>1. [job |-> j, version |-> v, into |-> b, advances |-> advances, keeps |-> keeps] \in Wait
      BY DEF Wait
    <3> QED BY <1>wait, <3>1 DEF IInv, TypeOK
  <2> QED BY <2>1, <2>2, <2>3 DEF IInv, TypeOK, HandleBegins, store, position
<1>2. TreeGrown'
  BY DEF IInv, TreeGrown, HandleBegins, store, Entries, HasImage, Kept
<1>3. PositionIsEntry'
  BY DEF IInv, PositionIsEntry, HandleBegins, store, position, Entries, HasImage
<1>4. CallsSourced'
  <2>1. \A d \in Calls : /\ pc'[d] = "idle" <=> home'[d] = None
                         /\ pc'[d] # "idle" => status[home'[d]] = "ready"
    BY <1>call, HistoryAssumption DEF IInv, TypeOK, CallsSourced, Ids
  <2>2. \A d \in Sources : pc'[d] = pc[d] /\ home'[d] = home[d]
    BY <1>call DEF IInv, TypeOK, Calls
  <2> QED BY <1>rest, <2>1, <2>2 DEF IInv, CallsSourced
<1>5. MovesAimed'
  BY DEF IInv, MovesAimed, HandleBegins, store, Go, Entries, HasImage
<1>6. WaitsMatched'
  <2>1. \A d \in Calls : pc[d] # "idle" => pc'[d] # "idle"
    BY <1>call DEF IInv, TypeOK
  <2>2. /\ home'[w] = i /\ wait'[w].job = j /\ wait'[w].version = v
    BY <1>call, <1>wait DEF IInv, TypeOK
  <2>3. \A u \in Waits \ {w} : wait'[u] = wait[u] /\ home'[u] = home[u] /\ pc'[u] = pc[u]
    BY <1>call, <1>wait DEF IInv, TypeOK, Calls
  <2>4. Jobs \subseteq Calls /\ registered \subseteq Jobs
    BY DEF Calls, Sources, IInv, TypeOK
  <2> QED BY <1>call, <1>wait, <1>rest, <2>1, <2>2, <2>3, <2>4 DEF IInv, WaitsMatched
<1>7. OneOutcome'
  <2>1. wait'[w].job = j /\ wait'[w].keeps = keeps
    BY <1>wait DEF IInv, TypeOK
  <2>2. \A u \in Waits \ {w} : wait'[u] = wait[u] /\ pc'[u] = pc[u]
    BY <1>call, <1>wait DEF IInv, TypeOK, Calls
  <2>3. pc'[w] \in {"answered", "waiting"} /\ tree' = tree
    BY <1>call, <1>rest DEF IInv, TypeOK
  <2> QED BY <1>wait, <2>1, <2>2, <2>3 DEF IInv, OneOutcome, Kept
<1>8. StaleOutrun'
  BY DEF IInv, StaleOutrun, HandleBegins, position, Go
<1> QED BY <1>1, <1>2, <1>3, <1>4, <1>5, <1>6, <1>7, <1>8 DEF IInv

\* A collector that gives up changes no history.
LEMMA WaitGivesUpKeeps ==
    ASSUME IInv, NEW w \in Waits, WaitGivesUp(w)
    PROVE  IInv'
<1>1. TypeOK'
  BY DEF IInv, TypeOK, WaitGivesUp, store, position, contexts, Go, Cancelled, Calls, Steps
<1>2. TreeGrown'
  BY DEF IInv, TreeGrown, WaitGivesUp, store, Entries, HasImage, Kept
<1>3. PositionIsEntry'
  BY DEF IInv, PositionIsEntry, WaitGivesUp, store, position, Entries, HasImage
<1>4. CallsSourced'
  BY DEF IInv, CallsSourced, WaitGivesUp, store, position, contexts, Go, Entries,
     HasImage
<1>5. MovesAimed'
  BY DEF IInv, MovesAimed, WaitGivesUp, store, contexts, Go, Entries, HasImage
<1>6. WaitsMatched'
  BY DEF IInv, WaitsMatched, WaitGivesUp, store, position, contexts, Go
<1>7. OneOutcome'
  BY DEF IInv, OneOutcome, WaitGivesUp, store, contexts, Go, Kept
<1>8. StaleOutrun'
  BY DEF IInv, StaleOutrun, WaitGivesUp, position, contexts, Go
<1> QED BY <1>1, <1>2, <1>3, <1>4, <1>5, <1>6, <1>7, <1>8 DEF IInv

\* A collector that finds an outcome stored answers it.
LEMMA WaitDecidesKeeps ==
    ASSUME IInv, NEW w \in Waits, WaitDecides(w)
    PROVE  IInv'
<1> DEFINE j == wait[w].job
<1>call. /\ w \in Calls /\ w \notin Sources \cup Moves /\ pc[w] = "waiting" /\ j \in Jobs
         /\ UNCHANGED <<tree, registered, outcome, status, position, home, ctx, goal>>
         /\ \/ Go(w, "answered") \/ Go(w, "finishing")
  BY HistoryAssumption DEF WaitDecides, Calls, Sources, store, IInv, WaitsMatched
<1>wait. PICK keeps \in BOOLEAN :
            /\ wait' = [wait EXCEPT ![w].keeps = keeps]
            /\ pc'[w] = "answered" => j \in DOMAIN tree /\ (keeps <=> Kept(j))
  <2>1. CASE j \in DOMAIN tree
    BY <2>1 DEF WaitDecides, Kept
  <2>2. CASE j \notin DOMAIN tree
    <3>1. pc'[w] = "finishing" BY <1>call, <2>2 DEF WaitDecides, Go, IInv, TypeOK
    <3> QED BY <2>2, <3>1 DEF WaitDecides
  <2> QED BY <2>1, <2>2
<1>pc. /\ pc'[w] \in {"answered", "finishing"} /\ \A d \in Calls \ {w} : pc'[d] = pc[d]
  BY <1>call DEF Go, IInv, TypeOK
<1>same. /\ \A u \in Waits : wait'[u].job = wait[u].job /\ wait'[u].version = wait[u].version
         /\ \A u \in Waits \ {w} : wait'[u] = wait[u]
         /\ wait'[w].keeps = keeps
  BY <1>wait DEF IInv, TypeOK, Wait
<1>1. TypeOK'
  <2>1. pc' \in [Calls -> Steps]
    BY <1>call DEF IInv, TypeOK, Go, Steps, Within
  <2>2. wait' \in [Waits -> Wait]
    <3>1. [wait[w] EXCEPT !.keeps = keeps] \in Wait BY DEF IInv, TypeOK, Wait
    <3> QED BY <1>wait, <3>1 DEF IInv, TypeOK
  <2> QED BY <1>call, <2>1, <2>2 DEF IInv, TypeOK, position
<1>2. TreeGrown'
  BY DEF IInv, TreeGrown, WaitDecides, store, Entries, HasImage, Kept
<1>3. PositionIsEntry'
  BY DEF IInv, PositionIsEntry, WaitDecides, store, position, Entries, HasImage
<1>4. CallsSourced'
  BY DEF IInv, TypeOK, CallsSourced, WaitDecides, store, position, Go, Calls, Entries,
     HasImage
<1>5. MovesAimed'
  BY DEF IInv, TypeOK, MovesAimed, WaitDecides, store, Go, Calls, Entries, HasImage
<1>6. WaitsMatched'
  <2>1. Jobs \subseteq Calls /\ Waits \subseteq Calls /\ registered \subseteq Jobs
    BY DEF Calls, Sources, IInv, TypeOK
  <2>2. \A d \in Calls : pc'[d] = "idle" <=> pc[d] = "idle"
    BY <1>call, <1>pc
  <2> QED BY <1>call, <1>same, <2>1, <2>2 DEF IInv, WaitsMatched, position
<1>7. OneOutcome'
  <2>1. Waits \subseteq Calls BY DEF Calls
  <2>2. \A u \in Waits \ {w} : wait'[u] = wait[u] /\ pc'[u] = pc[u]
    BY <1>same, <1>pc, <2>1
  <2> QED BY <1>call, <1>wait, <1>pc, <1>same, <2>2 DEF IInv, OneOutcome, Kept
<1>8. StaleOutrun'
  <2>1. stale \subseteq Calls BY DEF IInv, TypeOK
  <2>2. \A d \in Calls : pc'[d] = "idle" <=> pc[d] = "idle"
    BY <1>call, <1>pc
  <2> QED BY <1>call, <1>same, <2>1, <2>2 DEF IInv, StaleOutrun, position
<1> QED BY <1>1, <1>2, <1>3, <1>4, <1>5, <1>6, <1>7, <1>8 DEF IInv

\* Of two collectors the first stores the outcome, and both answer it.
LEMMA WaitAppendsKeeps ==
    ASSUME IInv, NEW w \in Waits, WaitAppends(w)
    PROVE  IInv'
<1> DEFINE j == wait[w].job  node == ResultNode(j, wait[w].keeps)
<1>call. /\ w \in Calls /\ w \notin Sources \cup Moves /\ pc[w] = "finishing" /\ j \in Jobs
         /\ pc[j] # "idle" /\ wait[w].keeps \in BOOLEAN
         /\ UNCHANGED <<registered, outcome, status, position, home, ctx, goal>>
         /\ \/ Go(w, "answered") \/ Go(w, "raised")
  BY HistoryAssumption DEF WaitAppends, Calls, Sources, IInv, TypeOK, Wait, WaitsMatched
<1>node. /\ node \in Node /\ node.parent \in Entries /\ node.parent # None
         /\ node.kind = "run" <=> wait[w].keeps
         /\ node.image # None <=> wait[w].keeps
  <2>1. ctx[j] \in Context /\ ctx[j].parent \in Entries /\ ctx[j].image # None
    BY <1>call DEF IInv, TypeOK, CallsSourced, Sources
  <2>2. ctx[j].parent # None /\ ctx[j].parent \in Ids
    BY <2>1, HistoryAssumption DEF IInv, TypeOK, Entries
  <2>3. j \notin Stages /\ j \notin Settings
    BY <1>call, HistoryAssumption
  <2>4. NodeOf(j) = [parent |-> ctx[j].parent, image |-> ctx[j].image, kind |-> "run",
                     files |-> {}, complete |-> TRUE]
    BY <1>call, <2>3 DEF NodeOf
  <2>5. CASE wait[w].keeps
    BY <2>1, <2>2, <2>4, <2>5 DEF ResultNode, Node, Kinds, Context
  <2>6. CASE ~wait[w].keeps
    <3>1. node = [NodeOf(j) EXCEPT !.kind = "operation-result", !.image = None,
                                   !.complete = FALSE]
      BY <2>6 DEF ResultNode
    <3>2. NodeOf(j) \in Node /\ NodeOf(j).parent = ctx[j].parent
      BY <2>1, <2>2, <2>4 DEF Node, Kinds, Context
    <3> HIDE DEF node
    <3> QED BY <2>1, <2>2, <2>6, <3>1, <3>2 DEF Node, Kinds, Image
  <2> QED BY <2>5, <2>6
<1>step. /\ Append(j, node) \/ UNCHANGED tree
         /\ Go(w, "answered") => Append(j, node) /\ wait' = [wait EXCEPT ![w].keeps = Answer(w)]
         /\ wait' = wait \/ wait' = [wait EXCEPT ![w].keeps = Answer(w)]
  BY DEF WaitAppends, Go, IInv, TypeOK, Calls
<1>grows. Grown /\ TreeGrown' /\ DOMAIN tree' \subseteq Ids /\ tree' \in [DOMAIN tree' -> Node]
  <2>1. CASE UNCHANGED tree
    BY <2>1 DEF IInv, TypeOK, TreeGrown, Grown, Entries, HasImage, Kept
  <2>2. CASE Append(j, node)
    <3>1. j \in Ids /\ j \notin Sessions
      BY <1>call, HistoryAssumption DEF Ids, Calls, Sources
    <3> HIDE DEF j, node
    <3> QED BY <1>call, <1>node, <2>2, <3>1, TreeFits, AppendAdds DEF IInv
  <2> QED BY <1>step, <2>1, <2>2
<1>pc. /\ pc'[w] \in {"answered", "raised"} /\ \A d \in Calls \ {w} : pc'[d] = pc[d]
  BY <1>call DEF Go, IInv, TypeOK
<1>wait. PICK keeps \in BOOLEAN :
            /\ wait' = [wait EXCEPT ![w].keeps = keeps]
            /\ pc'[w] = "answered" => j \in DOMAIN tree' /\ (keeps <=> tree'[j].kind = "run")
  <2>1. wait = [wait EXCEPT ![w].keeps = wait[w].keeps]
    BY DEF IInv, TypeOK, Wait
  <2>2. CASE Go(w, "answered")
    <3>1. Append(j, node) /\ wait' = [wait EXCEPT ![w].keeps = Answer(w)]
      BY <1>step, <2>2
    <3>2. j \in DOMAIN tree'
      BY <3>1, AppendAdds
    <3>3. Answer(w) <=> tree'[j].kind = "run"
      <4>1. CASE j \in DOMAIN tree
        BY <1>grows, <4>1 DEF Answer, Grown, Kept
      <4>2. CASE j \notin DOMAIN tree
        <5>1. tree'[j] = node BY <3>1, <4>2, AppendAdds
        <5> QED BY <1>node, <4>2, <5>1 DEF Answer, Kept
      <4> QED BY <4>1, <4>2
    <3>4. Answer(w) \in BOOLEAN
      BY <1>call DEF Answer, Kept
    <3> QED BY <3>1, <3>2, <3>3, <3>4
  <2>3. CASE Go(w, "raised")
    <3>1. pc'[w] # "answered" BY <1>call, <2>3 DEF Go, IInv, TypeOK
    <3>2. Answer(w) \in BOOLEAN
      BY <1>call DEF Answer, Kept
    <3> QED BY <1>call, <1>step, <2>1, <3>1, <3>2
  <2> QED BY <1>call, <2>2, <2>3
<1>same. /\ \A u \in Waits : wait'[u].job = wait[u].job /\ wait'[u].version = wait[u].version
         /\ \A u \in Waits \ {w} : wait'[u] = wait[u]
         /\ wait'[w].keeps = keeps
  BY <1>wait DEF IInv, TypeOK, Wait
<1>1. TypeOK'
  <2>1. pc' \in [Calls -> Steps]
    BY <1>call DEF IInv, TypeOK, Go, Steps, Within
  <2>2. wait' \in [Waits -> Wait]
    <3>1. [wait[w] EXCEPT !.keeps = keeps] \in Wait BY DEF IInv, TypeOK, Wait
    <3> QED BY <1>wait, <3>1 DEF IInv, TypeOK
  <2> QED BY <1>call, <1>grows, <2>1, <2>2 DEF IInv, TypeOK, position
<1>2. TreeGrown'
  BY <1>grows
<1>3. PositionIsEntry'
  BY <1>call, <1>grows, PositionStays DEF IInv, position
<1>4. CallsSourced'
  <2>1. \A d \in Calls : pc'[d] = "idle" <=> pc[d] = "idle"
    BY <1>call, <1>pc
  <2>2. \A d \in Sources : pc'[d] = pc[d]
    BY <1>call, <1>pc DEF Calls
  <2> QED BY <1>call, <1>grows, <2>1, <2>2, EntriesStay
          DEF IInv, CallsSourced, Grown, Calls, position
<1>5. MovesAimed'
  <2>1. \A m \in Moves : pc'[m] = pc[m]
    BY <1>call, <1>pc DEF Calls
  <2> QED BY <1>call, <1>grows, <2>1, MovesStay DEF IInv
<1>6. WaitsMatched'
  <2>1. Jobs \subseteq Calls /\ Waits \subseteq Calls /\ registered \subseteq Jobs
    BY DEF Calls, Sources, IInv, TypeOK
  <2>2. \A d \in Calls : pc'[d] = "idle" <=> pc[d] = "idle"
    BY <1>call, <1>pc
  <2> QED BY <1>call, <1>same, <2>1, <2>2 DEF IInv, WaitsMatched, position
<1>7. OneOutcome'
  <2>1. Waits \subseteq Calls BY DEF Calls
  <2>2. \A u \in Waits \ {w} : wait'[u] = wait[u] /\ pc'[u] = pc[u]
    BY <1>same, <1>pc, <2>1
  <2>3. ASSUME NEW u \in Waits, pc'[u] \in {"answered", "named", "done"}
        PROVE  /\ wait'[u].job \in DOMAIN tree'
               /\ wait'[u].keeps <=> tree'[wait'[u].job].kind = "run"
    <3>1. CASE u = w
      BY <1>wait, <1>pc, <1>same, <2>3, <3>1 DEF Kept
    <3>2. CASE u # w
      BY <1>grows, <2>2, <2>3, <3>2 DEF IInv, OneOutcome, Kept, Grown
    <3> QED BY <3>1, <3>2
  <2> QED BY <2>3 DEF OneOutcome, Kept
<1>8. StaleOutrun'
  <2>1. stale \subseteq Calls BY DEF IInv, TypeOK
  <2>2. \A d \in Calls : pc'[d] = "idle" <=> pc[d] = "idle"
    BY <1>call, <1>pc
  <2> QED BY <1>call, <1>same, <2>1, <2>2 DEF IInv, StaleOutrun, position
<1> QED BY <1>1, <1>2, <1>3, <1>4, <1>5, <1>6, <1>7, <1>8 DEF IInv

\* A branch is given to a result that was kept.
LEMMA WaitNamesKeeps ==
    ASSUME IInv, NEW w \in Waits, WaitNames(w)
    PROVE  IInv'
<1> DEFINE i == home[w]  j == wait[w].job
<1>call. /\ w \in Calls /\ i \in Sessions /\ status[i] = "ready" /\ j \in Jobs
         /\ Go(w, "named") /\ pc[w] = "answered" /\ "named" \in Steps
  BY HistoryAssumption DEF WaitNames, IInv, TypeOK, CallsSourced, WaitsMatched, Calls,
     Sources, Ids, Steps, Within
<1>entry. wait[w].keeps => j \in Entries
  BY <1>call DEF IInv, OneOutcome, TreeGrown, Entries
<1>names. PICK names \in NamesOf :
             Keep(i, names) /\ (UNCHANGED <<tip, image>> \/ \E n \in Entries : Select(i, n))
  <2>1. branches[i] \in NamesOf BY <1>call, NamesNow DEF IInv
  <2>2. branches' = branches => Keep(i, branches[i])
    BY <1>call DEF Keep, IInv, TypeOK
  <2>3. ASSUME wait[w].into # None, wait[w].keeps
        PROVE  [branches[i] EXCEPT ![wait[w].into] = j] \in NamesOf
    <3>1. wait[w].into \in Names BY <2>3 DEF IInv, TypeOK, Wait
    <3> QED BY <1>entry, <2>1, <2>3, <3>1, NamesMoved
  <2> QED BY <2>1, <2>2, <2>3 DEF WaitNames
<1>1. TypeOK'
  <2>1. pc' \in [Calls -> Steps]
    BY <1>call, Gone DEF IInv
  <2>2. /\ tip' \in [Sessions -> Ids \cup {None}]
        /\ image' \in [Sessions -> Image] /\ \A k \in Sessions : image'[k] # None
        /\ branches' \in [Sessions -> [Names -> Ids \cup {None}]]
    BY <1>call, <1>names, PositionMoves DEF IInv, NamesOf, WaitNames, store
  <2> QED BY <2>1, <2>2 DEF IInv, TypeOK, WaitNames, store, contexts
<1>2. TreeGrown'
  BY DEF IInv, TreeGrown, WaitNames, store, Entries, HasImage, Kept
<1>3. PositionIsEntry'
  BY <1>call, <1>names, PositionMoves DEF IInv, NamesOf, WaitNames, store
<1>4. CallsSourced'
  BY DEF IInv, CallsSourced, WaitNames, store, contexts, Go, Entries, HasImage
<1>5. MovesAimed'
  BY DEF IInv, MovesAimed, WaitNames, store, contexts, Go, Entries, HasImage
<1>6. WaitsMatched'
  BY DEF IInv, WaitsMatched, WaitNames, store, contexts, Go
<1>7. OneOutcome'
  BY DEF IInv, OneOutcome, WaitNames, store, contexts, Go, Kept
<1>8. StaleOutrun'
  BY DEF IInv, StaleOutrun, WaitNames, contexts, Go
<1> QED BY <1>1, <1>2, <1>3, <1>4, <1>5, <1>6, <1>7, <1>8 DEF IInv

\* Branches and position move only to a result that was kept.
LEMMA WaitMovesKeeps ==
    ASSUME IInv, NEW w \in Waits, WaitMoves(w)
    PROVE  IInv'
<1> DEFINE i == home[w]  j == wait[w].job
<1>call. /\ w \in Calls /\ i \in Sessions /\ status[i] = "ready" /\ j \in Jobs
         /\ Go(w, "done") /\ pc[w] = "named" /\ "done" \in Steps
  BY HistoryAssumption DEF WaitMoves, IInv, TypeOK, CallsSourced, WaitsMatched, Calls,
     Sources, Ids, Steps, Within
<1>entry. wait[w].keeps => j \in Entries
  BY <1>call DEF IInv, OneOutcome, TreeGrown, Entries
<1>names. PICK names \in NamesOf :
             Keep(i, names) /\ (UNCHANGED <<tip, image>> \/ \E n \in Entries : Select(i, n))
  <2> DEFINE x == [ctx[j] EXCEPT !.version = wait[w].version]
  <2>1. branches[i] \in NamesOf BY <1>call, NamesNow DEF IInv
  <2>2. branches' = branches => Keep(i, branches[i])
    BY <1>call DEF Keep, IInv, TypeOK
  <2>3. ASSUME wait[w].advances, wait[w].keeps
        PROVE  Followed(i, j, x) \in NamesOf
    BY <1>call, <1>entry, <2>1, <2>3, NamesFollow
  <2> HIDE DEF x
  <2>4. CASE wait[w].advances /\ wait[w].keeps
    BY <1>entry, <2>3, <2>4 DEF WaitMoves, x
  <2>5. CASE ~(wait[w].advances /\ wait[w].keeps)
    BY <2>1, <2>2, <2>5 DEF WaitMoves
  <2> QED BY <2>4, <2>5
<1>1. TypeOK'
  <2>1. pc' \in [Calls -> Steps]
    BY <1>call, Gone DEF IInv
  <2>2. /\ tip' \in [Sessions -> Ids \cup {None}]
        /\ image' \in [Sessions -> Image] /\ \A k \in Sessions : image'[k] # None
        /\ branches' \in [Sessions -> [Names -> Ids \cup {None}]]
    BY <1>call, <1>names, PositionMoves DEF IInv, NamesOf, WaitMoves, store
  <2> QED BY <2>1, <2>2 DEF IInv, TypeOK, WaitMoves, store, contexts
<1>2. TreeGrown'
  BY DEF IInv, TreeGrown, WaitMoves, store, Entries, HasImage, Kept
<1>3. PositionIsEntry'
  BY <1>call, <1>names, PositionMoves DEF IInv, NamesOf, WaitMoves, store
<1>4. CallsSourced'
  BY DEF IInv, CallsSourced, WaitMoves, store, contexts, Go, Entries, HasImage
<1>5. MovesAimed'
  BY DEF IInv, MovesAimed, WaitMoves, store, contexts, Go, Entries, HasImage
<1>6. WaitsMatched'
  BY DEF IInv, WaitsMatched, WaitMoves, store, contexts, Go
<1>7. OneOutcome'
  BY DEF IInv, OneOutcome, WaitMoves, store, contexts, Go, Kept
<1>8. StaleOutrun'
  BY DEF IInv, StaleOutrun, WaitMoves, contexts, Go
<1> QED BY <1>1, <1>2, <1>3, <1>4, <1>5, <1>6, <1>7, <1>8 DEF IInv

-----------------------------------------------------------------------------
(* The theorems                                                            *)

\* The steps of Next, one by one.
LEMMA StepKeeps == IInv /\ [Next]_vars => IInv'
<1> SUFFICES ASSUME IInv, [Next]_vars PROVE IInv'
  OBVIOUS
<1>1. CASE UNCHANGED vars
  BY <1>1 DEF IInv, TypeOK, TreeGrown, PositionIsEntry, CallsSourced, MovesAimed,
     WaitsMatched, OneOutcome, StaleOutrun, Entries, HasImage, Kept,
     vars, store, position, contexts
<1>2. ASSUME NEW i \in Sessions, Open(i) PROVE IInv'
  BY <1>2, OpenLooksKeeps, OpenAppendsKeeps, OpenSelectsKeeps DEF Open
<1>3. ASSUME NEW i \in Sessions, NEW b \in Names, Branch(i, b) PROVE IInv'
  BY <1>3, CreateBranchKeeps, DeleteBranchKeeps DEF Branch
<1>4. ASSUME NEW w \in Waits, Collect(w) PROVE IInv'
  BY <1>4, WaitGivesUpKeeps, WaitDecidesKeeps, WaitAppendsKeeps, WaitNamesKeeps, WaitMovesKeeps
     DEF Collect
<1>5. ASSUME NEW c \in Stages \cup Settings,
             EntryAppends(c) \/ StageMoves(c) \/ SettingMoves(c)
      PROVE  IInv'
  BY <1>5, EntryAppendsKeeps, StageMovesKeeps, SettingMovesKeeps
<1>6. ASSUME NEW r \in Runs, Drop(r) \/ CommitAppends(r) \/ CommitMoves(r) PROVE IInv'
  BY <1>6, DropKeeps, CommitAppendsKeeps, CommitMovesKeeps
<1>7. ASSUME NEW m \in Moves, MoveEnds(m) \/ \E i \in Sessions : MoveBegins(m, i) PROVE IInv'
  BY <1>7, MoveEndsKeeps, MoveBeginsKeeps
<1>8. ASSUME NEW j \in Jobs, Register(j) \/ JobEnds(j) PROVE IInv'
  BY <1>8, RegisterKeeps, JobEndsKeeps
<1>9. ASSUME NEW w \in Waits, NEW i \in Sessions, NEW j \in Jobs,
             WaitBegins(w, i, j) \/ HandleBegins(w, i, j)
      PROVE  IInv'
  BY <1>9, WaitBeginsKeeps, HandleBeginsKeeps
<1>10. ASSUME NEW c \in Sources, NEW i \in Sessions, Begin(c, i) PROVE IInv'
  BY <1>10, BeginKeeps
<1> QED BY <1>1, <1>2, <1>3, <1>4, <1>5, <1>6, <1>7, <1>8, <1>9, <1>10 DEF Next

\* Before any session is opened.
LEMMA InitHolds == Init => IInv
<1> SUFFICES ASSUME Init PROVE IInv
  OBVIOUS
<1>1. TypeOK
  <2>1. \A i \in Sessions : image[i] # None
    BY HistoryAssumption DEF Init
  <2>2. ctx \in [Sources -> Context] /\ wait \in [Waits -> Wait] /\ goal \in [Moves -> Goal]
    BY DEF Init, Context, Wait, Goal, Image
  <2>3. DOMAIN tree \subseteq Ids /\ tree \in [DOMAIN tree -> Node]
    BY DEF Init
  <2> QED BY <2>1, <2>2, <2>3, HistoryAssumption DEF Init, TypeOK, Image, Steps
<1>2. TreeGrown /\ PositionIsEntry
  <2>1. DOMAIN tree = {} BY DEF Init
  <2> QED BY <2>1 DEF Init, TreeGrown, PositionIsEntry
<1>3. MovesAimed /\ WaitsMatched /\ OneOutcome /\ StaleOutrun
  BY DEF Init, MovesAimed, WaitsMatched, OneOutcome, StaleOutrun, Calls
<1>4. CallsSourced
  BY DEF Init, CallsSourced, Calls
<1> QED BY <1>1, <1>2, <1>3, <1>4 DEF IInv

\* Whatever the schedule, a session of the SDK is in a state IInv describes.
THEOREM Inductive == Spec => []IInv
  BY InitHolds, StepKeeps, PTL DEF Spec

\* Every variable keeps its type, and no session holds "no image".
THEOREM TypeCorrect == Spec => []TypeOK
<1>1. IInv => TypeOK BY DEF IInv
<1> QED BY <1>1, Inductive, PTL

\* Positions and branches name entries that can be resumed, with their image.
THEOREM PositionCorrect == Spec => []PositionIsEntry
<1>1. IInv => PositionIsEntry BY DEF IInv
<1> QED BY <1>1, Inductive, PTL

\* Every collector of a detached operation answers the outcome that is stored.
THEOREM OutcomeCorrect == Spec => []OneOutcome
<1>1. IInv => OneOutcome BY DEF IInv
<1> QED BY <1>1, Inductive, PTL

\* A node that fits is added as the abstract tree adds it.
LEMMA AppendRefines ==
    ASSUME NEW n \in Ids, NEW node, Append(n, node),
           n \notin DOMAIN tree =>
               IF node.parent = None THEN ~HasRoot ELSE node.parent \in DOMAIN tree
    PROVE  [Tree!Next]_tree
<1>1. CASE n \in DOMAIN tree BY <1>1 DEF Append
<1>2. CASE n \notin DOMAIN tree
  <2>1. tree' = With(n, node) BY <1>2 DEF Append
  <2>2. n \in DOMAIN tree' /\ tree'[n] = node BY <2>1 DEF With
  <2>3. Tree!Add(n, node)
    BY <1>2, <2>1 DEF Tree!Add, Tree!HasRoot, Tree!With, HasRoot, With
  <2> QED BY <2>2, <2>3 DEF Tree!Next
<1> QED BY <1>1, <1>2

\* An entry's or a result's node hangs on a node of the tree.
LEMMA SourceRefines ==
    ASSUME IInv, NEW c \in Sources, pc[c] # "idle", NEW node, Append(c, node),
           node.parent = ctx[c].parent
    PROVE  [Tree!Next]_tree
<1>1. ctx[c].parent \in DOMAIN tree BY DEF IInv, CallsSourced, Entries
<1>2. ctx[c].parent # None BY <1>1, HistoryAssumption DEF IInv, TypeOK
<1> QED BY <1>1, <1>2, AppendRefines DEF Ids

\* However session objects, collectors and retries interleave, and however
\* often an answer is lost, the store holds one immutable tree.
THEOREM SessionHistoryImplementsTree == Spec => ImplementsTree
<1>1. Init => Tree!Init
  BY DEF Init, Tree!Init
<1>2. IInv /\ [Next]_vars => [Tree!Next]_tree
  <2> SUFFICES ASSUME IInv, [Next]_vars PROVE [Tree!Next]_tree
    OBVIOUS
  <2>1. ASSUME NEW i \in Sessions, OpenAppends(i) PROVE [Tree!Next]_tree
    <3>1. i \in Ids /\ RootNode.parent = None BY DEF Ids, RootNode
    <3> QED BY <2>1, <3>1, AppendRefines DEF OpenAppends, RootIsFirst
  <2>2. ASSUME NEW c \in Sources \ Jobs, AppendsTo(c), pc[c] # "idle"
        PROVE  [Tree!Next]_tree
    <3>1. NodeOf(c).parent = ctx[c].parent BY DEF NodeOf
    <3> QED BY <2>2, <3>1, SourceRefines DEF AppendsTo
  <2>3. ASSUME NEW c \in Stages \cup Settings, EntryAppends(c) PROVE [Tree!Next]_tree
    BY <2>2, <2>3, HistoryAssumption DEF EntryAppends, Sources
  <2>4. ASSUME NEW r \in Runs, CommitAppends(r) PROVE [Tree!Next]_tree
    BY <2>2, <2>4, HistoryAssumption DEF CommitAppends, Sources
  <2>5. ASSUME NEW w \in Waits, WaitAppends(w) PROVE [Tree!Next]_tree
    <3> DEFINE j == wait[w].job  node == ResultNode(j, wait[w].keeps)
    <3>1. j \in Sources /\ pc[j] # "idle"
      BY <2>5 DEF WaitAppends, IInv, WaitsMatched, Sources
    <3>2. NodeOf(j).parent = ctx[j].parent BY DEF NodeOf
    <3>3. node.parent = ctx[j].parent BY <3>2 DEF ResultNode, NodeOf
    <3>4. Append(j, node) \/ UNCHANGED tree BY <2>5 DEF WaitAppends
    <3> HIDE DEF j, node
    <3> QED BY <3>1, <3>3, <3>4, SourceRefines
  <2>6. CASE UNCHANGED tree BY <2>6
  <2> QED
    BY <2>1, <2>3, <2>4, <2>5, <2>6 DEF Next, vars, store, Open, Branch, Collect,
       OpenLooks, OpenSelects, Begin, Drop, CommitMoves, StageMoves, SettingMoves,
       CreateBranch, DeleteBranch, MoveBegins, MoveEnds, Register, JobEnds, WaitBegins,
       HandleBegins, WaitGivesUp, WaitDecides, WaitNames, WaitMoves
<1> QED BY <1>1, <1>2, Inductive, PTL DEF Spec, ImplementsTree, Tree!Spec

\* The result of a call during which its session navigated does not move the
\* position, whatever else was committed in between.
THEOREM LateResultsAreLate == Spec => LateResultsStay
<1> DEFINE Late(c) ==
        /\ Ends(c, "appended") /\ c \in Runs \cup Stages /\ ctx[c].into = None =>
              tip'[home[c]] = tip[home[c]]
        /\ Ends(c, "named") => tip'[home[c]] = tip[home[c]]
<1>1. IInv /\ [Next]_vars => [\A c \in stale : Late(c)]_vars
  <2> SUFFICES ASSUME IInv, Next, NEW c \in stale PROVE Late(c)
    BY DEF vars
  <2>0. c \in Calls /\ pc[c] # "idle" BY DEF IInv, TypeOK, StaleOutrun
  <2>1. CASE UNCHANGED tip BY <2>1
  <2>2. ASSUME pc'[c] = pc[c] PROVE Late(c) BY <2>2 DEF Ends
  <2>3. ASSUME NEW d \in Calls, Go(d, "done"), c # d PROVE Late(c)
    BY <2>0, <2>2, <2>3 DEF Go, IInv, TypeOK
  <2>4. ASSUME NEW r \in Runs, CommitMoves(r) PROVE Late(c)
    <3>1. CASE c # r BY <2>3, <2>4, <3>1 DEF CommitMoves, Calls, Sources
    <3>2. CASE c = r
      <4>1. ctx[r].version # version[home[r]]
        BY <3>2 DEF IInv, TypeOK, StaleOutrun, CallsSourced, Sources, Context
      <4> QED BY <2>4, <3>2, <4>1 DEF CommitMoves, Unmoved, Ends
    <3> QED BY <3>1, <3>2
  <2>5. ASSUME NEW s \in Stages \cup Settings, StageMoves(s) PROVE Late(c)
    <3>1. CASE c # s BY <2>3, <2>5, <3>1 DEF StageMoves, Calls, Sources
    <3>2. CASE c = s
      <4>1. ctx[s].version # version[home[s]]
        BY <3>2 DEF IInv, TypeOK, StaleOutrun, CallsSourced, Sources, Context
      <4> QED BY <2>5, <3>2, <4>1 DEF StageMoves, Unmoved, Ends
    <3> QED BY <3>1, <3>2
  <2>6. ASSUME NEW s \in Stages \cup Settings, SettingMoves(s) PROVE Late(c)
    <3>1. CASE c # s BY <2>3, <2>6, <3>1 DEF SettingMoves, Calls, Sources
    <3>2. CASE c = s BY <2>6, <3>2, HistoryAssumption DEF SettingMoves, Ends
    <3> QED BY <3>1, <3>2
  <2>7. ASSUME NEW m \in Moves, MoveEnds(m) PROVE Late(c)
    <3>1. CASE c # m BY <2>3, <2>7, <3>1 DEF MoveEnds, Calls
    <3>2. CASE c = m BY <2>7, <3>2 DEF MoveEnds, Ends
    <3> QED BY <3>1, <3>2
  <2>8. ASSUME NEW w \in Waits, WaitMoves(w) PROVE Late(c)
    <3>1. CASE c # w BY <2>3, <2>8, <3>1 DEF WaitMoves, Calls
    <3>2. CASE c = w
      <4> DEFINE j == wait[w].job  x == [ctx[j] EXCEPT !.version = wait[w].version]
      <4>1. wait[w].version < version[home[w]] /\ wait[w].version \in Nat
        BY <3>2 DEF IInv, TypeOK, StaleOutrun, Wait
      <4>2. home[w] \in Sessions /\ version[home[w]] \in Nat
        BY <2>0, <3>2, HistoryAssumption DEF IInv, TypeOK, CallsSourced, Ids
      <4>3. ctx[j] \in Context
        BY <2>0, <3>2 DEF IInv, TypeOK, WaitsMatched, Sources
      <4>4. x.version = wait[w].version BY <4>3 DEF Context
      <4>5. ~Unmoved(home[w], x) BY <4>1, <4>2, <4>4 DEF Unmoved
      <4> HIDE DEF x
      <4> QED BY <2>8, <3>2, <4>5 DEF WaitMoves, x, Ends
    <3> QED BY <3>1, <3>2
  <2>9. ASSUME NEW i \in Sessions, OpenSelects(i) PROVE Late(c)
    BY <2>2, <2>9 DEF OpenSelects
  <2> QED
    BY <2>1, <2>4, <2>5, <2>6, <2>7, <2>8, <2>9 DEF Next, Open, Branch, Collect, position,
       OpenLooks, OpenAppends, Begin, Drop, CommitAppends, EntryAppends, AppendsTo,
       CreateBranch, DeleteBranch, MoveBegins, Register, JobEnds, WaitBegins,
       HandleBegins, WaitGivesUp, WaitDecides, WaitAppends, WaitNames
<1> QED BY <1>1, Inductive, PTL DEF Spec, LateResultsStay

-----------------------------------------------------------------------------
(* Paths: what a command sees                                              *)

\* The parents of the tree's nodes are in the tree.
Rooted == \A m \in DOMAIN tree : tree[m].parent \in DOMAIN tree \cup {None}

\* A grown tree is rooted.
LEMMA GrownIsRooted == TreeGrown => Rooted
  BY DEF TreeGrown, Rooted, Entries

\* The way back from a node that consumed the staged files is that node.
LEMMA WayOfResult ==
    ASSUME NEW n \in DOMAIN tree, tree[n].complete
    PROVE  WayBack(n) = {n}
<1>1. n \in WayBack(n) BY DEF WayBack, WalksBack
<1>2. {n} \in SUBSET DOMAIN tree /\ WalksBack({n}, n) BY DEF WalksBack
<1> QED BY <1>1, <1>2 DEF WayBack

\* The way back from any other node goes on at its parent.
LEMMA WayOfEntry ==
    ASSUME NEW n \in DOMAIN tree, ~tree[n].complete, tree[n].parent \in DOMAIN tree,
           tree[n].parent # None
    PROVE  WayBack(n) = {n} \cup WayBack(tree[n].parent)
<1> DEFINE p == tree[n].parent
<1>1. n \in WayBack(n) BY DEF WayBack, WalksBack
<1>2. ASSUME NEW m \in WayBack(p) PROVE m \in WayBack(n)
  <2>1. ASSUME NEW S \in SUBSET DOMAIN tree, WalksBack(S, n) PROVE WalksBack(S, p)
    BY <2>1 DEF WalksBack
  <2> QED BY <1>2, <2>1 DEF WayBack
<1>3. ASSUME NEW m \in WayBack(n), m # n PROVE m \in WayBack(p)
  <2>1. ASSUME NEW S \in SUBSET DOMAIN tree, WalksBack(S, p) PROVE m \in S
    <3>1. WalksBack(S \cup {n}, n) BY <2>1 DEF WalksBack
    <3>2. S \cup {n} \in SUBSET DOMAIN tree OBVIOUS
    <3>3. m \in S \cup {n} BY <1>3, <3>1, <3>2 DEF WayBack
    <3> QED BY <1>3, <3>3
  <2>2. m \in DOMAIN tree BY <1>3 DEF WayBack
  <2> QED BY <2>1, <2>2 DEF WayBack
<1> QED BY <1>1, <1>2, <1>3

\* A new node lengthens no way back.
LEMMA WayStays ==
    ASSUME Rooted, Grown, NEW n \in DOMAIN tree
    PROVE  WayBack(n)' = WayBack(n)
<1>1. ASSUME NEW S \in SUBSET DOMAIN tree PROVE WalksBack(S, n)' <=> WalksBack(S, n)
  BY DEF WalksBack, Grown
<1>2. WalksBack(DOMAIN tree, n) BY DEF WalksBack, Rooted
<1>3. DOMAIN tree \subseteq DOMAIN tree' BY DEF Grown
<1>4. ASSUME NEW m \in WayBack(n)' PROVE m \in WayBack(n)
  <2>1. \A S \in SUBSET DOMAIN tree : WalksBack(S, n) => m \in S
    BY <1>1, <1>3, <1>4 DEF WayBack
  <2> QED BY <1>2, <2>1 DEF WayBack
<1>5. ASSUME NEW m \in WayBack(n) PROVE m \in WayBack(n)'
  <2>1. ASSUME NEW S \in SUBSET DOMAIN tree', WalksBack(S, n)' PROVE m \in S
    <3>1. WalksBack(S \cap DOMAIN tree, n)
      BY <2>1 DEF WalksBack, Rooted, Grown
    <3> QED BY <1>5, <3>1 DEF WayBack
  <2>2. m \in DOMAIN tree' BY <1>3, <1>5 DEF WayBack
  <2> QED BY <2>1, <2>2 DEF WayBack
<1> QED BY <1>4, <1>5

\* So what a command sees at a node stays what it was.
LEMMA SeesStays ==
    ASSUME Rooted, Grown, NEW n \in DOMAIN tree
    PROVE  PendingFiles(n)' = PendingFiles(n) /\ Sees(n)' = Sees(n)
<1>1. WayBack(n)' = WayBack(n) BY WayStays
<1>2. \A m \in WayBack(n) : tree'[m] = tree[m] BY DEF WayBack, Grown
<1>3. PendingFiles(n)' = PendingFiles(n) BY <1>1, <1>2 DEF PendingFiles
<1> QED BY <1>3 DEF Sees, Grown

\* The files pending at a node: none at a result, which has them in its image;
\* at any other node its own and those pending at its parent.
PendingByStep ==
    /\ \A n \in DOMAIN tree :
          tree[n].complete /\ tree[n].files = {} => PendingFiles(n) = {}
    /\ \A n, p \in DOMAIN tree :
          ~tree[n].complete /\ tree[n].files \subseteq Stages /\ tree[n].parent = p /\ p # None
          => PendingFiles(n) = tree[n].files \cup PendingFiles(p)

\* It is so in every state, whatever the tree.
LEMMA PendingFollows == PendingByStep
<1>1. ASSUME NEW n \in DOMAIN tree, tree[n].complete, tree[n].files = {}
      PROVE  PendingFiles(n) = {}
  BY <1>1, WayOfResult DEF PendingFiles
<1>2. ASSUME NEW n \in DOMAIN tree, NEW p \in DOMAIN tree, ~tree[n].complete,
             tree[n].files \subseteq Stages, tree[n].parent = p, p # None
      PROVE  PendingFiles(n) = tree[n].files \cup PendingFiles(p)
  BY <1>2, WayOfEntry DEF PendingFiles
<1> QED BY <1>1, <1>2 DEF PendingByStep

\* A call's node takes what a command sees at its source one step on.
LEMMA NodeSees ==
    ASSUME IInv, PathInv, NEW c \in Sources, pc[c] # "idle", c \notin DOMAIN tree,
           Append(c, NodeOf(c)), NEW p, p = ctx[c].parent
    PROVE  Sees(c)' = Sees(p) \cup (IF c \in Settings THEN {} ELSE {c})
<1>1. /\ Grown /\ c \in DOMAIN tree' /\ tree'[c] = NodeOf(c)
      /\ p \in DOMAIN tree /\ p # None
  <2>1. p \in DOMAIN tree BY DEF IInv, CallsSourced, Entries
  <2>2. p \in Ids BY <2>1 DEF IInv, TypeOK
  <2> QED BY <2>1, <2>2, AppendAdds, HistoryAssumption
<1>2. Rooted BY GrownIsRooted DEF IInv
<1>3. p \in DOMAIN tree' /\ PendingFiles(p)' = PendingFiles(p)
  BY <1>1, <1>2, SeesStays DEF Grown
<1>4. PendingByStep' BY PendingFollows, PTL
<1>5. /\ NodeOf(c).parent = p /\ NodeOf(c).image = ctx[c].image
      /\ NodeOf(c).complete = (c \in Runs \cup Jobs)
      /\ NodeOf(c).files = IF c \in Stages THEN {c} ELSE {}
  BY DEF NodeOf
<1>6. CASE c \in Runs \cup Jobs
  <2>1. c \notin Stages \cup Settings BY <1>6, HistoryAssumption
  <2>2. PendingFiles(c)' = {} BY <1>1, <1>4, <1>5, <1>6, <2>1 DEF PendingByStep
  <2>3. ctx[c].image = Sees(p) \cup {c} BY <1>6 DEF PathInv, CallsSee
  <2> QED BY <1>1, <1>5, <2>1, <2>2, <2>3 DEF Sees
<1>7. CASE c \notin Runs \cup Jobs
  <2>1. NodeOf(c).files \subseteq Stages /\ ~NodeOf(c).complete BY <1>5, <1>7
  <2>2. PendingFiles(c)' = NodeOf(c).files \cup PendingFiles(p)'
    BY <1>1, <1>3, <1>4, <1>5, <2>1 DEF PendingByStep
  <2>3. ctx[c].image = tree[p].image BY <1>7 DEF PathInv, CallsSee
  <2>4. NodeOf(c).files = IF c \in Settings THEN {} ELSE {c}
    BY <1>5, <1>7, HistoryAssumption DEF Sources
  <2> QED BY <1>1, <1>3, <1>5, <2>2, <2>3, <2>4 DEF Sees
<1> QED BY <1>6, <1>7

\* Paths keep their work when the tree grows by nodes that do.
LEMMA PathsGrow ==
    ASSUME IInv, PathInv, Grown,
           \A n \in Entries' \ DOMAIN tree : tree'[n].parent # None =>
               \E p \in Entries :
                   /\ p = tree'[n].parent
                   /\ Sees(n)' = Sees(p) \cup (IF n \in Settings THEN {} ELSE {n})
    PROVE  PathKeepsWork'
<1> DEFINE Works(n) ==
        \E p \in Entries' :
            /\ p = tree'[n].parent
            /\ Sees(n)' = Sees(p)' \cup (IF n \in Settings THEN {} ELSE {n})
<1>1. Entries \subseteq Entries' /\ Entries \subseteq DOMAIN tree
  BY EntriesStay DEF Entries
<1>2. \A p \in DOMAIN tree : Sees(p)' = Sees(p) BY GrownIsRooted, SeesStays DEF IInv
<1>3. ASSUME NEW n \in DOMAIN tree, n \in Entries', tree'[n].parent # None
      PROVE  Works(n)
  <2>1. tree'[n] = tree[n] /\ n \in Entries BY <1>3 DEF Grown, Entries, HasImage
  <2>2. PICK p \in Entries :
            p = tree[n].parent /\ Sees(n) = Sees(p) \cup (IF n \in Settings THEN {} ELSE {n})
    BY <1>3, <2>1 DEF PathInv, PathKeepsWork
  <2> QED BY <1>1, <1>2, <2>1, <2>2
<1>4. ASSUME NEW n \in Entries' \ DOMAIN tree, tree'[n].parent # None
      PROVE  Works(n)
  BY <1>1, <1>2, <1>4
<1>5. \A n \in Entries' : tree'[n].parent # None => Works(n) BY <1>3, <1>4
<1> QED BY <1>5 DEF PathKeepsWork

\* A node appended for a call leaves every path with the work done on it.
LEMMA PathsAppend ==
    ASSUME IInv, PathInv, NEW c \in Sources, pc[c] # "idle", NEW node, Append(c, node),
           node.parent = ctx[c].parent, node = NodeOf(c) \/ node.image = None
    PROVE  PathKeepsWork'
<1>1. /\ Grown /\ DOMAIN tree' = DOMAIN tree \cup {c}
      /\ c \notin DOMAIN tree => tree'[c] = node
  BY AppendAdds
<1>2. ASSUME c \notin DOMAIN tree, c \in Entries'
      PROVE  \E p \in Entries :
                 /\ p = tree'[c].parent
                 /\ Sees(c)' = Sees(p) \cup (IF c \in Settings THEN {} ELSE {c})
  <2>1. node = NodeOf(c) BY <1>1, <1>2 DEF Entries, HasImage
  <2>2. PICK p : p = ctx[c].parent OBVIOUS
  <2>3. p \in Entries BY <2>2 DEF IInv, CallsSourced
  <2>4. Sees(c)' = Sees(p) \cup (IF c \in Settings THEN {} ELSE {c})
    BY <1>2, <2>1, <2>2, NodeSees
  <2> QED BY <1>1, <1>2, <2>2, <2>3, <2>4
<1>3. Entries' \subseteq DOMAIN tree \cup {c} BY <1>1 DEF Entries
<1> QED BY <1>1, <1>2, <1>3, PathsGrow

\* A tree that stays keeps its paths.
LEMMA PathsStay ==
    ASSUME IInv, PathInv, UNCHANGED tree
    PROVE  PathKeepsWork'
<1>1. Grown /\ Entries' \subseteq DOMAIN tree BY DEF Grown, Entries
<1> QED BY <1>1, PathsGrow

\* What a call would produce stays what its source shows it.
LEMMA CallsSeeStill ==
    ASSUME IInv, PathInv, Grown,
           \A c \in Sources : pc'[c] # "idle" =>
               /\ pc[c] # "idle"
               /\ ctx'[c].parent = ctx[c].parent /\ ctx'[c].image = ctx[c].image
    PROVE  CallsSee'
<1> DEFINE Right(c) ==
        \E p \in Entries' :
            /\ p = ctx'[c].parent
            /\ ctx'[c].image = IF c \in Runs \cup Jobs THEN Sees(p)' \cup {c} ELSE tree'[p].image
<1>1. Entries \subseteq Entries' /\ Entries \subseteq DOMAIN tree
  BY EntriesStay DEF Entries
<1>2. \A p \in DOMAIN tree : Sees(p)' = Sees(p) /\ tree'[p] = tree[p]
  BY GrownIsRooted, SeesStays DEF IInv, Grown
<1>3. ASSUME NEW c \in Sources, pc'[c] # "idle" PROVE Right(c)
  <2>1. pc[c] # "idle" /\ ctx'[c].parent = ctx[c].parent /\ ctx'[c].image = ctx[c].image
    BY <1>3
  <2>2. PICK p \in Entries :
            /\ p = ctx[c].parent
            /\ ctx[c].image = IF c \in Runs \cup Jobs THEN Sees(p) \cup {c} ELSE tree[p].image
    BY <2>1 DEF PathInv, CallsSee
  <2>3. p \in Entries' /\ Sees(p)' = Sees(p) /\ tree'[p] = tree[p] BY <1>1, <1>2
  <2> QED BY <2>1, <2>2, <2>3
<1> QED BY <1>3 DEF CallsSee

\* A call begins with what its session's position shows.
LEMMA BeginSees ==
    ASSUME IInv, PathInv, NEW c \in Sources, NEW i \in Sessions, Begin(c, i)
    PROVE  PathInv'
<1>1. UNCHANGED <<tree, tip, image>> /\ status[i] = "ready" /\ c \in Calls /\ pc[c] = "idle"
  BY DEF Begin, store, position, MayCall, Calls
<1>2. Entries' = Entries /\ Entries \subseteq DOMAIN tree /\ Grown
  BY <1>1 DEF Entries, HasImage, Grown
<1>3. \A p \in DOMAIN tree : Sees(p)' = Sees(p) /\ tree'[p] = tree[p]
  BY <1>1, <1>2, GrownIsRooted, SeesStays DEF IInv
<1>4. PICK b : ctx' = [ctx EXCEPT ![c] = [parent |-> tip[i], branch |-> active[i],
                                          version |-> version[i], image |-> Result(c, i),
                                          into |-> b]]
  BY DEF Begin
<1>5. ASSUME NEW d \in Sources, pc'[d] # "idle"
      PROVE  \E p \in Entries' :
                 /\ p = ctx'[d].parent
                 /\ ctx'[d].image =
                        IF d \in Runs \cup Jobs THEN Sees(p)' \cup {d} ELSE tree'[p].image
  <2>1. CASE d = c
    <3>1. PICK p : p = tip[i] OBVIOUS
    <3>2. p \in Entries /\ image[i] = tree[p].image
      BY <1>1, <3>1 DEF IInv, PositionIsEntry
    <3>3. ctx'[c].parent = p /\ ctx'[c].image = Result(c, i)
      BY <1>4, <3>1 DEF IInv, TypeOK
    <3>4. Result(c, i) = IF c \in Runs \cup Jobs THEN Sees(p) \cup {c} ELSE tree[p].image
      BY <3>1, <3>2 DEF Result, Sees
    <3> QED BY <1>2, <1>3, <2>1, <3>2, <3>3, <3>4
  <2>2. CASE d # c
    <3>1. pc[d] # "idle" /\ ctx'[d] = ctx[d]
      BY <1>4, <1>5, <2>2 DEF Begin, Go, IInv, TypeOK, Calls
    <3>2. PICK p \in Entries :
              /\ p = ctx[d].parent
              /\ ctx[d].image =
                     IF d \in Runs \cup Jobs THEN Sees(p) \cup {d} ELSE tree[p].image
      BY <3>1 DEF PathInv, CallsSee
    <3> QED BY <1>2, <1>3, <3>1, <3>2
  <2> QED BY <2>1, <2>2
<1>6. CallsSee' BY <1>5 DEF CallsSee
<1> QED BY <1>1, <1>6, PathsStay DEF PathInv

\* A step that neither appends nor begins a call changes nothing a command sees.
LEMMA SeenStays ==
    ASSUME IInv, PathInv, UNCHANGED <<tree, ctx>>,
           \A c \in Sources : pc'[c] # "idle" => pc[c] # "idle"
    PROVE  PathInv'
<1>1. Grown BY DEF Grown
<1> QED BY <1>1, PathsStay, CallsSeeStill DEF PathInv

\* A root is nobody's continuation.
LEMMA RootSees ==
    ASSUME IInv, PathInv, NEW i \in Sessions, OpenAppends(i)
    PROVE  PathInv'
<1>1. UNCHANGED <<ctx, pc>> BY DEF OpenAppends, contexts
<1>2. CASE UNCHANGED tree BY <1>1, <1>2, SeenStays
<1>3. CASE Append(i, RootNode)
  <2>1. /\ Grown /\ DOMAIN tree' = DOMAIN tree \cup {i}
        /\ i \notin DOMAIN tree => tree'[i] = RootNode
    BY <1>3, AppendAdds
  <2>2. RootNode.parent = None BY DEF RootNode
  <2>3. Entries' \ DOMAIN tree \subseteq {i} BY <2>1 DEF Entries
  <2>4. PathKeepsWork' BY <2>1, <2>2, <2>3, PathsGrow
  <2>5. CallsSee' BY <1>1, <2>1, CallsSeeStill
  <2> QED BY <2>4, <2>5 DEF PathInv
<1> QED BY <1>2, <1>3 DEF OpenAppends

\* A file, a setting or a result is appended, once or again.
LEMMA AppendSees ==
    ASSUME IInv, PathInv, NEW c \in Runs \cup Stages \cup Settings, AppendsTo(c), pc[c] # "idle",
           ctx' = ctx \/ \E b \in Names \cup {None} : ctx' = [ctx EXCEPT ![c].into = b]
    PROVE  PathInv'
<1>1. c \in Sources /\ c \in Calls BY DEF Sources, Calls
<1>2. ctx \in [Sources -> Context] BY DEF IInv, TypeOK
<1>3. \A d \in Sources : ctx'[d].parent = ctx[d].parent /\ ctx'[d].image = ctx[d].image
  BY <1>1, <1>2 DEF Context
<1>4. \A d \in Sources : pc'[d] # "idle" => pc[d] # "idle"
  BY <1>1 DEF AppendsTo, Go, IInv, TypeOK, Calls
<1>5. CASE Append(c, NodeOf(c))
  <2>1. NodeOf(c).parent = ctx[c].parent BY DEF NodeOf
  <2>2. Grown BY <1>5, AppendAdds
  <2>3. PathKeepsWork' BY <1>1, <1>5, <2>1, PathsAppend
  <2> QED BY <1>3, <1>4, <2>2, <2>3, CallsSeeStill DEF PathInv
<1>6. CASE UNCHANGED tree
  <2>1. Grown BY <1>6 DEF Grown
  <2> QED BY <1>3, <1>4, <1>6, <2>1, PathsStay, CallsSeeStill DEF PathInv
<1> QED BY <1>5, <1>6 DEF AppendsTo

\* A collected operation's outcome is appended under its own source.
LEMMA WaitSees ==
    ASSUME IInv, PathInv, NEW w \in Waits, WaitAppends(w)
    PROVE  PathInv'
<1> DEFINE j == wait[w].job
<1>1. j \in Sources /\ j \in Calls /\ pc[j] # "idle"
  BY DEF WaitAppends, IInv, WaitsMatched, Sources, Calls
<1>2. ctx' = ctx /\ \A d \in Sources : pc'[d] # "idle" => pc[d] # "idle"
  BY HistoryAssumption DEF WaitAppends, Go, IInv, TypeOK, Calls, Sources
<1>3. CASE UNCHANGED tree BY <1>2, <1>3, SeenStays
<1>4. CASE Append(j, ResultNode(j, wait[w].keeps))
  <2> DEFINE node == ResultNode(j, wait[w].keeps)
  <2>1. node.parent = ctx[j].parent /\ (node = NodeOf(j) \/ node.image = None)
    BY DEF ResultNode, NodeOf
  <2>2. Grown BY <1>4, AppendAdds
  <2> HIDE DEF node
  <2>3. PathKeepsWork'
    <3>1. Append(j, node) BY <1>4 DEF node
    <3> HIDE DEF j
    <3> QED BY <1>1, <2>1, <3>1, PathsAppend
  <2> QED BY <1>2, <2>2, <2>3, CallsSeeStill DEF PathInv
<1> QED BY <1>3, <1>4 DEF WaitAppends

\* Every step keeps what the paths show.
LEMMA StepSees == IInv /\ PathInv /\ [Next]_vars => PathInv'
<1> SUFFICES ASSUME IInv, PathInv, [Next]_vars PROVE PathInv'
  OBVIOUS
<1>1. CASE UNCHANGED vars
  BY <1>1, SeenStays DEF vars, store, contexts
<1>2. ASSUME NEW i \in Sessions, Open(i) PROVE PathInv'
  BY <1>2, RootSees, SeenStays DEF Open, OpenLooks, OpenSelects, store, contexts
<1>3. ASSUME NEW i \in Sessions, NEW b \in Names, Branch(i, b) PROVE PathInv'
  BY <1>3, SeenStays DEF Branch, CreateBranch, DeleteBranch, store, contexts
<1>4. ASSUME NEW c \in Sources, NEW i \in Sessions, Begin(c, i) PROVE PathInv'
  BY <1>4, BeginSees
<1>5. ASSUME NEW c \in Calls, NEW where, Go(c, where), UNCHANGED <<tree, ctx>>,
             c \in Sources => pc[c] # "idle"
      PROVE  PathInv'
  BY <1>5, SeenStays DEF Go, IInv, TypeOK, Calls
<1>6. ASSUME NEW r \in Runs, Drop(r) \/ CommitAppends(r) \/ CommitMoves(r) PROVE PathInv'
  <2>1. CASE CommitAppends(r)
    BY <2>1, AppendSees DEF CommitAppends
  <2> QED BY <1>5, <1>6, <2>1 DEF Drop, CommitMoves, store, contexts, Calls, Sources
<1>7. ASSUME NEW c \in Stages \cup Settings, EntryAppends(c) \/ StageMoves(c) \/ SettingMoves(c)
      PROVE  PathInv'
  <2>1. CASE EntryAppends(c)
    BY <2>1, AppendSees DEF EntryAppends
  <2> QED BY <1>5, <1>7, <2>1 DEF StageMoves, SettingMoves, store, contexts, Calls, Sources
<1>8. ASSUME NEW m \in Moves, MoveEnds(m) \/ \E i \in Sessions : MoveBegins(m, i) PROVE PathInv'
  BY <1>5, <1>8, HistoryAssumption DEF MoveEnds, MoveBegins, store, contexts, Calls, Sources
<1>9. ASSUME NEW j \in Jobs, Register(j) \/ JobEnds(j) PROVE PathInv'
  BY <1>5, <1>9, SeenStays DEF Register, JobEnds, store, contexts, Calls, Sources
<1>10. ASSUME NEW w \in Waits, Collect(w) PROVE PathInv'
  BY <1>5, <1>10, WaitSees, HistoryAssumption
     DEF Collect, WaitGivesUp, WaitDecides, WaitNames, WaitMoves, store, contexts, Calls, Sources
<1>11. ASSUME NEW w \in Waits, NEW i \in Sessions, NEW j \in Jobs,
              WaitBegins(w, i, j) \/ HandleBegins(w, i, j)
       PROVE  PathInv'
  BY <1>5, <1>11, HistoryAssumption DEF WaitBegins, HandleBegins, store, Calls, Sources
<1> QED BY <1>1, <1>2, <1>3, <1>4, <1>6, <1>7, <1>8, <1>9, <1>10, <1>11 DEF Next

\* However calls, retries and collectors interleave, what a command sees at an
\* entry is what it sees at the entry's parent, and the entry's own work.
THEOREM PathsKeepWork == Spec => []PathKeepsWork
<1>1. Init => PathInv
  <2>1. Init => DOMAIN tree = {} /\ \A c \in Sources : pc[c] = "idle"
    BY DEF Init, Calls
  <2> QED BY <2>1 DEF PathInv, PathKeepsWork, CallsSee, Entries
<1>2. PathInv => PathKeepsWork BY DEF PathInv
<1> QED BY <1>1, <1>2, StepSees, Inductive, PTL DEF Spec

-----------------------------------------------------------------------------
(* A session used by one thread descends                                   *)

\* A call that ends or goes on within its method lets no other one in.
LEMMA WithinStays ==
    ASSUME IInv, OneWithin, home' = home, NEW c \in Calls, NEW where, Go(c, where),
           pc[c] \in Within \/ where \notin Within
    PROVE  OneWithin'
<1>1. \A d \in Calls : pc'[d] = IF d = c THEN where ELSE pc[d]
  BY DEF Go, IInv, TypeOK
<1>2. ASSUME NEW a \in Calls, NEW b \in Calls, home'[a] \in Serial, home'[b] = home'[a],
             pc'[a] \in Within, pc'[b] \in Within
      PROVE  a = b
  <2>1. pc[a] \in Within /\ pc[b] \in Within BY <1>1, <1>2
  <2> QED BY <1>2, <2>1 DEF OneWithin
<1> QED BY <1>2 DEF OneWithin

\* A method begins when no other call is within one.
LEMMA WithinBegins ==
    ASSUME IInv, OneWithin, NEW c \in Calls, NEW where, Go(c, where), NEW i, MayCall(i),
           home' = [home EXCEPT ![c] = i]
    PROVE  OneWithin'
<1>1. \A d \in Calls : pc'[d] = (IF d = c THEN where ELSE pc[d])
                       /\ home'[d] = (IF d = c THEN i ELSE home[d])
  BY DEF Go, IInv, TypeOK
<1>2. ASSUME NEW a \in Calls, NEW b \in Calls, home'[a] \in Serial, home'[b] = home'[a],
             pc'[a] \in Within, pc'[b] \in Within, a # b
      PROVE  FALSE
  <2>1. CASE a = c
    <3>1. home[b] = i /\ pc[b] \in Within /\ i \in Serial BY <1>1, <1>2, <2>1
    <3> QED BY <3>1 DEF MayCall
  <2>2. CASE b = c
    <3>1. home[a] = i /\ pc[a] \in Within /\ i \in Serial BY <1>1, <1>2, <2>2
    <3> QED BY <3>1 DEF MayCall
  <2>3. CASE a # c /\ b # c
    <3>1. /\ home[a] = home'[a] /\ home[b] = home'[b]
          /\ pc[a] = pc'[a] /\ pc[b] = pc'[b]
      BY <1>1, <2>3
    <3> QED BY <1>2, <3>1 DEF OneWithin
  <2> QED BY <2>1, <2>2, <2>3
<1> QED BY <1>2 DEF OneWithin

\* A node stays where it hangs while its call keeps its source.
LEMMA HangStill ==
    ASSUME IInv, NodesHang, Grown,
           \A c \in Sources : pc[c] # "idle" =>
               pc'[c] # "idle" /\ ctx'[c].parent = ctx[c].parent,
           \A c \in Sources : c \in DOMAIN tree' \ DOMAIN tree =>
               pc[c] # "idle" /\ tree'[c].parent = ctx[c].parent
    PROVE  NodesHang'
  BY DEF NodesHang, Grown

\* A setting's position stays selected when nobody else moves.
LEMMA SettingsStay ==
    ASSUME SettingsHold,
           \A c \in Settings : pc'[c] \in {"preparing", "appended"} =>
               /\ pc[c] \in {"preparing", "appended"} /\ home'[c] = home[c]
               /\ ctx'[c].parent = ctx[c].parent
               /\ home[c] \in Serial => tip'[home[c]] = tip[home[c]]
    PROVE  SettingsHold'
  BY DEF SettingsHold

\* A step that neither appends, nor begins a call, nor moves a position.
LEMMA SerialStays ==
    ASSUME IInv, SerialInv, UNCHANGED <<tree, tip, home, ctx>>, NEW c \in Calls, NEW where,
           Go(c, where), pc[c] # "idle", where \in Steps \ {"idle", "preparing", "appended"},
           pc[c] \in Within \/ where \notin Within
    PROVE  SerialInv'
<1>1. \A d \in Calls : pc'[d] = IF d = c THEN where ELSE pc[d]
  BY DEF Go, IInv, TypeOK
<1>2. Grown BY DEF Grown
<1>3. NodesHang' BY <1>1, <1>2, HangStill DEF SerialInv, Calls
<1>4. OneWithin' BY WithinStays DEF SerialInv
<1>5. SettingsHold' BY <1>1, SettingsStay DEF SerialInv, Calls, Sources
<1> QED BY <1>3, <1>4, <1>5 DEF SerialInv

\* A step of a session's method that may move that session's position.
LEMMA SerialMoves ==
    ASSUME IInv, SerialInv, UNCHANGED <<tree, home, ctx>>, NEW c \in Calls, Go(c, "done"),
           pc[c] \in Within, \A i \in Sessions \ {home[c]} : tip'[i] = tip[i]
    PROVE  SerialInv'
<1>1. \A d \in Calls : pc'[d] = IF d = c THEN "done" ELSE pc[d]
  BY DEF Go, IInv, TypeOK
<1>2. Grown /\ pc[c] # "idle" BY DEF Grown, Within
<1>3. NodesHang' BY <1>1, <1>2, HangStill DEF SerialInv, Calls
<1>4. OneWithin' BY WithinStays DEF SerialInv
<1>5. ASSUME NEW d \in Settings, pc'[d] \in {"preparing", "appended"}, home[d] \in Serial
      PROVE  tip'[home[d]] = tip[home[d]]
  <2>1. d \in Calls /\ d # c /\ pc[d] \in Within BY <1>1, <1>5 DEF Calls, Sources, Within
  <2>2. home[d] # home[c] BY <1>5, <2>1 DEF SerialInv, OneWithin
  <2> QED BY <1>5, <2>2, HistoryAssumption
<1>6. SettingsHold' BY <1>1, <1>5, SettingsStay DEF SerialInv, Calls, Sources
<1> QED BY <1>3, <1>4, <1>6 DEF SerialInv

\* A call that captures a source captures the position of its session.
LEMMA BeginSerial ==
    ASSUME IInv, SerialInv, NEW c \in Sources, NEW i \in Sessions, Begin(c, i)
    PROVE  SerialInv'
<1>1. /\ UNCHANGED <<tree, tip>> /\ MayCall(i) /\ c \in Calls /\ pc[c] = "idle"
      /\ home' = [home EXCEPT ![c] = i]
  BY DEF Begin, store, position, Calls
<1>2. PICK where \in {"spawned", "preparing"} : Go(c, where)
  BY DEF Begin
<1>3. \A d \in Calls : pc'[d] = (IF d = c THEN where ELSE pc[d])
                       /\ home'[d] = (IF d = c THEN i ELSE home[d])
  BY <1>1, <1>2 DEF Go, IInv, TypeOK
<1>4. \A d \in Sources : IF d = c THEN ctx'[d].parent = tip[i] ELSE ctx'[d] = ctx[d]
  BY DEF Begin, IInv, TypeOK
<1>5. NodesHang'
  <2>1. Grown BY <1>1 DEF Grown
  <2>2. ASSUME NEW d \in Sources, pc[d] # "idle"
        PROVE  pc'[d] # "idle" /\ ctx'[d].parent = ctx[d].parent
    BY <1>1, <1>3, <1>4, <2>2 DEF Calls
  <2> QED BY <1>1, <2>1, <2>2, HangStill DEF SerialInv
<1>6. OneWithin' BY <1>1, <1>2, WithinBegins DEF SerialInv
<1>7. ASSUME NEW d \in Settings, home'[d] \in Serial, pc'[d] \in {"preparing", "appended"}
      PROVE  ctx'[d].parent = tip'[home'[d]]
  <2>1. CASE d = c BY <1>1, <1>3, <1>4, <2>1
  <2>2. CASE d # c
    <3>1. d \in Sources /\ d \in Calls BY DEF Sources, Calls
    <3> QED BY <1>1, <1>3, <1>4, <1>7, <2>2, <3>1 DEF SerialInv, SettingsHold
  <2> QED BY <2>1, <2>2
<1>8. SettingsHold' BY <1>7 DEF SettingsHold
<1> QED BY <1>5, <1>6, <1>8 DEF SerialInv

\* A navigation or a collector begins with no source of its own.
LEMMA OtherSerial ==
    ASSUME IInv, SerialInv, UNCHANGED <<tree, tip, ctx>>, NEW c \in Moves \cup Waits,
           NEW where, Go(c, where), pc[c] = "idle", NEW i, MayCall(i),
           home' = [home EXCEPT ![c] = i]
    PROVE  SerialInv'
<1>1. c \in Calls /\ c \notin Sources BY HistoryAssumption DEF Calls, Sources
<1>2. \A d \in Sources : pc'[d] = pc[d] /\ home'[d] = home[d]
  BY <1>1 DEF Go, IInv, TypeOK, Calls
<1>3. Grown BY DEF Grown
<1>4. NodesHang' BY <1>2, <1>3, HangStill DEF SerialInv
<1>5. OneWithin' BY <1>1, WithinBegins DEF SerialInv
<1>6. SettingsHold' BY <1>2, SettingsStay DEF SerialInv, Sources
<1> QED BY <1>4, <1>5, <1>6 DEF SerialInv

\* A call appends a node that hangs on its source, once or again; for a result
\* that is committed the method begins here.
LEMMA AppendSerial ==
    ASSUME IInv, SerialInv, NEW c \in Runs \cup Stages \cup Settings, AppendsTo(c),
           pc[c] # "idle",
           pc[c] = "preparing" \/ (c \in Runs /\ MayCall(home[c])),
           ctx' = ctx \/ \E b \in Names \cup {None} : ctx' = [ctx EXCEPT ![c].into = b]
    PROVE  SerialInv'
<1>1. c \in Sources /\ c \in Calls /\ (c \in Runs => c \notin Settings)
  BY HistoryAssumption DEF Sources, Calls
<1>2. UNCHANGED <<tip, home>> BY DEF AppendsTo, position
<1>3. \A d \in Sources : ctx'[d].parent = ctx[d].parent
  <2>1. ctx \in [Sources -> Context] BY DEF IInv, TypeOK
  <2> QED BY <1>1, <2>1 DEF Context
<1>4. PICK where \in {"appended", "raised"} : Go(c, where)
  BY DEF AppendsTo
<1>5. \A d \in Calls : pc'[d] = IF d = c THEN where ELSE pc[d]
  BY <1>4 DEF Go, IInv, TypeOK
<1>6. NodesHang'
  <2>1. Grown /\ (c \in DOMAIN tree' \ DOMAIN tree => tree'[c].parent = ctx[c].parent)
        /\ DOMAIN tree' \subseteq DOMAIN tree \cup {c}
    <3>1. CASE Append(c, NodeOf(c))
      <4>1. NodeOf(c).parent = ctx[c].parent BY DEF NodeOf
      <4> QED BY <3>1, <4>1, AppendAdds
    <3>2. CASE UNCHANGED tree BY <3>2 DEF Grown
    <3> QED BY <3>1, <3>2 DEF AppendsTo
  <2>2. \A d \in Sources : pc[d] # "idle" => pc'[d] # "idle"
    BY <1>4, <1>5 DEF Calls
  <2>3. \A d \in Sources : d \in DOMAIN tree' \ DOMAIN tree =>
            pc[d] # "idle" /\ tree'[d].parent = ctx[d].parent
    BY <2>1
  <2> QED BY <1>3, <2>1, <2>2, <2>3, HangStill DEF SerialInv
<1>7. OneWithin'
  <2>1. CASE pc[c] = "preparing"
    BY <1>1, <1>2, <1>4, <2>1, WithinStays DEF SerialInv, Within
  <2>2. CASE MayCall(home[c])
    <3>1. home' = [home EXCEPT ![c] = home[c]] BY <1>1, <1>2 DEF IInv, TypeOK
    <3> QED BY <1>1, <1>4, <2>2, <3>1, WithinBegins DEF SerialInv
  <2> QED BY <2>1, <2>2
<1>8. SettingsHold'
  BY <1>1, <1>2, <1>3, <1>5, SettingsStay DEF SerialInv, Sources, Calls
<1> QED BY <1>6, <1>7, <1>8 DEF SerialInv

\* A collected operation's outcome hangs on the operation's source.
LEMMA WaitSerial ==
    ASSUME IInv, SerialInv, NEW w \in Waits, WaitAppends(w)
    PROVE  SerialInv'
<1> DEFINE j == wait[w].job
<1>1. j \in Sources /\ pc[j] # "idle" /\ w \in Calls /\ w \notin Sources
  BY HistoryAssumption DEF WaitAppends, IInv, WaitsMatched, Sources, Calls
<1>2. UNCHANGED <<tip, home, ctx>> /\ pc[w] = "finishing"
  BY DEF WaitAppends, position
<1>3. PICK where \in {"answered", "raised"} : Go(w, where)
  BY DEF WaitAppends
<1>4. \A d \in Sources : pc'[d] = pc[d]
  BY <1>1, <1>3 DEF Go, IInv, TypeOK, Calls
<1>5. Grown /\ (j \in DOMAIN tree' \ DOMAIN tree => tree'[j].parent = ctx[j].parent)
      /\ DOMAIN tree' \subseteq DOMAIN tree \cup {j}
  <2> DEFINE node == ResultNode(j, wait[w].keeps)
  <2>1. node.parent = ctx[j].parent BY DEF ResultNode, NodeOf
  <2> HIDE DEF node
  <2>2. CASE Append(j, node) BY <2>1, <2>2, AppendAdds
  <2>3. CASE UNCHANGED tree BY <2>3 DEF Grown
  <2> QED BY <2>2, <2>3 DEF WaitAppends, node
<1>6. NodesHang'
  <2> HIDE DEF j
  <2>1. \A d \in Sources : d \in DOMAIN tree' \ DOMAIN tree =>
            pc[d] # "idle" /\ tree'[d].parent = ctx[d].parent
    BY <1>1, <1>5
  <2> QED BY <1>2, <1>4, <1>5, <2>1, HangStill DEF SerialInv
<1>7. OneWithin' BY <1>1, <1>2, <1>3, WithinStays DEF SerialInv, Within
<1>8. SettingsHold' BY <1>2, <1>4, SettingsStay DEF SerialInv, Sources
<1> QED BY <1>6, <1>7, <1>8 DEF SerialInv

\* Opening a session disturbs no call: those under way are of opened ones.
LEMMA OpenSerial ==
    ASSUME IInv, SerialInv, NEW i \in Sessions, Open(i)
    PROVE  SerialInv'
<1>1. UNCHANGED <<pc, home, ctx>>
  BY DEF Open, OpenLooks, OpenAppends, OpenSelects, contexts
<1>2. NodesHang'
  <2>1. CASE UNCHANGED tree
    <3>1. Grown BY <2>1 DEF Grown
    <3> QED BY <1>1, <2>1, <3>1, HangStill DEF SerialInv
  <2>2. CASE Append(i, RootNode)
    <3>1. Grown /\ DOMAIN tree' = DOMAIN tree \cup {i} BY <2>2, AppendAdds
    <3>2. i \notin Sources BY HistoryAssumption DEF Calls
    <3> QED BY <1>1, <3>1, <3>2, HangStill DEF SerialInv
  <2> QED BY <2>1, <2>2 DEF Open, OpenLooks, OpenAppends, OpenSelects, store
<1>3. OneWithin' BY <1>1 DEF SerialInv, OneWithin
<1>4. ASSUME NEW d \in Settings, pc[d] \in {"preparing", "appended"}
      PROVE  tip'[home[d]] = tip[home[d]]
  <2>1. status[home[d]] = "ready" BY <1>4 DEF IInv, CallsSourced, Calls, Sources
  <2>2. home[d] \in Sessions
    BY <1>4, HistoryAssumption DEF IInv, TypeOK, CallsSourced, Calls, Sources, Ids
  <2>3. CASE UNCHANGED tip BY <2>3
  <2>4. CASE OpenSelects(i)
    <3>1. home[d] # i BY <2>1, <2>4 DEF OpenSelects
    <3> QED BY <2>2, <2>4, <3>1 DEF OpenSelects, Select, IInv, TypeOK
  <2> QED BY <2>3, <2>4 DEF Open, OpenLooks, OpenAppends, position
<1>5. SettingsHold' BY <1>1, <1>4, SettingsStay DEF SerialInv
<1> QED BY <1>2, <1>3, <1>5 DEF SerialInv

\* A call that ends moves no position but its session's.
LEMMA EndSerial ==
    ASSUME IInv, SerialInv, NEW c \in Calls,
           \/ CommitMoves(c) \/ StageMoves(c) \/ SettingMoves(c) \/ MoveEnds(c) \/ WaitMoves(c)
    PROVE  SerialInv'
<1>1. UNCHANGED <<tree, home, ctx>> /\ Go(c, "done") /\ pc[c] \in Within
  BY DEF CommitMoves, StageMoves, SettingMoves, MoveEnds, WaitMoves, store, contexts, Within
<1>2. UNCHANGED tip \/ \E n : tip' = [tip EXCEPT ![home[c]] = n]
  BY DEF CommitMoves, StageMoves, SettingMoves, MoveEnds, WaitMoves, Select
<1>3. \A i \in Sessions \ {home[c]} : tip'[i] = tip[i] BY <1>2 DEF IInv, TypeOK
<1> QED BY <1>1, <1>3, SerialMoves

\* Every step keeps what a session used by one thread relies on.
LEMMA StepSerial == IInv /\ SerialInv /\ [Next]_vars => SerialInv'
<1> SUFFICES ASSUME IInv, SerialInv, [Next]_vars PROVE SerialInv'
  OBVIOUS
<1>0. CASE UNCHANGED <<tree, tip, home, ctx, pc>>
  <2>1. Grown BY <1>0 DEF Grown
  <2>2. NodesHang' BY <1>0, <2>1, HangStill DEF SerialInv
  <2> QED BY <1>0, <2>2, SettingsStay DEF SerialInv, OneWithin
<1>1. CASE UNCHANGED vars
  BY <1>0, <1>1 DEF vars, store, position, contexts
<1>2. ASSUME NEW i \in Sessions, Open(i) PROVE SerialInv'
  BY <1>2, OpenSerial
<1>3. ASSUME NEW i \in Sessions, NEW b \in Names, Branch(i, b) PROVE SerialInv'
  BY <1>0, <1>3 DEF Branch, CreateBranch, DeleteBranch, store, contexts
<1>4. ASSUME NEW c \in Sources, NEW i \in Sessions, Begin(c, i) PROVE SerialInv'
  BY <1>4, BeginSerial
<1>5. ASSUME NEW r \in Runs, Drop(r) \/ CommitAppends(r) \/ CommitMoves(r) PROVE SerialInv'
  <2>0. r \in Calls BY DEF Calls, Sources
  <2>1. CASE Drop(r)
    BY <2>0, <2>1, SerialStays DEF Drop, store, position, contexts, Steps, Within
  <2>2. CASE CommitAppends(r)
    <3>1. pc[r] # "idle" /\ MayCall(home[r]) /\ AppendsTo(r) BY <2>2 DEF CommitAppends
    <3>2. ctx' = ctx \/ \E b \in Names \cup {None} : ctx' = [ctx EXCEPT ![r].into = b]
      BY <2>2 DEF CommitAppends
    <3> QED BY <3>1, <3>2, AppendSerial
  <2>3. CASE CommitMoves(r) BY <2>0, <2>3, EndSerial
  <2> QED BY <1>5, <2>1, <2>2, <2>3
<1>6. ASSUME NEW c \in Stages \cup Settings, EntryAppends(c) \/ StageMoves(c) \/ SettingMoves(c)
      PROVE  SerialInv'
  <2>0. c \in Calls BY DEF Calls, Sources
  <2>1. CASE EntryAppends(c)
    BY <2>1, AppendSerial DEF EntryAppends
  <2>2. CASE StageMoves(c) \/ SettingMoves(c) BY <2>0, <2>2, EndSerial
  <2> QED BY <1>6, <2>1, <2>2
<1>7. ASSUME NEW m \in Moves, MoveEnds(m) \/ \E i \in Sessions : MoveBegins(m, i)
      PROVE  SerialInv'
  <2>0. m \in Calls BY DEF Calls
  <2>1. CASE MoveEnds(m) BY <2>0, <2>1, EndSerial
  <2>2. ASSUME NEW i \in Sessions, MoveBegins(m, i) PROVE SerialInv'
    BY <2>2, OtherSerial DEF MoveBegins, store, position
  <2> QED BY <1>7, <2>1, <2>2
<1>8. ASSUME NEW j \in Jobs, Register(j) \/ JobEnds(j) PROVE SerialInv'
  <2>1. j \in Calls BY DEF Calls, Sources
  <2>2. CASE Register(j)
    <3>1. PICK where \in {"done", "raised"} : Go(j, where) BY <2>2 DEF Register
    <3>2. UNCHANGED <<tree, tip, home, ctx>> /\ pc[j] # "idle"
      BY <2>2 DEF Register, position, contexts
    <3>3. where \in Steps \ {"idle", "preparing", "appended"} /\ where \notin Within
      BY <3>1 DEF Steps, Within
    <3> QED BY <2>1, <3>1, <3>2, <3>3, SerialStays
  <2>3. CASE JobEnds(j) BY <1>0, <2>3 DEF JobEnds, store, position, contexts
  <2> QED BY <1>8, <2>2, <2>3
<1>9. ASSUME NEW w \in Waits, Collect(w) PROVE SerialInv'
  <2>0. w \in Calls BY DEF Calls
  <2>1. CASE WaitGivesUp(w) \/ WaitDecides(w) \/ WaitNames(w)
    <3>1. PICK where \in {"raised", "answered", "finishing", "named"} : Go(w, where)
      BY <2>1 DEF WaitGivesUp, WaitDecides, WaitNames
    <3>2. UNCHANGED <<tree, tip, home, ctx>> /\ pc[w] \in Within /\ pc[w] # "idle"
      BY <2>1 DEF WaitGivesUp, WaitDecides, WaitNames, store, position, contexts, Within
    <3>3. where \in Steps \ {"idle", "preparing", "appended"} BY <3>1 DEF Steps, Within
    <3> QED BY <2>0, <3>1, <3>2, <3>3, SerialStays
  <2>2. CASE WaitAppends(w) BY <2>2, WaitSerial
  <2>3. CASE WaitMoves(w) BY <2>0, <2>3, EndSerial
  <2> QED BY <1>9, <2>1, <2>2, <2>3 DEF Collect
<1>10. ASSUME NEW w \in Waits, NEW i \in Sessions, NEW j \in Jobs,
              WaitBegins(w, i, j) \/ HandleBegins(w, i, j)
       PROVE  SerialInv'
  <2>1. CASE WaitBegins(w, i, j)
    BY <2>1, OtherSerial DEF WaitBegins, store, position
  <2>2. CASE HandleBegins(w, i, j)
    BY <2>2, OtherSerial DEF HandleBegins, store, position
  <2> QED BY <1>10, <2>1, <2>2
<1> QED BY <1>1, <1>2, <1>3, <1>4, <1>5, <1>6, <1>7, <1>8, <1>9, <1>10 DEF Next

\* Used by one thread, a session goes on only to a child of its position, unless
\* the caller navigates or names a branch.
THEOREM SerialSessionsDescend == Spec => SelectionDescends
<1> DEFINE Descends(i) ==
        status[i] = "ready" /\ tip'[i] # tip[i] => Steered(i) \/ tree[tip'[i]].parent = tip[i]
<1>1. Init => SerialInv
  <2> SUFFICES ASSUME Init PROVE SerialInv
    OBVIOUS
  <2>1. DOMAIN tree = {} /\ \A c \in Calls : pc[c] = "idle" BY DEF Init
  <2> QED BY <2>1 DEF SerialInv, NodesHang, OneWithin, SettingsHold, Within, Calls, Sources
<1>2. IInv /\ SerialInv /\ [Next]_vars => [\A i \in Serial : Descends(i)]_vars
  <2> SUFFICES ASSUME IInv, SerialInv, Next, NEW i \in Serial PROVE Descends(i)
    BY DEF vars
  <2>0. i \in Sessions BY HistoryAssumption
  <2>1. CASE UNCHANGED tip BY <2>1
  <2>2. ASSUME NEW k, NEW n, tip' = [tip EXCEPT ![k] = n],
               k = i => Steered(i) \/ tree[n].parent = tip[i] \/ status[i] # "ready"
        PROVE  Descends(i)
    BY <2>0, <2>2 DEF IInv, TypeOK
  <2>3. \A c \in Calls : Go(c, "done") => pc'[c] = "done" BY DEF Go, IInv, TypeOK
  <2>4. ASSUME NEW c \in Sources, pc[c] = "appended", c \notin Jobs
        PROVE  tree[c].parent = ctx[c].parent
    BY <2>4 DEF IInv, CallsSourced, SerialInv, NodesHang
  <2>5. ASSUME NEW k \in Sessions, OpenSelects(k) PROVE Descends(i)
    BY <2>2, <2>5 DEF OpenSelects, Select
  <2>6. ASSUME NEW r \in Runs, CommitMoves(r) PROVE Descends(i)
    <3>1. tree[r].parent = ctx[r].parent /\ r \in Calls
      BY <2>4, <2>6, HistoryAssumption DEF CommitMoves, Sources, Calls
    <3>2. CASE ctx[r].into # None
      <4>1. Ends(r, "appended") BY <2>3, <2>6, <3>1 DEF CommitMoves, Ends
      <4>2. home[r] = i => Steered(i) BY <3>2, <4>1 DEF Steered
      <4>3. tip' = [tip EXCEPT ![home[r]] = r] BY <2>6, <3>2 DEF CommitMoves, Select
      <4> QED BY <2>2, <4>2, <4>3
    <3>3. CASE ctx[r].into = None
      <4>1. \/ tip' = [tip EXCEPT ![home[r]] = r] /\ tip[home[r]] = ctx[r].parent
            \/ tip' = tip
        BY <2>6, <3>3 DEF CommitMoves, Select, Unmoved
      <4> QED BY <2>2, <3>1, <4>1
    <3> QED BY <3>2, <3>3
  <2>7. ASSUME NEW s \in Stages \cup Settings, StageMoves(s) PROVE Descends(i)
    <3>1. tree[s].parent = ctx[s].parent
      BY <2>4, <2>7, HistoryAssumption DEF StageMoves, Sources
    <3>2. \/ tip' = [tip EXCEPT ![home[s]] = s] /\ tip[home[s]] = ctx[s].parent
          \/ tip' = tip
      BY <2>7 DEF StageMoves, Select, Unmoved
    <3> QED BY <2>2, <3>1, <3>2
  <2>8. ASSUME NEW c \in Stages \cup Settings, SettingMoves(c) PROVE Descends(i)
    <3>1. tree[c].parent = ctx[c].parent
      BY <2>4, <2>8, HistoryAssumption DEF SettingMoves, Sources
    <3>2. c \in Settings /\ pc[c] = "appended" /\ tip' = [tip EXCEPT ![home[c]] = c]
      BY <2>8 DEF SettingMoves, Select
    <3>3. home[c] = i => ctx[c].parent = tip[i] BY <3>2 DEF SerialInv, SettingsHold
    <3> QED BY <2>2, <3>1, <3>2, <3>3
  <2>9. ASSUME NEW m \in Moves, MoveEnds(m) PROVE Descends(i)
    <3>1. Ends(m, "moving") BY <2>3, <2>9 DEF MoveEnds, Ends, Calls
    <3>2. home[m] = i => Steered(i) BY <3>1 DEF Steered
    <3>3. tip' = [tip EXCEPT ![home[m]] = goal[m].target] BY <2>9 DEF MoveEnds, Select
    <3> QED BY <2>2, <3>2, <3>3
  <2>10. ASSUME NEW w \in Waits, WaitMoves(w) PROVE Descends(i)
    <3> DEFINE j == wait[w].job  x == [ctx[j] EXCEPT !.version = wait[w].version]
    <3>1. j \in Sources /\ ctx[j] \in Context /\ j \in DOMAIN tree
      BY <2>10 DEF WaitMoves, IInv, TypeOK, WaitsMatched, OneOutcome, Sources, Calls
    <3>2. tree[j].parent = ctx[j].parent BY <3>1 DEF SerialInv, NodesHang
    <3>3. x.parent = ctx[j].parent BY <3>1 DEF Context
    <3> HIDE DEF x
    <3>4. \/ tip' = [tip EXCEPT ![home[w]] = j] /\ tip[home[w]] = x.parent
          \/ tip' = tip
      BY <2>10 DEF WaitMoves, Select, Unmoved, x
    <3> HIDE DEF j
    <3> QED BY <2>2, <3>2, <3>3, <3>4
  <2> QED
    BY <2>1, <2>5, <2>6, <2>7, <2>8, <2>9, <2>10 DEF Next, Open, Branch, Collect, position,
       OpenLooks, OpenAppends, Begin, Drop, CommitAppends, EntryAppends, AppendsTo,
       CreateBranch, DeleteBranch, MoveBegins, Register, JobEnds, WaitBegins,
       HandleBegins, WaitGivesUp, WaitDecides, WaitAppends, WaitNames
<1> QED BY <1>1, <1>2, StepSerial, Inductive, PTL DEF Spec, SelectionDescends

=============================================================================
