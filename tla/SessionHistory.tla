--------------------------- MODULE SessionHistory ---------------------------
(***************************************************************************)
(* The history of a session: entries in a stored tree, and the position    *)
(* and branches of every session object that works on it.                  *)
(*                                                                         *)
(* ContreeAsyncSession and ContreeSession (contree_sdk/session/asyncio.py, *)
(* sync.py) run the same steps.  Methods of an asynchronous session        *)
(* overlap at every await; those of a session in Serial do not, except     *)
(* that an operation runs between spawn() and commit_result().  A process  *)
(* that dies just takes no further step: another session object goes on    *)
(* with the stored tree.                                                   *)
(***************************************************************************)
EXTENDS Naturals

CONSTANTS
    Sessions,   \* session objects that share one stored tree
    Serial,     \* those used by one thread
    Resumed,    \* those opened with an explicit node_id
    Runs,       \* operations: spawn(), wait() and commit_result()
    Jobs,       \* operations registered by spawn_detached()
    Stages,     \* calls of stage_files(), one file each
    Settings,   \* calls of set_cwd() or set_env()
    Waits,      \* calls that collect a detached operation
    Moves,      \* navigations: rollback, navigate, navigate_forward, switch
    Names,      \* names of local branches
    Main,       \* the branch a session starts on
    None

Sources == Runs \cup Jobs \cup Stages \cup Settings
Calls == Sources \cup Waits \cup Moves
Ids == Sessions \cup Sources          \* a root has its session's identity
Effects == Runs \cup Jobs \cup Stages

ASSUME HistoryAssumption ==
    /\ Serial \subseteq Sessions /\ Resumed \subseteq Sessions
    /\ Main \in Names
    /\ None \notin Ids \cup Names
    /\ \A S \in SUBSET Effects : S # None
    /\ Sessions \cap Calls = {}
    /\ Runs \cap (Jobs \cup Stages \cup Settings \cup Waits \cup Moves) = {}
    /\ Jobs \cap (Stages \cup Settings \cup Waits \cup Moves) = {}
    /\ Stages \cap (Settings \cup Waits \cup Moves) = {}
    /\ Settings \cap (Waits \cup Moves) = {}
    /\ Waits \cap Moves = {}

VARIABLES
    \* the store: the tree's entries and results, the operations registered
    tree, registered,
    \* the server: the status of each detached operation
    outcome,
    \* a session object: how far it is opened, tip_id and image_uuid,
    \* _branches, _active_branch and _position_version
    status, tip, image, branches, active, version,
    \* a call: where it is, on which session, the operation context it holds,
    \* what a collector holds, where a navigation goes
    pc, home, ctx, wait, goal,
    \* only for the properties: calls whose session navigated since they began
    stale

store == <<tree, registered>>
position == <<tip, image, branches, active, version, stale>>
contexts == <<home, ctx, wait, goal>>
vars == <<store, outcome, status, position, pc, contexts>>

Kinds == {"init", "run", "stage", "config", "operation-result"}
Image == {None} \cup SUBSET Effects
Node == [parent : Ids \cup {None}, kind : Kinds, image : Image,
         files : SUBSET Stages, complete : BOOLEAN]
Context == [parent : Ids \cup {None}, branch : Names \cup {None}, version : Nat,
            image : Image, into : Names \cup {None}]
Wait == [job : Jobs \cup {None}, version : Nat, advances : BOOLEAN,
         into : Names \cup {None}, keeps : BOOLEAN]
\* Where a call is: Within a method of the session, or not.
Within == {"preparing", "appended", "moving", "waiting", "finishing", "answered", "named"}
Steps == {"idle", "spawned", "dropped", "raised", "done"} \cup Within
Goal == [name : Names \cup {None}, target : Ids \cup {None}]

-----------------------------------------------------------------------------
(* The stored tree                                                         *)

HasRoot == \E n \in DOMAIN tree : tree[n].parent = None

\* entry_from_node: a node with an image can be resumed.
AnyImage(n) == TRUE                                                 \* mutant
HasImage(n) == tree[n].image # None
Entries == {n \in DOMAIN tree : HasImage(n)}
Leaves == {n \in Entries : \A m \in Entries : tree[m].parent # n}

With(n, node) == [m \in DOMAIN tree \cup {n} |-> IF m = n THEN node ELSE tree[m]]

\* append(): the first node of an identity stays; an equal one succeeds again.
LastWins(n, node) == tree' = With(n, node)                          \* mutant
Append(n, node) == tree' = IF n \in DOMAIN tree THEN tree ELSE With(n, node)

\* The way back from n, up to the last node that consumed staged files: what
\* every set of nodes holds that has n and the parents of its own nodes.
WalksBack(S, n) ==
    n \in S /\ \A m \in S : tree[m].complete \/ tree[m].parent \in S \cup {None}
WayBack(n) == {m \in DOMAIN tree : \A S \in SUBSET DOMAIN tree : WalksBack(S, n) => m \in S}

\* pending_files(): the files staged on that way.
OwnFiles(n) == tree[n].files                                        \* mutant
PendingFiles(n) == {f \in Stages : \E m \in WayBack(n) : f \in tree[m].files}

-----------------------------------------------------------------------------
Init ==
    /\ tree = [n \in {} |-> None] /\ registered = {}
    /\ outcome = [j \in Jobs |-> "running"]
    /\ status = [i \in Sessions |-> "new"]
    /\ tip = [i \in Sessions |-> None] /\ image = [i \in Sessions |-> {}]
    /\ branches = [i \in Sessions |-> [b \in Names |-> None]]
    /\ active = [i \in Sessions |-> Main] /\ version = [i \in Sessions |-> 0]
    /\ pc = [c \in Calls |-> "idle"] /\ home = [c \in Calls |-> None]
    /\ ctx = [c \in Sources |-> [parent |-> None, branch |-> None, version |-> 0,
                                 image |-> {}, into |-> None]]
    /\ wait = [w \in Waits |-> [job |-> None, version |-> 0, advances |-> FALSE,
                                into |-> None, keeps |-> FALSE]]
    /\ goal = [m \in Moves |-> [name |-> None, target |-> None]]
    /\ stale = {}

Go(c, where) == pc' = [pc EXCEPT ![c] = where]

\* refresh_from_entry: the position is an entry and its image.
TipOnly(i, n) == tip' = [tip EXCEPT ![i] = n] /\ image' = image     \* mutant
Select(i, n) ==
    /\ tip' = [tip EXCEPT ![i] = n]
    /\ image' = [image EXCEPT ![i] = tree[n].image]

Keep(i, names) == branches' = [branches EXCEPT ![i] = names]

\* A method of i may begin: of a serial session, no other is under way.
MayCall(i) ==
    /\ status[i] = "ready"
    /\ i \in Serial => \A c \in Calls : home[c] = i => pc[c] \notin Within

-----------------------------------------------------------------------------
(* Opening a session: _initialize                                          *)

OpenLooks(i) ==
    /\ status[i] = "new"
    /\ status' = [status EXCEPT ![i] = IF HasRoot THEN "rooted" ELSE "rootless"]
    /\ UNCHANGED <<store, outcome, position, pc, contexts>>

\* The first root wins; who lost finds it.  A lost answer makes the call fail,
\* and the next call of the session opens it again.
RootNode == [parent |-> None, kind |-> "init", image |-> {}, files |-> {}, complete |-> FALSE]
RootIsFirst == ~HasRoot
OpenAppends(i) ==
    /\ status[i] = "rootless"
    /\ \/ /\ IF RootIsFirst THEN Append(i, RootNode) ELSE UNCHANGED tree
          /\ \E next \in {"rooted", "new"} : status' = [status EXCEPT ![i] = next]
       \/ UNCHANGED tree /\ status' = [status EXCEPT ![i] = "new"]
    /\ UNCHANGED <<registered, outcome, position, pc, contexts>>

\* Without a node_id there must be exactly one continuation.
OpenSelects(i) ==
    /\ status[i] = "rooted"
    /\ \E n \in Entries :
          /\ i \in Resumed \/ Leaves = {n}
          /\ Select(i, n) /\ Keep(i, [b \in Names |-> IF b = Main THEN n ELSE None])
    /\ status' = [status EXCEPT ![i] = "ready"]
    /\ UNCHANGED <<store, outcome, active, version, stale, pc, contexts>>

-----------------------------------------------------------------------------
(* Operations, staged files and settings: each captures its source entry,  *)
(* appends a child of it, and may then move branches and position.         *)

\* The image an operation would produce: its source, pending files, its work.
Result(c, i) ==
    IF c \in Runs \cup Jobs THEN image[i] \cup PendingFiles(tip[i]) \cup {c} ELSE image[i]

Begin(c, i) ==
    /\ pc[c] = "idle" /\ MayCall(i)
    /\ \E b \in Names \cup {None} :
          /\ c \notin Runs => b = None
          /\ ctx' = [ctx EXCEPT ![c] = [parent |-> tip[i], branch |-> active[i],
                                        version |-> version[i], image |-> Result(c, i),
                                        into |-> b]]
    /\ home' = [home EXCEPT ![c] = i]
    /\ Go(c, IF c \in Runs \cup Jobs THEN "spawned" ELSE "preparing")
    /\ UNCHANGED <<store, outcome, status, position, wait, goal>>

\* The operation fails, is cancelled or disposable, or its result is refused.
Drop(r) ==
    /\ r \in Runs /\ pc[r] = "spawned" /\ Go(r, "dropped")
    /\ UNCHANGED <<store, outcome, status, position, contexts>>

NodeOf(c) ==
    [parent |-> ctx[c].parent, image |-> ctx[c].image,
     kind |-> IF c \in Stages THEN "stage" ELSE IF c \in Settings THEN "config" ELSE "run",
     files |-> IF c \in Stages THEN {c} ELSE {}, complete |-> c \in Runs \cup Jobs]

\* The append is applied, or not; its answer arrives, or the call raises.
AppendsTo(c) ==
    /\ \/ Append(c, NodeOf(c)) /\ (Go(c, "appended") \/ Go(c, "raised"))
       \/ UNCHANGED tree /\ Go(c, "raised")
    /\ UNCHANGED <<registered, outcome, status, position, home, wait, goal>>

EntryAppends(c) ==
    /\ c \in Stages \cup Settings /\ pc[c] = "preparing"
    /\ AppendsTo(c) /\ UNCHANGED ctx

\* commit_result() may be repeated, after a lost answer or to name a branch.
CommitAppends(r) ==
    /\ r \in Runs /\ pc[r] \in {"spawned", "raised", "done"} /\ MayCall(home[r])
    /\ \/ pc[r] = "spawned" /\ UNCHANGED ctx
       \/ /\ pc[r] # "spawned"
          /\ \E b \in Names \cup {None} : ctx' = [ctx EXCEPT ![r].into = b]
    /\ AppendsTo(r)

\* The source's branch follows, if it still names the source.
Followed(i, n, x) ==
    [b \in Names |-> IF b = x.branch /\ branches[i][b] = x.parent THEN n ELSE branches[i][b]]

\* The position follows, if it still is the source and nobody navigated.
SourceOnly(i, x) == tip[i] = x.parent                               \* mutant
VersionOnly(i, x) == version[i] = x.version                         \* mutant
Unmoved(i, x) == tip[i] = x.parent /\ version[i] = x.version

CommitMoves(r) ==
    LET i == home[r]  x == ctx[r]  followed == Followed(i, r, x) IN
    /\ r \in Runs /\ pc[r] = "appended"
    /\ IF x.into # None
       THEN /\ Keep(i, [followed EXCEPT ![x.into] = r])
            /\ active' = [active EXCEPT ![i] = x.into] /\ Select(i, r)
       ELSE IF active[i] = x.branch /\ Unmoved(i, x)
       THEN Keep(i, [followed EXCEPT ![active[i]] = r]) /\ Select(i, r) /\ UNCHANGED active
       ELSE Keep(i, followed) /\ UNCHANGED <<tip, image, active>>
    /\ Go(r, "done")
    /\ UNCHANGED <<store, outcome, status, version, stale, contexts>>

StageMoves(s) ==
    LET i == home[s]  x == ctx[s]  followed == Followed(i, s, x) IN
    /\ s \in Stages /\ pc[s] = "appended"
    /\ IF Unmoved(i, x)
       THEN Keep(i, [followed EXCEPT ![active[i]] = s]) /\ Select(i, s)
       ELSE Keep(i, followed) /\ UNCHANGED <<tip, image>>
    /\ Go(s, "done")
    /\ UNCHANGED <<store, outcome, status, active, version, stale, contexts>>

\* Every navigation and every change of settings makes a new version.
SameVersion(i) == version' = version                                \* mutant
NewVersion(i) == version' = [version EXCEPT ![i] = @ + 1]
Navigated(i) == stale' = stale \cup {c \in Calls : home[c] = i}

\* _save_configuration: unlike a result, it always moves the position.
SettingMoves(c) ==
    LET i == home[c] IN
    /\ c \in Settings /\ pc[c] = "appended"
    /\ Keep(i, [branches[i] EXCEPT ![active[i]] = c]) /\ Select(i, c)
    /\ NewVersion(i) /\ Navigated(i) /\ Go(c, "done")
    /\ UNCHANGED <<store, outcome, status, active, contexts>>

-----------------------------------------------------------------------------
(* Branches and navigation                                                 *)

CreateBranch(i, b) ==
    /\ MayCall(i) /\ branches[i][b] = None
    /\ \/ Keep(i, [branches[i] EXCEPT ![b] = tip[i]])
       \/ \E from \in Names : branches[i][from] # None
                              /\ Keep(i, [branches[i] EXCEPT ![b] = branches[i][from]])
    /\ UNCHANGED <<store, outcome, status, tip, image, active, version, stale, pc, contexts>>

DeleteBranch(i, b) ==
    /\ MayCall(i) /\ b # active[i] /\ branches[i][b] # None
    /\ Keep(i, [branches[i] EXCEPT ![b] = None])
    /\ UNCHANGED <<store, outcome, status, tip, image, active, version, stale, pc, contexts>>

\* The target is read from the store before the session moves there.
MoveBegins(m, i) ==
    /\ pc[m] = "idle" /\ MayCall(i)
    /\ \/ \E b \in Names :
             /\ branches[i][b] # None
             /\ goal' = [goal EXCEPT ![m] = [name |-> b, target |-> branches[i][b]]]
       \/ \E n \in Entries : goal' = [goal EXCEPT ![m] = [name |-> None, target |-> n]]
    /\ home' = [home EXCEPT ![m] = i] /\ Go(m, "moving")
    /\ UNCHANGED <<store, outcome, status, position, ctx, wait>>

MoveEnds(m) ==
    LET i == home[m]  to == goal[m] IN
    /\ pc[m] = "moving"
    /\ IF to.name = None
       THEN Keep(i, [branches[i] EXCEPT ![active[i]] = to.target]) /\ UNCHANGED active
       ELSE active' = [active EXCEPT ![i] = to.name] /\ UNCHANGED branches
    /\ Select(i, to.target) /\ NewVersion(i) /\ Navigated(i) /\ Go(m, "done")
    /\ UNCHANGED <<store, outcome, status, contexts>>

-----------------------------------------------------------------------------
(* Detached operations                                                     *)

Cancelled(j) == [outcome EXCEPT ![j] = IF @ = "running" THEN "cancelled" ELSE @]

\* spawn_detached: if registration raises, the operation is cancelled, if the
\* server can be reached.
Register(j) ==
    /\ j \in Jobs /\ pc[j] = "spawned"
    /\ \/ registered' = registered \cup {j} /\ Go(j, "done") /\ UNCHANGED outcome
       \/ /\ registered' \in {registered, registered \cup {j}} /\ Go(j, "raised")
          /\ outcome' \in {outcome, Cancelled(j)}
    /\ UNCHANGED <<tree, status, position, contexts>>

JobEnds(j) ==
    /\ pc[j] # "idle" /\ outcome[j] = "running"
    /\ \E end \in {"success", "failed"} : outcome' = [outcome EXCEPT ![j] = end]
    /\ UNCHANGED <<store, status, position, pc, contexts>>

\* wait_operation: it moves nothing when the outcome was stored already.
Kept(j) == tree[j].kind = "run"
WaitBegins(w, i, j) ==
    /\ pc[w] = "idle" /\ MayCall(i) /\ j \in registered
    /\ \E b \in Names \cup {None} :
          wait' = [wait EXCEPT ![w] = [job |-> j, version |-> version[i], into |-> b,
                                       advances |-> j \notin DOMAIN tree,
                                       keeps |-> j \in DOMAIN tree /\ Kept(j)]]
    /\ home' = [home EXCEPT ![w] = i]
    /\ Go(w, IF j \in DOMAIN tree THEN "answered" ELSE "waiting")
    /\ UNCHANGED <<store, outcome, status, position, ctx, goal>>

\* commit_result() of a handle: one that i spawned and registered keeps the
\* version of its spawn, a restored one has version 0.
Spawned(i) == {j \in Jobs : home[j] = i /\ pc[j] = "done"}
HandleBegins(w, i, j) ==
    /\ pc[w] = "idle" /\ MayCall(i) /\ j \in registered /\ outcome[j] # "running"
    /\ \E handle \in {0} \cup {ctx[c].version : c \in {j} \cap Spawned(i)} :
          wait' = [wait EXCEPT ![w] = [job |-> j, version |-> handle, into |-> None,
                                       advances |-> TRUE, keeps |-> FALSE]]
    /\ home' = [home EXCEPT ![w] = i] /\ Go(w, "waiting")
    /\ UNCHANGED <<store, outcome, status, position, ctx, goal>>

\* The wait times out or its stream breaks: the operation is cancelled.
WaitGivesUp(w) ==
    /\ pc[w] = "waiting"
    /\ outcome' \in {outcome, Cancelled(wait[w].job)} /\ Go(w, "raised")
    /\ UNCHANGED <<store, status, position, contexts>>

\* _finish_detached: a stored outcome stands; otherwise the session's commit
\* policy decides whether a success is kept.
WaitDecides(w) ==
    LET j == wait[w].job IN
    /\ pc[w] = "waiting" /\ outcome[j] # "running"
    /\ IF j \in DOMAIN tree
       THEN wait' = [wait EXCEPT ![w].keeps = Kept(j)] /\ Go(w, "answered")
       ELSE /\ \E keeps \in BOOLEAN :
                  /\ keeps => outcome[j] = "success"
                  /\ wait' = [wait EXCEPT ![w].keeps = keeps]
            /\ Go(w, "finishing")
    /\ UNCHANGED <<store, outcome, status, position, home, ctx, goal>>

ResultNode(j, keeps) ==
    IF keeps THEN NodeOf(j)
    ELSE [NodeOf(j) EXCEPT !.kind = "operation-result", !.image = None, !.complete = FALSE]

\* Of two collectors the first wins; the other's append conflicts, and it
\* answers what is stored.
OwnAnswer(w) == wait[w].keeps                                       \* mutant
Answer(w) == IF wait[w].job \in DOMAIN tree THEN Kept(wait[w].job) ELSE wait[w].keeps

WaitAppends(w) ==
    LET j == wait[w].job IN
    /\ pc[w] = "finishing"
    /\ \/ /\ Append(j, ResultNode(j, wait[w].keeps))
          /\ \/ wait' = [wait EXCEPT ![w].keeps = Answer(w)] /\ Go(w, "answered")
             \/ UNCHANGED wait /\ Go(w, "raised")
       \/ UNCHANGED <<tree, wait>> /\ Go(w, "raised")
    /\ UNCHANGED <<registered, outcome, status, position, home, ctx, goal>>

WaitNames(w) ==
    LET i == home[w]  j == wait[w].job  b == wait[w].into IN
    /\ pc[w] = "answered"
    /\ IF b # None /\ wait[w].keeps THEN Keep(i, [branches[i] EXCEPT ![b] = j]) ELSE UNCHANGED branches
    /\ Go(w, "named")
    /\ UNCHANGED <<store, outcome, status, tip, image, active, version, stale, contexts>>

WaitMoves(w) ==
    LET i == home[w]  j == wait[w].job
        x == [ctx[j] EXCEPT !.version = wait[w].version] IN
    /\ pc[w] = "named"
    /\ IF wait[w].advances /\ wait[w].keeps
       THEN /\ Keep(i, Followed(i, j, x))
            /\ IF active[i] = x.branch /\ Unmoved(i, x)
               THEN Select(i, j) ELSE UNCHANGED <<tip, image>>
       ELSE UNCHANGED <<tip, image, branches>>
    /\ Go(w, "done")
    /\ UNCHANGED <<store, outcome, status, active, version, stale, contexts>>

-----------------------------------------------------------------------------
Open(i) == OpenLooks(i) \/ OpenAppends(i) \/ OpenSelects(i)
Branch(i, b) == CreateBranch(i, b) \/ DeleteBranch(i, b)
Collect(w) ==
    \/ WaitGivesUp(w) \/ WaitDecides(w) \/ WaitAppends(w) \/ WaitNames(w) \/ WaitMoves(w)

Next ==
    \/ \E i \in Sessions : Open(i) \/ \E b \in Names : Branch(i, b)
    \/ \E c \in Sources, i \in Sessions : Begin(c, i)
    \/ \E r \in Runs : Drop(r) \/ CommitAppends(r) \/ CommitMoves(r)
    \/ \E c \in Stages \cup Settings : EntryAppends(c) \/ StageMoves(c) \/ SettingMoves(c)
    \/ \E m \in Moves : MoveEnds(m) \/ \E i \in Sessions : MoveBegins(m, i)
    \/ \E j \in Jobs : Register(j) \/ JobEnds(j)
    \/ \E w \in Waits : Collect(w)
    \/ \E w \in Waits, i \in Sessions, j \in Jobs : WaitBegins(w, i, j) \/ HandleBegins(w, i, j)

Spec == Init /\ [][Next]_vars

-----------------------------------------------------------------------------
(* Properties                                                              *)

\* Every variable has its type, and a session never holds "no image", the
\* image of a result that was not kept (require_str in spawn_request).
TypeOK ==
    /\ DOMAIN tree \subseteq Ids /\ tree \in [DOMAIN tree -> Node]
    /\ registered \subseteq Jobs
    /\ outcome \in [Jobs -> {"running", "success", "failed", "cancelled"}]
    /\ status \in [Sessions -> {"new", "rootless", "rooted", "ready"}]
    /\ tip \in [Sessions -> Ids \cup {None}]
    /\ image \in [Sessions -> Image] /\ \A i \in Sessions : image[i] # None
    /\ branches \in [Sessions -> [Names -> Ids \cup {None}]]
    /\ active \in [Sessions -> Names] /\ version \in [Sessions -> Nat]
    /\ pc \in [Calls -> Steps]
    /\ home \in [Calls -> Sessions \cup {None}]
    /\ ctx \in [Sources -> Context] /\ wait \in [Waits -> Wait] /\ goal \in [Moves -> Goal]
    /\ stale \subseteq Calls

\* However sessions, collectors and retries interleave, the store holds one
\* immutable tree: the first root, the first outcome, and no entry changed.
Tree == INSTANCE ImmutableTree
ImplementsTree == Tree!Spec

\* The position of an opened session is an entry that can be resumed, with that
\* entry's image, and its branches name such entries (refresh_from_entry).
PositionIsEntry ==
    \A i \in Sessions : status[i] = "ready" =>
        /\ tip[i] \in Entries /\ image[i] = tree[tip[i]].image
        /\ \A b \in Names : branches[i][b] \in Entries \cup {None}

\* What a command run at n sees: the files staged before it, the commands run
\* before it, and no more (pending_files, staging_complete).
Sees(n) == tree[n].image \cup PendingFiles(n)
PathKeepsWork ==
    \A n \in {m \in Entries : tree[m].parent # None} :
        \E p \in Entries :
            /\ p = tree[n].parent
            /\ Sees(n) = Sees(p) \cup (IF n \in Settings THEN {} ELSE {n})

\* "The first completed outcome wins across concurrent policies": a collector
\* answers the outcome that is stored (wait_operation, _finish_detached).
OneOutcome ==
    \A w \in Waits : pc[w] \in {"answered", "named", "done"} =>
        wait[w].job \in DOMAIN tree /\ (wait[w].keeps <=> Kept(wait[w].job))

Ends(c, from) == pc[c] = from /\ pc'[c] = "done"

\* "A result advances the selected position only if ... navigation has not
\* changed" (branching.md): with no branch= named, the result of a call during
\* which the session navigated leaves the position alone.
LateResultsStay ==
    [][\A c \in stale :
          /\ Ends(c, "appended") /\ c \in Runs \cup Stages /\ ctx[c].into = None =>
                tip'[home[c]] = tip[home[c]]
          /\ Ends(c, "named") => tip'[home[c]] = tip[home[c]]]_vars

\* Used by one thread, a session goes on only to a child of its position,
\* unless the caller navigates it or names a branch=: no result of another
\* operation, committed in any order, takes the position off its path.
Steered(i) ==
    \/ \E m \in Moves : home[m] = i /\ Ends(m, "moving")
    \/ \E r \in Runs : home[r] = i /\ Ends(r, "appended") /\ ctx[r].into # None
SelectionDescends ==
    [][\A i \in Serial : status[i] = "ready" /\ tip'[i] # tip[i] =>
          Steered(i) \/ tree[tip'[i]].parent = tip[i]]_vars

\* "rollback() moves the active branch back one saved entry" (branching.md): a
\* move to the parent of the position leaves the active branch at the parent of
\* the entry it named.
RollsBack(m, i) ==
    home[m] = i /\ goal[m] = [name |-> None, target |-> tree[tip[i]].parent]
RollbackGoesBackOne ==
    [][\A i \in Serial : \A m \in Moves :
          Ends(m, "moving") /\ RollsBack(m, i) =>
              branches'[i][active[i]] = tree[branches[i][active[i]]].parent]_vars

-----------------------------------------------------------------------------
(* The inductive invariant                                                 *)

\* Roots are the sessions' own nodes, and there is one; every other node hangs
\* on an entry; only a detached result may have no image.
TreeGrown ==
    /\ \A n \in DOMAIN tree : tree[n].parent = None <=> n \in Sessions
    /\ \A m, n \in DOMAIN tree \cap Sessions : m = n
    /\ \A n \in DOMAIN tree \ Sessions : tree[n].parent \in Entries
    /\ \A n \in DOMAIN tree : n \in Jobs => (Kept(n) <=> HasImage(n))
    /\ \A n \in DOMAIN tree \ Jobs : HasImage(n)

\* A call under way works on an opened session, from an entry it can resume.
CallsSourced ==
    /\ \A c \in Calls : pc[c] = "idle" <=> home[c] = None
    /\ \A c \in Calls : pc[c] # "idle" => status[home[c]] = "ready"
    /\ \A c \in Sources : pc[c] # "idle" =>
          /\ ctx[c].parent \in Entries /\ ctx[c].image # None
          /\ ctx[c].version <= version[home[c]]
    /\ \A c \in Sources \ Jobs : pc[c] = "appended" => c \in DOMAIN tree

MovesAimed == \A m \in Moves : pc[m] = "moving" => goal[m].target \in Entries

\* A collector waits for an operation that was spawned, and holds a version
\* its session had.
WaitsMatched ==
    /\ \A j \in registered : pc[j] # "idle"
    /\ \A w \in Waits : pc[w] # "idle" =>
          /\ wait[w].job \in Jobs /\ pc[wait[w].job] # "idle"
          /\ wait[w].version <= version[home[w]]

\* A stale call holds an older version than its session's.
StaleOutrun ==
    /\ \A c \in stale : pc[c] # "idle"
    /\ \A c \in stale \cap Sources : ctx[c].version < version[home[c]]
    /\ \A w \in stale \cap Waits : wait[w].version < version[home[w]]

\* An operation would produce what a command run at its source sees, and its
\* own work; a staged file or a setting keeps its source's image.
CallsSee ==
    \A c \in Sources : pc[c] # "idle" =>
        \E p \in Entries :
            /\ p = ctx[c].parent
            /\ ctx[c].image = IF c \in Runs \cup Jobs THEN Sees(p) \cup {c} ELSE tree[p].image

\* The inductive invariant of the proofs: every step of a session keeps it.
IInv ==
    /\ TypeOK /\ TreeGrown /\ PositionIsEntry /\ CallsSourced /\ MovesAimed
    /\ WaitsMatched /\ OneOutcome /\ StaleOutrun

\* With IInv it is inductive as well: every path keeps the work done on it.
PathInv == PathKeepsWork /\ CallsSee

\* A call's node hangs on the call's source.
NodesHang ==
    \A c \in Sources \cap DOMAIN tree : pc[c] # "idle" /\ tree[c].parent = ctx[c].parent

\* Of a serial session one call at a time is within a method, and the position
\* a setting was prepared for is still selected when it is saved.
OneWithin ==
    \A c, d \in Calls :
        home[c] \in Serial /\ home[d] = home[c] /\ pc[c] \in Within /\ pc[d] \in Within => c = d
SettingsHold ==
    \A c \in Settings :
        home[c] \in Serial /\ pc[c] \in {"preparing", "appended"} =>
            ctx[c].parent = tip[home[c]]

\* With IInv it is inductive as well: used by one thread, a session descends.
SerialInv == NodesHang /\ OneWithin /\ SettingsHold
=============================================================================
