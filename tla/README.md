# Verification of contree-sdk

TLA+ models of the ConTree Python SDK (`contree_sdk/`), TLC configurations that
check them on small instances, and TLAPS proofs of what matters most for every
instance. Modules are checked with `tlc -config X.cfg M` and `tlapm M.tla`;
`PROJECT.json` lists the runs, the mutants that show each property can fail,
and the source lines each definition stands for.

## The system

The SDK runs commands in VMs on a ConTree server. A *session* has a history of
saved images in a store; a command runs in a VM started from the selected entry
and its result becomes a new entry. A *lazy session* wraps a session so that
many commands share one VM, which is saved ("snapshotted") when a policy, a
caller or the end of the session asks for it.

| component | state it keeps | operations | what is hard | correct when |
| --- | --- | --- | --- | --- |
| Lazy session (`session/lazy_async.py`, `lazy_sync.py`, `lazy_state.py`) | phase, commands being created, active spids, early exits, inspections, error, closing, snapshot counter; one condition/lock, `_changed`, the operation, the worker | run/spawn, inspection_source, snapshot, close, abort, rollback and other history calls, observe, the worker `_control`/`_save` | everything: callers, the worker, the event reader, timers and the server interleave | a save holds whole commands; `snapshot()` covers what had returned; one VM at a time; no call waits for ever |
| Snapshot policies (`session/snapshot_policy.py`) | future, activity count, timers, generations | notify, timer expiry, child futures | timers that fired while a new cycle starts; callbacks from other threads | each cycle is triggered at most once, by its own timers, and never while busy with an idle policy |
| Operations and handles (`session/operation_async.py`, `operation_sync.py`, `subprocess_result.py`, `stdin.py`) | event queues, pending events, reader task, final response, stream error | pump, route_event, claim_queue, run, wait, cancel, signal, shutdown, iterate | events that arrive before their handle; streams that break; cancellation | every event reaches its handle once and in order; a broken stream ends every waiter |
| Session (`session/asyncio.py`, `sync.py`, `tree.py`, `records.py`, `detached.py`, `commit_policy.py`) | tip, branches, active branch, position version, cwd/env | initialize, spawn, commit_result, stage_files, branches, rollback, navigate, detach, wait_operation | results that come back after the position moved; two processes on one history; detached work collected twice | position and branches can be resumed; late results stay siblings; one outcome per operation; each path holds its work once |
| Stores (`store/`) | trees of immutable nodes, expiry | create/get/delete session, append, reads | atomic idempotent appends, conflicts, expiry between calls | one immutable tree per session, until it expires or is deleted |
| Upload cache and reuse (`upload_cache.py`, `reuse.py`, `scope.py`, `file_sources.py`) | cached UUIDs with a TTL | upload, lookup, remember | a file that changes while it is hashed; a cached upload that is gone | a reused UUID holds the content that was asked for, in the same scope |
| File transfer (`files.py`, `file_io.py`) | temporary file, workers | prepare, upload, download | partial failure, cancellation | a target is replaced by the whole content or not at all |
| Docker-compatible builder (`docker/`) | stages, layer chain, variables | parse, FROM, RUN, COPY/ADD, ENV..., cache matches | a failed step must not become a cached layer | a cached build gives the entry an uncached one would |
| Inspection (`session/inspection.py`, `live_files.py`, `inspection.py`) | none of its own | list, read, grep, download | the VM must stay up while a live read streams | reads come from the VM while it runs, from the image otherwise |
| Cleanup (`session/cleanup.py`) | none | run a cleanup to completion under cancellation | repeated cancellation | the cleanup ends before the cancellation is seen |
| Facade, images, connection, LangChain | none that changes | factories and adapters | – | – |

How they interact: a lazy session calls `spawn_request` and `commit_result` of the
session it wraps, and `run`, `signal`, `cancel` and `wait` of the operation that
call returns; the operation's reader task calls back `observe`, which notifies
the policies, whose futures and timers wake the worker. A session reads and
appends nodes of a store that other processes may share, and asks the upload
cache for files. The builder drives a session, one layer per entry.

## Modules

### LazySession (with MCLazySession, SharedFilesystem, LazySessionProofs)

The core. One module for `AsyncLazySession` and `LazySession`: both have the
same critical sections under one `condition` (an `asyncio.Condition`, a
`threading.Condition`), so a critical section without an await is one action
guarded by `lock = NoOne`. Where the code awaits the server *inside* the
critical section (spawning the VM, creating a subprocess) the caller owns
`lock` over several actions; where it awaits outside (waiting for the saved
VM, cancelling, committing) nothing is owned and everything else may move.

| in the model | in the code |
| --- | --- |
| `phase`, `creating`, `active`, `earlyExits`, `inspecting`, `error`, `closing`, `snapshots`, `completionSeen`, `ready` | the fields of `LazyState` |
| `lock`, `woken` | who is inside `condition`; waiters that a `notify_all` has released |
| `changed`, `worker` | `_changed` (an Event) and the program counter of `_control` |
| `operation`, `lastEntry` | `self.operation` (VMs are numbered by cycle), `self.last_entry` |
| `future`, `idleActive`, `idleTimer`, `vmTimer` | `_snapshot_future` of the composite policy, the idle policy's count and timer, the duration policy's timer |
| `stream`, `streamError`, `exits` | the reader of the operation: running, telling its observers, ended; its error; the exits it has routed to handles |
| `live`, `vmState`, `procs`, `fs`, `torn`, `queue` | the server: running VMs, the last VM's state, its processes, the commands whose effects its files hold, those killed half-way, the events not read yet |
| `history`, `tip`, `version`, `opParent`, `opVersion` | the wrapped session's entries and position, and the operation's captured context |
| `pc` | where each call is |

Actions follow the handlers: `StartVm`/`VmStarted`/`StartFails`, `Joins`,
`WaitsForSnapshot`, `Reserve`/`ServerCreates`/`Created`/`CreateFails` are
`_admit_and_spawn`; `HoldsVm` ... `ReleaseInspection` are `inspection_source`;
`SnapshotAsks`/`SnapshotAnswers`, `CloseAsks`/`CloseAnswers`/`CloseReturns`,
`AbortEnds`/`AbortCancels`/`JoinsWorker` are `snapshot`, `close`, `abort`;
`Worker...` are `_control` and `_save`; `Observe...` and `ReaderEnds` are `pump`
calling `observe`; the rest is the server and the timers. Every request to the
server may fail, may succeed with its answer lost, or may be cancelled; a
stream may break; a VM may end by itself, by its timeout, or on SIGTERM, with
either status; a caller may give up any wait.

`SharedFilesystem` is the abstract specification: a set of visible effects, a
set of saved ones, a log of entries, and results that were acknowledged. The
run `lazy_snapshots` checks that `LazySession` implements it under the mapping
at the end of the module (visible files are the VM's while one runs and the
selected entry's otherwise); `ImplementsFiles` proves it for any calls.

Left out: the body of an inspection (HTTP reads), the wording of errors, output
streams, and history calls other than `rollback(1)` – they share its guard
`_boundary`.

### SessionHistory (with MCSessionHistory, ImmutableTree, SessionHistoryProofs)

The session under it: `ContreeAsyncSession` and `ContreeSession`, any number of
objects that share one stored tree. Methods of an asynchronous session overlap
at every await, so the append of an entry and the move that follows it are two
actions. A session in `Serial` is used by one thread: a call begins only when no
other is inside a method (`Within`), but an operation may be under way between
`spawn` and `commit_result`. A process that crashes takes no further step, and
another session object opens the tree it left.

| in the model | in the code |
| --- | --- |
| `tree`, `registered` | the nodes of the stored session, with identity, parent, image, staged files and kind; the operation records |
| `status` | `_initialize`: root looked up, appended, position selected |
| `tip`, `image`, `branches`, `active`, `version` | `tip_id`, `image_uuid`, `_branches`, `_active_branch`, `_position_version` |
| `ctx`, `wait`, `goal` | `OperationContext` captured at spawn; what `wait_operation` and `_finish_detached` hold; where a navigation goes |
| `pc`, `home` | where each call is, and on which object |
| `outcome` | the server's status of a detached operation |
| `stale` | only for the properties: calls whose session navigated since they began |

| actions | methods |
| --- | --- |
| `OpenLooks`, `OpenAppends`, `OpenSelects` | `_initialize` |
| `Begin`, `Drop`, `CommitAppends`, `CommitMoves` | `spawn_request`, a result not kept, `commit_result` (also again, after a lost answer or to name a branch) |
| `Begin`, `EntryAppends`, `StageMoves`, `SettingMoves` | `stage_files`; `set_cwd`, `set_env` through `_save_configuration` |
| `CreateBranch`, `DeleteBranch`, `MoveBegins`, `MoveEnds` | `create_branch`, `delete_branch`; `switch_branch`, `rollback`, `navigate`, `navigate_forward` |
| `Register`, `JobEnds` | `spawn_detached`, the server |
| `WaitBegins` ... `WaitMoves`, `HandleBegins` | `wait_operation`, `_finish_detached`; `commit_result` of a detached handle |

Any append may be applied with its answer lost. An image is the set of commands
and files it holds: what a command would see is its source's image and the files
`pending_files` collects. `MoveBegins` lets a navigation choose any entry that
can be resumed, which covers `rollback(n)`, `navigate` and `navigate_forward`.

`ImmutableTree` is the abstract specification, the store's contract: one root,
children of existing nodes, nothing changed or removed. `SessionHistory`
implements it with `tree` as it is (`ImplementsTree`).

Left out: the values of cwd and env, titles and user data, pagination of a
history that grows while it is read, `commit_result` of a handle on an object
that did not spawn it, and expiry and deletion of the stored session.

### OperationEvents (with MCOperationEvents, EventLogs, OperationEventsProofs, OperationLogsProofs)

`AsyncOperation` and `Operation`: one reader (a task or a thread) reads the
server's event stream and serves every handle, subscription, `wait()` and
`pipe_stdin()`. Both classes have the same steps; where they differ (a thread
that does not join is left behind, a task is cancelled) the module allows both.

| in the model | in the code |
| --- | --- |
| `emitted`, `running`, `outcome`, `stdin` | the server: the event log, its subprocesses, the operation's status, what each process was sent |
| `reader`, `remembered` | where `pump()` is; the length of `self.history` |
| `streamError`, `terminal`, `terminalEvent` | the fields of the same names |
| `sizeCap`, `pendingEvents`, `queues`, `claimed` | `size_cap`, `pending_events`, the handles' queues, the spids in `queues` |
| `cancelRequested`, `canceller`, `response`, `failing` | `cancel_requested`, who is inside `cancel_lock`, `final_response`, the errors a `shutdown()` collects |
| `pipe`, `sent`, `eofSent` | where each `pipe_stdin()` is, and the `StdinResult` it is to return |

| actions | methods |
| --- | --- |
| `ReaderTakes`, `ReaderRoutes`, `ReaderCloses`, `ReaderEnds`, `ReaderTells`, `StreamStops` | `pump`, `route_event`, the `finally` of the reader |
| `RunBegins`, `ServerCreates`, `CreateFails`, `ClaimQueue`, `HandleReads` | `run`, `claim_queue`, a handle's `wait` and `iterate` |
| `FollowBegins`, `Follow`, `FollowTimesOut` | `events()` |
| `WaitBegins`, `WaitCompletes`, `WaitFails`, `Cancel...` | `wait`, `_completed_result`, `cancel` |
| `Shutdown...`, `Joined`, `JoinTimesOut` | `shutdown` |
| `PipeBegins` ... `PipeKills` | `pipe_stdin` and its error path |

`EventLogs` is the abstract specification: one log, and for each reader a
position in it; a reader is given what concerns it, each event once and in
order, reaches the end only after the last of them, and a failure never looks
like the end. `OperationEvents` implements it (`ImplementsEventLogs`), with a
handle's log the events of its process and the size cap.

Left out: the filters of `events()`, decoding and caps of a `SubprocessResult`,
`pipe_to`'s local streams, and observers beyond the failure of one.

### SnapshotPolicies (with MCSnapshotPolicies, SnapshotPoliciesProofs)

The four policies behind one `CompositeSnapshotPolicy`, driven by a lazy session
that starts VMs, admits and finishes activities, saves and closes. The session
holds its condition for a whole notification, but each child has a lock of its
own, so `calls` holds the steps of the notification that are still to come and a
timer callback may take a child's lock between any two of them.

| in the model | in the code |
| --- | --- |
| `future`, `watched` | the future of each policy; the children whose done callback completes the composite's |
| `active`, `commandsStarted` | the counters of the idle and the count policy |
| `seconds`, `startedAge` | `seconds` and `clock() - started_at` of the two duration policies: one of the application, and the session's own deadline |
| `generation`, `timers` | `_generation`; the timers, "armed" or "fired": a fired one waits for the lock and cannot be cancelled any more |
| `calls`, `phase` | the notifications `_start`, `_admit_and_spawn`, `observe`, `_save` and `close` make, in their order |

`IdleNotify`, `CountNotify`, `DurationNotify`, `CompositeNotify`, `WatchChildren`
are the `notify` methods, `StartDeferred` and `SetDuration` the session's calls of
its deadline, `Fires` and `Expires` a timer and its callback. An asyncio timer
calls back in the loop; it is the case in which no step comes between `Fires`
and `Expires`. `LazySession` uses the policies by what these properties say: a
future that may complete while no activity is known, and that a reset renews.

Left out: nested composites (flattened into one), policies of an application
other than the four, and the policy that `start()` replaces
(lazy_async.py:138-140).

### DockerBuild (with MCDockerBuild, DockerBuildProofs)

`AsyncImageBuilder` and `ImageBuilder`: builds that share one history tree as
their layer cache. A layer hash is modelled by the tuple that is hashed and an
image by the list of things done to make it, so that two images are equal
exactly if the same was done. `Meaning(d, given, n)` is the reference definition:
what the first `n` directives of `d` mean without a cache, a server or another
build, when each was given `given[i]` from outside (the content of a file, of an
external image); a reference that names a stage takes what that stage means
(`Named`). Every build is compared with it after each directive.

| in the model | in the code |
| --- | --- |
| `nodes`, `tag` | the history tree of the build session, in the order of `created_at`; the tag `build()` sets |
| `context` | `BuildContext`: tip, parent hash, pending files, stages, alias, env, workdir, user, args |
| `layer`, `part`, `source` | the layer a directive works on; the path of a COPY --from and the image it reads |
| `version`, `tagged`, `images`, `gone` | the local files, the base images' tags, the server's images, those that are lost |
| `uploads` | what COPY --from has taken out of which image and uploaded: the results `export_source` remembers |
| `inputs`, `ran`, `repeats`, `lost` | only for the properties: what a directive was given, operations spawned, which build began the Dockerfile another had finished, the images lost when the build began |

| actions | code |
| --- | --- |
| `From`, `SealStage`, `CommitLayer` | `kw_from.py`, `commit_layer` |
| `Run`, `StageCopy`, `CopyFrom`, `CopyEnds`, `StageImageFile`, `Sets...` | `kw_run.py`, `kw_copy.py`, `copy_layer.py`, `kw_env.py` and the other settings |
| `Looks`, `Checks` | `try_cache_hit`, `check_image_archive` |
| `Exports` | `export_source`: what is not remembered is read from the image, which must be there |
| `Spawns`, `OperationEnds`, `CommitResult` | `run_operation`, `apply_copy_layer`, `commit_result` before `check_success` |
| `Finalize`, `Tags` | `finalize`, the end of `build` |
| `Fails`, `Edit`, `Push`, `Lose` | any request failing; the world outside |

Left out: parsing, ignore patterns and substitution (a setting is a value), a
stage referred to by its number (context.py:521), build events and their callbacks, the contents of archives. ADD of a URL is COPY
here; its own cache, and what an upload that is remembered is worth later, are in
`UploadCache`, so `uploads` only grows here. A command that exits with an error has
done a part of what it does (`Effect`): its image is unlike any a Dockerfile means,
and a build that took it for a good one would break `BuildIsItsDockerfile`. A failed
build drops its context, which nothing reads again.

### UploadCache (with MCUploadCache, UploadCacheProofs)

`lookup_result` and `remember_result` (`reuse.py`) over the store's expiring
trees, as five callers use them: `CachedFileTransfer.upload`, the builder's COPY,
COPY --from and ADD of a URL, and `import_image`. Each call of the store is one
transaction, so a lookup is two steps and remembering is five, and edits of the
source, losses on the server, expiry, deletion of a tree and other calls come
between any two.

| in the model | in the code |
| --- | --- |
| `trees` | the store's sessions by fingerprint: expiry, root, the results with their own expiry |
| `server`, `lost` | uploads and imported images; those the server has forgotten |
| `content`, `read` | what the file, URL or tag holds; what a call has read of it (a file in pieces) |
| `cached`, `uuid`, `expires` | a call's cached result, the UUID it returns, the expiry it is about to write |
| `sources` | `file_sources`, one step per record |

| actions | code |
| --- | --- |
| `SnapshotUpload`, `GetSession`, `ListNodes`, `CheckFileExists` | `snapshot_upload`, `lookup_result`, the builder's `check_file_exists` |
| `HttpFetch`, `ExportSource`, `Upload` | `fetch_url`, `export_source`, `ensure_file` or the import |
| `CreateSession`, `AppendRoot`, `AppendResult`, `Lifetime`, `SetSessionTtl` | `remember_result`, with `set_session_ttl` reading the clock before its transaction |
| `Record`, `Fails` | `file_sources.record`; any step raising |

Left out: more than one scope, pages of a long lookup, servers of a URL that send
no ETag, `import_image`'s cancellation of an import that failed, `forget()` and
the listing of sources.

## Runs

| run | instance | question |
| --- | --- | --- |
| `lazy_snapshots` | 2 commands, a snapshot, a rollback | what is in a save, where does it go, what does `snapshot()` cover (`TypeOK`, `NoTornSnapshot`, `SnapshotCovers`, `SnapshotIsTip`, `ImplementsSharedFilesystem`) |
| `lazy_shutdown` | a command, an inspection, a close, an abort | VMs and saves at the end (`OneVm`, `CloseSaves`, `AbortFreesVm`, `QuiescentSave`, `ActivityBalance`), whether an end is final (`EndedForGood`), and the inductive invariant (`IInv`) |
| `lazy_returns` | a command, an inspection, a snapshot, a close, 2 of these race; pending files, a policy of the application that may decide or fail; fair | every call returns (`CallsReturn`) |
| `lazy_idle` | a command | finds the state of the first finding (`IdleVmIsTimed`) |
| `history_paths` | one object: a command, a staged file, a setting, a navigation, 2 branches | position, branches, and what is on the path of an entry (`PositionIsEntry`, `PathKeepsWork`, `LateResultsStay`) |
| `history_detached` | 2 objects, one of them in one thread on an existing tree: an operation, a detached one, 2 collectors | two processes on one history (`TypeOK`, `OneOutcome`, `ImplementsTree`, `SelectionDescends`) |
| `history_rollback` | one thread: a setting, an operation, 2 navigations, 2 branches | finds the steps of the second finding (`RollbackGoesBackOne`) |
| `op_events` | 2 `run()`, one that writes output, a wait, a subscription, a shutdown, 2 stdin writers of one part; 2 of these race | what readers of the events get and writers report (`TypeOK`, `ResultIsWhole`, `StdinAccounted`, `EndReachesHandles`, `ImplementsEventLogs`) |
| `op_shutdown` | a shutdown | finds the state of the third finding (`ShutdownStops`) |
| `policies` | 2 VMs, 2 activities, idle after 1 second, lifetimes of 1 and 2, a limit of 2 commands; fair | when the policies ask and that they ask (`TypeOK`, `IdleIsTimed`, `FirstDecisionWins`, `IdleAsksWhenIdle`, `LifetimeIsOver`, `DeadlineArrives`) |
| `docker` | 2 builds of 3 Dockerfiles, one file, one base, one change outside | cached builds against the reference (`TypeOK`, `BuildIsItsDockerfile`, `TagIsWhole`, `RepeatIsCached`), and what becomes of a layer whose image is lost (`LostIsRebuilt`) |
| `uploads` | 2 calls of 5 kinds, a lifetime of 1 second and a second in which it ends, one edit, one loss | what a reused upload is worth (`TypeOK`, `GivesWhatItAsked`, `HitIsYoung`, `CheckedIsThere`) |

Why the bounds are enough. Every cfg names the calls that race; each is made at
most once, in any order, and `Racing`, where a cfg has it, is how many of them may
begin in one behaviour. In the lazy and history runs nothing else is bounded, so
the number of VMs, entries and events is bounded by the calls.

- *Lazy session.* The hazards are races of two calls with the worker, the reader
  and the server. Two commands make a save that covers one and meets the creation
  of the other, or an exit before the creation is answered, and start two VM cycles; a
  close and an abort meet each other, a command and an inspection in every order.
  A third command adds no new kind of step: each is one of creating, active,
  exited, and the conditions test emptiness of sets. In the safety runs every
  call of the cfg may begin; `lazy_returns` has any two of its four calls
  (`Racing = 2`), since a call waits for the worker, the server and what one other
  call holds. It alone has a policy of the application, which may decide at any
  time, or raise.
- *History.* A result and a setting meet a navigation in each order, and a file
  meets a command before it, after it and in a sibling branch. A collector meets
  another one and a lost answer. A version is compared for equality with one
  captured earlier, so one change of it is enough. What more calls in one object
  could break is also proved for any number of them (`PositionCorrect`,
  `LateResultsAreLate`, `PathsKeepWork`, `SerialSessionsDescend`). Symmetry exchanges operations, files and collectors;
  sessions only if no set tells them apart.
- *Operation events* (`Racing = 2`, `Chunks = 1`, `Lag = 0`). Any two of the seven
  calls and writers race with the reader, the server and a stream that breaks
  anywhere: a handle's claim against the reader's routing of its events, two
  cancellations, a writer against the exit of its process. The pairs matter, as
  calls meet only in the reader's flags and the cancel lock, which one holds.
  A process writes once before its exit, so a size cap falls before, between and
  after its events. `Lag` bounds how far the server runs ahead of the reader;
  what the end of an operation emits comes at once.
- *Policies* (`Cycles = 2`, `Activities = 2`, `Horizon = 3`). A callback of the
  first cycle waits into the second, a second activity begins while the first
  one's timer has fired, and `set_duration` shortens and extends a lifetime. Ages
  are not counted beyond the longest lifetime.
- *Docker* (`Changes = 1`). Two builds of the same or of different Dockerfiles
  meet at every step, and a file is edited, a base pushed or an image lost
  between any two. The Dockerfiles have each directive, a stage sealed with
  pending files, a file and a directory taken from it, a stage whose name hides
  an earlier one, and files that are attached last. An image that is lost is that of
  any layer, and a second build that begins then meets its node in the tree.
- *Uploads* (`Ttl = 1`, `Horizon = 1`, `Edits = 1`, `Losses = 1`). One call looks
  up what the other remembers, before and at its expiry; later seconds repeat the
  one of the expiry. The theorems lift every one of these bounds.

Deadlock is checked in all but the history runs: `AllReturned`, `AllRest` and
`Ended` let a system rest only once every call has returned. `AllRest` excepts a
reader that was cancelled inside its own `finally` (see below). The history runs
say `CHECK_DEADLOCK FALSE`: a session whose calls have all been made rests.

Fairness. `LazySession` (`FairSpec`): tasks and threads that can run do run, every
request is answered with a result or an error, and a VM ends, because
`vm_timeout` is enforced by the server. Nothing else is promised: a command need
not exit, a timer need not fire, a caller need not give up, a stream need not
break. `SnapshotPolicies` (`Fairness`): the clock advances, a due timer fires and
its callback gets the lock, and the session finishes a notification it has
begun; it need not admit, finish, save or close anything. The other modules state
no fairness and no liveness.

## What is proved

Each inductive invariant was checked by TLC on the instances of its module's runs
before it was proved; that of `LazySession` (`IInv`) stays an invariant of a run. Each is a conjunction of named parts, one lemma says of
an action what it does to a part, and a theorem puts the actions together.

`LazySessionProofs` proves, for any sets of calls, `Invariance`
(`Spec => []IInv`), and from it `TypeCorrect` and:

- `SavesAreQuiescent`, `NoTornSnapshots`. A save is clean because the VM has no
  process when it is signalled (`TrackInv`: every process of a live session is in
  `active` or being created), which needs that an exit event in the queue belongs
  to a process that is gone (`ExitsInv`), that creation and events exclude each
  other (`LockInv`: a call holds the lock exactly while it awaits the server),
  that the worker commits only in the phase it set itself (`SaveInv`), and that
  inspections are counted exactly (`HoldInv`).
- `OneVmRuns`. The only VM the server may run is that of the present cycle, and it
  has ended before its entry is committed (`VmInv`); an error in between ends the
  session, so no new cycle can start beside it (`OverInv`).
- `ActivityBalances`. A cycle begins with no activity (`CountInv`).
- `SnapshotBecomesTip`. While a VM serves calls the position is the one it was
  started from (`TipInv`): every history call that would move it waits or raises.
- `SnapshotsCover`. What a running or returned command did is in the VM or saved
  until the session ends (`WorkInv`), a command has effects only after it asked
  for its process (`RunInv`), and when the cycle a `snapshot()` waits for is over,
  what it was asked to cover is saved (`AskInv`).
- `AbortsFreeVm`, `ClosesSave`. Who joins the worker finds what it left, because
  the end of a session is final (`EndInv`); a `close()` returns normally only
  after a good save, or after another `close()` found the session failed, aborted
  it and reports that (`CloseInv`). The second case is one the proof found: of two
  concurrent calls only the first raises.
- `EndsForGood` (`EndedForGood`). No phase follows a failed or closed one but those
  two, and a closed session whose `abort()` is done stays closed: only the worker may
  still find it failed, and `abort()` has joined it (`ClosedStep`).
- `ImplementsFiles`: `Spec => ImplementsSharedFilesystem`. Each action is a step of
  `SharedFilesystem` or a stutter under the mapping, one lemma for each kind.

`SharedFilesystemProofs` proves `AckedStaysKept` of the abstract filesystem: an
acknowledged result stays visible or saved until the session ends. By
`ImplementsFiles` it holds of a lazy session too.

`SessionHistoryProofs` proves, for any sessions, calls and branch names:

- `Inductive`: `Spec => []IInv`, and from it `TypeCorrect`, `PositionCorrect`
  (`[]PositionIsEntry`) and `OutcomeCorrect` (`[]OneOutcome`). A position is an
  entry because what moves there is: the source and the appended node of a call
  (`CallsSourced`), the target of a navigation (`MovesAimed`), and a detached
  result only if it was kept, which is when its node has an image (`TreeGrown`,
  `WaitsMatched`).
- `SessionHistoryImplementsTree`: `Spec => ImplementsTree`; an appended node
  hangs on its call's source (`CallsSourced`).
- `LateResultsAreLate`: `Spec => LateResultsStay`; a call during which its
  session navigated holds an older version than the session (`StaleOutrun`).
- `PathsKeepWork`: `Spec => []PathKeepsWork`. What `pending_files` collects on its
  way to the root is stated as the least set that holds an entry and, up to the
  last node that consumed its files, the parents of its members (`WayBack`), so
  that no induction is needed: a new node is in no old way back, and its own is
  its parent's and itself. With it goes what each call under way is about to
  append (`CallsSee`): a retried append finds its own node or makes the one it
  would have made before.
- `SerialSessionsDescend`: `Spec => SelectionDescends`. In a session used by one
  thread one call at a time is within a method (`OneWithin`), so the position a
  setting was prepared for is still selected when it moves (`SettingsHold`), and
  any other move goes to a node that hangs on its call's source (`NodesHang`),
  which is the position if the version is the captured one.

`OperationEventsProofs` proves, for any calls, writers, parts and `Lag`,
`Inductive` (`Spec => []IInv`), and from it `TypesKept` and:

- `StdinIsAccounted`. What a process received and what its writer has counted
  differ only while an answer is under way or was lost, and a writer whose answer
  is lost never goes on (`PipeInv`).
- `HandlesFindTheEnd`. A handle that reads when the stream has ended has the end
  last in its queue (`HandleInv`), put there by the reader or by its own claim.
- `ResultsAreWhole`. A process emits nothing before its creation and nothing after
  its exit (`ServerInv`); what was routed has arrived in the queue or in the buffer
  that waits for the claim, and nothing else has (`ArrivalInv`, `CapInv`); so an
  exit that is read was preceded by the output and, exactly if the server emitted
  it before, the size cap (`OrderInv`).

`OperationLogsProofs` proves `ImplementsLogs`: `Spec => ImplementsEventLogs`. It needs
more than the order of an exit: the k-th item a handle reads, or finds in its queue,
is the k-th event of the stream that concerns it, and without an error none that was
routed is missing (`DeliveryInv`); `LogInductive` is that invariant. A position in
a log is a number of events (`Count`, `IsNext`), which is what the prover can count.

`SnapshotPoliciesProofs` proves, for any seconds, limits and horizons,
`PoliciesInductive` (`Spec => []IInv`), `PoliciesTyped`, and:

- `IdleAsks`, `LifetimesAreLived` (action properties). A timer of the present
  generation is due exactly when its policy's time is over (`TimerInv`); the
  callback of an older one, which had fired when it was cancelled, does nothing.
- `IdleIsAlwaysTimed`. A VM without activity has a timer of the present
  generation until the policy has asked (`IdleInv`).
- `FirstDecides`. From the reset of the composite until it watches again it is
  pending and watches nothing; otherwise it watches every child and has decided
  if one has (`WatchInv`), for which the steps of a notification that are still
  to come must be known (`ShapeInv`).

`UploadCacheProofs` proves, for any calls, lifetime, edits and losses:

- `Inductive`: `Spec => []IInv`, and from it `TypeCorrect`, `ReturnsWhatWasAsked`
  (`[]GivesWhatItAsked`), `HitsAreYoung` (`[]HitIsYoung`) and
  `ForgottenIsUploadedAgain` (`[]CheckedIsThere`). What a call may return is known
  only through what others recorded, so the invariant is about each recorded
  result (`Says`): it names an upload that was answered no earlier than the
  result says, holds the bytes and the ETag it says, and expires a lifetime after
  it was recorded. It stays true because uploads are only added or answered
  again, and because each call carries a result that `Says` from the answer to
  the transaction that records it.

`DockerBuildProofs` proves, for any builds, Dockerfiles, files, bases and changes:

- `BuildsHold` (`Spec => []IInv`) and from it `TypeCorrect`, `MeaningPreserved`
  (`[]BuildIsItsDockerfile`) and `TagIsComplete` (`[]TagIsWhole`). A layer that is
  found was built by somebody else, so what is known of it is what was hashed:
  `Store` says that a node's image is its parent hash's image with what that hash
  says done to it. `BuildOK` says of a build what it has at each of its steps: the
  context that its directives so far mean, with the files of an ended stage still
  pending or already attached, or the layer in progress whose hash says
  just that. The result of a failed RUN is in the tree too, and its image holds a part
  of the command only: `Store` claims the whole of it for a process that did not
  exit with an error, and only such a node matches a hash (`Matches`).
  Both are about values, not variables, so that they stay true
  of a build while others only add nodes and images (`BuildStays`, `OthersKeep`).
  What `Meaning`, a recursive function, says of one directive more is a lemma, by a
  least counterexample (`MeaningNext`, `LeastNumber`).
- `RepeatsHold` (`Spec => []RInv`) and from it `RepeatsAreCached`
  (`[]RepeatIsCached`). This relates two whole builds, one of which may have
  finished long before the other begins, so each build has left a trace: a set of
  the points it has been at, each followed by another one of the set up to where it
  stands (`Trace`). What follows a point is said without the build that is there,
  as a matter of the Dockerfile, of what is given and of the tree (`Follows`), and
  stays so while the tree grows (`FollowsStays`). Nothing else follows it if no two
  nodes are alike and a base image is known by its content (`FollowsOne`,
  `BasesOK`), so a build that repeats another one goes where that one has been
  (`TraceLeads`). There the layer it awaits is in the tree (`LooksFinds`), and no
  step it can take starts an operation (`StaysCalm`). A trace is a set whose
  existence is claimed, which TLC cannot look for: it checked this invariant with
  the set of each build kept in a variable of its own, of which the project has no
  need. That took all states without a change outside, and part of those with one.
- `LostAreRebuilt` (`[]LostIsRebuilt`). A build takes an image from the tree only when
  the server still has it, from a base's tag, or from its own operation, whose image
  is new; a sealed stage was its tip before (`LossOK`). That a tag names a base is
  `BasesOK`.

The proofs assume `CallersAssumption` (the kinds of calls are disjoint, and the
set of inspections, whose cardinality `LazyState.inspecting` counts, is finite),
`HistoryAssumption` (the kinds of calls are disjoint, `None` is none of the values
it stands beside), `OperationAssumption` (the kinds of calls are disjoint, writers
write to processes, the bounds are natural numbers), `PolicyAssumption` (positive
seconds and limit, ages counted beyond the longest lifetime), `UploadAssumption`
(the types of the bounds, a positive lifetime) and `DockerAssumption` (what the parser
lets pass, bases that are listed once); TLC evaluates them in every run of
their module.

Only model-checked: liveness (`CallsReturn`, `DeadlineArrives`), which needs fairness
and ENABLED. Every other property of a passing run is stated by a theorem.

## Findings

`lazy_idle`: README.md:133-134 promises that the VM is saved and stopped after
10 idle seconds. The idle timer is armed by a FINISHED event only. If the call
that started the VM raises in `apply_files`, before its COMMAND_STARTED, the VM
is up, idle, and no idle timer runs; the duration policy or the server's
timeout ends it.

`history_rollback`: docs/python_sdk/branching.md:143 says that `rollback()` moves
the active branch back one saved entry. In the trace a setting gives an entry above
the root, an operation is spawned on it, and the session navigates to that entry
again (switching to another branch and back does the same). The result moves the
branch, which still names the source, but not the position, because the version has
changed. `rollback(1)` starts from the position and sets the branch to the root: it
goes back two entries.

`op_shutdown`: docs/python_sdk/operation.md:105-106 says that leaving the context
signals the main process, waits, and attempts cancellation if it does not stop.
`shutdown()` cancels only while `terminal` is false, and the reader sets `terminal`
at the end of the stream whether the operation ended or the stream broke. A
stream that breaks after SIGTERM makes `shutdown()` raise with the operation still
running and no cancellation asked; a stream that broke before does cancel.

Differences met while modelling that no run is about; the models do what the code
does:

- docker/kw_from.py:102-107 calls its closing `RUN :` "the same trivial closer used
  by builder finalization" and says it must run as root; docker/asyncio.py:184-187
  runs the final one as the stage's USER. `BuildIsItsDockerfile` states both.
- docs/python_sdk/advanced.md:588 says that `cache_hit` means no RUN was started; a
  COPY --from with a path that hits and one that misses reports it and starts one
  (kw_copy.py:402-417, docker/asyncio.py:168).
- Two builds that race past the same miss, or one with `no_cache`, record a layer
  twice, and the newest node is the only candidate (context.py:454-476, 517-518).
  What was built below the older one is no longer found, so a repeated build runs
  those layers again though all of them are in the tree (advanced.md:566-567 names a
  missing image as what makes a cached layer run again). `RepeatIsCached` excepts it.
- A callback that raises on `step_completed` makes a completed step a failed one too
  (advanced.md:589-590).
- A cache tree that expires between two transactions of a lookup raises instead of
  being a miss (reuse.py:23-28, 49-55; advanced.md:752-753); `Fails` has it.
- `set_session_ttl` computes the expiry before its transaction
  (store/sqlite.py:159-160), so of two calls the slower one may shorten a lifetime.
- The builder asks whether the *bytes* are still on the server, by hash, and then
  uses the cached UUID (kw_copy.py:171, kw_add.py:149, copy_source.py:103;
  advanced.md:566). `CheckedIsThere` is about the bytes.
- A reader task that `shutdown()` cancels inside its own `finally`
  (operation_async.py:426) never sets `terminal`; later waiters wait for ever
  (`reader = "dead"`).

## Not modelled

- *Inspection requests* (list, read, grep, download over HTTP, with a helper
  process for a live one) keep no state; their hold on the VM is in `LazySession`.
- *Cleanup helpers* run a coroutine or thread to its end under cancellation; that
  they do is what `Abandon`, `AwaitFails` and `WorkerCleansUp` assume.
- *File transfer* streams bytes; a download is one temporary file and one rename.
- *Facade, connection, images, LangChain* are factories, validation and HTTP calls
  that delegate to the parts above. An import's cache is in `UploadCache`.
- *Stores*: cursors, `list_history` and `list_children`. Appends are in
  `SessionHistory`, creation, reads, expiry, lifetimes and deletion in
  `UploadCache`; the memory store is the SQLite store in memory.
- Parsing and rendering (Dockerfiles, ignore patterns, commands, errors, titles)
  are functions of their input without a property a unit test would not reach.

## Plan

Done: `LazySession` with `SharedFilesystem`; `SessionHistory` with `ImmutableTree`;
`OperationEvents` with `EventLogs`; `SnapshotPolicies`; `UploadCache`; `DockerBuild`;
and the proofs of every safety property, action property and refinement that the
passing runs check.

Left: a property for each hazard that has none (a spawn request whose response is
lost, a position saved by an append after a navigation, the reader cancelled in its
`finally`, a tree that expires within a lookup, a UUID that is reused after a check
by hash); a model of the inspections' helper processes; the stores' cursors.
