---------------------------- MODULE LazySession ----------------------------
(***************************************************************************)
(* A lazy session: commands share one VM until a policy, a caller or the   *)
(* end of the session asks for a snapshot.  AsyncLazySession and           *)
(* LazySession (contree_sdk/session/lazy_async.py, lazy_sync.py) have the  *)
(* same critical sections; this module models both.                        *)
(*                                                                         *)
(* Actors: the calls made on the session, the background worker            *)
(* (_control), the reader of the operation's event stream (pump, calling   *)
(* observe), the policy timers and the server that runs the VM.  A step    *)
(* that runs under `condition` needs lock = NoOne; a call that awaits the  *)
(* server under `condition` owns the lock across several steps.            *)
(***************************************************************************)
EXTENDS Integers, Sequences, FiniteSets

CONSTANTS Commands,      \* calls of run()/spawn(), one subprocess each
          Inspections,   \* calls that open inspection_source()
          Snapshots,     \* calls of snapshot()
          Closes,        \* calls of close()
          Aborts,        \* calls of abort()
          Rollbacks,     \* calls of rollback(1), a history operation
          Main,          \* spid 1, the keepalive process of the VM
          NoOne,         \* owner of the lock when it is free
          StagedAtRoot,  \* the root entry has pending staged files
          CustomPolicy,  \* the policy may resolve or fail its future itself
          Racing         \* bound: calls that begin in one behaviour

Users == Commands \cup Inspections
Boundaries == Snapshots \cup Closes \cup Aborts \cup Rollbacks
Callers == Users \cup Boundaries

ASSUME CallersAssumption ==
    /\ IsFiniteSet(Inspections)
    /\ NoOne \notin Callers
    /\ Main \notin Callers
    /\ Commands \cap Inspections = {}
    /\ Users \cap Boundaries = {}
    /\ Snapshots \cap (Closes \cup Aborts \cup Rollbacks) = {}
    /\ Closes \cap (Aborts \cup Rollbacks) = {}
    /\ Aborts \cap Rollbacks = {}
    /\ StagedAtRoot \in BOOLEAN
    /\ CustomPolicy \in BOOLEAN
    /\ Racing \in Nat

VARIABLES
    \* LazyState
    phase, creating, inspecting, active, earlyExits, error, closing,
    snapshots, completionSeen, ready,
    \* the wrapper: owner of condition, waiters that were notified, _changed,
    \* operation (0 is None), last_entry (0 is None), worker
    lock, woken, changed, operation, lastEntry, worker,
    \* _snapshot_future, the idle policy's count and timer, the duration
    \* policy's timer
    future, idleActive, idleTimer, vmTimer,
    \* the operation's reader: its state, stream_error, exits it has routed
    stream, streamError, exits,
    \* the server: VMs that run, state and processes of the last one, commands
    \* whose effects its files hold, those it killed half-way, unread events
    live, vmState, procs, fs, torn, queue,
    \* the wrapped session: entries, tip_id, _position_version, and the parent
    \* and version in the operation's context
    history, tip, version, opParent, opVersion,
    \* the calls: where each is, the generation a snapshot() call waits for,
    \* the commands accepted when it was made
    pc, seen, asked

state == <<creating, inspecting, active, earlyExits, closing, snapshots,
           completionSeen, ready>>
wake == <<woken, changed>>
policy == <<future, idleActive, idleTimer, vmTimer>>
wrapper == <<operation, lastEntry, worker>>
reader == <<stream, streamError, exits>>
server == <<live, vmState, procs, fs, torn, queue>>
session == <<history, tip, version, opParent, opVersion>>
asking == <<seen, asked>>
calls == <<pc, seen, asked>>
still == <<phase, error, state>>
outside == <<policy, reader, server, session>>
most == <<wrapper, outside>>
vars == <<phase, error, state, lock, wake, wrapper, outside, calls>>

Phases == {"cold", "starting", "running", "draining", "snapshotting", "failed", "closed"}
Ended == {"failed", "closed"}
Returned == {"done", "raised"}

Event == [type : {"spawn", "exit", "completion"}, spid : Commands \cup {Main},
          timedOut : BOOLEAN]
Spawned(p) == [type |-> "spawn", spid |-> p, timedOut |-> FALSE]
Exited(p, late) == [type |-> "exit", spid |-> p, timedOut |-> late]
Completion == [type |-> "completion", spid |-> Main, timedOut |-> FALSE]

-----------------------------------------------------------------------------
(* The condition: notify_all wakes every waiter; _notify also sets         *)
(* _changed, which wakes the worker.                                       *)

Waiting == {c \in Callers : pc[c] \in {"waiting", "readying"}}
NotifyWorkerOnly(waiters) == woken' = woken /\ changed' = TRUE      \* mutant
Notify(waiters) == woken' = waiters /\ changed' = TRUE
MayBegin == Cardinality({c \in Callers : pc[c] # "idle"}) < Racing
Go(c, where) == pc' = [pc EXCEPT ![c] = where]
Leaves(c, where) == Go(c, where) /\ woken' = woken \ {c}

\* A user's call is at the top of its admission loop, or wakes up there.
Enters(c) ==
    /\ lock = NoOne
    /\ (pc[c] = "idle" /\ MayBegin) \/ (pc[c] = "waiting" /\ c \in woken)

\* A call in wait_for evaluates its predicate.
Wakes(c, where) == lock = NoOne /\ pc[c] = where /\ c \in woken

CheckOk == ~error /\ ~closing /\ phase # "closed"
PolicyError == future \in {"failed", "cancelled"}
Requested == future = "done"
PendingFiles == StagedAtRoot /\ tip = 1

Fail == error' = TRUE /\ phase' = "failed"

\* wants_snapshot: nothing admitted is still under way.
DrainedOfCommands == creating = 0 /\ active = {}                    \* mutant
DrainedOfInspections == creating = 0 /\ inspecting = 0              \* mutant
Drained == creating = 0 /\ active = {} /\ inspecting = 0

\* _boundary: history operations need a sound session without a VM.
AnyEntry == TRUE                                                    \* mutant
HasParent == history[tip].parent # 0
AtCheck == CheckOk                                                  \* mutant
AtBoundary == CheckOk /\ phase = "cold"

-----------------------------------------------------------------------------
(* What the composite of the idle and the duration policy does on an event *)

PolicyReset(next) ==
    /\ future' = next /\ idleActive' = 0 /\ idleTimer' = FALSE /\ vmTimer' = FALSE
PolicyClose ==
    PolicyReset(IF future = "pending" THEN "cancelled" ELSE future)
ActivityStarted ==
    /\ idleActive' = idleActive + 1 /\ idleTimer' = FALSE
    /\ UNCHANGED <<future, vmTimer>>
ActivityFinished ==
    /\ idleActive' = idleActive - 1
    /\ idleTimer' = (idleActive = 1 /\ future = "pending")
    /\ UNCHANGED <<future, vmTimer>>

\* operation.cancel(): the server discards the VM and completes its stream.
\* The request may fail, and is then suppressed or raised by the caller.
CancelVm ==
    IF operation \in live
    THEN /\ live' = live \ {operation} /\ vmState' = "cancelled" /\ procs' = {}
         /\ queue' = Append(queue, Completion)
         /\ UNCHANGED <<fs, torn>>
    ELSE UNCHANGED server
CancelFails == operation \in live /\ UNCHANGED server

-----------------------------------------------------------------------------
Init ==
    /\ phase = "cold" /\ creating = 0 /\ inspecting = 0 /\ active = {}
    /\ earlyExits = {} /\ error = FALSE /\ closing = FALSE /\ snapshots = 0
    /\ completionSeen = FALSE /\ ready = FALSE
    /\ lock = NoOne /\ woken = {} /\ changed = FALSE
    /\ operation = 0 /\ lastEntry = 0 /\ worker = "none"
    /\ future = "none" /\ idleActive = 0 /\ idleTimer = FALSE /\ vmTimer = FALSE
    /\ stream = "none" /\ streamError = "none" /\ exits = {}
    /\ live = {} /\ vmState = "none" /\ procs = {} /\ fs = {} /\ torn = {} /\ queue = <<>>
    /\ history = <<[parent |-> 0, files |-> {}, torn |-> {}]>> /\ tip = 1
    /\ version = 0 /\ opParent = 0 /\ opVersion = 0
    /\ pc = [c \in Callers |-> "idle"]
    /\ seen = [s \in Snapshots |-> 0]
    /\ asked = [s \in Snapshots |-> {}]

-----------------------------------------------------------------------------
(* Admission: run(), spawn() and inspection_source() share one loop.       *)

\* check() raises: the session failed or is closing.
Refused(c) ==
    /\ Enters(c) /\ ~CheckOk
    /\ Leaves(c, "abandon")
    /\ UNCHANGED <<still, lock, changed, most, asking>>

\* A cold session starts a VM; an inspection does so only for pending files.
\* begin() and RESET open the cycle, then the request leaves under the lock.
StartVm(c) ==
    /\ Enters(c) /\ CheckOk /\ phase = "cold"
    /\ c \in Inspections => PendingFiles
    /\ phase' = "starting" /\ creating' = 0 /\ active' = {} /\ earlyExits' = {}
    /\ completionSeen' = FALSE /\ ready' = FALSE
    /\ PolicyReset("pending")
    /\ lock' = c /\ Leaves(c, "starting")
    /\ UNCHANGED <<error, inspecting, closing, snapshots, changed, wrapper, reader,
                   server, session, asking>>

\* The server runs a new VM on the tip's image, with an empty event stream.
ServerStartsVm ==
    /\ live' = live \cup {snapshots + 1} /\ vmState' = "up" /\ procs' = {} /\ torn' = {}
    /\ fs' = history[tip].files /\ queue' = <<Spawned(Main)>>

\* The VM runs; the caller keeps the lock and goes on without a new check.
VmStarted(c) ==
    /\ lock = c /\ pc[c] = "starting"
    /\ ServerStartsVm
    /\ operation' = snapshots + 1 /\ opParent' = tip /\ opVersion' = version
    /\ stream' = "open" /\ streamError' = "none"
    /\ vmTimer' = (future = "pending") /\ phase' = "running"
    /\ worker' = IF worker = "none" THEN "wait" ELSE worker
    /\ changed' = (changed \/ worker = "none")
    /\ Go(c, "admitted")
    /\ UNCHANGED <<error, state, lock, woken, lastEntry, future, idleActive,
                   idleTimer, exits, history, tip, version, asking>>

\* _start raises: the request failed, its response was lost (the VM runs, no
\* handle exists), or the operation failed a check before its reader started.
StartFails(c) ==
    /\ lock = c /\ pc[c] = "starting"
    /\ \/ UNCHANGED <<server, operation, opParent, opVersion, stream, streamError>>
       \/ ServerStartsVm /\ UNCHANGED <<operation, opParent, opVersion, stream,
                                        streamError>>
       \/ /\ ServerStartsVm
          /\ operation' = snapshots + 1 /\ opParent' = tip /\ opVersion' = version
          /\ stream' = "none" /\ streamError' = "none"
    /\ Fail /\ Notify(Waiting)
    /\ lock' = NoOne /\ Go(c, "abandon")
    /\ UNCHANGED <<state, lastEntry, worker, policy, exits, history, tip, version,
                   asking>>

\* A running VM admits the call, which keeps the lock.
Joins(c) ==
    /\ Enters(c) /\ CheckOk /\ phase = "running" /\ ~Requested /\ ~PolicyError
    /\ lock' = c /\ Leaves(c, "admitted")
    /\ UNCHANGED <<still, changed, most, asking>>

\* The policy asked for a snapshot: admission stops here, the call waits.
\* A call that finds admission stopped notifies everyone before it waits.
WaitsForSnapshot(c) ==
    /\ Enters(c) /\ CheckOk
    /\ \/ phase = "running" /\ Requested
       \/ phase \in {"draining", "snapshotting"}
    /\ phase' = IF phase = "running" THEN "draining" ELSE phase
    /\ Notify(Waiting \ {c}) /\ Go(c, "waiting")
    /\ UNCHANGED <<error, state, lock, most, asking>>

\* The policy's future failed: its error fails the session.
PolicyBreaks(c) ==
    /\ Enters(c) /\ CheckOk /\ phase = "running" /\ PolicyError
    /\ Fail /\ Notify(Waiting) /\ Go(c, "abandon")
    /\ UNCHANGED <<state, lock, most, asking>>

\* A call that raised out of its critical section: if the session failed, it
\* closes the policy and discards the VM (suppressing errors) before raising.
Abandon(c) ==
    /\ pc[c] = "abandon"
    /\ IF error
       THEN PolicyClose /\ (CancelVm \/ CancelFails)
       ELSE UNCHANGED <<policy, server>>
    /\ Go(c, "raised")
    /\ UNCHANGED <<still, lock, wake, wrapper, reader, session, asking>>

\* The caller's timeout or cancellation ends a wait.
GivesUp(c) ==
    /\ lock = NoOne /\ pc[c] = "waiting"
    /\ Leaves(c, IF c \in Users THEN "abandon" ELSE "raised")
    /\ UNCHANGED <<still, lock, changed, most, asking>>

-----------------------------------------------------------------------------
(* Commands                                                                *)

\* apply_files raises before the command is counted.
FilesFail(c) ==
    /\ c \in Commands /\ lock = c /\ pc[c] = "admitted"
    /\ lock' = NoOne /\ Go(c, "abandon")
    /\ UNCHANGED <<still, wake, most, asking>>

Reserve(c) ==
    /\ c \in Commands /\ lock = c /\ pc[c] = "admitted"
    /\ creating' = creating + 1 /\ ActivityStarted
    /\ Go(c, "creating")
    /\ UNCHANGED <<phase, error, inspecting, active, earlyExits, closing, snapshots,
                   completionSeen, ready, lock, wake, wrapper, reader, server,
                   session, asking>>

HasRun(c) == c \in procs \cup fs \cup torn

\* The server starts the process; the response is still on its way.
ServerCreates(c) ==
    /\ pc[c] = "creating" /\ vmState = "up" /\ ~HasRun(c)
    /\ procs' = procs \cup {c}
    /\ UNCHANGED <<still, lock, wake, wrapper, policy, reader, live, vmState, fs,
                   torn, queue, session, calls>>

Created(c) ==
    /\ lock = c /\ pc[c] = "creating" /\ HasRun(c)
    /\ ready' = TRUE /\ creating' = creating - 1
    /\ IF c \in earlyExits
       THEN earlyExits' = earlyExits \ {c} /\ UNCHANGED active
       ELSE active' = active \cup {c} /\ UNCHANGED earlyExits
    /\ Notify(Waiting) /\ lock' = NoOne /\ Go(c, "running")
    /\ UNCHANGED <<phase, error, inspecting, closing, snapshots, completionSeen,
                   most, asking>>

\* run() raises: refused, lost, or cancelled, whatever the server did.
CreateFails(c) ==
    /\ lock = c /\ pc[c] = "creating"
    /\ creating' = creating - 1 /\ Fail /\ Notify(Waiting)
    /\ lock' = NoOne /\ Go(c, "abandon")
    /\ UNCHANGED <<inspecting, active, earlyExits, closing, snapshots,
                   completionSeen, ready, most, asking>>

\* The handle yields its exit; the result counts only if the session is sound.
ReturnResult(c) ==
    /\ lock = NoOne /\ pc[c] = "running" /\ c \in exits
    /\ Go(c, IF error THEN "raised" ELSE "done")
    /\ UNCHANGED <<still, lock, wake, most, asking>>

\* The wait raises (timeout, cancellation, or a reader that ended without the
\* exit) and the process gets SIGKILL; that request may itself fail.
AwaitFails(c) ==
    /\ pc[c] = "running"
    /\ \/ /\ c \in procs
          /\ procs' = procs \ {c} /\ queue' = Append(queue, Exited(c, FALSE))
          /\ UNCHANGED <<live, vmState, fs, torn>>
       \/ UNCHANGED server
    /\ Go(c, "raised")
    /\ UNCHANGED <<still, lock, wake, wrapper, policy, reader, session, asking>>

-----------------------------------------------------------------------------
(* Inspections                                                             *)

\* Without pending files a cold session serves its saved image.
InspectsImage(c) ==
    /\ Enters(c) /\ CheckOk /\ phase = "cold" /\ ~PendingFiles
    /\ Leaves(c, "done")
    /\ UNCHANGED <<still, lock, changed, most, asking>>

\* The admitted inspection holds the VM and first waits for it to be ready.
HoldsVm(c) ==
    /\ c \in Inspections /\ lock = c /\ pc[c] = "admitted"
    /\ inspecting' = inspecting + 1 /\ ActivityStarted
    /\ lock' = NoOne /\ Go(c, "readying") /\ woken' = woken \cup {c}
    /\ UNCHANGED <<phase, error, creating, active, earlyExits, closing, snapshots,
                   completionSeen, ready, changed, wrapper, reader, server, session,
                   asking>>

VmIsReady == ready \/ error \/ phase = "closed"

ReadyToInspect(c) ==
    /\ Wakes(c, "readying") /\ VmIsReady
    /\ Leaves(c, IF error \/ phase = "closed" THEN "unwinding" ELSE "serving")
    /\ UNCHANGED <<still, lock, changed, most, asking>>

\* The wait for readiness times out or is cancelled.
ReadyFails(c) ==
    /\ lock = NoOne /\ pc[c] = "readying"
    /\ Leaves(c, "unwinding")
    /\ UNCHANGED <<still, lock, changed, most, asking>>

KeepsPolicyBusy == UNCHANGED policy                                 \* mutant
InspectionFinished == IF phase \in Ended THEN UNCHANGED policy ELSE ActivityFinished

ReleaseInspection(c) ==
    /\ lock = NoOne /\ pc[c] \in {"serving", "unwinding"}
    /\ inspecting' = inspecting - 1
    /\ InspectionFinished
    /\ Notify(Waiting) /\ Go(c, IF pc[c] = "serving" THEN "done" ELSE "raised")
    /\ UNCHANGED <<phase, error, creating, active, earlyExits, closing, snapshots,
                   completionSeen, ready, lock, wrapper, reader, server, session,
                   asking>>

-----------------------------------------------------------------------------
(* snapshot(), close(), abort() and rollback()                             *)

NothingRunning == phase \in {"cold", "draining"}                     \* mutant
NothingToSave == phase = "cold"

\* Only for the properties: the commands accepted when the call is made.
Asks(s) == asked' = [asked EXCEPT ![s] = {c \in Commands : pc[c] \in {"running", "done"}}]

SnapshotReturns(s) ==
    /\ s \in Snapshots /\ lock = NoOne /\ pc[s] = "idle" /\ MayBegin
    /\ \/ ~CheckOk /\ Go(s, "raised") /\ UNCHANGED asked
       \/ CheckOk /\ NothingToSave /\ Go(s, "done") /\ Asks(s)
    /\ UNCHANGED <<still, lock, wake, most, seen>>

SnapshotAsks(s) ==
    /\ s \in Snapshots /\ lock = NoOne /\ pc[s] = "idle" /\ MayBegin /\ CheckOk /\ ~NothingToSave
    /\ seen' = [seen EXCEPT ![s] = snapshots]
    /\ Asks(s)
    /\ phase' = IF phase = "running" THEN "draining" ELSE phase
    /\ Notify(Waiting) /\ Go(s, "waiting")
    /\ UNCHANGED <<error, state, lock, most>>

SnapshotIsOver(s) == snapshots # seen[s] \/ error \/ phase = "closed"

SnapshotAnswers(s) ==
    /\ s \in Snapshots /\ Wakes(s, "waiting") /\ SnapshotIsOver(s)
    /\ Leaves(s, IF error \/ snapshots = seen[s] THEN "raised" ELSE "done")
    /\ UNCHANGED <<still, lock, changed, most, asking>>

\* close() stops admission: running work drains, a cold session just closes.
ClosedAtOnce == IF phase \in {"cold", "running"} THEN "closed" ELSE phase  \* mutant
ClosingPhase == CASE phase = "cold" -> "closed"
                  [] phase = "running" -> "draining"
                  [] OTHER -> phase

\* The call returns at once on a closed session; else it evaluates its
\* predicate before it first waits, as if it had been woken.
CloseAsks(k) ==
    /\ k \in Closes /\ lock = NoOne /\ pc[k] = "idle" /\ MayBegin
    /\ IF phase = "closed"
       THEN Go(k, "done") /\ UNCHANGED <<phase, closing, wake, policy>>
       ELSE /\ closing' = TRUE
            /\ phase' = ClosingPhase
            /\ IF phase = "cold" THEN PolicyClose ELSE UNCHANGED policy
            /\ Notify(Waiting \cup {k}) /\ Go(k, "waiting")
    /\ UNCHANGED <<error, creating, inspecting, active, earlyExits, snapshots,
                   completionSeen, ready, lock, wrapper, reader, server, session,
                   asking>>

CloseAnswers(k) ==
    /\ k \in Closes /\ Wakes(k, "waiting") /\ phase \in Ended
    /\ Leaves(k, IF error THEN "aborting" ELSE "closing")
    /\ UNCHANGED <<still, lock, changed, most, asking>>

\* abort() waits while a snapshot is saved, and then ends the session.
AbortWaits(a) ==
    /\ a \in Aborts /\ lock = NoOne /\ pc[a] = "idle" /\ MayBegin /\ phase = "snapshotting"
    /\ Go(a, "waiting")
    /\ UNCHANGED <<still, lock, wake, most, asking>>

AbortEnds(a) ==
    /\ \/ a \in Aborts /\ Enters(a)
       \/ a \in Closes /\ pc[a] = "aborting" /\ lock = NoOne
    /\ phase # "snapshotting"
    /\ closing' = TRUE /\ phase' = "closed" /\ PolicyClose /\ Notify(Waiting \ {a})
    /\ Go(a, IF operation = 0 THEN "joining" ELSE "cancelling")
    /\ UNCHANGED <<error, creating, inspecting, active, earlyExits, snapshots,
                   completionSeen, ready, lock, wrapper, reader, server, session,
                   asking>>

AbortCancels(a) ==
    /\ pc[a] = "cancelling"
    /\ \/ CancelVm /\ Go(a, "joining")
       \/ CancelFails /\ Go(a, "unwinding")
    /\ UNCHANGED <<still, lock, wake, wrapper, policy, reader, session, asking>>

NoJoin == TRUE                                                      \* mutant
WorkerJoined == worker \in {"none", "done"}

\* The session is saved and closed: close() joins the worker.
CloseReturns(k) ==
    /\ pc[k] = "closing" /\ WorkerJoined
    /\ Go(k, "done")
    /\ UNCHANGED <<still, lock, wake, most, asking>>

\* shutdown() joins the reader and raises its error unless it is the session's
\* own; then the worker is joined.  A close() that aborts raises in any case.
JoinsWorker(a) ==
    /\ pc[a] \in {"joining", "unwinding"} /\ a \in Closes \cup Aborts
    /\ WorkerJoined
    /\ operation # 0 => stream \in {"none", "ended"}
    /\ Go(a, IF pc[a] = "joining" /\ a \in Aborts /\ streamError # "own" THEN "done" ELSE "raised")
    /\ UNCHANGED <<still, lock, wake, most, asking>>

\* A waiter of wait_for whose predicate does not hold waits again.
WaitsAgain(c) ==
    /\ lock = NoOne /\ c \in woken
    /\ \/ c \in Snapshots /\ pc[c] = "waiting" /\ ~SnapshotIsOver(c)
       \/ c \in Closes /\ pc[c] = "waiting" /\ phase \notin Ended
       \/ c \in Aborts /\ pc[c] = "waiting" /\ phase = "snapshotting"
       \/ c \in Inspections /\ pc[c] = "readying" /\ ~VmIsReady
    /\ woken' = woken \ {c}
    /\ UNCHANGED <<still, lock, changed, most, calls>>

\* History changes only while no VM runs: rollback(1) selects the parent.
Rollback(r) ==
    /\ r \in Rollbacks /\ lock = NoOne /\ pc[r] = "idle" /\ MayBegin
    /\ IF AtBoundary /\ HasParent
       THEN tip' = history[tip].parent /\ version' = version + 1 /\ Go(r, "done")
       ELSE Go(r, "raised") /\ UNCHANGED <<tip, version>>
    /\ UNCHANGED <<still, lock, wake, wrapper, policy, reader, server, history,
                   opParent, opVersion, asking>>

-----------------------------------------------------------------------------
(* The reader: pump() passes each event to observe() before it routes it.  *)

Reads(type) ==
    /\ stream = "open" /\ lock = NoOne /\ queue # <<>> /\ Head(queue).type = type
    /\ queue' = Tail(queue) /\ Notify(Waiting)

\* observe() fails the session and raises: pump() stops reading.
ObserverRaises ==
    Fail /\ stream' = "finishing" /\ streamError' = "session" /\ UNCHANGED exits
ObserverPasses == UNCHANGED <<phase, error, reader>>

ObserveSpawn ==
    /\ Reads("spawn") /\ ready' = (ready \/ phase \notin Ended)
    /\ ObserverPasses
    /\ UNCHANGED <<creating, inspecting, active, earlyExits, closing, snapshots,
                   completionSeen, lock, wrapper, policy, live, vmState, procs, fs,
                   torn, session, calls>>

ObserveExit ==
    LET c == Head(queue).spid IN
    /\ Reads("exit") /\ c # Main
    /\ IF phase \notin Ended /\ c \in active
       THEN active' = active \ {c} /\ ActivityFinished /\ UNCHANGED earlyExits
       ELSE IF phase \notin Ended /\ creating > 0 /\ c \notin earlyExits
       THEN earlyExits' = earlyExits \cup {c} /\ ActivityFinished /\ UNCHANGED active
       ELSE UNCHANGED <<active, earlyExits, policy>>
    /\ exits' = exits \cup {c}
    /\ UNCHANGED <<phase, error, stream, streamError, creating, inspecting, closing,
                   snapshots, completionSeen, ready, lock, wrapper, live, vmState,
                   procs, fs, torn, session, calls>>

ObserveMainExit ==
    /\ Reads("exit") /\ Head(queue).spid = Main
    /\ IF phase \notin Ended /\ (Head(queue).timedOut \/ phase # "snapshotting")
       THEN ObserverRaises ELSE ObserverPasses
    /\ UNCHANGED <<state, lock, wrapper, policy, live, vmState, procs, fs, torn,
                   session, calls>>

ObserveCompletion ==
    /\ Reads("completion")
    /\ completionSeen' = (completionSeen \/ phase \notin Ended)
    /\ IF phase \notin Ended /\ phase # "snapshotting"
       THEN ObserverRaises
       ELSE stream' = "finishing" /\ UNCHANGED <<phase, error, streamError, exits>>
    /\ UNCHANGED <<creating, inspecting, active, earlyExits, closing, snapshots,
                   ready, lock, wrapper, policy, live, vmState, procs, fs, torn,
                   session, calls>>

\* The stream ends early, with an error or without one.
StreamBreaks ==
    /\ stream = "open" /\ stream' = "finishing" /\ streamError' \in {"none", "own"}
    /\ UNCHANGED <<still, lock, wake, wrapper, policy, exits, server, session, calls>>

\* pump() tells its observers that the stream ended, then closes the handles.
ReaderEnds ==
    /\ stream = "finishing" /\ lock = NoOne
    /\ stream' = "ended" /\ Notify(Waiting)
    /\ IF phase \notin Ended
          /\ (streamError # "none" \/ phase # "snapshotting" \/ ~completionSeen)
       THEN Fail /\ streamError' = "session"
       ELSE UNCHANGED <<phase, error, streamError>>
    /\ UNCHANGED <<state, lock, wrapper, policy, exits, server, session, calls>>

-----------------------------------------------------------------------------
(* The server                                                              *)

ProcExits(c) ==
    /\ c \in procs
    /\ procs' = procs \ {c} /\ fs' = fs \cup {c} /\ queue' = Append(queue, Exited(c, FALSE))
    /\ UNCHANGED <<still, lock, wake, wrapper, policy, reader, live, vmState, torn,
                   session, calls>>

\* The main process exits: on SIGTERM, at vm_timeout (timed_out), or by itself.
\* Processes that still run die with it and leave half-done work in the files.
VmEnds(outcome, late) ==
    /\ vmState \in {"up", "stopping"}
    /\ live' = live \ {snapshots + 1} /\ vmState' = outcome
    /\ procs' = {} /\ torn' = torn \cup procs
    /\ queue' = queue \o <<Exited(Main, late), Completion>>
    /\ UNCHANGED <<still, lock, wake, wrapper, policy, reader, fs, session, calls>>

-----------------------------------------------------------------------------
(* The policies' timers                                                    *)

Resolve(outcome) ==
    IF future = "pending"
    THEN future' = outcome /\ changed' = TRUE
    ELSE UNCHANGED <<future, changed>>

IdleFires ==
    /\ idleTimer /\ idleTimer' = FALSE /\ Resolve("done")
    /\ UNCHANGED <<still, lock, woken, wrapper, idleActive, vmTimer, reader, server,
                   session, calls>>

VmTimerFires ==
    /\ vmTimer /\ vmTimer' = FALSE /\ Resolve("done")
    /\ UNCHANGED <<still, lock, woken, wrapper, idleActive, idleTimer, reader,
                   server, session, calls>>

\* A policy of the application's own resolves or fails its future.
PolicyDecides ==
    /\ CustomPolicy /\ future = "pending"
    /\ Resolve("done") \/ Resolve("failed")
    /\ UNCHANGED <<still, lock, woken, wrapper, idleActive, idleTimer, vmTimer,
                   reader, server, session, calls>>

-----------------------------------------------------------------------------
(* The worker: _control and _save                                          *)

\* It wakes on _changed, clears it, and decides under the lock.
WorkerWakes == worker = "wait" /\ changed /\ lock = NoOne /\ changed' = FALSE

\* The session is over, or its policy failed.
WorkerStops ==
    /\ WorkerWakes
    /\ \/ phase \in Ended /\ worker' = "done" /\ PolicyClose
       \/ phase \notin Ended /\ PolicyError /\ worker' = "failing" /\ UNCHANGED policy
    /\ UNCHANGED <<still, lock, woken, operation, lastEntry, reader, server,
                   session, calls>>

\* wants_snapshot: a request stops admission; the save begins once every
\* admitted command and inspection is over.
WorkerDecides ==
    LET next == IF phase = "running" /\ Requested THEN "draining" ELSE phase
        drained == next = "draining" /\ Drained
    IN /\ WorkerWakes /\ phase \notin Ended /\ ~PolicyError
       /\ phase' = IF drained THEN "snapshotting" ELSE next
       /\ worker' = IF drained THEN "signal" ELSE "wait"
       /\ woken' = IF phase' # phase THEN Waiting ELSE woken
       /\ UNCHANGED <<error, state, lock, operation, lastEntry, outside, calls>>

\* SIGTERM to the main process; the request may fail, or find the VM gone.
WorkerSignals ==
    /\ worker = "signal"
    /\ \/ worker' = "saving" /\ vmState' = IF vmState = "up" THEN "stopping" ELSE vmState
       \/ worker' = "failing" /\ UNCHANGED vmState
    /\ UNCHANGED <<still, lock, wake, operation, lastEntry, policy, reader, live,
                   procs, fs, torn, queue, session, calls>>

\* The reader is done without an error, and the operation's status is success.
AnyEnd == TRUE                                                      \* mutant
EndedWell == stream = "ended" /\ streamError = "none" /\ vmState = "success"

\* operation.wait() times out or finds a failed stream or result: it cancels.
SaveFails ==
    /\ worker = "saving"
    /\ stream = "ended" => ~EndedWell
    /\ worker' = "failing" /\ (CancelVm \/ CancelFails)
    /\ UNCHANGED <<still, lock, wake, operation, lastEntry, policy, reader, session,
                   calls>>

\* The VM ended well and its reader is joined: was the session failed since?
SaveJoins ==
    /\ worker = "saving" /\ lock = NoOne /\ EndedWell
    /\ worker' = IF error THEN "failing" ELSE "commit"
    /\ UNCHANGED <<still, lock, wake, operation, lastEntry, outside, calls>>

\* commit_result appends the entry; it becomes the tip unless the position
\* moved since the operation was spawned.  The store or the commit policy may
\* refuse it.
WorkerCommits ==
    /\ worker = "commit"
    /\ \/ /\ worker' = "publish"
          /\ history' = Append(history, [parent |-> opParent, files |-> fs, torn |-> torn])
          /\ tip' = IF tip = opParent /\ version = opVersion THEN Len(history) + 1 ELSE tip
       \/ worker' = "failing" /\ UNCHANGED <<history, tip>>
    /\ UNCHANGED <<still, lock, wake, operation, lastEntry, policy, reader, server,
                   version, opParent, opVersion, calls>>

\* The cycle is over: the policy is reset and admission reopens, or closes.
WorkerPublishes ==
    /\ worker = "publish" /\ lock = NoOne
    /\ lastEntry' = Len(history) /\ operation' = 0 /\ PolicyReset("none")
    /\ snapshots' = snapshots + 1 /\ phase' = IF closing THEN "closed" ELSE "cold"
    /\ Notify(Waiting) /\ worker' = "wait"
    /\ UNCHANGED <<error, creating, inspecting, active, earlyExits, closing,
                   completionSeen, ready, lock, reader, server, session, calls>>

WorkerFails ==
    /\ worker = "failing" /\ lock = NoOne
    /\ Fail /\ Notify(Waiting) /\ worker' = "cleanup"
    /\ UNCHANGED <<state, lock, operation, lastEntry, outside, calls>>

WorkerCleansUp ==
    /\ worker = "cleanup" /\ worker' = "done"
    /\ PolicyClose /\ (CancelVm \/ CancelFails)
    /\ UNCHANGED <<still, lock, wake, operation, lastEntry, reader, session, calls>>

-----------------------------------------------------------------------------
Command(c) ==
    \/ Refused(c) \/ StartVm(c) \/ VmStarted(c) \/ StartFails(c) \/ Joins(c)
    \/ WaitsForSnapshot(c) \/ PolicyBreaks(c) \/ Abandon(c)
    \/ FilesFail(c) \/ Reserve(c) \/ ServerCreates(c) \/ Created(c) \/ CreateFails(c)
    \/ ReturnResult(c) \/ AwaitFails(c)

Inspection(c) ==
    \/ Refused(c) \/ StartVm(c) \/ VmStarted(c) \/ StartFails(c) \/ Joins(c)
    \/ WaitsForSnapshot(c) \/ PolicyBreaks(c) \/ Abandon(c)
    \/ InspectsImage(c) \/ HoldsVm(c) \/ ReadyToInspect(c) \/ ReadyFails(c)
    \/ ReleaseInspection(c)

Snapshot(s) == SnapshotReturns(s) \/ SnapshotAsks(s) \/ SnapshotAnswers(s)
Close(k) == CloseAsks(k) \/ CloseAnswers(k) \/ CloseReturns(k)
Abort(a) == AbortWaits(a) \/ AbortEnds(a) \/ AbortCancels(a) \/ JoinsWorker(a)

Reader ==
    \/ ObserveSpawn \/ ObserveExit \/ ObserveMainExit \/ ObserveCompletion \/ ReaderEnds
Server ==
    \/ \E c \in Commands : ProcExits(c)
    \/ \E outcome \in {"success", "failed"}, late \in BOOLEAN : VmEnds(outcome, late)
Policy == IdleFires \/ VmTimerFires \/ PolicyDecides
Worker ==
    \/ WorkerStops \/ WorkerDecides \/ WorkerSignals \/ SaveFails \/ SaveJoins
    \/ WorkerCommits \/ WorkerPublishes \/ WorkerFails \/ WorkerCleansUp

\* All calls that may begin have returned: nothing is left to ask of the session.
AllReturned ==
    /\ \A c \in Callers : pc[c] \in Returned \/ (pc[c] = "idle" /\ ~MayBegin)
    /\ UNCHANGED vars

Next ==
    \/ \E c \in Commands : Command(c)
    \/ \E i \in Inspections : Inspection(i)
    \/ \E s \in Snapshots : Snapshot(s)
    \/ \E k \in Closes : Close(k)
    \/ \E a \in Aborts \cup Closes : Abort(a)
    \/ \E r \in Rollbacks : Rollback(r)
    \/ \E c \in Callers : GivesUp(c) \/ WaitsAgain(c)
    \/ Reader \/ StreamBreaks \/ Server \/ Policy \/ Worker \/ AllReturned

Spec == Init /\ [][Next]_vars

-----------------------------------------------------------------------------
(* Fairness: tasks and threads that can run do run; every request to the   *)
(* server is answered, with a result or an error; the server enforces the  *)
(* keepalive's timeout, so a VM ends.  Nothing obliges a command to exit,  *)
(* a policy timer to fire, a caller to time out or a stream to break.      *)

UserRuns(c) ==
    \/ pc[c] # "idle" /\ (Refused(c) \/ StartVm(c) \/ Joins(c) \/ WaitsForSnapshot(c)
                         \/ PolicyBreaks(c) \/ InspectsImage(c))
    \/ VmStarted(c) \/ StartFails(c) \/ Abandon(c)
CommandRuns(c) ==
    \/ UserRuns(c) \/ FilesFail(c) \/ Reserve(c) \/ Created(c) \/ CreateFails(c)
    \/ ReturnResult(c)
    \/ stream = "ended" /\ c \notin exits /\ AwaitFails(c)
InspectionRuns(c) ==
    UserRuns(c) \/ HoldsVm(c) \/ ReadyToInspect(c) \/ ReleaseInspection(c)
BoundaryRuns(c) ==
    \/ SnapshotAnswers(c) \/ CloseAnswers(c) \/ CloseReturns(c)
    \/ pc[c] # "idle" /\ AbortEnds(c)
    \/ AbortCancels(c) \/ JoinsWorker(c)

Fairness ==
    /\ \A c \in Commands : WF_vars(CommandRuns(c))
    /\ \A c \in Inspections : WF_vars(InspectionRuns(c))
    /\ \A c \in Boundaries : WF_vars(BoundaryRuns(c))
    /\ WF_vars(Reader) /\ WF_vars(Worker)
    /\ WF_vars(\E outcome \in {"success", "failed"}, late \in BOOLEAN : VmEnds(outcome, late))

FairSpec == Spec /\ Fairness

-----------------------------------------------------------------------------
TypeFlags ==
    /\ error \in BOOLEAN /\ closing \in BOOLEAN /\ completionSeen \in BOOLEAN
    /\ ready \in BOOLEAN /\ changed \in BOOLEAN
    /\ idleTimer \in BOOLEAN /\ vmTimer \in BOOLEAN
TypeLazy ==
    /\ phase \in Phases /\ creating \in Int /\ inspecting \in Int /\ snapshots \in Nat
    /\ active \subseteq Commands \cup {Main} /\ earlyExits \subseteq Commands \cup {Main}
TypeWrapper ==
    /\ lock \in Callers \cup {NoOne} /\ woken \subseteq Callers
    /\ operation \in Nat /\ lastEntry \in Nat
    /\ worker \in {"none", "wait", "signal", "saving", "commit", "publish", "failing",
                   "cleanup", "done"}
TypePolicy ==
    /\ future \in {"none", "pending", "done", "failed", "cancelled"} /\ idleActive \in Int
TypeReader ==
    /\ stream \in {"none", "open", "finishing", "ended"}
    /\ streamError \in {"none", "session", "own"} /\ exits \subseteq Commands \cup {Main}
TypeServer ==
    /\ live \subseteq Nat /\ vmState \in {"none", "up", "stopping", "success", "failed", "cancelled"}
    /\ procs \subseteq Commands /\ fs \subseteq Commands /\ torn \subseteq Commands
TypeEvents == queue \in Seq(Event)
TypeSession ==
    /\ history \in Seq([parent : Nat, files : SUBSET Commands, torn : SUBSET Commands])
    /\ tip \in DOMAIN history /\ version \in Nat /\ opParent \in Nat /\ opVersion \in Nat
TypeCalls ==
    /\ pc \in [Callers -> {"idle", "waiting", "starting", "admitted", "creating", "running",
                           "readying", "serving", "unwinding", "abandon", "aborting",
                           "closing", "cancelling", "joining", "done", "raised"}]
    /\ seen \in [Snapshots -> Nat] /\ asked \in [Snapshots -> SUBSET Commands]
\* Every variable has its type: a model-checked and proved baseline for the
\* counters, sets and event queues of LazyState and its wrapper.
TypeOK ==
    /\ TypeFlags /\ TypeLazy /\ TypeWrapper /\ TypePolicy /\ TypeReader /\ TypeServer
    /\ TypeEvents /\ TypeSession /\ TypeCalls

Saved == UNION {history[i].files : i \in DOMAIN history}
Holding == {i \in Inspections : pc[i] \in {"readying", "serving", "unwinding"}}
Done == {c \in Commands : pc[c] = "done"}

\* From the decision to save until the entry is published, no process runs in
\* the VM, no inspection holds it and no command is being created (_control,
\* wants_snapshot): otherwise the image would hold half of a command's work.
QuiescentSave ==
    phase = "snapshotting" =>
        procs = {} /\ Holding = {} /\ \A c \in Commands : pc[c] # "creating"

\* No entry holds the work of a process that the save itself killed.
NoTornSnapshot == \A i \in DOMAIN history : history[i].torn = {}

\* At most one VM runs, and a cold session has none that it knows of: the next
\* _start never overlaps the VM that _save is stopping.
OneVm == Cardinality(live) <= 1 /\ (phase = "cold" => live = {} /\ operation = 0)

\* A snapshot() that returns covers every command accepted before it was
\* called, whichever cycle saved it, unless that command's own call raised.
SnapshotCovers ==
    \A s \in Snapshots :
        pc[s] = "done" => {c \in asked[s] : pc[c] # "raised"} \subseteq Saved

\* A close() that returns, with no abort() made, saved every result returned
\* before and leaves no VM of this session running; unless the session failed
\* and another close() aborted it, which reports the failure.
NoAborts == \A a \in Aborts : pc[a] = "idle"
Reported == \E k \in Closes : pc[k] \in {"cancelling", "joining", "unwinding", "raised"}
CloseSaves ==
    (\E k \in Closes : pc[k] = "done") /\ NoAborts =>
        \/ Done \subseteq Saved /\ operation \notin live /\ ~error
        \/ error /\ Reported

\* When the cycle's entry is published it is the tip: no history operation
\* moved the session's position while the VM ran, so the next VM starts from it.
SnapshotIsTip == worker = "publish" => tip = Len(history)

\* The idle policy counts exactly the admitted commands and inspections, so a
\* FINISHED event never underflows it and the timer starts at the last one.
ActivityBalance ==
    /\ phase \in {"running", "draining", "snapshotting"} =>
          idleActive = creating + inspecting + Cardinality(active)
    /\ creating >= 0 /\ inspecting = Cardinality(Holding)

\* An abort() that returns left no VM of this session running and no worker
\* that could still save or publish.
AbortFreesVm ==
    \A a \in Aborts : pc[a] = "done" => operation \notin live /\ worker \in {"none", "done"}

\* A session that failed or closed never runs again: no save that was under
\* way reopens admission (saved() against fail() and abort()).  The worker may
\* still find a closed session failed, but not once an abort() has returned.
EndedForGood ==
    [][/\ phase \in Ended => phase' \in Ended
       /\ phase = "closed" /\ (\E a \in Aborts : pc[a] = "done") => phase' = "closed"]_vars

\* Every call returns or raises: no notification is missed, and nobody waits
\* for a drain that cannot end, because the VM's timeout ends it.  As each call
\* is made once, that is: again and again there is none under way.
CallsReturn == []<>(\A c \in Callers : pc[c] \in Returned \cup {"idle"})

\* README.md: after 10 idle seconds the session saves and stops the VM.  So a
\* running VM without work has an armed idle timer or a request to save.
IdleVmIsTimed ==
    phase = "running" /\ lock = NoOne /\ creating = 0 /\ active = {} /\ inspecting = 0
        => idleTimer \/ future # "pending"

-----------------------------------------------------------------------------
(* The inductive invariant: the safety properties above follow from it.    *)

Locking == {"starting", "admitted", "creating"}

\* Entries point back to earlier ones, and so does the VM's context.
HistoryGrows ==
    /\ opParent \in 0 .. Len(history)
    /\ \A i \in DOMAIN history : history[i].parent \in 0 .. Len(history)

\* A call holds the lock exactly while it awaits the server, in the phase that
\* belongs to that request; so no event overtakes a command's creation.
LockInv ==
    /\ lock # NoOne => pc[lock] \in Locking
    /\ \A c \in Callers : pc[c] \in Locking => lock = c
    /\ \A c \in Callers : pc[c] = "starting" => phase = "starting"
    /\ \A c \in Callers : pc[c] \in {"admitted", "creating"} => phase = "running"
    /\ phase = "starting" => lock # NoOne
    /\ creating = IF lock # NoOne /\ pc[lock] = "creating" THEN 1 ELSE 0
    /\ earlyExits = {}

\* Every process that runs, or died with the VM, is still counted, until the
\* session ends.
TrackInv ==
    /\ procs \cap torn = {}
    /\ phase \notin Ended =>
          \A c \in procs \cup torn : c \in active \/ pc[c] = "creating"
    /\ phase \in {"cold", "starting", "snapshotting"} => active = {}

\* What the queue reports as exited did exit, and never runs again.
Gone(c) == c \notin procs \cup torn /\ (c \in fs \/ pc[c] \in Returned)
ExitsInv ==
    \A i \in DOMAIN queue : queue[i].type = "exit" /\ queue[i].spid # Main => Gone(queue[i].spid)

\* The worker saves only in the phase it set; once the reader has ended well,
\* nothing can fail the session until the entry is published.
SaveInv ==
    /\ phase = "failed" => error
    /\ worker \in {"signal", "saving"} =>
          phase = "snapshotting" \/ (phase \in Ended /\ error)
    /\ worker \in {"commit", "publish"} =>
          phase = "snapshotting" /\ stream = "ended" /\ ~error

\* LazyState counts the inspections, and holds the VM for each of them.
HoldInv ==
    /\ inspecting = Cardinality(Holding)
    /\ phase = "snapshotting" => Holding = {}

\* The server runs at most the VM of this cycle, which the session knows while
\* it serves calls, and which has ended before its entry is committed.
Serving == {"running", "draining", "snapshotting"}
VmInv ==
    /\ live = IF vmState \in {"up", "stopping"} THEN {snapshots + 1} ELSE {}
    /\ operation \in {0, snapshots + 1}
    /\ phase \in Serving => operation = snapshots + 1
    /\ phase \in {"cold", "starting"} => operation = 0
    /\ phase \in {"cold", "starting"} \/ worker \in {"commit", "publish"} => live = {}

\* An error ends the session, and so does the end of its worker; between two
\* VMs the worker waits, and nothing is asked of the policy.
OverInv ==
    /\ error => phase \in Ended
    /\ worker \in {"cleanup", "done"} => phase \in Ended
    /\ phase \in {"cold", "starting"} => worker \in {"none", "wait"}
    /\ phase = "cold" => future = "none"

\* Each cycle begins with no activity, and counts what it admits since.
CountInv ==
    /\ phase \in {"cold", "starting"} => Holding = {}
    /\ phase = "starting" => idleActive = 0
    /\ phase \in Serving => idleActive = creating + inspecting + Cardinality(active)
    /\ IsFiniteSet(active)
    /\ active \subseteq {c \in Commands : pc[c] \in {"running"} \cup Returned}

\* While a VM serves calls, the session stays where the VM was started from.
TipInv ==
    /\ phase \in Serving /\ worker # "publish" => opParent = tip /\ opVersion = version
    /\ worker = "publish" => tip = Len(history)

\* What a returned or running command did is in the VM's files or saved, until
\* the session ends; between two VMs, and once it closed well, it is saved.
Accepted == {c \in Commands : pc[c] \in {"running", "done"}}
ClosedWell == phase = "closed" /\ ~error /\ NoAborts
WorkInv ==
    /\ phase \in {"cold", "starting"} \/ worker = "publish" => fs \subseteq Saved
    /\ phase \notin Ended => Accepted \subseteq procs \cup torn \cup fs \cup Saved
    /\ ClosedWell => Accepted \subseteq Saved

\* Only a call that asked for its process has effects, it runs once, and the
\* entry that is published holds the files of the VM.
RunInv ==
    /\ \A c \in procs \cup torn \cup fs \cup Saved :
          pc[c] \in {"creating", "running", "abandon"} \cup Returned
    /\ \A c \in exits \cap Commands :
          c \notin procs \cup torn /\ pc[c] \in {"running", "abandon"} \cup Returned
    /\ worker = "publish" => history[tip].files = fs

\* What a snapshot() call was asked to cover is saved when its cycle is over.
AskInv ==
    \A s \in Snapshots :
        /\ pc[s] \in {"waiting", "done"} => \A c \in asked[s] : pc[c] \in {"running"} \cup Returned
        /\ pc[s] = "done" \/ (pc[s] = "waiting" /\ seen[s] # snapshots)
              => {c \in asked[s] : pc[c] # "raised"} \subseteq Saved

\* What ends a session is final: whoever joins it finds no VM and no save.
EndInv ==
    /\ \A a \in Aborts \cup Closes : pc[a] \in {"cancelling", "joining", "unwinding"} => phase \in Ended
    /\ \A a \in Aborts \cup Closes : pc[a] = "joining" => operation \notin live
    /\ \A a \in Aborts : pc[a] = "done" =>
          phase \in Ended /\ operation \notin live /\ worker \in {"none", "done"}

\* close() returns once the session closed well, or after another close() that
\* found it failed and aborted it.
CloseInv ==
    /\ ClosedWell => live = {} /\ worker \in {"none", "wait", "done"}
    /\ \A k \in Closes : pc[k] \in {"aborting", "cancelling", "joining", "unwinding"} => error
    /\ phase = "closed" /\ error /\ NoAborts => Reported
    /\ \A k \in Closes : pc[k] = "closing" /\ NoAborts => ClosedWell
    /\ \A k \in Closes : pc[k] = "done" /\ NoAborts => ClosedWell \/ (error /\ Reported)

IInv ==
    /\ TypeOK /\ HistoryGrows /\ LockInv /\ ExitsInv /\ TrackInv /\ SaveInv /\ HoldInv
    /\ NoTornSnapshot
    /\ VmInv /\ OverInv /\ CountInv /\ TipInv /\ WorkInv /\ AskInv /\ EndInv /\ CloseInv
    /\ RunInv

-----------------------------------------------------------------------------
(* The files a session's users see, while a VM runs and while none does.   *)

Visible == IF phase \in {"running", "draining", "snapshotting"} THEN fs ELSE history[tip].files

Files == INSTANCE SharedFilesystem
         WITH files <- Visible, saved <- history[tip].files,
              log <- [i \in DOMAIN history |-> history[i].files],
              acked <- Done, ended <- phase \in Ended

\* The session implements the shared filesystem it promises: every save adds
\* exactly the effects of the commands run so far, and no result is returned
\* for effects that are neither visible nor saved while the session lives.
ImplementsSharedFilesystem == Files!Spec
=============================================================================
