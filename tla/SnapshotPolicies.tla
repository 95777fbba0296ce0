-------------------------- MODULE SnapshotPolicies --------------------------
(***************************************************************************)
(* The snapshot policies of one lazy session, each with its lock and its   *)
(* timers.  The session notifies its composite policy one event at a time, *)
(* but an event reaches the children one after the other, and a timer      *)
(* thread may take a child's lock between any two of those steps.  A timer *)
(* that was started is "armed", then "fired": its callback waits for the   *)
(* lock and can no longer be cancelled.  Time is counted in ticks and kept *)
(* as ages, so that no clock grows without bound.                          *)
(***************************************************************************)
EXTENDS Sequences, Integers

CONSTANTS
    IdleSeconds,    \* IdleSnapshotPolicy's seconds
    Seconds,        \* the lifetimes a duration policy may be given
    Limit,          \* CommandCountSnapshotPolicy's limit
    Cycles,         \* bound: VMs started in one behaviour
    Activities,     \* bound: commands and inspections in one behaviour
    Horizon         \* bound: ages are not counted beyond it

ASSUME PolicyAssumption ==
    /\ IdleSeconds \in Nat \ {0} /\ Seconds \subseteq Nat \ {0} /\ Seconds # {}
    /\ Limit \in Nat \ {0} /\ {Cycles, Activities, Horizon} \subseteq Nat
    /\ \A s \in Seconds \cup {IdleSeconds} : s < Horizon

Durations == {"lifetime", "deadline"}   \* the application's, the session's own
Timed == {"idle"} \cup Durations
Children == <<"idle", "count", "lifetime", "deadline">>
Policies == Timed \cup {"count", "composite"}
NotStarted == -1

VARIABLES
    \* the lazy session
    phase, calls,       \* calls: the notifications and calls it still has to make
    running, cycles, activities,
    \* the policies
    future, watched,    \* watched: children whose future completes the composite's
    active, commandsStarted,
    seconds, startedAge,    \* clock() - started_at, or NotStarted
    generation, timers,
    \* ghost
    idleFor             \* ticks since the idle policy saw the last activity end, or NotStarted

sessionVars == <<phase, calls, running, cycles, activities>>
countVars == <<active, commandsStarted>>
durationVars == <<seconds, startedAge>>
timerVars == <<generation, timers>>
vars == <<sessionVars, future, watched, countVars, durationVars, timerVars, idleFor>>

TimerType == [policy : Timed, generation : Nat, left : 0 .. Horizon, state : {"armed", "fired"}]

Init ==
    /\ phase = "cold" /\ calls = <<>> /\ running = 0 /\ cycles = 0 /\ activities = 0
    /\ future = [p \in Policies |-> "pending"]
    /\ watched = {Children[i] : i \in DOMAIN Children}
    /\ active = 0 /\ commandsStarted = 0
    /\ seconds \in [Durations -> Seconds]
    /\ startedAge = [d \in Durations |-> NotStarted]
    /\ generation = [p \in Timed |-> 0] /\ timers = {}
    /\ idleFor = NotStarted

-----------------------------------------------------------------------------
(* Futures and timers.                                                     *)

\* p's future ends as `how`, and the composite's with it if it watches p.
\* A future that is over stays as it is.
Completed(p, how) ==
    [q \in Policies |-> IF future[q] = "pending" /\ future[p] = "pending"
                           /\ (q = p \/ (q = "composite" /\ p \in watched))
                        THEN how ELSE future[q]]

\* AbstractSnapshotPolicy.notify.
BaseNotify(p, event) ==
    CASE event = "reset" -> [Completed(p, "cancelled") EXCEPT ![p] = "pending"]
      [] event = "close" -> Completed(p, "cancelled")
      [] OTHER -> future

\* timer.cancel() stops a timer that has not fired.
Uncancelled(p) == {t \in timers : t.policy = p => t.state = "fired"}
NewTimer(p, gen, left) == [policy |-> p, generation |-> gen, left |-> left, state |-> "armed"]

\* The timer thread wakes, or the event loop's timer is due.
Fires(t) ==
    /\ t \in timers /\ t.state = "armed" /\ t.left = 0
    /\ timers' = (timers \ {t}) \cup {[t EXCEPT !.state = "fired"]}
    /\ UNCHANGED <<sessionVars, future, watched, countVars, durationVars, generation, idleFor>>

\* _expired and expired: the callback has the policy's lock.
ValidOnce(t) == t.policy = "idle" => active = 0     \* mutant
Valid(t) == t.generation = generation[t.policy] /\ (t.policy = "idle" => active = 0)
Expires(t) ==
    /\ t \in timers /\ t.state = "fired"
    /\ timers' = timers \ {t}
    /\ future' = IF Valid(t) THEN Completed(t.policy, "done") ELSE future
    /\ UNCHANGED <<sessionVars, watched, countVars, durationVars, generation, idleFor>>

-----------------------------------------------------------------------------
(* The children.  `event` is the head of calls.                            *)

IdleCancelsTimer ==
    /\ generation' = [generation EXCEPT !["idle"] = @ + 1]
    /\ timers' = Uncancelled("idle")

ArmsAfterOne == active' = 1 /\ future["idle"] = "pending"      \* mutant
ArmsIdle == active' = 0 /\ future["idle"] = "pending"

IdleNotify(event) ==
    /\ future' = BaseNotify("idle", event)
    /\ \/ /\ event \in {"reset", "close"} /\ IdleCancelsTimer
          /\ active' = 0 /\ idleFor' = NotStarted
       \/ /\ event \in {"command_started", "inspection_started"} /\ IdleCancelsTimer
          /\ active' = active + 1 /\ idleFor' = NotStarted
       \/ /\ event = "finished" /\ active > 0
          /\ active' = active - 1 /\ idleFor' = (IF active' = 0 THEN 0 ELSE NotStarted)
          /\ timers' = IF ArmsIdle
                       THEN timers \cup {NewTimer("idle", generation["idle"], IdleSeconds)}
                       ELSE timers
          /\ UNCHANGED generation
    /\ UNCHANGED <<watched, commandsStarted, durationVars>>

CountNotify(event) ==
    /\ commandsStarted' = IF event = "command_started" THEN commandsStarted + 1 ELSE 0
    /\ future' = IF event = "command_started" /\ commandsStarted' >= Limit
                 THEN Completed("count", "done") ELSE BaseNotify("count", event)
    /\ UNCHANGED <<watched, active, durationVars, timerVars, idleFor>>

\* schedule_timer, on the values the caller has just set; base is the futures.
NotBumped(d) == generation[d]       \* mutant
Bumped(d) == generation[d] + 1
Negative(d) == FALSE        \* mutant
NothingLeft(d) == seconds'[d] <= startedAge'[d]
RunsIfFresh(d, base) == startedAge'[d] = 0 /\ base[d] = "pending"       \* mutant
Runs(d, base) == startedAge'[d] # NotStarted /\ base[d] = "pending"

ScheduleTimer(d, base) ==
    /\ generation' = [generation EXCEPT ![d] = Bumped(d)]
    /\ timers' = Uncancelled(d) \cup
                 (IF Runs(d, base) /\ ~NothingLeft(d)
                  THEN {NewTimer(d, generation'[d], seconds'[d] - startedAge'[d])} ELSE {})
    /\ future' = IF Runs(d, base) /\ NothingLeft(d) THEN Completed(d, "done") ELSE base

MayStart(d) == startedAge[d] = NotStarted /\ future[d] = "pending"

StartDeferred(d) ==
    /\ startedAge' = [startedAge EXCEPT ![d] = IF MayStart(d) THEN 0 ELSE @]
    /\ UNCHANGED <<future, watched, countVars, seconds, timerVars, idleFor>>

SetDuration(d, s) ==
    /\ seconds' = [seconds EXCEPT ![d] = s] /\ UNCHANGED startedAge
    /\ ScheduleTimer(d, future)
    /\ UNCHANGED <<watched, countVars, idleFor>>

DurationNotify(d, event) ==
    /\ UNCHANGED seconds
    /\ \/ /\ event \in {"reset", "close"}
          /\ startedAge' = [startedAge EXCEPT ![d] = NotStarted]
          /\ ScheduleTimer(d, BaseNotify(d, event))
       \/ /\ event = "vm_starting"
          /\ startedAge' = [startedAge EXCEPT ![d] = IF MayStart(d) THEN 0 ELSE @]
          /\ IF MayStart(d) THEN ScheduleTimer(d, future) ELSE UNCHANGED <<timerVars, future>>
    /\ UNCHANGED <<watched, countVars, idleFor>>

-----------------------------------------------------------------------------
(* The composite.                                                          *)

\* A reset gives it a new future that watches nothing until _watch_children.
CompositeNotify(event) ==
    /\ future' = BaseNotify("composite", event)
    /\ watched' = IF event = "reset" THEN {} ELSE watched
    /\ UNCHANGED <<countVars, durationVars, timerVars, idleFor>>

WatchesFirst == {Children[1], Children[2], Children[3]}     \* mutant
Watch == {Children[i] : i \in DOMAIN Children}

\* The done callback of a child that is already over runs at once.
WatchChildren ==
    /\ watched' = Watch
    /\ future' = IF \E p \in Watch : future[p] = "done" /\ future["composite"] = "pending"
                 THEN [future EXCEPT !["composite"] = "done"] ELSE future
    /\ UNCHANGED <<countVars, durationVars, timerVars, idleFor>>

SetSeconds(s) == [to |-> "deadline", event |-> "set_duration", seconds |-> s]
Call(p, event) == [to |-> p, event |-> event, seconds |-> 0]

\* The children that do something at an event, in the composite's order.
Heeding(event) ==
    CASE event \in {"reset", "close"} -> Children
      [] event = "command_started" -> <<"idle", "count">>
      [] event \in {"inspection_started", "finished"} -> <<"idle">>
      [] event = "vm_starting" -> <<"lifetime", "deadline">>

\* What CompositeSnapshotPolicy.notify(event) does, step by step.
Notify(event) ==
    (IF event \in {"reset", "close"} THEN <<Call("composite", event)>> ELSE <<>>)
    \o [i \in DOMAIN Heeding(event) |-> Call(Heeding(event)[i], event)]
    \o (IF event = "reset" THEN <<Call("composite", "watch")>> ELSE <<>>)

-----------------------------------------------------------------------------
(* The lazy session.  It holds its condition for a whole notification.     *)

\* _start: a new cycle.
StartVm ==
    /\ phase = "cold" /\ calls = <<>> /\ cycles < Cycles
    /\ phase' = "starting" /\ cycles' = cycles + 1
    /\ calls' = Notify("reset") \o <<Call("deadline", "start_deferred")>> \o Notify("vm_starting")
    /\ UNCHANGED <<running, activities, future, watched, countVars, durationVars, timerVars, idleFor>>

\* The server has answered: set_duration(effective_timeout - snapshot_timeout).
VmStarted ==
    /\ phase = "starting" /\ calls = <<>>
    /\ \E s \in Seconds : calls' = <<SetSeconds(s)>>
    /\ phase' = "configuring"
    /\ UNCHANGED <<running, cycles, activities, future, watched, countVars, durationVars, timerVars, idleFor>>

\* The VM runs, unless its deadline passed while it started.
CheckDeadline ==
    /\ phase = "configuring" /\ calls = <<>>
    /\ IF future["deadline"] = "pending" THEN phase' = "running" /\ UNCHANGED calls
       ELSE phase' = "closed" /\ calls' = Notify("close")
    /\ UNCHANGED <<running, cycles, activities, future, watched, countVars, durationVars, timerVars, idleFor>>

\* A command or an inspection is admitted while nothing asks for a snapshot;
\* a timer may fire before the policies are told of it.
Admit(event) ==
    /\ phase = "running" /\ calls = <<>> /\ activities < Activities
    /\ future["composite"] = "pending"
    /\ activities' = activities + 1 /\ running' = running + 1
    /\ calls' = Notify(event)
    /\ UNCHANGED <<phase, cycles, future, watched, countVars, durationVars, timerVars, idleFor>>

Finish ==
    /\ phase = "running" /\ calls = <<>> /\ running > 0
    /\ running' = running - 1 /\ calls' = Notify("finished")
    /\ UNCHANGED <<phase, cycles, activities, future, watched, countVars, durationVars, timerVars, idleFor>>

\* A snapshot, asked for by the policies or by snapshot(), is committed.
Save ==
    /\ phase = "running" /\ calls = <<>> /\ running = 0
    /\ phase' = "cold" /\ calls' = Notify("reset")
    /\ UNCHANGED <<running, cycles, activities, future, watched, countVars, durationVars, timerVars, idleFor>>

\* close(), abort() or a failure; what still runs is not reported any more.
Close ==
    /\ phase # "closed" /\ calls = <<>>
    /\ phase' = "closed" /\ running' = 0 /\ calls' = Notify("close")
    /\ UNCHANGED <<cycles, activities, future, watched, countVars, durationVars, timerVars, idleFor>>

\* The next step of the notification in progress.
NextCall ==
    /\ calls # <<>> /\ calls' = Tail(calls)
    /\ LET to == Head(calls).to
           event == Head(calls).event
       IN  \/ to = "composite" /\ event # "watch" /\ CompositeNotify(event)
           \/ event = "watch" /\ WatchChildren
           \/ to = "idle" /\ IdleNotify(event)
           \/ to = "count" /\ CountNotify(event)
           \/ event = "start_deferred" /\ StartDeferred(to)
           \/ event = "set_duration" /\ SetDuration(to, Head(calls).seconds)
           \/ /\ to \in Durations /\ event \notin {"start_deferred", "set_duration"}
              /\ DurationNotify(to, event)
    /\ UNCHANGED <<phase, running, cycles, activities>>

Older(age) == IF age = NotStarted \/ age = Horizon THEN age ELSE age + 1

Tick ==
    /\ \/ \E t \in timers : t.left > 0
       \/ \E d \in Durations : Older(startedAge[d]) # startedAge[d]
       \/ Older(idleFor) # idleFor
    /\ timers' = {[t EXCEPT !.left = IF @ > 0 THEN @ - 1 ELSE 0] : t \in timers}
    /\ startedAge' = [d \in Durations |-> Older(startedAge[d])]
    /\ idleFor' = Older(idleFor)
    /\ UNCHANGED <<sessionVars, future, watched, countVars, seconds, generation>>

\* Nothing is left to happen.
Ended == phase = "closed" /\ calls = <<>> /\ timers = {} /\ UNCHANGED vars

TimerStep == \E t \in timers : Fires(t) \/ Expires(t)

Next ==
    \/ StartVm \/ VmStarted \/ CheckDeadline \/ Finish \/ Save \/ Close
    \/ \E event \in {"command_started", "inspection_started"} : Admit(event)
    \/ NextCall \/ TimerStep \/ Tick \/ Ended

\* Clocks advance, a timer that is due fires, a callback gets the lock, and
\* the session finishes a notification it has begun.
Fairness == WF_vars(Tick) /\ WF_vars(TimerStep) /\ WF_vars(NextCall)

Spec == Init /\ [][Next]_vars /\ Fairness

-----------------------------------------------------------------------------
(* Properties.                                                             *)

TypeOK ==
    /\ phase \in {"cold", "starting", "configuring", "running", "closed"}
    /\ {running, cycles, activities, active, commandsStarted} \subseteq Nat
    /\ future \in [Policies -> {"pending", "done", "cancelled"}]
    /\ watched \subseteq Policies
    /\ seconds \in [Durations -> Seconds]
    /\ startedAge \in [Durations -> {NotStarted} \cup 0 .. Horizon]
    /\ generation \in [Timed -> Nat] /\ timers \subseteq TimerType
    /\ idleFor \in {NotStarted} \cup 0 .. Horizon

\* The idle policy asks for a snapshot only when it knows of no activity and
\* has known of none for its seconds, in this cycle: a callback that waited
\* for the lock while a command was admitted, or for a cycle to end, asks for
\* nothing (snapshot_policy.py:125-129).
IdleAsksWhenIdle ==
    [][future["idle"] = "pending" /\ future'["idle"] = "done"
         => idleFor >= IdleSeconds]_vars

\* A duration policy asks only when the VM of this cycle has lived for the
\* seconds that hold now, whatever was set before it started and whatever
\* timers earlier settings and cycles left (snapshot_policy.py:189-206).
LifetimeIsOver ==
    [][\A d \in Durations : future[d] = "pending" /\ future'[d] = "done"
         => startedAge[d] # NotStarted /\ startedAge[d] >= seconds'[d]]_vars

\* Between two notifications, a VM whose last activity has ended has a timer
\* that asks for its snapshot IdleSeconds after that end, and neither sooner
\* nor never: no order of admissions, ends and late callbacks loses it
\* (snapshot_policy.py:137-146).
IdleIsTimed ==
    calls = <<>> /\ future["idle"] = "pending" /\ idleFor # NotStarted
      => \E t \in timers : /\ t.policy = "idle" /\ Valid(t)
                            /\ IF idleFor < IdleSeconds THEN t.left = IdleSeconds - idleFor ELSE t.left = 0

\* The composite has decided exactly when one of its children has, in the
\* cycle that now runs: a reset in several steps misses no child and takes
\* nothing over from the cycle before (:249-266).
FirstDecisionWins ==
    calls = <<>> /\ phase # "closed"
      => (future["composite"] = "done" <=> \E i \in DOMAIN Children : future[Children[i]] = "done")

\* A VM does not outlive its lifetimes unnoticed: each duration policy asks
\* for a snapshot of every VM that keeps running (:149-216).
DeadlineArrives ==
    \A d \in Durations : phase = "running" ~> future[d] # "pending" \/ phase # "running"
=============================================================================
