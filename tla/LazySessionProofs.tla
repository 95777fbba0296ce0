-------------------------- MODULE LazySessionProofs -------------------------
(***************************************************************************)
(* Proofs about LazySession, for any number of calls: IInv is inductive,   *)
(* its parts proved one lemma each with one step per action; every safety  *)
(* property of the module follows from it, and a session is shown to       *)
(* implement SharedFilesystem.                                             *)
(***************************************************************************)
EXTENDS LazySession, SequenceTheorems, FiniteSetTheorems, TLAPS

USE CallersAssumption DEF Users, Boundaries, Callers

-----------------------------------------------------------------------------
(* Types                                                                   *)

\* What Spawned, Exited and Completion build are events of the stream.
LEMMA EventTypes ==
    /\ \A p \in Commands \cup {Main} : Spawned(p) \in Event
    /\ \A p \in Commands \cup {Main}, late \in BOOLEAN : Exited(p, late) \in Event
    /\ Completion \in Event
BY DEF Spawned, Exited, Completion, Event

\* operation.cancel() keeps the types of the server's state.
LEMMA CancelTypes ==
    ASSUME TypeServer, TypeEvents, CancelVm \/ CancelFails
    PROVE  TypeServer' /\ TypeEvents'
<1>1. TypeServer'
  BY DEF TypeServer, CancelVm, CancelFails, server
<1>2. Append(queue, Completion) \in Seq(Event)
  BY EventTypes DEF TypeEvents
<1>3. TypeEvents'
  BY <1>2 DEF TypeEvents, CancelVm, CancelFails, server
<1> QED BY <1>1, <1>3

\* So does the start of a VM on the tip's files.
LEMMA ServerStartTypes ==
    ASSUME TypeLazy, TypeServer, TypeSession, ServerStartsVm
    PROVE  TypeServer' /\ TypeEvents'
<1> DEFINE Entry == [parent : Nat, files : SUBSET Commands, torn : SUBSET Commands]
<1>1. snapshots + 1 \in Nat
  BY DEF TypeLazy
<1>2. history[tip].files \subseteq Commands
  <2>1. history \in Seq(Entry) /\ tip \in 1 .. Len(history)
    BY DEF TypeSession
  <2>2. history[tip] \in Entry
    <3> HIDE DEF Entry
    <3> QED BY <2>1, ElementOfSeq
  <2> QED BY <2>2
<1>3. TypeServer'
  BY <1>1, <1>2 DEF TypeServer, ServerStartsVm
<1>4. TypeEvents'
  <2>1. Spawned(Main) \in Event
    BY EventTypes
  <2>2. <<Spawned(Main)>> \in Seq(Event)
    BY <2>1
  <2> QED BY <2>2 DEF TypeEvents, ServerStartsVm
<1> QED BY <1>3, <1>4

\* What the reader takes from the stream is an event.
LEMMA ReadTypes ==
    TypeEvents /\ queue # <<>> => Head(queue) \in Event /\ Tail(queue) \in Seq(Event)
BY DEF TypeEvents

\* Every step keeps the types.
LEMMA TypeStep == TypeOK /\ HistoryGrows /\ [Next]_vars => TypeOK'
<1> SUFFICES ASSUME TypeOK, HistoryGrows, [Next]_vars PROVE TypeOK'
  OBVIOUS
<1> USE DEF TypeOK
<1>1. ASSUME NEW c \in Users, Refused(c) PROVE TypeOK'
  <2>1. TypeWrapper'
    BY <1>1 DEF TypeWrapper, Refused, Enters, Leaves, most, wrapper
  <2>2. TypeCalls'
    BY <1>1 DEF TypeCalls, Refused, Enters, Leaves, asking, Go
  <2>3. TypeFlags' /\ TypeLazy' /\ TypePolicy' /\ TypeReader' /\ TypeServer' /\ TypeEvents' /\ TypeSession'
    BY <1>1 DEF TypeFlags, TypeLazy, TypePolicy, TypeReader, TypeServer, TypeEvents,
                TypeSession, Refused, still, most, asking, state, wrapper, outside, policy,
                reader, server, session
  <2> QED BY <2>1, <2>2, <2>3
<1>2. ASSUME NEW c \in Users, StartVm(c) PROVE TypeOK'
  <2>1. TypeFlags'
    BY <1>2 DEF TypeFlags, StartVm, CheckOk, PolicyReset
  <2>2. TypeLazy'
    BY <1>2 DEF TypeLazy, Phases, StartVm, CheckOk
  <2>3. TypeWrapper'
    BY <1>2 DEF TypeWrapper, StartVm, Enters, Leaves, wrapper
  <2>4. TypePolicy'
    BY <1>2 DEF TypePolicy, StartVm, PolicyReset
  <2>5. TypeCalls'
    BY <1>2 DEF TypeCalls, StartVm, Enters, Leaves, asking, Go
  <2>6. TypeReader' /\ TypeServer' /\ TypeEvents' /\ TypeSession'
    BY <1>2 DEF TypeReader, TypeServer, TypeEvents, TypeSession, StartVm, wrapper, reader,
                server, session, asking
  <2> QED BY <2>1, <2>2, <2>3, <2>4, <2>5, <2>6
<1>3. ASSUME NEW c \in Users, VmStarted(c) PROVE TypeOK'
  <2>1. TypeFlags'
    BY <1>3 DEF TypeFlags, VmStarted, state
  <2>2. TypeLazy'
    BY <1>3 DEF TypeLazy, Phases, VmStarted, ServerStartsVm, state
  <2>3. TypeWrapper'
    BY <1>3 DEF TypeWrapper, TypeLazy, VmStarted
  <2>4. TypeReader'
    BY <1>3 DEF TypeReader, VmStarted
  <2>5. TypeServer' /\ TypeEvents'
    BY <1>3, ServerStartTypes DEF VmStarted
  <2>6. TypeSession'
    BY <1>3 DEF TypeSession, HistoryGrows, VmStarted, ServerStartsVm
  <2>7. TypeCalls'
    BY <1>3 DEF TypeCalls, VmStarted, Go, asking
  <2>8. TypePolicy'
    BY <1>3 DEF TypePolicy, VmStarted, state, asking
  <2> QED BY <2>1, <2>2, <2>3, <2>4, <2>5, <2>6, <2>7, <2>8
<1>4. ASSUME NEW c \in Users, StartFails(c) PROVE TypeOK'
  <2>1. TypeFlags'
    BY <1>4 DEF TypeFlags, StartFails, Fail, Notify, state, policy
  <2>2. TypeLazy'
    BY <1>4 DEF TypeLazy, Phases, StartFails, ServerStartsVm, Fail, state
  <2>3. TypeWrapper'
    BY <1>4 DEF TypeWrapper, TypeLazy, StartFails, Notify, Waiting
  <2>4. TypeReader'
    BY <1>4 DEF TypeReader, StartFails
  <2>5. TypeServer' /\ TypeEvents'
    <3>1. CASE UNCHANGED server
      BY <3>1 DEF TypeServer, TypeEvents, server
    <3>2. CASE ServerStartsVm
      BY <3>2, ServerStartTypes
    <3> QED BY <1>4, <3>1, <3>2 DEF StartFails
  <2>6. TypeSession'
    BY <1>4 DEF TypeSession, HistoryGrows, StartFails, ServerStartsVm
  <2>7. TypeCalls'
    BY <1>4 DEF TypeCalls, StartFails, Waiting, Go, asking
  <2>8. TypePolicy'
    BY <1>4 DEF TypePolicy, StartFails, server, state, policy, asking
  <2> QED BY <2>1, <2>2, <2>3, <2>4, <2>5, <2>6, <2>7, <2>8
<1>5. ASSUME NEW c \in Users, Joins(c) PROVE TypeOK'
  <2>1. TypeWrapper'
    BY <1>5 DEF TypeWrapper, Joins, Enters, Leaves, most, wrapper
  <2>2. TypeCalls'
    BY <1>5 DEF TypeCalls, Joins, Enters, Leaves, asking, Go
  <2>3. TypeFlags' /\ TypeLazy' /\ TypePolicy' /\ TypeReader' /\ TypeServer' /\ TypeEvents' /\ TypeSession'
    BY <1>5 DEF TypeFlags, TypeLazy, TypePolicy, TypeReader, TypeServer, TypeEvents,
                TypeSession, Joins, still, most, asking, state, wrapper, outside, policy,
                reader, server, session
  <2> QED BY <2>1, <2>2, <2>3
<1>6. ASSUME NEW c \in Users, WaitsForSnapshot(c) PROVE TypeOK'
  <2>1. TypeFlags'
    BY <1>6 DEF TypeFlags, WaitsForSnapshot, CheckOk, Notify, state, most, outside, policy
  <2>2. TypeLazy'
    BY <1>6 DEF TypeLazy, Phases, WaitsForSnapshot, CheckOk, state
  <2>3. TypeWrapper'
    BY <1>6 DEF TypeWrapper, WaitsForSnapshot, Enters, Notify, Waiting, most, wrapper
  <2>4. TypeCalls'
    BY <1>6 DEF TypeCalls, WaitsForSnapshot, Enters, Waiting, Go, asking
  <2>5. TypePolicy' /\ TypeReader' /\ TypeServer' /\ TypeEvents' /\ TypeSession'
    BY <1>6 DEF TypePolicy, TypeReader, TypeServer, TypeEvents, TypeSession, WaitsForSnapshot,
                state, most, asking, wrapper, outside, policy, reader, server, session
  <2> QED BY <2>1, <2>2, <2>3, <2>4, <2>5
<1>7. ASSUME NEW c \in Users, PolicyBreaks(c) PROVE TypeOK'
  <2>1. TypeFlags'
    BY <1>7 DEF TypeFlags, PolicyBreaks, CheckOk, Fail, Notify, state, most, outside, policy
  <2>2. TypeLazy'
    BY <1>7 DEF TypeLazy, Phases, PolicyBreaks, CheckOk, Fail, state
  <2>3. TypeWrapper'
    BY <1>7 DEF TypeWrapper, PolicyBreaks, Enters, Notify, Waiting, most, wrapper
  <2>4. TypeCalls'
    BY <1>7 DEF TypeCalls, PolicyBreaks, Enters, Waiting, Go, asking
  <2>5. TypePolicy' /\ TypeReader' /\ TypeServer' /\ TypeEvents' /\ TypeSession'
    BY <1>7 DEF TypePolicy, TypeReader, TypeServer, TypeEvents, TypeSession, PolicyBreaks,
                state, most, asking, wrapper, outside, policy, reader, server, session
  <2> QED BY <2>1, <2>2, <2>3, <2>4, <2>5
<1>8. ASSUME NEW c \in Users, Abandon(c) PROVE TypeOK'
  <2>1. TypeFlags'
    BY <1>8 DEF TypeFlags, Abandon, PolicyClose, policy, still, wake, PolicyReset, state
  <2>2. TypePolicy'
    BY <1>8 DEF TypePolicy, Abandon, PolicyClose, policy, PolicyReset
  <2>3. TypeServer' /\ TypeEvents'
    <3>1. CASE UNCHANGED server
      BY <3>1 DEF TypeServer, TypeEvents, server
    <3>2. CASE CancelVm \/ CancelFails
      BY <3>2, CancelTypes
    <3> QED BY <1>8, <3>1, <3>2 DEF Abandon
  <2>4. TypeCalls'
    BY <1>8 DEF TypeCalls, Abandon, Go, asking
  <2>5. TypeLazy' /\ TypeWrapper' /\ TypeReader' /\ TypeSession'
    BY <1>8 DEF TypeLazy, TypeWrapper, TypeReader, TypeSession, Abandon, policy, server, still,
                wake, wrapper, reader, session, asking, state
  <2> QED BY <2>1, <2>2, <2>3, <2>4, <2>5
<1>9. ASSUME NEW c \in Commands, FilesFail(c) PROVE TypeOK'
  <2>1. TypeWrapper'
    BY <1>9 DEF TypeWrapper, FilesFail, wake, most, wrapper
  <2>2. TypeCalls'
    BY <1>9 DEF TypeCalls, FilesFail, Go, asking
  <2>3. TypeFlags' /\ TypeLazy' /\ TypePolicy' /\ TypeReader' /\ TypeServer' /\ TypeEvents' /\ TypeSession'
    BY <1>9 DEF TypeFlags, TypeLazy, TypePolicy, TypeReader, TypeServer, TypeEvents,
                TypeSession, FilesFail, still, wake, most, asking, state, wrapper, outside,
                policy, reader, server, session
  <2> QED BY <2>1, <2>2, <2>3
<1>10. ASSUME NEW c \in Commands, Reserve(c) PROVE TypeOK'
  <2>1. TypeFlags'
    BY <1>10 DEF TypeFlags, Reserve, ActivityStarted, wake
  <2>2. TypeLazy'
    BY <1>10 DEF TypeLazy, Phases, Reserve
  <2>3. TypePolicy'
    BY <1>10 DEF TypePolicy, Reserve, ActivityStarted
  <2>4. TypeCalls'
    BY <1>10 DEF TypeCalls, Reserve, Go, asking
  <2>5. TypeWrapper' /\ TypeReader' /\ TypeServer' /\ TypeEvents' /\ TypeSession'
    BY <1>10 DEF TypeWrapper, TypeReader, TypeServer, TypeEvents, TypeSession, Reserve, wake,
                 wrapper, reader, server, session, asking
  <2> QED BY <2>1, <2>2, <2>3, <2>4, <2>5
<1>11. ASSUME NEW c \in Commands, ServerCreates(c) PROVE TypeOK'
  <2>1. TypeServer'
    BY <1>11 DEF TypeServer, ServerCreates, HasRun
  <2>2. TypeFlags' /\ TypeLazy' /\ TypeWrapper' /\ TypePolicy' /\ TypeReader' /\ TypeEvents' /\ TypeSession' /\ TypeCalls'
    BY <1>11 DEF TypeFlags, TypeLazy, TypeWrapper, TypePolicy, TypeReader, TypeEvents,
                 TypeSession, TypeCalls, ServerCreates, still, wake, wrapper, policy, reader,
                 session, calls, state
  <2> QED BY <2>1, <2>2
<1>12. ASSUME NEW c \in Commands, Created(c) PROVE TypeOK'
  <2>1. TypeFlags'
    BY <1>12 DEF TypeFlags, Created, Notify, most, outside, policy
  <2>2. TypeLazy'
    BY <1>12 DEF TypeLazy, Phases, Created
  <2>3. TypeWrapper'
    BY <1>12 DEF TypeWrapper, Created, Notify, Waiting, most, wrapper
  <2>4. TypeCalls'
    BY <1>12 DEF TypeCalls, Created, Waiting, Go, asking
  <2>5. TypePolicy' /\ TypeReader' /\ TypeServer' /\ TypeEvents' /\ TypeSession'
    BY <1>12 DEF TypePolicy, TypeReader, TypeServer, TypeEvents, TypeSession, Created, most,
                 asking, wrapper, outside, policy, reader, server, session
  <2> QED BY <2>1, <2>2, <2>3, <2>4, <2>5
<1>13. ASSUME NEW c \in Commands, CreateFails(c) PROVE TypeOK'
  <2>1. TypeFlags'
    BY <1>13 DEF TypeFlags, CreateFails, Fail, Notify, most, outside, policy
  <2>2. TypeLazy'
    BY <1>13 DEF TypeLazy, Phases, CreateFails, Fail
  <2>3. TypeWrapper'
    BY <1>13 DEF TypeWrapper, CreateFails, Notify, Waiting, most, wrapper
  <2>4. TypeCalls'
    BY <1>13 DEF TypeCalls, CreateFails, Waiting, Go, asking
  <2>5. TypePolicy' /\ TypeReader' /\ TypeServer' /\ TypeEvents' /\ TypeSession'
    BY <1>13 DEF TypePolicy, TypeReader, TypeServer, TypeEvents, TypeSession, CreateFails, most,
                 asking, wrapper, outside, policy, reader, server, session
  <2> QED BY <2>1, <2>2, <2>3, <2>4, <2>5
<1>14. ASSUME NEW c \in Commands, ReturnResult(c) PROVE TypeOK'
  <2>1. TypeCalls'
    BY <1>14 DEF TypeCalls, ReturnResult, Go, asking
  <2>2. TypeFlags' /\ TypeLazy' /\ TypeWrapper' /\ TypePolicy' /\ TypeReader' /\ TypeServer' /\ TypeEvents' /\ TypeSession'
    BY <1>14 DEF TypeFlags, TypeLazy, TypeWrapper, TypePolicy, TypeReader, TypeServer,
                 TypeEvents, TypeSession, ReturnResult, still, wake, most, asking, state,
                 wrapper, outside, policy, reader, server, session
  <2> QED BY <2>1, <2>2
<1>15. ASSUME NEW c \in Commands, AwaitFails(c) PROVE TypeOK'
  <2>1. TypeServer'
    BY <1>15 DEF TypeServer, AwaitFails, server
  <2>2. TypeEvents'
    <3>1. Exited(c, FALSE) \in Event
      BY EventTypes
    <3>2. Append(queue, Exited(c, FALSE)) \in Seq(Event)
      BY <3>1, AppendProperties, Zenon DEF TypeEvents
    <3> QED BY <1>15, <3>2 DEF TypeEvents, AwaitFails, server
  <2>3. TypeCalls'
    BY <1>15 DEF TypeCalls, AwaitFails, Go, asking
  <2>4. TypeFlags' /\ TypeLazy' /\ TypeWrapper' /\ TypePolicy' /\ TypeReader' /\ TypeSession'
    BY <1>15 DEF TypeFlags, TypeLazy, TypeWrapper, TypePolicy, TypeReader, TypeSession,
                 AwaitFails, server, still, wake, wrapper, policy, reader, session, asking,
                 state
  <2> QED BY <2>1, <2>2, <2>3, <2>4
<1>16. ASSUME NEW c \in Inspections, InspectsImage(c) PROVE TypeOK'
  <2>1. TypeWrapper'
    BY <1>16 DEF TypeWrapper, InspectsImage, Enters, Leaves, most, wrapper
  <2>2. TypeCalls'
    BY <1>16 DEF TypeCalls, InspectsImage, Enters, Leaves, asking, Go
  <2>3. TypeFlags' /\ TypeLazy' /\ TypePolicy' /\ TypeReader' /\ TypeServer' /\ TypeEvents' /\ TypeSession'
    BY <1>16 DEF TypeFlags, TypeLazy, TypePolicy, TypeReader, TypeServer, TypeEvents,
                 TypeSession, InspectsImage, still, most, asking, state, wrapper, outside,
                 policy, reader, server, session
  <2> QED BY <2>1, <2>2, <2>3
<1>17. ASSUME NEW c \in Inspections, HoldsVm(c) PROVE TypeOK'
  <2>1. TypeFlags'
    BY <1>17 DEF TypeFlags, HoldsVm, ActivityStarted
  <2>2. TypeLazy'
    BY <1>17 DEF TypeLazy, Phases, HoldsVm
  <2>3. TypeWrapper'
    BY <1>17 DEF TypeWrapper, HoldsVm, wrapper
  <2>4. TypePolicy'
    BY <1>17 DEF TypePolicy, HoldsVm, ActivityStarted
  <2>5. TypeCalls'
    BY <1>17 DEF TypeCalls, HoldsVm, Go, asking
  <2>6. TypeReader' /\ TypeServer' /\ TypeEvents' /\ TypeSession'
    BY <1>17 DEF TypeReader, TypeServer, TypeEvents, TypeSession, HoldsVm, wrapper, reader,
                 server, session, asking
  <2> QED BY <2>1, <2>2, <2>3, <2>4, <2>5, <2>6
<1>18. ASSUME NEW c \in Inspections, ReadyToInspect(c) PROVE TypeOK'
  <2>1. TypeWrapper'
    BY <1>18 DEF TypeWrapper, ReadyToInspect, Wakes, Leaves, most, wrapper
  <2>2. TypeCalls'
    BY <1>18 DEF TypeCalls, ReadyToInspect, Wakes, Leaves, asking, Go
  <2>3. TypeFlags' /\ TypeLazy' /\ TypePolicy' /\ TypeReader' /\ TypeServer' /\ TypeEvents' /\ TypeSession'
    BY <1>18 DEF TypeFlags, TypeLazy, TypePolicy, TypeReader, TypeServer, TypeEvents,
                 TypeSession, ReadyToInspect, still, most, asking, state, wrapper, outside,
                 policy, reader, server, session
  <2> QED BY <2>1, <2>2, <2>3
<1>19. ASSUME NEW c \in Inspections, ReadyFails(c) PROVE TypeOK'
  <2>1. TypeWrapper'
    BY <1>19 DEF TypeWrapper, ReadyFails, Leaves, most, wrapper
  <2>2. TypeCalls'
    BY <1>19 DEF TypeCalls, ReadyFails, Leaves, asking, Go
  <2>3. TypeFlags' /\ TypeLazy' /\ TypePolicy' /\ TypeReader' /\ TypeServer' /\ TypeEvents' /\ TypeSession'
    BY <1>19 DEF TypeFlags, TypeLazy, TypePolicy, TypeReader, TypeServer, TypeEvents,
                 TypeSession, ReadyFails, still, most, asking, state, wrapper, outside, policy,
                 reader, server, session
  <2> QED BY <2>1, <2>2, <2>3
<1>20. ASSUME NEW c \in Inspections, ReleaseInspection(c) PROVE TypeOK'
  <2>1. TypeFlags'
    BY <1>20 DEF TypeFlags, ReleaseInspection, InspectionFinished, Notify, policy,
                 ActivityFinished
  <2>2. TypeLazy'
    BY <1>20 DEF TypeLazy, Phases, ReleaseInspection, InspectionFinished
  <2>3. TypeWrapper'
    BY <1>20 DEF TypeWrapper, ReleaseInspection, Notify, Waiting, wrapper
  <2>4. TypePolicy'
    BY <1>20 DEF TypePolicy, ReleaseInspection, InspectionFinished, policy, ActivityFinished
  <2>5. TypeCalls'
    BY <1>20 DEF TypeCalls, ReleaseInspection, Waiting, Go, asking
  <2>6. TypeReader' /\ TypeServer' /\ TypeEvents' /\ TypeSession'
    BY <1>20 DEF TypeReader, TypeServer, TypeEvents, TypeSession, ReleaseInspection, wrapper,
                 reader, server, session, asking, policy
  <2> QED BY <2>1, <2>2, <2>3, <2>4, <2>5, <2>6
<1>21. ASSUME NEW c \in Snapshots, SnapshotReturns(c) PROVE TypeOK'
  <2>1. TypeCalls'
    BY <1>21 DEF TypeCalls, SnapshotReturns, Go, Asks
  <2>2. TypeFlags' /\ TypeLazy' /\ TypeWrapper' /\ TypePolicy' /\ TypeReader' /\ TypeServer' /\ TypeEvents' /\ TypeSession'
    BY <1>21 DEF TypeFlags, TypeLazy, TypeWrapper, TypePolicy, TypeReader, TypeServer,
                 TypeEvents, TypeSession, SnapshotReturns, still, wake, most, state, wrapper,
                 outside, policy, reader, server, session
  <2> QED BY <2>1, <2>2
<1>22. ASSUME NEW c \in Snapshots, SnapshotAsks(c) PROVE TypeOK'
  <2>1. TypeFlags'
    BY <1>22 DEF TypeFlags, SnapshotAsks, CheckOk, Notify, state, most, outside, policy
  <2>2. TypeLazy'
    BY <1>22 DEF TypeLazy, Phases, SnapshotAsks, CheckOk, NothingToSave, state
  <2>3. TypeWrapper'
    BY <1>22 DEF TypeWrapper, SnapshotAsks, Notify, Waiting, most, wrapper
  <2>4. TypeCalls'
    <3>1. pc' \in [Callers -> {"idle", "waiting", "starting", "admitted", "creating", "running",
                              "readying", "serving", "unwinding", "abandon", "aborting",
                              "closing", "cancelling", "joining", "done", "raised"}]
      BY <1>22 DEF TypeCalls, SnapshotAsks, Go
    <3>2. seen' \in [Snapshots -> Nat]
      BY <1>22 DEF TypeCalls, TypeLazy, SnapshotAsks
    <3>3. asked' \in [Snapshots -> SUBSET Commands]
      BY <1>22 DEF TypeCalls, SnapshotAsks, Asks
    <3> QED BY <3>1, <3>2, <3>3 DEF TypeCalls
  <2>5. TypePolicy' /\ TypeReader' /\ TypeServer' /\ TypeEvents' /\ TypeSession'
    BY <1>22 DEF TypePolicy, TypeReader, TypeServer, TypeEvents, TypeSession, SnapshotAsks,
                 state, most, wrapper, outside, policy, reader, server, session
  <2> QED BY <2>1, <2>2, <2>3, <2>4, <2>5
<1>23. ASSUME NEW c \in Snapshots, SnapshotAnswers(c) PROVE TypeOK'
  <2>1. TypeWrapper'
    BY <1>23 DEF TypeWrapper, SnapshotAnswers, Wakes, Leaves, most, wrapper
  <2>2. TypeCalls'
    BY <1>23 DEF TypeCalls, SnapshotAnswers, Wakes, SnapshotIsOver, Leaves, asking, Go
  <2>3. TypeFlags' /\ TypeLazy' /\ TypePolicy' /\ TypeReader' /\ TypeServer' /\ TypeEvents' /\ TypeSession'
    BY <1>23 DEF TypeFlags, TypeLazy, TypePolicy, TypeReader, TypeServer, TypeEvents,
                 TypeSession, SnapshotAnswers, still, most, asking, state, wrapper, outside,
                 policy, reader, server, session
  <2> QED BY <2>1, <2>2, <2>3
<1>24. ASSUME NEW c \in Closes, CloseAsks(c) PROVE TypeOK'
  <2>1. TypeFlags'
    BY <1>24 DEF TypeFlags, CloseAsks, wake, policy, PolicyClose, Notify, PolicyReset
  <2>2. TypeLazy'
    BY <1>24 DEF TypeLazy, Phases, CloseAsks, ClosingPhase
  <2>3. TypeWrapper'
    BY <1>24 DEF TypeWrapper, CloseAsks, wake, Notify, Waiting, wrapper
  <2>4. TypePolicy'
    BY <1>24 DEF TypePolicy, CloseAsks, policy, PolicyClose, PolicyReset
  <2>5. TypeCalls'
    BY <1>24 DEF TypeCalls, CloseAsks, Go, Waiting, asking
  <2>6. TypeReader' /\ TypeServer' /\ TypeEvents' /\ TypeSession'
    BY <1>24 DEF TypeReader, TypeServer, TypeEvents, TypeSession, CloseAsks, wake, policy,
                 wrapper, reader, server, session, asking
  <2> QED BY <2>1, <2>2, <2>3, <2>4, <2>5, <2>6
<1>25. ASSUME NEW c \in Closes, CloseAnswers(c) PROVE TypeOK'
  <2>1. TypeWrapper'
    BY <1>25 DEF TypeWrapper, CloseAnswers, Wakes, Leaves, most, wrapper
  <2>2. TypeCalls'
    BY <1>25 DEF TypeCalls, CloseAnswers, Wakes, Leaves, asking, Go
  <2>3. TypeFlags' /\ TypeLazy' /\ TypePolicy' /\ TypeReader' /\ TypeServer' /\ TypeEvents' /\ TypeSession'
    BY <1>25 DEF TypeFlags, TypeLazy, TypePolicy, TypeReader, TypeServer, TypeEvents,
                 TypeSession, CloseAnswers, still, most, asking, state, wrapper, outside,
                 policy, reader, server, session
  <2> QED BY <2>1, <2>2, <2>3
<1>26. ASSUME NEW c \in Closes, CloseReturns(c) PROVE TypeOK'
  <2>1. TypeCalls'
    BY <1>26 DEF TypeCalls, CloseReturns, Go, asking
  <2>2. TypeFlags' /\ TypeLazy' /\ TypeWrapper' /\ TypePolicy' /\ TypeReader' /\ TypeServer' /\ TypeEvents' /\ TypeSession'
    BY <1>26 DEF TypeFlags, TypeLazy, TypeWrapper, TypePolicy, TypeReader, TypeServer,
                 TypeEvents, TypeSession, CloseReturns, still, wake, most, asking, state,
                 wrapper, outside, policy, reader, server, session
  <2> QED BY <2>1, <2>2
<1>27. ASSUME NEW c \in Aborts \cup Closes, AbortWaits(c) PROVE TypeOK'
  <2>1. TypeCalls'
    BY <1>27 DEF TypeCalls, AbortWaits, Go, asking
  <2>2. TypeFlags' /\ TypeLazy' /\ TypeWrapper' /\ TypePolicy' /\ TypeReader' /\ TypeServer' /\ TypeEvents' /\ TypeSession'
    BY <1>27 DEF TypeFlags, TypeLazy, TypeWrapper, TypePolicy, TypeReader, TypeServer,
                 TypeEvents, TypeSession, AbortWaits, still, wake, most, asking, state, wrapper,
                 outside, policy, reader, server, session
  <2> QED BY <2>1, <2>2
<1>28. ASSUME NEW c \in Aborts \cup Closes, AbortEnds(c) PROVE TypeOK'
  <2>1. TypeFlags'
    BY <1>28 DEF TypeFlags, AbortEnds, PolicyClose, Notify, PolicyReset
  <2>2. TypeLazy'
    BY <1>28 DEF TypeLazy, Phases, AbortEnds
  <2>3. TypeWrapper'
    BY <1>28 DEF TypeWrapper, AbortEnds, Enters, Notify, Waiting, wrapper
  <2>4. TypePolicy'
    BY <1>28 DEF TypePolicy, AbortEnds, PolicyClose, PolicyReset
  <2>5. TypeCalls'
    BY <1>28 DEF TypeCalls, AbortEnds, Enters, Waiting, Go, asking
  <2>6. TypeReader' /\ TypeServer' /\ TypeEvents' /\ TypeSession'
    BY <1>28 DEF TypeReader, TypeServer, TypeEvents, TypeSession, AbortEnds, wrapper, reader,
                 server, session, asking
  <2> QED BY <2>1, <2>2, <2>3, <2>4, <2>5, <2>6
<1>29. ASSUME NEW c \in Aborts \cup Closes, AbortCancels(c) PROVE TypeOK'
  <2>1. TypeServer' /\ TypeEvents'
    BY <1>29, CancelTypes DEF AbortCancels
  <2>2. TypeCalls'
    BY <1>29 DEF TypeCalls, AbortCancels, Go, asking
  <2>3. TypeFlags' /\ TypeLazy' /\ TypeWrapper' /\ TypePolicy' /\ TypeReader' /\ TypeSession'
    BY <1>29 DEF TypeFlags, TypeLazy, TypeWrapper, TypePolicy, TypeReader, TypeSession,
                 AbortCancels, still, wake, wrapper, policy, reader, session, asking, server,
                 state
  <2> QED BY <2>1, <2>2, <2>3
<1>30. ASSUME NEW c \in Aborts \cup Closes, JoinsWorker(c) PROVE TypeOK'
  <2>1. TypeCalls'
    BY <1>30 DEF TypeCalls, JoinsWorker, Go, asking
  <2>2. TypeFlags' /\ TypeLazy' /\ TypeWrapper' /\ TypePolicy' /\ TypeReader' /\ TypeServer' /\ TypeEvents' /\ TypeSession'
    BY <1>30 DEF TypeFlags, TypeLazy, TypeWrapper, TypePolicy, TypeReader, TypeServer,
                 TypeEvents, TypeSession, JoinsWorker, still, wake, most, asking, state,
                 wrapper, outside, policy, reader, server, session
  <2> QED BY <2>1, <2>2
<1>31. ASSUME NEW c \in Rollbacks, Rollback(c) PROVE TypeOK'
  <2>1. TypeSession'
    BY <1>31 DEF TypeSession, HistoryGrows, Rollback, HasParent
  <2>2. TypeCalls'
    BY <1>31 DEF TypeCalls, Rollback, Go, asking
  <2>3. TypeFlags' /\ TypeLazy' /\ TypeWrapper' /\ TypePolicy' /\ TypeReader' /\ TypeServer' /\ TypeEvents'
    BY <1>31 DEF TypeFlags, TypeLazy, TypeWrapper, TypePolicy, TypeReader, TypeServer,
                 TypeEvents, Rollback, still, wake, wrapper, policy, reader, server, asking,
                 state
  <2> QED BY <2>1, <2>2, <2>3
<1>32. ASSUME NEW c \in Callers, GivesUp(c) PROVE TypeOK'
  <2>1. TypeWrapper'
    BY <1>32 DEF TypeWrapper, GivesUp, Leaves, most, wrapper
  <2>2. TypeCalls'
    BY <1>32 DEF TypeCalls, GivesUp, Leaves, asking, Go
  <2>3. TypeFlags' /\ TypeLazy' /\ TypePolicy' /\ TypeReader' /\ TypeServer' /\ TypeEvents' /\ TypeSession'
    BY <1>32 DEF TypeFlags, TypeLazy, TypePolicy, TypeReader, TypeServer, TypeEvents,
                 TypeSession, GivesUp, still, most, asking, state, wrapper, outside, policy,
                 reader, server, session
  <2> QED BY <2>1, <2>2, <2>3
<1>33. ASSUME NEW c \in Callers, WaitsAgain(c) PROVE TypeOK'
  <2>1. TypeWrapper'
    BY <1>33 DEF TypeWrapper, WaitsAgain, most, wrapper
  <2>2. TypeFlags' /\ TypeLazy' /\ TypePolicy' /\ TypeReader' /\ TypeServer' /\ TypeEvents' /\ TypeSession' /\ TypeCalls'
    BY <1>33 DEF TypeFlags, TypeLazy, TypePolicy, TypeReader, TypeServer, TypeEvents,
                 TypeSession, TypeCalls, WaitsAgain, still, most, calls, state, wrapper,
                 outside, policy, reader, server, session
  <2> QED BY <2>1, <2>2
<1>34. ASSUME ObserveSpawn PROVE TypeOK'
  <2>1. TypeFlags'
    BY <1>34 DEF TypeFlags, ObserveSpawn, Reads, ObserverPasses, policy, Notify
  <2>2. TypeLazy'
    BY <1>34 DEF TypeLazy, Phases, ObserveSpawn, ObserverPasses
  <2>3. TypeWrapper'
    BY <1>34 DEF TypeWrapper, ObserveSpawn, Reads, wrapper, Notify, Waiting
  <2>4. TypeReader'
    BY <1>34 DEF TypeReader, ObserveSpawn, Reads, ObserverPasses, reader
  <2>5. TypeEvents'
    BY <1>34 DEF TypeEvents, Event, ObserveSpawn, Reads
  <2>6. TypePolicy' /\ TypeServer' /\ TypeSession' /\ TypeCalls'
    BY <1>34 DEF TypePolicy, TypeServer, TypeSession, TypeCalls, ObserveSpawn, wrapper, policy,
                 session, calls, reader
  <2> QED BY <2>1, <2>2, <2>3, <2>4, <2>5, <2>6
<1>35. ASSUME ObserveExit PROVE TypeOK'
  <2>1. TypeFlags'
    BY <1>35 DEF TypeFlags, ObserveExit, Reads, ActivityFinished, policy, Notify
  <2>2. TypeLazy'
    <3>1. Head(queue).spid \in Commands \cup {Main}
      BY <1>35, ReadTypes DEF ObserveExit, Reads, Event
    <3> QED BY <1>35, <3>1 DEF TypeLazy, ObserveExit
  <2>3. TypeWrapper'
    BY <1>35 DEF TypeWrapper, ObserveExit, Reads, wrapper, Notify, Waiting
  <2>4. TypePolicy'
    BY <1>35 DEF TypePolicy, ObserveExit, ActivityFinished, policy
  <2>5. TypeReader'
    <3>1. Head(queue).spid \in Commands \cup {Main}
      BY <1>35, ReadTypes DEF ObserveExit, Reads, Event
    <3> QED BY <1>35, <3>1 DEF TypeReader, ObserveExit
  <2>6. TypeEvents'
    BY <1>35 DEF TypeEvents, Event, ObserveExit, Reads
  <2>7. TypeServer' /\ TypeSession' /\ TypeCalls'
    BY <1>35 DEF TypeServer, TypeSession, TypeCalls, ObserveExit, policy, wrapper, session,
                 calls
  <2> QED BY <2>1, <2>2, <2>3, <2>4, <2>5, <2>6, <2>7
<1>36. ASSUME ObserveMainExit PROVE TypeOK'
  <2>1. TypeFlags'
    BY <1>36 DEF TypeFlags, ObserveMainExit, Reads, ObserverRaises, ObserverPasses, state,
                 policy, Notify, Fail
  <2>2. TypeLazy'
    BY <1>36 DEF TypeLazy, Phases, ObserveMainExit, ObserverRaises, ObserverPasses, state, Fail
  <2>3. TypeWrapper'
    BY <1>36 DEF TypeWrapper, ObserveMainExit, Reads, wrapper, Notify, Waiting
  <2>4. TypeReader'
    BY <1>36 DEF TypeReader, ObserveMainExit, Reads, ObserverRaises, ObserverPasses, reader
  <2>5. TypeEvents'
    BY <1>36 DEF TypeEvents, Event, ObserveMainExit, Reads
  <2>6. TypePolicy' /\ TypeServer' /\ TypeSession' /\ TypeCalls'
    BY <1>36 DEF TypePolicy, TypeServer, TypeSession, TypeCalls, ObserveMainExit, state,
                 wrapper, policy, session, calls, reader
  <2> QED BY <2>1, <2>2, <2>3, <2>4, <2>5, <2>6
<1>37. ASSUME ObserveCompletion PROVE TypeOK'
  <2>1. TypeFlags'
    BY <1>37 DEF TypeFlags, ObserveCompletion, Reads, ObserverRaises, policy, Notify, Fail
  <2>2. TypeLazy'
    BY <1>37 DEF TypeLazy, Phases, ObserveCompletion, ObserverRaises, Fail
  <2>3. TypeWrapper'
    BY <1>37 DEF TypeWrapper, ObserveCompletion, Reads, wrapper, Notify, Waiting
  <2>4. TypeReader'
    BY <1>37 DEF TypeReader, ObserveCompletion, Reads, ObserverRaises
  <2>5. TypeEvents'
    BY <1>37 DEF TypeEvents, Event, ObserveCompletion, Reads
  <2>6. TypePolicy' /\ TypeServer' /\ TypeSession' /\ TypeCalls'
    BY <1>37 DEF TypePolicy, TypeServer, TypeSession, TypeCalls, ObserveCompletion, wrapper,
                 policy, session, calls
  <2> QED BY <2>1, <2>2, <2>3, <2>4, <2>5, <2>6
<1>38. ASSUME ReaderEnds PROVE TypeOK'
  <2>1. TypeFlags'
    BY <1>38 DEF TypeFlags, ReaderEnds, Notify, Fail, state, policy
  <2>2. TypeLazy'
    BY <1>38 DEF TypeLazy, Phases, ReaderEnds, Fail, state
  <2>3. TypeWrapper'
    BY <1>38 DEF TypeWrapper, ReaderEnds, Notify, Waiting, wrapper
  <2>4. TypeReader'
    BY <1>38 DEF TypeReader, ReaderEnds
  <2>5. TypePolicy' /\ TypeServer' /\ TypeEvents' /\ TypeSession' /\ TypeCalls'
    BY <1>38 DEF TypePolicy, TypeServer, TypeEvents, TypeSession, TypeCalls, ReaderEnds,
                 session, state, wrapper, policy, server, calls
  <2> QED BY <2>1, <2>2, <2>3, <2>4, <2>5
<1>39. ASSUME StreamBreaks PROVE TypeOK'
  <2>1. TypeReader'
    BY <1>39 DEF TypeReader, StreamBreaks
  <2>2. TypeFlags' /\ TypeLazy' /\ TypeWrapper' /\ TypePolicy' /\ TypeServer' /\ TypeEvents' /\ TypeSession' /\ TypeCalls'
    BY <1>39 DEF TypeFlags, TypeLazy, TypeWrapper, TypePolicy, TypeServer, TypeEvents,
                 TypeSession, TypeCalls, StreamBreaks, still, wake, wrapper, policy, server,
                 session, calls, state
  <2> QED BY <2>1, <2>2
<1>40. ASSUME NEW c \in Commands, ProcExits(c) PROVE TypeOK'
  <2>1. TypeServer'
    BY <1>40 DEF TypeServer, ProcExits
  <2>2. TypeEvents'
    BY <1>40 DEF TypeEvents, Event, ProcExits, Exited
  <2>3. TypeFlags' /\ TypeLazy' /\ TypeWrapper' /\ TypePolicy' /\ TypeReader' /\ TypeSession' /\ TypeCalls'
    BY <1>40 DEF TypeFlags, TypeLazy, TypeWrapper, TypePolicy, TypeReader, TypeSession,
                 TypeCalls, ProcExits, still, wake, wrapper, policy, reader, session, calls,
                 state
  <2> QED BY <2>1, <2>2, <2>3
<1>41. ASSUME NEW o \in {"success", "failed"}, NEW b \in BOOLEAN, VmEnds(o, b) PROVE TypeOK'
  <2>1. TypeServer'
    BY <1>41 DEF TypeServer, VmEnds
  <2>2. TypeEvents'
    BY <1>41 DEF TypeEvents, Event, VmEnds, Exited, Completion
  <2>3. TypeFlags' /\ TypeLazy' /\ TypeWrapper' /\ TypePolicy' /\ TypeReader' /\ TypeSession' /\ TypeCalls'
    BY <1>41 DEF TypeFlags, TypeLazy, TypeWrapper, TypePolicy, TypeReader, TypeSession,
                 TypeCalls, VmEnds, still, wake, wrapper, policy, reader, session, calls, state
  <2> QED BY <2>1, <2>2, <2>3
<1>42. ASSUME IdleFires PROVE TypeOK'
  <2>1. TypeFlags'
    BY <1>42 DEF TypeFlags, IdleFires, Resolve, still, state
  <2>2. TypePolicy'
    BY <1>42 DEF TypePolicy, IdleFires, Resolve
  <2>3. TypeLazy' /\ TypeWrapper' /\ TypeReader' /\ TypeServer' /\ TypeEvents' /\ TypeSession' /\ TypeCalls'
    BY <1>42 DEF TypeLazy, TypeWrapper, TypeReader, TypeServer, TypeEvents, TypeSession,
                 TypeCalls, IdleFires, still, wrapper, reader, server, session, calls, state
  <2> QED BY <2>1, <2>2, <2>3
<1>43. ASSUME VmTimerFires PROVE TypeOK'
  <2>1. TypeFlags'
    BY <1>43 DEF TypeFlags, VmTimerFires, Resolve, still, state
  <2>2. TypePolicy'
    BY <1>43 DEF TypePolicy, VmTimerFires, Resolve
  <2>3. TypeLazy' /\ TypeWrapper' /\ TypeReader' /\ TypeServer' /\ TypeEvents' /\ TypeSession' /\ TypeCalls'
    BY <1>43 DEF TypeLazy, TypeWrapper, TypeReader, TypeServer, TypeEvents, TypeSession,
                 TypeCalls, VmTimerFires, still, wrapper, reader, server, session, calls, state
  <2> QED BY <2>1, <2>2, <2>3
<1>44. ASSUME PolicyDecides PROVE TypeOK'
  <2>1. TypeFlags'
    BY <1>44 DEF TypeFlags, PolicyDecides, Resolve, still, state
  <2>2. TypePolicy'
    BY <1>44 DEF TypePolicy, PolicyDecides, Resolve
  <2>3. TypeLazy' /\ TypeWrapper' /\ TypeReader' /\ TypeServer' /\ TypeEvents' /\ TypeSession' /\ TypeCalls'
    BY <1>44 DEF TypeLazy, TypeWrapper, TypeReader, TypeServer, TypeEvents, TypeSession,
                 TypeCalls, PolicyDecides, still, wrapper, reader, server, session, calls, state
  <2> QED BY <2>1, <2>2, <2>3
<1>45. ASSUME WorkerStops PROVE TypeOK'
  <2>1. TypeFlags'
    BY <1>45 DEF TypeFlags, WorkerStops, WorkerWakes, PolicyClose, policy, still, PolicyReset,
                 state
  <2>2. TypeWrapper'
    BY <1>45 DEF TypeWrapper, WorkerStops, WorkerWakes
  <2>3. TypePolicy'
    BY <1>45 DEF TypePolicy, WorkerStops, PolicyClose, PolicyError, policy, PolicyReset
  <2>4. TypeLazy' /\ TypeReader' /\ TypeServer' /\ TypeEvents' /\ TypeSession' /\ TypeCalls'
    BY <1>45 DEF TypeLazy, TypeReader, TypeServer, TypeEvents, TypeSession, TypeCalls,
                 WorkerStops, policy, still, reader, server, session, calls, state
  <2> QED BY <2>1, <2>2, <2>3, <2>4
<1>46. ASSUME WorkerDecides PROVE TypeOK'
  <2>1. TypeFlags'
    BY <1>46 DEF TypeFlags, WorkerDecides, WorkerWakes, state, outside, policy
  <2>2. TypeLazy'
    BY <1>46 DEF TypeLazy, Phases, WorkerDecides, Drained, state
  <2>3. TypeWrapper'
    BY <1>46 DEF TypeWrapper, WorkerDecides, WorkerWakes, Waiting
  <2>4. TypePolicy' /\ TypeReader' /\ TypeServer' /\ TypeEvents' /\ TypeSession' /\ TypeCalls'
    BY <1>46 DEF TypePolicy, TypeReader, TypeServer, TypeEvents, TypeSession, TypeCalls,
                 WorkerDecides, state, outside, calls, policy, reader, server, session
  <2> QED BY <2>1, <2>2, <2>3, <2>4
<1>47. ASSUME WorkerSignals PROVE TypeOK'
  <2>1. TypeWrapper'
    BY <1>47 DEF TypeWrapper, WorkerSignals, wake
  <2>2. TypeServer'
    BY <1>47 DEF TypeServer, WorkerSignals
  <2>3. TypeFlags' /\ TypeLazy' /\ TypePolicy' /\ TypeReader' /\ TypeEvents' /\ TypeSession' /\ TypeCalls'
    BY <1>47 DEF TypeFlags, TypeLazy, TypePolicy, TypeReader, TypeEvents, TypeSession,
                 TypeCalls, WorkerSignals, still, wake, policy, reader, session, calls, state
  <2> QED BY <2>1, <2>2, <2>3
<1>48. ASSUME SaveFails PROVE TypeOK'
  <2>1. TypeWrapper'
    BY <1>48 DEF TypeWrapper, SaveFails, CancelVm, CancelFails, wake
  <2>2. TypeServer' /\ TypeEvents'
    BY <1>48, CancelTypes DEF SaveFails
  <2>3. TypeFlags' /\ TypeLazy' /\ TypePolicy' /\ TypeReader' /\ TypeSession' /\ TypeCalls'
    BY <1>48 DEF TypeFlags, TypeLazy, TypePolicy, TypeReader, TypeSession, TypeCalls, SaveFails,
                 still, wake, policy, reader, session, calls, server, state
  <2> QED BY <2>1, <2>2, <2>3
<1>49. ASSUME SaveJoins PROVE TypeOK'
  <2>1. TypeWrapper'
    BY <1>49 DEF TypeWrapper, SaveJoins, wake
  <2>2. TypeFlags' /\ TypeLazy' /\ TypePolicy' /\ TypeReader' /\ TypeServer' /\ TypeEvents' /\ TypeSession' /\ TypeCalls'
    BY <1>49 DEF TypeFlags, TypeLazy, TypePolicy, TypeReader, TypeServer, TypeEvents,
                 TypeSession, TypeCalls, SaveJoins, still, wake, outside, calls, state, policy,
                 reader, server, session
  <2> QED BY <2>1, <2>2
<1>50. ASSUME WorkerCommits PROVE TypeOK'
  <2>1. TypeWrapper'
    BY <1>50 DEF TypeWrapper, WorkerCommits, wake
  <2>2. TypeSession'
    <3> DEFINE Entry == [parent : Nat, files : SUBSET Commands, torn : SUBSET Commands]
               new == [parent |-> opParent, files |-> fs, torn |-> torn]
    <3>1. CASE /\ history' = Append(history, new)
               /\ tip' = IF tip = opParent /\ version = opVersion THEN Len(history) + 1 ELSE tip
      <4>1. new \in Entry
        BY DEF TypeServer, TypeSession
      <4>2. history' \in Seq(Entry)
        BY <3>1, <4>1 DEF TypeSession
      <4>3. tip' \in DOMAIN history'
        <5> HIDE DEF new
        <5>1. DOMAIN history' = 1 .. Len(history) + 1
          BY <3>1, <4>1 DEF TypeSession
        <5>2. tip \in 1 .. Len(history) /\ Len(history) \in Nat
          BY DEF TypeSession
        <5> QED BY <3>1, <5>1, <5>2
      <4> QED BY <1>50, <4>2, <4>3 DEF TypeSession, WorkerCommits
    <3>2. CASE UNCHANGED <<history, tip>>
      BY <1>50, <3>2 DEF TypeSession, WorkerCommits
    <3> QED BY <1>50, <3>1, <3>2 DEF WorkerCommits
  <2>3. TypeFlags' /\ TypeLazy' /\ TypePolicy' /\ TypeReader' /\ TypeServer' /\ TypeEvents' /\ TypeCalls'
    BY <1>50 DEF TypeFlags, TypeLazy, TypePolicy, TypeReader, TypeServer, TypeEvents, TypeCalls,
                 WorkerCommits, still, wake, policy, reader, server, calls, state
  <2> QED BY <2>1, <2>2, <2>3
<1>51. ASSUME WorkerPublishes PROVE TypeOK'
  <2>1. TypeFlags'
    BY <1>51 DEF TypeFlags, WorkerPublishes, PolicyReset, Notify
  <2>2. TypeLazy'
    BY <1>51 DEF TypeLazy, Phases, WorkerPublishes
  <2>3. TypeWrapper'
    BY <1>51 DEF TypeWrapper, WorkerPublishes, Notify, Waiting
  <2>4. TypePolicy'
    BY <1>51 DEF TypePolicy, WorkerPublishes, PolicyReset
  <2>5. TypeReader' /\ TypeServer' /\ TypeEvents' /\ TypeSession' /\ TypeCalls'
    BY <1>51 DEF TypeReader, TypeServer, TypeEvents, TypeSession, TypeCalls, WorkerPublishes,
                 reader, server, session, calls
  <2> QED BY <2>1, <2>2, <2>3, <2>4, <2>5
<1>52. ASSUME WorkerFails PROVE TypeOK'
  <2>1. TypeFlags'
    BY <1>52 DEF TypeFlags, WorkerFails, Fail, Notify, state, outside, policy
  <2>2. TypeLazy'
    BY <1>52 DEF TypeLazy, Phases, WorkerFails, Fail, state
  <2>3. TypeWrapper'
    BY <1>52 DEF TypeWrapper, WorkerFails, Notify, Waiting
  <2>4. TypePolicy' /\ TypeReader' /\ TypeServer' /\ TypeEvents' /\ TypeSession' /\ TypeCalls'
    BY <1>52 DEF TypePolicy, TypeReader, TypeServer, TypeEvents, TypeSession, TypeCalls,
                 WorkerFails, state, outside, calls, policy, reader, server, session
  <2> QED BY <2>1, <2>2, <2>3, <2>4
<1>53. ASSUME WorkerCleansUp PROVE TypeOK'
  <2>1. TypeFlags'
    BY <1>53 DEF TypeFlags, WorkerCleansUp, PolicyClose, still, wake, PolicyReset, state
  <2>2. TypeWrapper'
    BY <1>53 DEF TypeWrapper, WorkerCleansUp, CancelVm, CancelFails, wake
  <2>3. TypePolicy'
    BY <1>53 DEF TypePolicy, WorkerCleansUp, PolicyClose, PolicyReset
  <2>4. TypeServer' /\ TypeEvents'
    BY <1>53, CancelTypes DEF WorkerCleansUp
  <2>5. TypeLazy' /\ TypeReader' /\ TypeSession' /\ TypeCalls'
    BY <1>53 DEF TypeLazy, TypeReader, TypeSession, TypeCalls, WorkerCleansUp, still, wake,
                 reader, session, calls, server, state
  <2> QED BY <2>1, <2>2, <2>3, <2>4, <2>5
<1>54. ASSUME UNCHANGED vars PROVE TypeOK'
  BY <1>54 DEF vars, still, state, wake, policy, reader, server, session, calls, asking,
               wrapper, outside, most, TypeFlags, TypeLazy, TypeWrapper, TypePolicy, TypeReader,
               TypeServer, TypeEvents, TypeSession, TypeCalls
<1> QED BY <1>1, <1>2, <1>3, <1>4, <1>5, <1>6, <1>7, <1>8, <1>9, <1>10, <1>11, <1>12, <1>13,
           <1>14, <1>15, <1>16, <1>17, <1>18, <1>19, <1>20, <1>21, <1>22, <1>23, <1>24, <1>25,
           <1>26, <1>27, <1>28, <1>29, <1>30, <1>31, <1>32, <1>33, <1>34, <1>35, <1>36, <1>37,
           <1>38, <1>39, <1>40, <1>41, <1>42, <1>43, <1>44, <1>45, <1>46, <1>47, <1>48, <1>49,
           <1>50, <1>51, <1>52, <1>53, <1>54
     DEF Command, Inspection, Snapshot, Close, Abort, Reader, Server, Policy, Worker, Next, AllReturned

-----------------------------------------------------------------------------
(* The history and the lock                                                *)

\* The parents of entries stay within the history.
LEMMA HistoryStep ==
    ASSUME TypeOK, HistoryGrows, [Next]_vars
    PROVE  HistoryGrows'
<1>1. ASSUME NEW c \in Users, VmStarted(c) PROVE HistoryGrows'
  BY <1>1 DEF HistoryGrows, TypeOK, TypeSession, VmStarted, ServerStartsVm
<1>2. ASSUME NEW c \in Users, StartFails(c) PROVE HistoryGrows'
  BY <1>2 DEF HistoryGrows, TypeOK, TypeSession, StartFails, ServerStartsVm
<1>3. ASSUME WorkerCommits PROVE HistoryGrows'
  <2>1. CASE history' = Append(history, [parent |-> opParent, files |-> fs, torn |-> torn])
    <3>1. /\ Len(history) \in Nat /\ DOMAIN history = 1 .. Len(history)
          /\ DOMAIN history' = 1 .. Len(history) + 1 /\ Len(history') = Len(history) + 1
          /\ \A i \in 1 .. Len(history) : history'[i] = history[i]
          /\ history'[Len(history) + 1].parent = opParent
      BY <2>1 DEF TypeOK, TypeSession
    <3>2. opParent \in 0 .. Len(history) /\ opParent' = opParent
      BY <1>3 DEF HistoryGrows, WorkerCommits
    <3>3. ASSUME NEW i \in DOMAIN history' PROVE history'[i].parent \in 0 .. Len(history')
      <4>1. CASE i \in DOMAIN history
        BY <3>1, <4>1 DEF HistoryGrows
      <4>2. CASE i = Len(history) + 1
        BY <3>1, <3>2, <4>2
      <4> QED BY <3>1, <4>1, <4>2
    <3> QED BY <3>1, <3>2, <3>3 DEF HistoryGrows
  <2>2. CASE UNCHANGED history
    BY <1>3, <2>2 DEF HistoryGrows, WorkerCommits
  <2> QED BY <1>3, <2>1, <2>2 DEF WorkerCommits
<1>4. ASSUME NEW c \in Users,
             Refused(c) \/ StartVm(c) \/ Joins(c) \/ WaitsForSnapshot(c) \/
             PolicyBreaks(c) \/ Abandon(c)
      PROVE  UNCHANGED <<history, opParent>>
  BY <1>4 DEF Refused, session, outside, most, StartVm, Joins, WaitsForSnapshot, PolicyBreaks,
              Abandon
<1>5. ASSUME NEW c \in Commands,
             FilesFail(c) \/ Reserve(c) \/ ServerCreates(c) \/ Created(c) \/
             CreateFails(c) \/ ReturnResult(c) \/ AwaitFails(c) \/ ProcExits(c)
      PROVE  UNCHANGED <<history, opParent>>
  BY <1>5 DEF FilesFail, session, outside, most, Reserve, ServerCreates, Created, CreateFails,
              ReturnResult, AwaitFails, ProcExits
<1>6. ASSUME NEW c \in Inspections,
             InspectsImage(c) \/ HoldsVm(c) \/ ReadyToInspect(c) \/ ReadyFails(c) \/
             ReleaseInspection(c)
      PROVE  UNCHANGED <<history, opParent>>
  BY <1>6 DEF InspectsImage, session, outside, most, HoldsVm, ReadyToInspect, ReadyFails,
              ReleaseInspection
<1>7. ASSUME NEW c \in Snapshots,
             SnapshotReturns(c) \/ SnapshotAsks(c) \/ SnapshotAnswers(c)
      PROVE  UNCHANGED <<history, opParent>>
  BY <1>7 DEF SnapshotReturns, session, outside, most, SnapshotAsks, SnapshotAnswers
<1>8. ASSUME NEW c \in Closes,
             CloseAsks(c) \/ CloseAnswers(c) \/ CloseReturns(c)
      PROVE  UNCHANGED <<history, opParent>>
  BY <1>8 DEF CloseAsks, session, CloseAnswers, outside, most, CloseReturns
<1>9. ASSUME NEW c \in Aborts \cup Closes,
             AbortWaits(c) \/ AbortEnds(c) \/ AbortCancels(c) \/ JoinsWorker(c)
      PROVE  UNCHANGED <<history, opParent>>
  BY <1>9 DEF AbortWaits, session, outside, most, AbortEnds, AbortCancels, JoinsWorker
<1>10. ASSUME NEW c \in Rollbacks,
              Rollback(c)
       PROVE  UNCHANGED <<history, opParent>>
  BY <1>10 DEF Rollback
<1>11. ASSUME NEW c \in Callers,
              GivesUp(c) \/ WaitsAgain(c)
       PROVE  UNCHANGED <<history, opParent>>
  BY <1>11 DEF GivesUp, session, outside, most, WaitsAgain
<1>12. ASSUME ObserveSpawn \/ ObserveExit \/ ObserveMainExit \/ ObserveCompletion \/
              ReaderEnds \/ StreamBreaks
       PROVE  UNCHANGED <<history, opParent>>
  BY <1>12 DEF ObserveSpawn, session, ObserveExit, ObserveMainExit, ObserveCompletion,
               ReaderEnds, StreamBreaks
<1>13. ASSUME NEW o \in {"success", "failed"}, NEW b \in BOOLEAN,
              VmEnds(o, b)
       PROVE  UNCHANGED <<history, opParent>>
  BY <1>13 DEF VmEnds, session
<1>14. ASSUME IdleFires \/ VmTimerFires \/ PolicyDecides
       PROVE  UNCHANGED <<history, opParent>>
  BY <1>14 DEF IdleFires, session, VmTimerFires, PolicyDecides
<1>15. ASSUME WorkerStops \/ WorkerDecides \/ WorkerSignals \/ SaveFails \/ SaveJoins \/
              WorkerPublishes \/ WorkerFails \/ WorkerCleansUp
       PROVE  UNCHANGED <<history, opParent>>
  BY <1>15 DEF WorkerStops, session, WorkerDecides, outside, WorkerSignals, SaveFails,
               SaveJoins, WorkerPublishes, WorkerFails, WorkerCleansUp
<1>16. ASSUME UNCHANGED vars PROVE UNCHANGED <<history, opParent>>
  BY <1>16 DEF vars, outside, session
<1>17. ASSUME UNCHANGED <<history, opParent>> PROVE HistoryGrows'
  BY <1>17 DEF HistoryGrows
<1> QED BY <1>1, <1>2, <1>3, <1>4, <1>5, <1>6, <1>7, <1>8, <1>9, <1>10, <1>11, <1>12, <1>13,
           <1>14, <1>15, <1>16, <1>17
     DEF Command, Inspection, Snapshot, Close, Abort, Reader, Server, Policy, Worker, Next, AllReturned

\* The lock's owner is the one call that awaits the server.
LEMMA LockStep ==
    ASSUME TypeOK, LockInv, [Next]_vars
    PROVE  LockInv'
<1>1. ASSUME NEW c \in Users, Refused(c) PROVE LockInv'
  BY <1>1 DEF LockInv, Locking, TypeOK, TypeCalls, TypeWrapper, TypeLazy, Refused, Enters,
              CheckOk, Leaves, still, Go, state
<1>2. ASSUME NEW c \in Users, StartVm(c) PROVE LockInv'
  BY <1>2 DEF LockInv, Locking, TypeOK, TypeCalls, TypeWrapper, TypeLazy, StartVm, Enters,
              CheckOk, Leaves, Go
<1>3. ASSUME NEW c \in Users, VmStarted(c) PROVE LockInv'
  BY <1>3 DEF LockInv, Locking, TypeOK, TypeCalls, TypeWrapper, TypeLazy, VmStarted, Go, state
<1>4. ASSUME NEW c \in Users, StartFails(c) PROVE LockInv'
  BY <1>4 DEF LockInv, Locking, TypeOK, TypeCalls, TypeWrapper, TypeLazy, StartFails, Fail,
              Waiting, Go, state
<1>5. ASSUME NEW c \in Users, Joins(c) PROVE LockInv'
  BY <1>5 DEF LockInv, Locking, TypeOK, TypeCalls, TypeWrapper, TypeLazy, Joins, Enters,
              CheckOk, Leaves, still, Go, state
<1>6. ASSUME NEW c \in Users, WaitsForSnapshot(c) PROVE LockInv'
  BY <1>6 DEF LockInv, Locking, TypeOK, TypeCalls, TypeWrapper, TypeLazy, WaitsForSnapshot,
              Enters, CheckOk, Waiting, Go, state
<1>7. ASSUME NEW c \in Users, PolicyBreaks(c) PROVE LockInv'
  BY <1>7 DEF LockInv, Locking, TypeOK, TypeCalls, TypeWrapper, TypeLazy, PolicyBreaks, Enters,
              CheckOk, Fail, Waiting, Go, state
<1>8. ASSUME NEW c \in Users, Abandon(c) PROVE LockInv'
  BY <1>8 DEF LockInv, Locking, TypeOK, TypeCalls, TypeWrapper, TypeLazy, Abandon, Go, still,
              state
<1>9. ASSUME NEW c \in Commands, FilesFail(c) PROVE LockInv'
  BY <1>9 DEF LockInv, Locking, TypeOK, TypeCalls, TypeWrapper, TypeLazy, FilesFail, Go, still,
              state
<1>10. ASSUME NEW c \in Commands, Reserve(c) PROVE LockInv'
  BY <1>10 DEF LockInv, Locking, TypeOK, TypeCalls, TypeWrapper, TypeLazy, Reserve, Go
<1>11. ASSUME NEW c \in Commands, Created(c) PROVE LockInv'
  BY <1>11 DEF LockInv, Locking, TypeOK, TypeCalls, TypeWrapper, TypeLazy, Created, Waiting, Go
<1>12. ASSUME NEW c \in Commands, CreateFails(c) PROVE LockInv'
  BY <1>12 DEF LockInv, Locking, TypeOK, TypeCalls, TypeWrapper, TypeLazy, CreateFails, Fail,
               Waiting, Go
<1>13. ASSUME NEW c \in Commands, ReturnResult(c) PROVE LockInv'
  BY <1>13 DEF LockInv, Locking, TypeOK, TypeCalls, TypeWrapper, TypeLazy, ReturnResult, Go,
               still, state
<1>14. ASSUME NEW c \in Commands, AwaitFails(c) PROVE LockInv'
  BY <1>14 DEF LockInv, Locking, TypeOK, TypeCalls, TypeWrapper, TypeLazy, AwaitFails, Go,
               still, state
<1>15. ASSUME NEW c \in Inspections, InspectsImage(c) PROVE LockInv'
  BY <1>15 DEF LockInv, Locking, TypeOK, TypeCalls, TypeWrapper, TypeLazy, InspectsImage,
               Enters, CheckOk, Leaves, still, Go, state
<1>16. ASSUME NEW c \in Inspections, HoldsVm(c) PROVE LockInv'
  BY <1>16 DEF LockInv, Locking, TypeOK, TypeCalls, TypeWrapper, TypeLazy, HoldsVm, Go
<1>17. ASSUME NEW c \in Inspections, ReadyToInspect(c) PROVE LockInv'
  BY <1>17 DEF LockInv, Locking, TypeOK, TypeCalls, TypeWrapper, TypeLazy, ReadyToInspect,
               Wakes, VmIsReady, Leaves, still, Go, state
<1>18. ASSUME NEW c \in Inspections, ReadyFails(c) PROVE LockInv'
  BY <1>18 DEF LockInv, Locking, TypeOK, TypeCalls, TypeWrapper, TypeLazy, ReadyFails, Leaves,
               still, Go, state
<1>19. ASSUME NEW c \in Inspections, ReleaseInspection(c) PROVE LockInv'
  BY <1>19 DEF LockInv, Locking, TypeOK, TypeCalls, TypeWrapper, TypeLazy, ReleaseInspection,
               InspectionFinished, Waiting, Go
<1>20. ASSUME NEW c \in Snapshots, SnapshotReturns(c) PROVE LockInv'
  BY <1>20 DEF LockInv, Locking, TypeOK, TypeCalls, TypeWrapper, TypeLazy, SnapshotReturns,
               CheckOk, Go, NothingToSave, Asks, still, state
<1>21. ASSUME NEW c \in Snapshots, SnapshotAsks(c) PROVE LockInv'
  BY <1>21 DEF LockInv, Locking, TypeOK, TypeCalls, TypeWrapper, TypeLazy, SnapshotAsks,
               CheckOk, NothingToSave, Asks, Waiting, Go, state
<1>22. ASSUME NEW c \in Snapshots, SnapshotAnswers(c) PROVE LockInv'
  BY <1>22 DEF LockInv, Locking, TypeOK, TypeCalls, TypeWrapper, TypeLazy, SnapshotAnswers,
               Wakes, SnapshotIsOver, Leaves, still, Go, state
<1>23. ASSUME NEW c \in Closes, CloseAsks(c) PROVE LockInv'
  BY <1>23 DEF LockInv, Locking, TypeOK, TypeCalls, TypeWrapper, TypeLazy, CloseAsks, Go,
               ClosingPhase, Waiting
<1>24. ASSUME NEW c \in Closes, CloseAnswers(c) PROVE LockInv'
  BY <1>24 DEF LockInv, Locking, TypeOK, TypeCalls, TypeWrapper, TypeLazy, CloseAnswers, Wakes,
               Leaves, still, Go, state
<1>25. ASSUME NEW c \in Closes, CloseReturns(c) PROVE LockInv'
  BY <1>25 DEF LockInv, Locking, TypeOK, TypeCalls, TypeWrapper, TypeLazy, CloseReturns, Go,
               still, state
<1>26. ASSUME NEW c \in Aborts \cup Closes, AbortWaits(c) PROVE LockInv'
  BY <1>26 DEF LockInv, Locking, TypeOK, TypeCalls, TypeWrapper, TypeLazy, AbortWaits, Go,
               still, state
<1>27. ASSUME NEW c \in Aborts \cup Closes, AbortEnds(c) PROVE LockInv'
  BY <1>27 DEF LockInv, Locking, TypeOK, TypeCalls, TypeWrapper, TypeLazy, AbortEnds, Enters,
               Waiting, Go
<1>28. ASSUME NEW c \in Aborts \cup Closes, AbortCancels(c) PROVE LockInv'
  BY <1>28 DEF LockInv, Locking, TypeOK, TypeCalls, TypeWrapper, TypeLazy, AbortCancels, Go,
               still, state
<1>29. ASSUME NEW c \in Aborts \cup Closes, JoinsWorker(c) PROVE LockInv'
  BY <1>29 DEF LockInv, Locking, TypeOK, TypeCalls, TypeWrapper, TypeLazy, JoinsWorker, Go,
               still, state
<1>30. ASSUME NEW c \in Rollbacks, Rollback(c) PROVE LockInv'
  BY <1>30 DEF LockInv, Locking, TypeOK, TypeCalls, TypeWrapper, TypeLazy, Rollback, AtBoundary,
               Go, still, CheckOk, state
<1>31. ASSUME NEW c \in Callers, GivesUp(c) PROVE LockInv'
  BY <1>31 DEF LockInv, Locking, TypeOK, TypeCalls, TypeWrapper, TypeLazy, GivesUp, Leaves,
               still, Go, state
<1>32. ASSUME ObserveSpawn PROVE LockInv'
  BY <1>32 DEF LockInv, Locking, TypeOK, TypeCalls, TypeWrapper, TypeLazy, ObserveSpawn, Reads,
               ObserverPasses, calls, Waiting
<1>33. ASSUME ObserveExit PROVE LockInv'
  BY <1>33 DEF LockInv, Locking, TypeOK, TypeCalls, TypeWrapper, TypeLazy, ObserveExit, Reads,
               calls, Waiting
<1>34. ASSUME ObserveMainExit PROVE LockInv'
  BY <1>34 DEF LockInv, Locking, TypeOK, TypeCalls, TypeWrapper, TypeLazy, ObserveMainExit,
               Reads, ObserverRaises, ObserverPasses, state, calls, Waiting, Fail
<1>35. ASSUME ObserveCompletion PROVE LockInv'
  BY <1>35 DEF LockInv, Locking, TypeOK, TypeCalls, TypeWrapper, TypeLazy, ObserveCompletion,
               Reads, ObserverRaises, calls, Waiting, Fail
<1>36. ASSUME ReaderEnds PROVE LockInv'
  BY <1>36 DEF LockInv, Locking, TypeOK, TypeCalls, TypeWrapper, TypeLazy, ReaderEnds, Waiting,
               Fail, state, calls
<1>37. ASSUME WorkerDecides PROVE LockInv'
  BY <1>37 DEF LockInv, Locking, TypeOK, TypeCalls, TypeWrapper, TypeLazy, WorkerDecides,
               Drained, WorkerWakes, Waiting, state, calls
<1>38. ASSUME WorkerPublishes PROVE LockInv'
  BY <1>38 DEF LockInv, Locking, TypeOK, TypeCalls, TypeWrapper, TypeLazy, WorkerPublishes,
               Waiting, calls
<1>39. ASSUME WorkerFails PROVE LockInv'
  BY <1>39 DEF LockInv, Locking, TypeOK, TypeCalls, TypeWrapper, TypeLazy, WorkerFails, Fail,
               Waiting, state, calls
<1>40. ASSUME NEW c \in Commands,
              ServerCreates(c) \/ ProcExits(c)
       PROVE  UNCHANGED <<lock, pc, phase, creating, earlyExits>>
  BY <1>40 DEF ServerCreates, still, calls, state, ProcExits
<1>41. ASSUME NEW c \in Callers,
              WaitsAgain(c)
       PROVE  UNCHANGED <<lock, pc, phase, creating, earlyExits>>
  BY <1>41 DEF WaitsAgain, still, calls, state
<1>42. ASSUME StreamBreaks
       PROVE  UNCHANGED <<lock, pc, phase, creating, earlyExits>>
  BY <1>42 DEF StreamBreaks, still, calls, state
<1>43. ASSUME NEW o \in {"success", "failed"}, NEW b \in BOOLEAN,
              VmEnds(o, b)
       PROVE  UNCHANGED <<lock, pc, phase, creating, earlyExits>>
  BY <1>43 DEF VmEnds, still, calls, state
<1>44. ASSUME IdleFires \/ VmTimerFires \/ PolicyDecides
       PROVE  UNCHANGED <<lock, pc, phase, creating, earlyExits>>
  BY <1>44 DEF IdleFires, still, calls, state, VmTimerFires, PolicyDecides
<1>45. ASSUME WorkerStops \/ WorkerSignals \/ SaveFails \/ SaveJoins \/ WorkerCommits \/
              WorkerCleansUp
       PROVE  UNCHANGED <<lock, pc, phase, creating, earlyExits>>
  BY <1>45 DEF WorkerStops, still, calls, state, WorkerSignals, SaveFails, SaveJoins,
               WorkerCommits, WorkerCleansUp
<1>46. ASSUME UNCHANGED vars PROVE UNCHANGED <<lock, pc, phase, creating, earlyExits>>
  BY <1>46 DEF vars, still, state, calls
<1>47. ASSUME UNCHANGED <<lock, pc, phase, creating, earlyExits>> PROVE LockInv'
  BY <1>47 DEF LockInv, Locking
<1> QED BY <1>1, <1>2, <1>3, <1>4, <1>5, <1>6, <1>7, <1>8, <1>9, <1>10, <1>11, <1>12, <1>13,
           <1>14, <1>15, <1>16, <1>17, <1>18, <1>19, <1>20, <1>21, <1>22, <1>23, <1>24, <1>25,
           <1>26, <1>27, <1>28, <1>29, <1>30, <1>31, <1>32, <1>33, <1>34, <1>35, <1>36, <1>37,
           <1>38, <1>39, <1>40, <1>41, <1>42, <1>43, <1>44, <1>45, <1>46, <1>47
     DEF Command, Inspection, Snapshot, Close, Abort, Reader, Server, Policy, Worker, Next, AllReturned

-----------------------------------------------------------------------------
(* The queue of events and the processes that run                          *)

\* Exits that were reported stay true while the queue stays as it is ...
LEMMA ExitsStay ==
    ASSUME TypeEvents, ExitsInv, UNCHANGED queue, \A p \in Commands : Gone(p) => Gone(p)'
    PROVE  ExitsInv'
<1>1. SUFFICES ASSUME NEW i \in DOMAIN queue,
                      queue[i].type = "exit", queue[i].spid # Main
               PROVE  Gone(queue[i].spid)'
  BY DEF ExitsInv
<1>2. PICK p \in Commands : p = queue[i].spid /\ p = queue'[i].spid
  <2>1. queue[i] \in Event
    BY DEF TypeEvents
  <2> QED BY <1>1, <2>1 DEF Event
<1>3. Gone(p)
  BY <1>1, <1>2 DEF ExitsInv
<1> QED BY <1>2, <1>3 DEF Gone

\* ... and when an event that tells the truth is added to it.
LEMMA ExitsGrow ==
    ASSUME TypeEvents, ExitsInv, NEW e \in Event, queue' = Append(queue, e),
           e.type = "exit" /\ e.spid # Main => Gone(e.spid)',
           \A p \in Commands : Gone(p) => Gone(p)'
    PROVE  ExitsInv'
<1>1. queue \in Seq(Event)
  BY DEF TypeEvents
<1>2. /\ DOMAIN queue = 1 .. Len(queue) /\ DOMAIN queue' = 1 .. Len(queue) + 1
      /\ \A i \in 1 .. Len(queue) : queue'[i] = queue[i] /\ queue[i] \in Event
      /\ queue'[Len(queue) + 1] = e /\ Len(queue) \in Nat
  BY <1>1
<1>3. SUFFICES ASSUME NEW i \in DOMAIN queue',
                      queue'[i].type = "exit", queue'[i].spid # Main
               PROVE  Gone(queue[i].spid)'
  BY DEF ExitsInv
<1>4. CASE i \in DOMAIN queue
  <2>1. queue'[i] = queue[i] /\ queue[i].spid \in Commands
    BY <1>2, <1>3, <1>4 DEF Event
  <2>2. Gone(queue[i].spid)
    BY <1>3, <1>4, <2>1 DEF ExitsInv
  <2>3. PICK p \in Commands : p = queue[i].spid /\ p = queue'[i].spid
    BY <2>1
  <2>4. Gone(p)'
    BY <2>2, <2>3
  <2> QED BY <2>3, <2>4 DEF Gone
<1>5. CASE i = Len(queue) + 1
  <2>1. queue'[i] = e
    BY <1>2, <1>5
  <2>2. Gone(e.spid)'
    BY <1>3, <2>1
  <2> QED BY <2>1, <2>2 DEF Gone
<1> QED BY <1>2, <1>4, <1>5

\* The exit that the reader takes from the queue is a true one.
LEMMA ExitRead ==
    ASSUME TypeEvents, ExitsInv, queue # <<>>,
           Head(queue).type = "exit", Head(queue).spid # Main
    PROVE  Head(queue).spid \in Commands /\ Gone(Head(queue).spid)
<1>1. 1 \in DOMAIN queue /\ queue[1] = Head(queue)
  BY DEF TypeEvents
<1>2. Head(queue).spid \in Commands
  BY ReadTypes DEF Event
<1>3. Gone(queue[1].spid)
  BY <1>1 DEF ExitsInv
<1> QED BY <1>1, <1>2, <1>3

\* operation.cancel() reports no exit.
LEMMA ExitsCancel ==
    ASSUME TypeServer, TypeEvents, ExitsInv, CancelVm \/ CancelFails,
           \A p \in Commands : pc[p] \in Returned => pc'[p] \in Returned
    PROVE  ExitsInv'
<1>1. \A p \in Commands : Gone(p) => Gone(p)'
  BY DEF Gone, CancelVm, CancelFails, server
<1>2. CASE queue' = Append(queue, Completion)
  <2>1. Completion \in Event /\ Completion.type # "exit"
    BY EventTypes DEF Completion
  <2> QED BY <1>1, <1>2, <2>1, ExitsGrow
<1>3. CASE UNCHANGED queue
  BY <1>1, <1>3, ExitsStay
<1> QED BY <1>2, <1>3 DEF CancelVm, CancelFails, server

\* No exit is reported of a process that still runs.
LEMMA ExitsStep ==
    ASSUME TypeOK, LockInv, ExitsInv, TrackInv, [Next]_vars
    PROVE  ExitsInv'
<1>1. ASSUME NEW c \in Users, Refused(c) PROVE ExitsInv'
  BY <1>1 DEF ExitsInv, Gone, Returned, TypeOK, TypeEvents, TypeCalls, TypeServer, Event,
              Refused, Enters, Leaves, most, Go, outside, server
<1>2. ASSUME NEW c \in Users, StartVm(c) PROVE ExitsInv'
  BY <1>2 DEF ExitsInv, Gone, Returned, TypeOK, TypeEvents, TypeCalls, TypeServer, Event,
              StartVm, Enters, Leaves, server, Go
<1>3. ASSUME NEW c \in Users, VmStarted(c) PROVE ExitsInv'
  BY <1>3 DEF ExitsInv, Gone, Returned, TypeOK, TypeEvents, TypeCalls, TypeServer, Event,
              VmStarted, ServerStartsVm, Go, Spawned
<1>4. ASSUME NEW c \in Users, StartFails(c) PROVE ExitsInv'
  <2>1. CASE ServerStartsVm
    <3>1. queue' = <<Spawned(Main)>> /\ Spawned(Main).type # "exit"
      BY <2>1 DEF ServerStartsVm, Spawned
    <3>2. DOMAIN queue' = {1} /\ queue'[1].type # "exit"
      BY <3>1
    <3> QED BY <3>2 DEF ExitsInv
  <2>2. CASE UNCHANGED server
    <3>1. pc[c] = "starting" /\ \A p \in Callers \ {c} : pc'[p] = pc[p]
      BY <1>4 DEF StartFails, Go, TypeOK, TypeCalls
    <3>2. \A p \in Commands : Gone(p) => Gone(p)'
      BY <2>2, <3>1 DEF Gone, Returned, server
    <3> QED BY <2>2, <3>2, ExitsStay DEF TypeOK, server
  <2> QED BY <1>4, <2>1, <2>2 DEF StartFails
<1>5. ASSUME NEW c \in Users, Joins(c) PROVE ExitsInv'
  BY <1>5 DEF ExitsInv, Gone, Returned, TypeOK, TypeEvents, TypeCalls, TypeServer, Event, Joins,
              Enters, Leaves, most, Go, outside, server
<1>6. ASSUME NEW c \in Users, WaitsForSnapshot(c) PROVE ExitsInv'
  BY <1>6 DEF ExitsInv, Gone, Returned, TypeOK, TypeEvents, TypeCalls, TypeServer, Event,
              WaitsForSnapshot, Enters, Waiting, Go, most, outside, server
<1>7. ASSUME NEW c \in Users, PolicyBreaks(c) PROVE ExitsInv'
  BY <1>7 DEF ExitsInv, Gone, Returned, TypeOK, TypeEvents, TypeCalls, TypeServer, Event,
              PolicyBreaks, Enters, Waiting, Go, most, outside, server
<1>8. ASSUME NEW c \in Users, Abandon(c) PROVE ExitsInv'
  <2>1. \A p \in Commands : pc[p] \in Returned => pc'[p] \in Returned
    BY <1>8 DEF Abandon, Returned, TypeOK, TypeCalls, Go
  <2>2. CASE error
    BY <1>8, <2>1, <2>2, ExitsCancel DEF Abandon, TypeOK
  <2>3. CASE UNCHANGED server
    BY <2>1, <2>3, ExitsStay DEF TypeOK, Gone, server
  <2> QED BY <1>8, <2>2, <2>3 DEF Abandon
<1>9. ASSUME NEW c \in Commands, FilesFail(c) PROVE ExitsInv'
  BY <1>9 DEF ExitsInv, Gone, Returned, TypeOK, TypeEvents, TypeCalls, TypeServer, Event,
              FilesFail, Go, most, outside, server
<1>10. ASSUME NEW c \in Commands, Reserve(c) PROVE ExitsInv'
  BY <1>10 DEF ExitsInv, Gone, Returned, TypeOK, TypeEvents, TypeCalls, TypeServer, Event,
               Reserve, Go, server
<1>11. ASSUME NEW c \in Commands, ServerCreates(c) PROVE ExitsInv'
  BY <1>11 DEF ExitsInv, Gone, Returned, TypeOK, TypeEvents, TypeCalls, TypeServer, Event,
               ServerCreates, HasRun, calls
<1>12. ASSUME NEW c \in Commands, Created(c) PROVE ExitsInv'
  BY <1>12 DEF ExitsInv, Gone, Returned, TypeOK, TypeEvents, TypeCalls, TypeServer, Event,
               Created, HasRun, Waiting, Go, most, outside, server
<1>13. ASSUME NEW c \in Commands, CreateFails(c) PROVE ExitsInv'
  BY <1>13 DEF ExitsInv, Gone, Returned, TypeOK, TypeEvents, TypeCalls, TypeServer, Event,
               CreateFails, Waiting, Go, most, outside, server
<1>14. ASSUME NEW c \in Commands, ReturnResult(c) PROVE ExitsInv'
  BY <1>14 DEF ExitsInv, Gone, Returned, TypeOK, TypeEvents, TypeCalls, TypeServer, Event,
               ReturnResult, Go, most, outside, server
<1>15. ASSUME NEW c \in Commands, AwaitFails(c) PROVE ExitsInv'
  <2>1. \A p \in Commands : Gone(p) => Gone(p)'
    BY <1>15 DEF AwaitFails, Gone, Returned, TypeOK, TypeCalls, Go, server
  <2>2. CASE c \in procs /\ procs' = procs \ {c} /\ queue' = Append(queue, Exited(c, FALSE))
    <3>1. Exited(c, FALSE) \in Event /\ Exited(c, FALSE).spid = c
      BY EventTypes DEF Exited
    <3>2. Gone(c)'
      BY <1>15, <2>2 DEF AwaitFails, Gone, Returned, TrackInv, TypeOK, TypeCalls, Go, server
    <3> QED BY <2>1, <2>2, <3>1, <3>2, ExitsGrow DEF TypeOK
  <2>3. CASE UNCHANGED server
    BY <2>1, <2>3, ExitsStay DEF TypeOK, server
  <2> QED BY <1>15, <2>2, <2>3 DEF AwaitFails
<1>16. ASSUME NEW c \in Inspections, InspectsImage(c) PROVE ExitsInv'
  BY <1>16 DEF ExitsInv, Gone, Returned, TypeOK, TypeEvents, TypeCalls, TypeServer, Event,
               InspectsImage, Enters, Leaves, most, Go, outside, server
<1>17. ASSUME NEW c \in Inspections, HoldsVm(c) PROVE ExitsInv'
  BY <1>17 DEF ExitsInv, Gone, Returned, TypeOK, TypeEvents, TypeCalls, TypeServer, Event,
               HoldsVm, Go, server
<1>18. ASSUME NEW c \in Inspections, ReadyToInspect(c) PROVE ExitsInv'
  BY <1>18 DEF ExitsInv, Gone, Returned, TypeOK, TypeEvents, TypeCalls, TypeServer, Event,
               ReadyToInspect, Wakes, Leaves, most, Go, outside, server
<1>19. ASSUME NEW c \in Inspections, ReadyFails(c) PROVE ExitsInv'
  BY <1>19 DEF ExitsInv, Gone, Returned, TypeOK, TypeEvents, TypeCalls, TypeServer, Event,
               ReadyFails, Leaves, most, Go, outside, server
<1>20. ASSUME NEW c \in Inspections, ReleaseInspection(c) PROVE ExitsInv'
  BY <1>20 DEF ExitsInv, Gone, Returned, TypeOK, TypeEvents, TypeCalls, TypeServer, Event,
               ReleaseInspection, Waiting, Go, server
<1>21. ASSUME NEW c \in Snapshots, SnapshotReturns(c) PROVE ExitsInv'
  <2>1. \A p \in Commands : Gone(p) => Gone(p)'
    BY <1>21 DEF Gone, Returned, TypeOK, TypeCalls, SnapshotReturns, Go, most, outside, server
  <2> QED BY <1>21, <2>1, ExitsStay DEF TypeOK, SnapshotReturns, most, outside, server
<1>22. ASSUME NEW c \in Snapshots, SnapshotAsks(c) PROVE ExitsInv'
  BY <1>22 DEF ExitsInv, Gone, Returned, TypeOK, TypeEvents, TypeCalls, TypeServer, Event,
               SnapshotAsks, Asks, Waiting, Go, most, outside, server
<1>23. ASSUME NEW c \in Snapshots, SnapshotAnswers(c) PROVE ExitsInv'
  BY <1>23 DEF ExitsInv, Gone, Returned, TypeOK, TypeEvents, TypeCalls, TypeServer, Event,
               SnapshotAnswers, Wakes, Leaves, most, Go, outside, server
<1>24. ASSUME NEW c \in Closes, CloseAsks(c) PROVE ExitsInv'
  <2>1. \A p \in Commands : Gone(p) => Gone(p)'
    BY <1>24 DEF Gone, Returned, TypeOK, TypeCalls, CloseAsks, Go, server
  <2> QED BY <1>24, <2>1, ExitsStay DEF TypeOK, CloseAsks, server
<1>25. ASSUME NEW c \in Closes, CloseAnswers(c) PROVE ExitsInv'
  BY <1>25 DEF ExitsInv, Gone, Returned, TypeOK, TypeEvents, TypeCalls, TypeServer, Event,
               CloseAnswers, Wakes, Leaves, most, Go, outside, server
<1>26. ASSUME NEW c \in Closes, CloseReturns(c) PROVE ExitsInv'
  BY <1>26 DEF ExitsInv, Gone, Returned, TypeOK, TypeEvents, TypeCalls, TypeServer, Event,
               CloseReturns, Go, most, outside, server
<1>27. ASSUME NEW c \in Aborts \cup Closes, AbortWaits(c) PROVE ExitsInv'
  BY <1>27 DEF ExitsInv, Gone, Returned, TypeOK, TypeEvents, TypeCalls, TypeServer, Event,
               AbortWaits, Go, most, outside, server
<1>28. ASSUME NEW c \in Aborts \cup Closes, AbortEnds(c) PROVE ExitsInv'
  BY <1>28 DEF ExitsInv, Gone, Returned, TypeOK, TypeEvents, TypeCalls, TypeServer, Event,
               AbortEnds, Enters, Waiting, Go, server
<1>29. ASSUME NEW c \in Aborts \cup Closes, AbortCancels(c) PROVE ExitsInv'
  <2>1. \A p \in Commands : pc[p] \in Returned => pc'[p] \in Returned
    BY <1>29 DEF AbortCancels, Returned, TypeOK, TypeCalls, Go
  <2> QED BY <1>29, <2>1, ExitsCancel DEF AbortCancels, TypeOK
<1>30. ASSUME NEW c \in Aborts \cup Closes, JoinsWorker(c) PROVE ExitsInv'
  BY <1>30 DEF ExitsInv, Gone, Returned, TypeOK, TypeEvents, TypeCalls, TypeServer, Event,
               JoinsWorker, Go, most, outside, server
<1>31. ASSUME NEW c \in Rollbacks, Rollback(c) PROVE ExitsInv'
  <2>1. \A p \in Commands : Gone(p) => Gone(p)'
    BY <1>31 DEF Gone, Returned, TypeOK, TypeCalls, Rollback, Go, server
  <2> QED BY <1>31, <2>1, ExitsStay DEF TypeOK, Rollback, server
<1>32. ASSUME NEW c \in Callers, GivesUp(c) PROVE ExitsInv'
  BY <1>32 DEF ExitsInv, Gone, Returned, TypeOK, TypeEvents, TypeCalls, TypeServer, Event,
               GivesUp, Leaves, most, Go, outside, server
<1>33. ASSUME ObserveSpawn PROVE ExitsInv'
  BY <1>33 DEF ExitsInv, Gone, Returned, TypeOK, TypeEvents, TypeCalls, TypeServer, Event,
               ObserveSpawn, Reads, calls, Waiting
<1>34. ASSUME ObserveExit PROVE ExitsInv'
  BY <1>34 DEF ExitsInv, Gone, Returned, TypeOK, TypeEvents, TypeCalls, TypeServer, Event,
               ObserveExit, Reads, calls, Waiting
<1>35. ASSUME ObserveMainExit PROVE ExitsInv'
  BY <1>35 DEF ExitsInv, Gone, Returned, TypeOK, TypeEvents, TypeCalls, TypeServer, Event,
               ObserveMainExit, Reads, calls, Waiting
<1>36. ASSUME ObserveCompletion PROVE ExitsInv'
  BY <1>36 DEF ExitsInv, Gone, Returned, TypeOK, TypeEvents, TypeCalls, TypeServer, Event,
               ObserveCompletion, Reads, calls, Waiting
<1>37. ASSUME NEW c \in Commands, ProcExits(c) PROVE ExitsInv'
  <2>1. \A p \in Commands : Gone(p) => Gone(p)'
    BY <1>37 DEF ProcExits, Gone, calls
  <2>2. Gone(c)'
    BY <1>37 DEF ProcExits, Gone, TrackInv
  <2>3. Exited(c, FALSE) \in Event /\ Exited(c, FALSE).spid = c
    BY EventTypes DEF Exited
  <2> QED BY <1>37, <2>1, <2>2, <2>3, ExitsGrow DEF ProcExits, TypeOK
<1>38. ASSUME NEW o \in {"success", "failed"}, NEW b \in BOOLEAN, VmEnds(o, b) PROVE ExitsInv'
  <2> DEFINE exit == Exited(Main, b)
  <2>1. \A p \in Commands : Gone(p) => Gone(p)'
    BY <1>38 DEF VmEnds, Gone, calls
  <2>2. /\ exit \in Event /\ exit.spid = Main
        /\ Completion \in Event /\ Completion.type # "exit"
    BY EventTypes DEF Exited, Completion
  <2>3. queue' = queue \o <<exit, Completion>> /\ queue \in Seq(Event)
    BY <1>38 DEF VmEnds, TypeOK, TypeEvents
  <2> HIDE DEF exit
  <2>4. /\ DOMAIN queue = 1 .. Len(queue) /\ DOMAIN queue' = 1 .. Len(queue) + 2
        /\ \A i \in 1 .. Len(queue) : queue'[i] = queue[i] /\ queue[i] \in Event
        /\ queue'[Len(queue) + 1] = exit /\ queue'[Len(queue) + 2] = Completion
        /\ Len(queue) \in Nat
    BY <2>2, <2>3
  <2>5. ASSUME NEW i \in DOMAIN queue', queue'[i].type = "exit", queue'[i].spid # Main
        PROVE  Gone(queue[i].spid)'
    <3>1. i \in 1 .. Len(queue)
      BY <2>2, <2>4, <2>5
    <3>2. queue'[i] = queue[i] /\ queue[i].spid \in Commands
      BY <2>4, <2>5, <3>1 DEF Event
    <3> QED BY <2>1, <2>4, <2>5, <3>1, <3>2 DEF ExitsInv
  <2> QED BY <2>5 DEF ExitsInv
<1>39. ASSUME SaveFails PROVE ExitsInv'
  BY <1>39, ExitsCancel DEF SaveFails, TypeOK, calls
<1>40. ASSUME WorkerCleansUp PROVE ExitsInv'
  BY <1>40, ExitsCancel DEF WorkerCleansUp, TypeOK, calls
<1>41. ASSUME NEW c \in Callers,
              WaitsAgain(c)
       PROVE  UNCHANGED <<queue, procs, torn, fs, pc>>
  BY <1>41 DEF WaitsAgain, calls, outside, most, server
<1>42. ASSUME ReaderEnds \/ StreamBreaks
       PROVE  UNCHANGED <<queue, procs, torn, fs, pc>>
  BY <1>42 DEF ReaderEnds, calls, server, StreamBreaks
<1>43. ASSUME IdleFires \/ VmTimerFires \/ PolicyDecides
       PROVE  UNCHANGED <<queue, procs, torn, fs, pc>>
  BY <1>43 DEF IdleFires, calls, server, VmTimerFires, PolicyDecides
<1>44. ASSUME WorkerStops \/ WorkerDecides \/ WorkerSignals \/ SaveJoins \/ WorkerCommits \/
              WorkerPublishes \/ WorkerFails
       PROVE  UNCHANGED <<queue, procs, torn, fs, pc>>
  BY <1>44 DEF WorkerStops, calls, server, WorkerDecides, outside, WorkerSignals, SaveJoins,
               WorkerCommits, WorkerPublishes, WorkerFails
<1>45. ASSUME UNCHANGED vars PROVE UNCHANGED <<queue, procs, torn, fs, pc>>
  BY <1>45 DEF vars, outside, server, calls
<1>46. ASSUME UNCHANGED <<queue, procs, torn, fs, pc>> PROVE ExitsInv'
  BY <1>46 DEF ExitsInv, Gone, Returned, TypeOK, TypeEvents, TypeCalls, TypeServer, Event
<1> QED BY <1>1, <1>2, <1>3, <1>4, <1>5, <1>6, <1>7, <1>8, <1>9, <1>10, <1>11, <1>12, <1>13,
           <1>14, <1>15, <1>16, <1>17, <1>18, <1>19, <1>20, <1>21, <1>22, <1>23, <1>24, <1>25,
           <1>26, <1>27, <1>28, <1>29, <1>30, <1>31, <1>32, <1>33, <1>34, <1>35, <1>36, <1>37,
           <1>38, <1>39, <1>40, <1>41, <1>42, <1>43, <1>44, <1>45, <1>46
     DEF Command, Inspection, Snapshot, Close, Abort, Reader, Server, Policy, Worker, Next, AllReturned

\* Every process that runs, or died with the VM, is still counted.
LEMMA TrackStep ==
    ASSUME TypeOK, LockInv, ExitsInv, TrackInv, SaveInv, [Next]_vars
    PROVE  TrackInv'
<1>1. ASSUME NEW c \in Users, Refused(c) PROVE TrackInv'
  BY <1>1 DEF TrackInv, LockInv, Locking, TypeOK, TypeCalls, TypeServer, TypeWrapper, Ended,
              Refused, Enters, CheckOk, Leaves, still, most, Go, state, outside, server
<1>2. ASSUME NEW c \in Users, StartVm(c) PROVE TrackInv'
  BY <1>2 DEF TrackInv, LockInv, Locking, TypeOK, TypeCalls, TypeServer, TypeWrapper, Ended,
              StartVm, Enters, CheckOk, Leaves, server, Go
<1>3. ASSUME NEW c \in Users, VmStarted(c) PROVE TrackInv'
  BY <1>3 DEF TrackInv, LockInv, Locking, TypeOK, TypeCalls, TypeServer, TypeWrapper, Ended,
              VmStarted, ServerStartsVm, Go, state
<1>4. ASSUME NEW c \in Users, StartFails(c) PROVE TrackInv'
  BY <1>4 DEF TrackInv, LockInv, Locking, TypeOK, TypeCalls, TypeServer, TypeWrapper, Ended,
              StartFails, server, ServerStartsVm, Fail, Waiting, Go, state
<1>5. ASSUME NEW c \in Users, Joins(c) PROVE TrackInv'
  BY <1>5 DEF TrackInv, LockInv, Locking, TypeOK, TypeCalls, TypeServer, TypeWrapper, Ended,
              Joins, Enters, CheckOk, Leaves, still, most, Go, state, outside, server
<1>6. ASSUME NEW c \in Users, WaitsForSnapshot(c) PROVE TrackInv'
  BY <1>6 DEF TrackInv, LockInv, Locking, TypeOK, TypeCalls, TypeServer, TypeWrapper, Ended,
              WaitsForSnapshot, Enters, CheckOk, Waiting, Go, state, most, outside, server
<1>7. ASSUME NEW c \in Users, PolicyBreaks(c) PROVE TrackInv'
  BY <1>7 DEF TrackInv, LockInv, Locking, TypeOK, TypeCalls, TypeServer, TypeWrapper, Ended,
              PolicyBreaks, Enters, CheckOk, Fail, Waiting, Go, state, most, outside, server
<1>8. ASSUME NEW c \in Users, Abandon(c) PROVE TrackInv'
  BY <1>8 DEF TrackInv, LockInv, Locking, TypeOK, TypeCalls, TypeServer, TypeWrapper, Ended,
              Abandon, CancelVm, CancelFails, server, Go, still, state
<1>9. ASSUME NEW c \in Commands, FilesFail(c) PROVE TrackInv'
  BY <1>9 DEF TrackInv, LockInv, Locking, TypeOK, TypeCalls, TypeServer, TypeWrapper, Ended,
              FilesFail, Go, still, most, state, outside, server
<1>10. ASSUME NEW c \in Commands, Reserve(c) PROVE TrackInv'
  BY <1>10 DEF TrackInv, LockInv, Locking, TypeOK, TypeCalls, TypeServer, TypeWrapper, Ended,
               Reserve, Go, server
<1>11. ASSUME NEW c \in Commands, ServerCreates(c) PROVE TrackInv'
  BY <1>11 DEF TrackInv, LockInv, Locking, TypeOK, TypeCalls, TypeServer, TypeWrapper, Ended,
               ServerCreates, HasRun, still, calls, state
<1>12. ASSUME NEW c \in Commands, Created(c) PROVE TrackInv'
  BY <1>12 DEF TrackInv, LockInv, Locking, TypeOK, TypeCalls, TypeServer, TypeWrapper, Ended,
               Created, HasRun, Waiting, Go, most, outside, server
<1>13. ASSUME NEW c \in Commands, CreateFails(c) PROVE TrackInv'
  BY <1>13 DEF TrackInv, LockInv, Locking, TypeOK, TypeCalls, TypeServer, TypeWrapper, Ended,
               CreateFails, Fail, Waiting, Go, most, outside, server
<1>14. ASSUME NEW c \in Commands, ReturnResult(c) PROVE TrackInv'
  BY <1>14 DEF TrackInv, LockInv, Locking, TypeOK, TypeCalls, TypeServer, TypeWrapper, Ended,
               ReturnResult, Go, still, most, state, outside, server
<1>15. ASSUME NEW c \in Commands, AwaitFails(c) PROVE TrackInv'
  BY <1>15 DEF TrackInv, LockInv, Locking, TypeOK, TypeCalls, TypeServer, TypeWrapper, Ended,
               AwaitFails, server, Go, still, state
<1>16. ASSUME NEW c \in Inspections, InspectsImage(c) PROVE TrackInv'
  BY <1>16 DEF TrackInv, LockInv, Locking, TypeOK, TypeCalls, TypeServer, TypeWrapper, Ended,
               InspectsImage, Enters, CheckOk, Leaves, still, most, Go, state, outside, server
<1>17. ASSUME NEW c \in Inspections, HoldsVm(c) PROVE TrackInv'
  BY <1>17 DEF TrackInv, LockInv, Locking, TypeOK, TypeCalls, TypeServer, TypeWrapper, Ended,
               HoldsVm, Go, server
<1>18. ASSUME NEW c \in Inspections, ReadyToInspect(c) PROVE TrackInv'
  BY <1>18 DEF TrackInv, LockInv, Locking, TypeOK, TypeCalls, TypeServer, TypeWrapper, Ended,
               ReadyToInspect, Wakes, VmIsReady, Leaves, still, most, Go, state, outside, server
<1>19. ASSUME NEW c \in Inspections, ReadyFails(c) PROVE TrackInv'
  BY <1>19 DEF TrackInv, LockInv, Locking, TypeOK, TypeCalls, TypeServer, TypeWrapper, Ended,
               ReadyFails, Leaves, still, most, Go, state, outside, server
<1>20. ASSUME NEW c \in Inspections, ReleaseInspection(c) PROVE TrackInv'
  BY <1>20 DEF TrackInv, LockInv, Locking, TypeOK, TypeCalls, TypeServer, TypeWrapper, Ended,
               ReleaseInspection, InspectionFinished, Waiting, Go, server
<1>21. ASSUME NEW c \in Snapshots, SnapshotReturns(c) PROVE TrackInv'
  BY <1>21 DEF TrackInv, LockInv, Locking, TypeOK, TypeCalls, TypeServer, TypeWrapper, Ended,
               SnapshotReturns, CheckOk, Go, NothingToSave, Asks, still, most, state, outside,
               server
<1>22. ASSUME NEW c \in Snapshots, SnapshotAsks(c) PROVE TrackInv'
  BY <1>22 DEF TrackInv, LockInv, Locking, TypeOK, TypeCalls, TypeServer, TypeWrapper, Ended,
               SnapshotAsks, CheckOk, NothingToSave, Asks, Waiting, Go, state, most, outside,
               server
<1>23. ASSUME NEW c \in Snapshots, SnapshotAnswers(c) PROVE TrackInv'
  BY <1>23 DEF TrackInv, LockInv, Locking, TypeOK, TypeCalls, TypeServer, TypeWrapper, Ended,
               SnapshotAnswers, Wakes, SnapshotIsOver, Leaves, still, most, Go, state, outside,
               server
<1>24. ASSUME NEW c \in Closes, CloseAsks(c) PROVE TrackInv'
  BY <1>24 DEF TrackInv, LockInv, Locking, TypeOK, TypeCalls, TypeServer, TypeWrapper, Ended,
               CloseAsks, Go, ClosingPhase, Waiting, server
<1>25. ASSUME NEW c \in Closes, CloseAnswers(c) PROVE TrackInv'
  BY <1>25 DEF TrackInv, LockInv, Locking, TypeOK, TypeCalls, TypeServer, TypeWrapper, Ended,
               CloseAnswers, Wakes, Leaves, still, most, Go, state, outside, server
<1>26. ASSUME NEW c \in Closes, CloseReturns(c) PROVE TrackInv'
  BY <1>26 DEF TrackInv, LockInv, Locking, TypeOK, TypeCalls, TypeServer, TypeWrapper, Ended,
               CloseReturns, Go, still, most, state, outside, server
<1>27. ASSUME NEW c \in Aborts \cup Closes, AbortWaits(c) PROVE TrackInv'
  BY <1>27 DEF TrackInv, LockInv, Locking, TypeOK, TypeCalls, TypeServer, TypeWrapper, Ended,
               AbortWaits, Go, still, most, state, outside, server
<1>28. ASSUME NEW c \in Aborts \cup Closes, AbortEnds(c) PROVE TrackInv'
  BY <1>28 DEF TrackInv, LockInv, Locking, TypeOK, TypeCalls, TypeServer, TypeWrapper, Ended,
               AbortEnds, Enters, Waiting, Go, server
<1>29. ASSUME NEW c \in Aborts \cup Closes, AbortCancels(c) PROVE TrackInv'
  BY <1>29 DEF TrackInv, LockInv, Locking, TypeOK, TypeCalls, TypeServer, TypeWrapper, Ended,
               AbortCancels, CancelVm, Go, CancelFails, still, server, state
<1>30. ASSUME NEW c \in Aborts \cup Closes, JoinsWorker(c) PROVE TrackInv'
  BY <1>30 DEF TrackInv, LockInv, Locking, TypeOK, TypeCalls, TypeServer, TypeWrapper, Ended,
               JoinsWorker, Go, still, most, state, outside, server
<1>31. ASSUME NEW c \in Rollbacks, Rollback(c) PROVE TrackInv'
  BY <1>31 DEF TrackInv, LockInv, Locking, TypeOK, TypeCalls, TypeServer, TypeWrapper, Ended,
               Rollback, AtBoundary, Go, still, server, CheckOk, state
<1>32. ASSUME NEW c \in Callers, GivesUp(c) PROVE TrackInv'
  BY <1>32 DEF TrackInv, LockInv, Locking, TypeOK, TypeCalls, TypeServer, TypeWrapper, Ended,
               GivesUp, Leaves, still, most, Go, state, outside, server
<1>33. ASSUME ObserveSpawn PROVE TrackInv'
  BY <1>33 DEF TrackInv, LockInv, Locking, TypeOK, TypeCalls, TypeServer, TypeWrapper, Ended,
               ObserveSpawn, Reads, ObserverPasses, calls, Waiting
<1>34. ASSUME ObserveExit PROVE TrackInv'
  <2>1. Head(queue).spid \in Commands /\ Head(queue).spid \notin procs \cup torn
    BY <1>34, ExitRead DEF ObserveExit, Reads, TypeOK, Gone
  <2>2. creating = 0
    BY <1>34 DEF ObserveExit, Reads, LockInv
  <2> QED BY <1>34, <2>1, <2>2 DEF TrackInv, ObserveExit, Reads, calls
<1>35. ASSUME ObserveMainExit PROVE TrackInv'
  BY <1>35 DEF TrackInv, LockInv, Locking, TypeOK, TypeCalls, TypeServer, TypeWrapper, Ended,
               ObserveMainExit, Reads, ObserverRaises, ObserverPasses, state, calls, Waiting,
               Fail
<1>36. ASSUME ObserveCompletion PROVE TrackInv'
  BY <1>36 DEF TrackInv, LockInv, Locking, TypeOK, TypeCalls, TypeServer, TypeWrapper, Ended,
               ObserveCompletion, Reads, ObserverRaises, calls, Waiting, Fail
<1>37. ASSUME ReaderEnds PROVE TrackInv'
  BY <1>37 DEF TrackInv, LockInv, Locking, TypeOK, TypeCalls, TypeServer, TypeWrapper, Ended,
               ReaderEnds, Waiting, Fail, state, server, calls
<1>38. ASSUME NEW c \in Commands, ProcExits(c) PROVE TrackInv'
  BY <1>38 DEF TrackInv, LockInv, Locking, TypeOK, TypeCalls, TypeServer, TypeWrapper, Ended,
               ProcExits, still, calls, state
<1>39. ASSUME NEW o \in {"success", "failed"}, NEW b \in BOOLEAN, VmEnds(o, b) PROVE TrackInv'
  BY <1>39 DEF TrackInv, LockInv, Locking, TypeOK, TypeCalls, TypeServer, TypeWrapper, Ended,
               VmEnds, still, calls, state
<1>40. ASSUME WorkerDecides PROVE TrackInv'
  BY <1>40 DEF TrackInv, LockInv, Locking, TypeOK, TypeCalls, TypeServer, TypeWrapper, Ended,
               WorkerDecides, Drained, Waiting, state, outside, calls, server
<1>41. ASSUME SaveFails PROVE TrackInv'
  BY <1>41 DEF TrackInv, LockInv, Locking, TypeOK, TypeCalls, TypeServer, TypeWrapper, Ended,
               SaveFails, CancelVm, CancelFails, still, calls, server, state
<1>42. ASSUME WorkerPublishes PROVE TrackInv'
  BY <1>42 DEF TrackInv, SaveInv, WorkerPublishes, Ended, server, calls
<1>43. ASSUME WorkerFails PROVE TrackInv'
  BY <1>43 DEF TrackInv, LockInv, Locking, TypeOK, TypeCalls, TypeServer, TypeWrapper, Ended,
               WorkerFails, Fail, Waiting, state, outside, calls, server
<1>44. ASSUME WorkerCleansUp PROVE TrackInv'
  BY <1>44 DEF TrackInv, LockInv, Locking, TypeOK, TypeCalls, TypeServer, TypeWrapper, Ended,
               WorkerCleansUp, CancelVm, CancelFails, still, calls, server, state
<1>45. ASSUME NEW c \in Callers,
              WaitsAgain(c)
       PROVE  UNCHANGED <<procs, torn, phase, pc, active>>
  BY <1>45 DEF WaitsAgain, outside, calls, most, state, server, still
<1>46. ASSUME StreamBreaks
       PROVE  UNCHANGED <<procs, torn, phase, pc, active>>
  BY <1>46 DEF StreamBreaks, still, calls, state, server
<1>47. ASSUME IdleFires \/ VmTimerFires \/ PolicyDecides
       PROVE  UNCHANGED <<procs, torn, phase, pc, active>>
  BY <1>47 DEF IdleFires, still, calls, state, server, VmTimerFires, PolicyDecides
<1>48. ASSUME WorkerStops \/ WorkerSignals \/ SaveJoins \/ WorkerCommits
       PROVE  UNCHANGED <<procs, torn, phase, pc, active>>
  BY <1>48 DEF WorkerStops, still, calls, state, server, WorkerSignals, SaveJoins, outside,
               WorkerCommits
<1>49. ASSUME UNCHANGED vars PROVE UNCHANGED <<procs, torn, phase, pc, active>>
  BY <1>49 DEF vars, still, state, outside, server, calls
<1>50. ASSUME UNCHANGED <<procs, torn, phase, pc, active>> PROVE TrackInv'
  BY <1>50 DEF TrackInv, LockInv, Locking, TypeOK, TypeCalls, TypeServer, TypeWrapper, Ended
<1> QED BY <1>1, <1>2, <1>3, <1>4, <1>5, <1>6, <1>7, <1>8, <1>9, <1>10, <1>11, <1>12, <1>13,
           <1>14, <1>15, <1>16, <1>17, <1>18, <1>19, <1>20, <1>21, <1>22, <1>23, <1>24, <1>25,
           <1>26, <1>27, <1>28, <1>29, <1>30, <1>31, <1>32, <1>33, <1>34, <1>35, <1>36, <1>37,
           <1>38, <1>39, <1>40, <1>41, <1>42, <1>43, <1>44, <1>45, <1>46, <1>47, <1>48, <1>49,
           <1>50
     DEF Command, Inspection, Snapshot, Close, Abort, Reader, Server, Policy, Worker, Next, AllReturned

-----------------------------------------------------------------------------
(* Saves, inspections and entries                                          *)

\* The worker saves in the phase it set, and a save that ended well is sound.
LEMMA SaveStep ==
    ASSUME TypeOK, LockInv, SaveInv, [Next]_vars
    PROVE  SaveInv'
<1>1. ASSUME NEW c \in Users, StartVm(c) PROVE SaveInv'
  BY <1>1 DEF SaveInv, LockInv, Locking, Ended, StartVm, CheckOk, wrapper, reader
<1>2. ASSUME NEW c \in Users, VmStarted(c) PROVE SaveInv'
  BY <1>2 DEF SaveInv, LockInv, Locking, Ended, VmStarted
<1>3. ASSUME NEW c \in Users, StartFails(c) PROVE SaveInv'
  BY <1>3 DEF SaveInv, LockInv, Locking, Ended, StartFails, Fail
<1>4. ASSUME NEW c \in Users, WaitsForSnapshot(c) PROVE SaveInv'
  BY <1>4 DEF SaveInv, LockInv, Locking, Ended, WaitsForSnapshot, CheckOk, most, wrapper,
              outside, reader
<1>5. ASSUME NEW c \in Users, PolicyBreaks(c) PROVE SaveInv'
  BY <1>5 DEF SaveInv, LockInv, Locking, Ended, PolicyBreaks, CheckOk, Fail, most, wrapper,
              outside, reader
<1>6. ASSUME NEW c \in Commands, CreateFails(c) PROVE SaveInv'
  BY <1>6 DEF SaveInv, LockInv, Locking, Ended, CreateFails, Fail, most, wrapper, outside,
              reader
<1>7. ASSUME NEW c \in Snapshots, SnapshotAsks(c) PROVE SaveInv'
  BY <1>7 DEF SaveInv, LockInv, Locking, Ended, SnapshotAsks, CheckOk, NothingToSave, most,
              wrapper, outside, reader
<1>8. ASSUME NEW c \in Closes, CloseAsks(c) PROVE SaveInv'
  BY <1>8 DEF SaveInv, LockInv, Locking, Ended, CloseAsks, ClosingPhase, wrapper, reader
<1>9. ASSUME NEW c \in Aborts \cup Closes, AbortEnds(c) PROVE SaveInv'
  BY <1>9 DEF SaveInv, LockInv, Locking, Ended, AbortEnds, wrapper, reader
<1>10. ASSUME ObserveSpawn PROVE SaveInv'
  BY <1>10 DEF SaveInv, LockInv, Locking, Ended, ObserveSpawn, Reads, ObserverPasses, wrapper,
               reader
<1>11. ASSUME ObserveMainExit PROVE SaveInv'
  BY <1>11 DEF SaveInv, LockInv, Locking, Ended, ObserveMainExit, Reads, ObserverRaises,
               ObserverPasses, wrapper, Fail, reader
<1>12. ASSUME ObserveCompletion PROVE SaveInv'
  BY <1>12 DEF SaveInv, LockInv, Locking, Ended, ObserveCompletion, Reads, ObserverRaises,
               wrapper, Fail
<1>13. ASSUME ReaderEnds PROVE SaveInv'
  BY <1>13 DEF SaveInv, LockInv, Locking, Ended, ReaderEnds, Fail, wrapper
<1>14. ASSUME StreamBreaks PROVE SaveInv'
  BY <1>14 DEF SaveInv, LockInv, Locking, Ended, StreamBreaks, still, wrapper
<1>15. ASSUME WorkerStops PROVE SaveInv'
  BY <1>15 DEF SaveInv, LockInv, Locking, Ended, WorkerStops, WorkerWakes, still, reader
<1>16. ASSUME WorkerDecides PROVE SaveInv'
  BY <1>16 DEF SaveInv, LockInv, Locking, Ended, WorkerDecides, WorkerWakes, outside, reader
<1>17. ASSUME WorkerSignals PROVE SaveInv'
  BY <1>17 DEF SaveInv, LockInv, Locking, Ended, WorkerSignals, still, reader
<1>18. ASSUME SaveFails PROVE SaveInv'
  BY <1>18 DEF SaveInv, LockInv, Locking, Ended, SaveFails, EndedWell, still, reader
<1>19. ASSUME SaveJoins PROVE SaveInv'
  BY <1>19 DEF SaveInv, LockInv, Locking, Ended, SaveJoins, EndedWell, still, outside, reader
<1>20. ASSUME WorkerCommits PROVE SaveInv'
  BY <1>20 DEF SaveInv, LockInv, Locking, Ended, WorkerCommits, still, reader
<1>21. ASSUME WorkerPublishes PROVE SaveInv'
  BY <1>21 DEF SaveInv, LockInv, Locking, Ended, WorkerPublishes, reader
<1>22. ASSUME WorkerFails PROVE SaveInv'
  BY <1>22 DEF SaveInv, LockInv, Locking, Ended, WorkerFails, Fail, outside, reader
<1>23. ASSUME WorkerCleansUp PROVE SaveInv'
  BY <1>23 DEF SaveInv, LockInv, Locking, Ended, WorkerCleansUp, still, reader
<1>24. ASSUME NEW c \in Users,
              Refused(c) \/ Joins(c) \/ Abandon(c)
       PROVE  UNCHANGED <<phase, error, worker, stream>>
  BY <1>24 DEF Refused, outside, most, reader, wrapper, still, Joins, Abandon
<1>25. ASSUME NEW c \in Commands,
              FilesFail(c) \/ Reserve(c) \/ ServerCreates(c) \/ Created(c)
       PROVE  UNCHANGED <<phase, error, worker, stream>>
  BY <1>25 DEF FilesFail, outside, most, reader, wrapper, still, Reserve, ServerCreates, Created
<1>26. ASSUME NEW c \in Commands,
              ReturnResult(c) \/ AwaitFails(c) \/ ProcExits(c)
       PROVE  UNCHANGED <<phase, error, worker, stream>>
  BY <1>26 DEF ReturnResult, outside, most, reader, wrapper, still, AwaitFails, ProcExits
<1>27. ASSUME NEW c \in Inspections,
              InspectsImage(c) \/ HoldsVm(c) \/ ReadyToInspect(c) \/ ReadyFails(c)
       PROVE  UNCHANGED <<phase, error, worker, stream>>
  BY <1>27 DEF InspectsImage, outside, most, reader, wrapper, still, HoldsVm, ReadyToInspect,
               ReadyFails
<1>28. ASSUME NEW c \in Inspections,
              ReleaseInspection(c)
       PROVE  UNCHANGED <<phase, error, worker, stream>>
  BY <1>28 DEF ReleaseInspection, wrapper, reader
<1>29. ASSUME NEW c \in Snapshots,
              SnapshotReturns(c) \/ SnapshotAnswers(c)
       PROVE  UNCHANGED <<phase, error, worker, stream>>
  BY <1>29 DEF SnapshotReturns, outside, most, reader, wrapper, still, SnapshotAnswers
<1>30. ASSUME NEW c \in Closes,
              CloseAnswers(c) \/ CloseReturns(c)
       PROVE  UNCHANGED <<phase, error, worker, stream>>
  BY <1>30 DEF CloseAnswers, outside, most, reader, wrapper, still, CloseReturns
<1>31. ASSUME NEW c \in Aborts \cup Closes,
              AbortWaits(c) \/ AbortCancels(c) \/ JoinsWorker(c)
       PROVE  UNCHANGED <<phase, error, worker, stream>>
  BY <1>31 DEF AbortWaits, outside, most, reader, wrapper, still, AbortCancels, JoinsWorker
<1>32. ASSUME NEW c \in Rollbacks,
              Rollback(c)
       PROVE  UNCHANGED <<phase, error, worker, stream>>
  BY <1>32 DEF Rollback, wrapper, still, reader
<1>33. ASSUME NEW c \in Callers,
              GivesUp(c) \/ WaitsAgain(c)
       PROVE  UNCHANGED <<phase, error, worker, stream>>
  BY <1>33 DEF GivesUp, outside, most, reader, wrapper, still, WaitsAgain
<1>34. ASSUME ObserveExit
       PROVE  UNCHANGED <<phase, error, worker, stream>>
  BY <1>34 DEF ObserveExit, wrapper
<1>35. ASSUME NEW o \in {"success", "failed"}, NEW b \in BOOLEAN,
              VmEnds(o, b)
       PROVE  UNCHANGED <<phase, error, worker, stream>>
  BY <1>35 DEF VmEnds, wrapper, still, reader
<1>36. ASSUME IdleFires \/ VmTimerFires \/ PolicyDecides
       PROVE  UNCHANGED <<phase, error, worker, stream>>
  BY <1>36 DEF IdleFires, wrapper, still, reader, VmTimerFires, PolicyDecides
<1>37. ASSUME UNCHANGED vars PROVE UNCHANGED <<phase, error, worker, stream>>
  BY <1>37 DEF vars, still, wrapper, outside, reader
<1>38. ASSUME UNCHANGED <<phase, error, worker, stream>> PROVE SaveInv'
  BY <1>38 DEF SaveInv, Ended
<1> QED BY <1>1, <1>2, <1>3, <1>4, <1>5, <1>6, <1>7, <1>8, <1>9, <1>10, <1>11, <1>12, <1>13,
           <1>14, <1>15, <1>16, <1>17, <1>18, <1>19, <1>20, <1>21, <1>22, <1>23, <1>24, <1>25,
           <1>26, <1>27, <1>28, <1>29, <1>30, <1>31, <1>32, <1>33, <1>34, <1>35, <1>36, <1>37,
           <1>38
     DEF Command, Inspection, Snapshot, Close, Abort, Reader, Server, Policy, Worker, Next, AllReturned

\* The inspections counted are the ones that hold the VM.
LEMMA HoldStep ==
    ASSUME TypeOK, LockInv, HoldInv, [Next]_vars
    PROVE  HoldInv'
<1>1. ASSUME NEW c \in Users, Refused(c) PROVE HoldInv'
  BY <1>1 DEF HoldInv, Holding, TypeOK, TypeCalls, Refused, Enters, CheckOk, Leaves, still, Go,
              state
<1>2. ASSUME NEW c \in Users, StartVm(c) PROVE HoldInv'
  BY <1>2 DEF HoldInv, Holding, TypeOK, TypeCalls, StartVm, Enters, CheckOk, Leaves, Go
<1>3. ASSUME NEW c \in Users, VmStarted(c) PROVE HoldInv'
  BY <1>3 DEF HoldInv, Holding, TypeOK, TypeCalls, VmStarted, Go, state
<1>4. ASSUME NEW c \in Users, StartFails(c) PROVE HoldInv'
  BY <1>4 DEF HoldInv, Holding, TypeOK, TypeCalls, StartFails, Fail, Waiting, Go, state
<1>5. ASSUME NEW c \in Users, Joins(c) PROVE HoldInv'
  BY <1>5 DEF HoldInv, Holding, TypeOK, TypeCalls, Joins, Enters, CheckOk, Leaves, still, Go,
              state
<1>6. ASSUME NEW c \in Users, WaitsForSnapshot(c) PROVE HoldInv'
  BY <1>6 DEF HoldInv, Holding, TypeOK, TypeCalls, WaitsForSnapshot, Enters, CheckOk, Waiting,
              Go, state
<1>7. ASSUME NEW c \in Users, PolicyBreaks(c) PROVE HoldInv'
  BY <1>7 DEF HoldInv, Holding, TypeOK, TypeCalls, PolicyBreaks, Enters, CheckOk, Fail, Waiting,
              Go, state
<1>8. ASSUME NEW c \in Users, Abandon(c) PROVE HoldInv'
  BY <1>8 DEF HoldInv, Holding, TypeOK, TypeCalls, Abandon, Go, still, state
<1>9. ASSUME NEW c \in Commands, FilesFail(c) PROVE HoldInv'
  BY <1>9 DEF HoldInv, Holding, TypeOK, TypeCalls, FilesFail, Go, still, state
<1>10. ASSUME NEW c \in Commands, Reserve(c) PROVE HoldInv'
  BY <1>10 DEF HoldInv, Holding, TypeOK, TypeCalls, Reserve, Go
<1>11. ASSUME NEW c \in Commands, Created(c) PROVE HoldInv'
  BY <1>11 DEF HoldInv, Holding, TypeOK, TypeCalls, Created, Waiting, Go
<1>12. ASSUME NEW c \in Commands, CreateFails(c) PROVE HoldInv'
  BY <1>12 DEF HoldInv, Holding, TypeOK, TypeCalls, CreateFails, Fail, Waiting, Go
<1>13. ASSUME NEW c \in Commands, ReturnResult(c) PROVE HoldInv'
  BY <1>13 DEF HoldInv, Holding, TypeOK, TypeCalls, ReturnResult, Go, still, state
<1>14. ASSUME NEW c \in Commands, AwaitFails(c) PROVE HoldInv'
  BY <1>14 DEF HoldInv, Holding, TypeOK, TypeCalls, AwaitFails, Go, still, state
<1>15. ASSUME NEW c \in Inspections, InspectsImage(c) PROVE HoldInv'
  BY <1>15 DEF HoldInv, Holding, TypeOK, TypeCalls, InspectsImage, Enters, CheckOk, Leaves,
               still, Go, state
<1>16. ASSUME NEW c \in Inspections, HoldsVm(c) PROVE HoldInv'
  <2>1. c \notin Holding /\ Holding' = Holding \cup {c}
    BY <1>16 DEF Holding, TypeOK, TypeCalls, HoldsVm, Go
  <2>2. IsFiniteSet(Holding)
    BY FS_Subset DEF Holding
  <2>3. Cardinality(Holding') = Cardinality(Holding) + 1
    BY <2>1, <2>2, FS_AddElement
  <2>4. phase' # "snapshotting"
    BY <1>16 DEF HoldsVm, LockInv
  <2> QED BY <1>16, <2>3, <2>4 DEF HoldInv, HoldsVm
<1>17. ASSUME NEW c \in Inspections, ReadyToInspect(c) PROVE HoldInv'
  BY <1>17 DEF HoldInv, Holding, TypeOK, TypeCalls, ReadyToInspect, Wakes, VmIsReady, Leaves,
               still, Go, state
<1>18. ASSUME NEW c \in Inspections, ReadyFails(c) PROVE HoldInv'
  BY <1>18 DEF HoldInv, Holding, TypeOK, TypeCalls, ReadyFails, Leaves, still, Go, state
<1>19. ASSUME NEW c \in Inspections, ReleaseInspection(c) PROVE HoldInv'
  <2>1. c \in Holding /\ Holding' = Holding \ {c}
    BY <1>19 DEF Holding, TypeOK, TypeCalls, ReleaseInspection, Go
  <2>2. IsFiniteSet(Holding)
    BY FS_Subset DEF Holding
  <2>3. Cardinality(Holding') = Cardinality(Holding) - 1
    BY <2>1, <2>2, FS_RemoveElement
  <2> QED BY <1>19, <2>1, <2>3 DEF HoldInv, ReleaseInspection
<1>20. ASSUME NEW c \in Snapshots, SnapshotReturns(c) PROVE HoldInv'
  BY <1>20 DEF HoldInv, Holding, TypeOK, TypeCalls, SnapshotReturns, CheckOk, Go, NothingToSave,
               Asks, still, state
<1>21. ASSUME NEW c \in Snapshots, SnapshotAsks(c) PROVE HoldInv'
  BY <1>21 DEF HoldInv, Holding, TypeOK, TypeCalls, SnapshotAsks, CheckOk, NothingToSave, Asks,
               Waiting, Go, state
<1>22. ASSUME NEW c \in Snapshots, SnapshotAnswers(c) PROVE HoldInv'
  BY <1>22 DEF HoldInv, Holding, TypeOK, TypeCalls, SnapshotAnswers, Wakes, SnapshotIsOver,
               Leaves, still, Go, state
<1>23. ASSUME NEW c \in Closes, CloseAsks(c) PROVE HoldInv'
  BY <1>23 DEF HoldInv, Holding, TypeOK, TypeCalls, CloseAsks, Go, ClosingPhase, Waiting
<1>24. ASSUME NEW c \in Closes, CloseAnswers(c) PROVE HoldInv'
  BY <1>24 DEF HoldInv, Holding, TypeOK, TypeCalls, CloseAnswers, Wakes, Leaves, still, Go,
               state
<1>25. ASSUME NEW c \in Closes, CloseReturns(c) PROVE HoldInv'
  BY <1>25 DEF HoldInv, Holding, TypeOK, TypeCalls, CloseReturns, Go, still, state
<1>26. ASSUME NEW c \in Aborts \cup Closes, AbortWaits(c) PROVE HoldInv'
  BY <1>26 DEF HoldInv, Holding, TypeOK, TypeCalls, AbortWaits, Go, still, state
<1>27. ASSUME NEW c \in Aborts \cup Closes, AbortEnds(c) PROVE HoldInv'
  <2>1. phase' = "closed" /\ UNCHANGED inspecting
    BY <1>27 DEF AbortEnds
  <2>2. /\ pc' = [pc EXCEPT ![c] = IF operation = 0 THEN "joining" ELSE "cancelling"]
        /\ c \notin Inspections
    BY <1>27, CallersAssumption DEF AbortEnds, Go, Users, Boundaries
  <2>3. Holding' = Holding
    BY <2>2 DEF Holding, TypeOK, TypeCalls
  <2> QED BY <2>1, <2>3 DEF HoldInv
<1>28. ASSUME NEW c \in Aborts \cup Closes, AbortCancels(c) PROVE HoldInv'
  <2>1. UNCHANGED <<phase, inspecting>> /\ c \notin Inspections
    BY <1>28, CallersAssumption DEF AbortCancels, still, state, Users, Boundaries
  <2>2. \E where \in {"joining", "unwinding"} : pc' = [pc EXCEPT ![c] = where]
    BY <1>28 DEF AbortCancels, Go
  <2>3. Holding' = Holding
    BY <2>1, <2>2 DEF Holding, TypeOK, TypeCalls
  <2> QED BY <2>1, <2>3 DEF HoldInv
<1>29. ASSUME NEW c \in Aborts \cup Closes, JoinsWorker(c) PROVE HoldInv'
  BY <1>29 DEF HoldInv, Holding, TypeOK, TypeCalls, JoinsWorker, Go, still, state
<1>30. ASSUME NEW c \in Rollbacks, Rollback(c) PROVE HoldInv'
  BY <1>30 DEF HoldInv, Holding, TypeOK, TypeCalls, Rollback, AtBoundary, Go, still, CheckOk,
               state
<1>31. ASSUME NEW c \in Callers, GivesUp(c) PROVE HoldInv'
  BY <1>31 DEF HoldInv, Holding, TypeOK, TypeCalls, GivesUp, Leaves, still, Go, state
<1>32. ASSUME ObserveSpawn PROVE HoldInv'
  BY <1>32 DEF HoldInv, Holding, TypeOK, TypeCalls, ObserveSpawn, Reads, ObserverPasses, calls,
               Waiting
<1>33. ASSUME ObserveMainExit PROVE HoldInv'
  BY <1>33 DEF HoldInv, Holding, TypeOK, TypeCalls, ObserveMainExit, Reads, ObserverRaises,
               ObserverPasses, state, calls, Waiting, Fail
<1>34. ASSUME ObserveCompletion PROVE HoldInv'
  BY <1>34 DEF HoldInv, Holding, TypeOK, TypeCalls, ObserveCompletion, Reads, ObserverRaises,
               calls, Waiting, Fail
<1>35. ASSUME ReaderEnds PROVE HoldInv'
  BY <1>35 DEF HoldInv, Holding, TypeOK, TypeCalls, ReaderEnds, Waiting, Fail, state, calls
<1>36. ASSUME WorkerDecides PROVE HoldInv'
  <2>1. Holding' = Holding
    BY <1>36 DEF Holding, WorkerDecides, calls
  <2>2. IsFiniteSet(Holding)
    BY FS_Subset DEF Holding
  <2>3. inspecting = 0 => Holding = {}
    BY <2>2, FS_EmptySet DEF HoldInv
  <2> QED BY <1>36, <2>1, <2>3 DEF HoldInv, WorkerDecides, Drained, state
<1>37. ASSUME WorkerPublishes PROVE HoldInv'
  BY <1>37 DEF HoldInv, Holding, TypeOK, TypeCalls, WorkerPublishes, Waiting, calls
<1>38. ASSUME WorkerFails PROVE HoldInv'
  BY <1>38 DEF HoldInv, Holding, TypeOK, TypeCalls, WorkerFails, Fail, Waiting, state, calls
<1>39. ASSUME NEW c \in Commands,
              ServerCreates(c) \/ ProcExits(c)
       PROVE  UNCHANGED <<pc, inspecting, phase>>
  BY <1>39 DEF ServerCreates, still, calls, state, ProcExits
<1>40. ASSUME NEW c \in Callers,
              WaitsAgain(c)
       PROVE  UNCHANGED <<pc, inspecting, phase>>
  BY <1>40 DEF WaitsAgain, still, calls, state
<1>41. ASSUME ObserveExit \/ StreamBreaks
       PROVE  UNCHANGED <<pc, inspecting, phase>>
  BY <1>41 DEF ObserveExit, calls, StreamBreaks, still, state
<1>42. ASSUME NEW o \in {"success", "failed"}, NEW b \in BOOLEAN,
              VmEnds(o, b)
       PROVE  UNCHANGED <<pc, inspecting, phase>>
  BY <1>42 DEF VmEnds, still, calls, state
<1>43. ASSUME IdleFires \/ VmTimerFires \/ PolicyDecides
       PROVE  UNCHANGED <<pc, inspecting, phase>>
  BY <1>43 DEF IdleFires, still, calls, state, VmTimerFires, PolicyDecides
<1>44. ASSUME WorkerStops \/ WorkerSignals \/ SaveFails \/ SaveJoins \/ WorkerCommits \/
              WorkerCleansUp
       PROVE  UNCHANGED <<pc, inspecting, phase>>
  BY <1>44 DEF WorkerStops, still, calls, state, WorkerSignals, SaveFails, SaveJoins,
               WorkerCommits, WorkerCleansUp
<1>45. ASSUME UNCHANGED vars PROVE UNCHANGED <<pc, inspecting, phase>>
  BY <1>45 DEF vars, still, state, calls
<1>46. ASSUME UNCHANGED <<pc, inspecting, phase>> PROVE HoldInv'
  BY <1>46 DEF HoldInv, Holding, TypeOK, TypeCalls
<1> QED BY <1>1, <1>2, <1>3, <1>4, <1>5, <1>6, <1>7, <1>8, <1>9, <1>10, <1>11, <1>12, <1>13,
           <1>14, <1>15, <1>16, <1>17, <1>18, <1>19, <1>20, <1>21, <1>22, <1>23, <1>24, <1>25,
           <1>26, <1>27, <1>28, <1>29, <1>30, <1>31, <1>32, <1>33, <1>34, <1>35, <1>36, <1>37,
           <1>38, <1>39, <1>40, <1>41, <1>42, <1>43, <1>44, <1>45, <1>46
     DEF Command, Inspection, Snapshot, Close, Abort, Reader, Server, Policy, Worker, Next, AllReturned

\* A save appends whole commands only.
LEMMA NoTornStep ==
    ASSUME TypeOK, LockInv, TrackInv, SaveInv, NoTornSnapshot, [Next]_vars
    PROVE  NoTornSnapshot'
<1>1. ASSUME WorkerCommits PROVE NoTornSnapshot'
  <2>1. CASE history' = Append(history, [parent |-> opParent, files |-> fs, torn |-> torn])
    <3>1. /\ Len(history) \in Nat /\ DOMAIN history = 1 .. Len(history)
          /\ DOMAIN history' = 1 .. Len(history) + 1
          /\ \A i \in 1 .. Len(history) : history'[i] = history[i]
          /\ history'[Len(history) + 1].torn = torn
      BY <2>1 DEF TypeOK, TypeSession
    <3>2. phase = "snapshotting"
      BY <1>1 DEF WorkerCommits, SaveInv
    <3>3. \A c \in Commands : pc[c] # "creating"
      BY <3>2 DEF LockInv
    <3>4. torn = {}
      BY <3>2, <3>3 DEF TrackInv, Ended, TypeOK, TypeServer
    <3> QED BY <3>1, <3>4 DEF NoTornSnapshot
  <2>2. CASE UNCHANGED history
    BY <2>2 DEF NoTornSnapshot
  <2> QED BY <1>1, <2>1, <2>2 DEF WorkerCommits
<1>2. ASSUME NEW c \in Users,
             Refused(c) \/ StartVm(c) \/ VmStarted(c) \/ StartFails(c) \/ Joins(c) \/
             WaitsForSnapshot(c) \/ PolicyBreaks(c) \/ Abandon(c)
      PROVE  UNCHANGED <<history>>
  BY <1>2 DEF Refused, session, outside, most, StartVm, VmStarted, StartFails, Joins,
              WaitsForSnapshot, PolicyBreaks, Abandon
<1>3. ASSUME NEW c \in Commands,
             FilesFail(c) \/ Reserve(c) \/ ServerCreates(c) \/ Created(c) \/
             CreateFails(c) \/ ReturnResult(c) \/ AwaitFails(c) \/ ProcExits(c)
      PROVE  UNCHANGED <<history>>
  BY <1>3 DEF FilesFail, session, outside, most, Reserve, ServerCreates, Created, CreateFails,
              ReturnResult, AwaitFails, ProcExits
<1>4. ASSUME NEW c \in Inspections,
             InspectsImage(c) \/ HoldsVm(c) \/ ReadyToInspect(c) \/ ReadyFails(c) \/
             ReleaseInspection(c)
      PROVE  UNCHANGED <<history>>
  BY <1>4 DEF InspectsImage, session, outside, most, HoldsVm, ReadyToInspect, ReadyFails,
              ReleaseInspection
<1>5. ASSUME NEW c \in Snapshots,
             SnapshotReturns(c) \/ SnapshotAsks(c) \/ SnapshotAnswers(c)
      PROVE  UNCHANGED <<history>>
  BY <1>5 DEF SnapshotReturns, session, outside, most, SnapshotAsks, SnapshotAnswers
<1>6. ASSUME NEW c \in Closes,
             CloseAsks(c) \/ CloseAnswers(c) \/ CloseReturns(c)
      PROVE  UNCHANGED <<history>>
  BY <1>6 DEF CloseAsks, session, CloseAnswers, outside, most, CloseReturns
<1>7. ASSUME NEW c \in Aborts \cup Closes,
             AbortWaits(c) \/ AbortEnds(c) \/ AbortCancels(c) \/ JoinsWorker(c)
      PROVE  UNCHANGED <<history>>
  BY <1>7 DEF AbortWaits, session, outside, most, AbortEnds, AbortCancels, JoinsWorker
<1>8. ASSUME NEW c \in Rollbacks,
             Rollback(c)
      PROVE  UNCHANGED <<history>>
  BY <1>8 DEF Rollback
<1>9. ASSUME NEW c \in Callers,
             GivesUp(c) \/ WaitsAgain(c)
      PROVE  UNCHANGED <<history>>
  BY <1>9 DEF GivesUp, session, outside, most, WaitsAgain
<1>10. ASSUME ObserveSpawn \/ ObserveExit \/ ObserveMainExit \/ ObserveCompletion \/
              ReaderEnds \/ StreamBreaks
       PROVE  UNCHANGED <<history>>
  BY <1>10 DEF ObserveSpawn, session, ObserveExit, ObserveMainExit, ObserveCompletion,
               ReaderEnds, StreamBreaks
<1>11. ASSUME NEW o \in {"success", "failed"}, NEW b \in BOOLEAN,
              VmEnds(o, b)
       PROVE  UNCHANGED <<history>>
  BY <1>11 DEF VmEnds, session
<1>12. ASSUME IdleFires \/ VmTimerFires \/ PolicyDecides
       PROVE  UNCHANGED <<history>>
  BY <1>12 DEF IdleFires, session, VmTimerFires, PolicyDecides
<1>13. ASSUME WorkerStops \/ WorkerDecides \/ WorkerSignals \/ SaveFails \/ SaveJoins \/
              WorkerPublishes \/ WorkerFails \/ WorkerCleansUp
       PROVE  UNCHANGED <<history>>
  BY <1>13 DEF WorkerStops, session, WorkerDecides, outside, WorkerSignals, SaveFails,
               SaveJoins, WorkerPublishes, WorkerFails, WorkerCleansUp
<1>14. ASSUME UNCHANGED vars PROVE UNCHANGED <<history>>
  BY <1>14 DEF vars, outside, session
<1>15. ASSUME UNCHANGED <<history>> PROVE NoTornSnapshot'
  BY <1>15 DEF NoTornSnapshot
<1> QED BY <1>1, <1>2, <1>3, <1>4, <1>5, <1>6, <1>7, <1>8, <1>9, <1>10, <1>11, <1>12, <1>13,
           <1>14, <1>15
     DEF Command, Inspection, Snapshot, Close, Abort, Reader, Server, Policy, Worker, Next, AllReturned

-----------------------------------------------------------------------------
(* The VM, the end of the session, the counts and the position             *)

\* An error and the end of the worker come with the end of the session.
LEMMA OverStep ==
    ASSUME TypeOK, LockInv, SaveInv, OverInv, [Next]_vars
    PROVE  OverInv'
<1>1. ASSUME NEW c \in Users, StartVm(c) PROVE OverInv'
  BY <1>1 DEF OverInv, LockInv, Locking, SaveInv, Ended, StartVm, Enters, CheckOk, PolicyReset,
              wrapper
<1>2. ASSUME NEW c \in Users, VmStarted(c) PROVE OverInv'
  BY <1>2 DEF OverInv, LockInv, Locking, SaveInv, Ended, VmStarted
<1>3. ASSUME NEW c \in Users, StartFails(c) PROVE OverInv'
  BY <1>3 DEF OverInv, LockInv, Locking, SaveInv, Ended, StartFails, Fail, policy
<1>4. ASSUME NEW c \in Users, Joins(c) PROVE OverInv'
  BY <1>4 DEF OverInv, LockInv, Locking, SaveInv, Ended, Joins, Enters, CheckOk, Requested,
              PolicyError, still, most, wrapper, outside, policy
<1>5. ASSUME NEW c \in Users, WaitsForSnapshot(c) PROVE OverInv'
  BY <1>5 DEF OverInv, LockInv, Locking, SaveInv, Ended, WaitsForSnapshot, Enters, CheckOk,
              Requested, most, wrapper, outside, policy
<1>6. ASSUME NEW c \in Users, PolicyBreaks(c) PROVE OverInv'
  BY <1>6 DEF OverInv, LockInv, Locking, SaveInv, Ended, PolicyBreaks, Enters, CheckOk,
              PolicyError, Fail, most, wrapper, outside, policy
<1>7. ASSUME NEW c \in Users, Abandon(c) PROVE OverInv'
  BY <1>7 DEF OverInv, LockInv, Locking, SaveInv, Ended, Abandon, PolicyClose, policy, still,
              wrapper, PolicyReset
<1>8. ASSUME NEW c \in Commands, FilesFail(c) PROVE OverInv'
  BY <1>8 DEF OverInv, LockInv, Locking, SaveInv, Ended, FilesFail, still, most, wrapper,
              outside, policy
<1>9. ASSUME NEW c \in Commands, Reserve(c) PROVE OverInv'
  BY <1>9 DEF OverInv, LockInv, Locking, SaveInv, Ended, Reserve, ActivityStarted, wrapper
<1>10. ASSUME NEW c \in Commands, Created(c) PROVE OverInv'
  BY <1>10 DEF OverInv, LockInv, Locking, SaveInv, Ended, Created, most, wrapper, outside,
               policy
<1>11. ASSUME NEW c \in Commands, CreateFails(c) PROVE OverInv'
  BY <1>11 DEF OverInv, LockInv, Locking, SaveInv, Ended, CreateFails, Fail, most, wrapper,
               outside, policy
<1>12. ASSUME NEW c \in Inspections, HoldsVm(c) PROVE OverInv'
  BY <1>12 DEF OverInv, LockInv, Locking, SaveInv, Ended, HoldsVm, ActivityStarted, wrapper
<1>13. ASSUME NEW c \in Inspections, ReleaseInspection(c) PROVE OverInv'
  BY <1>13 DEF OverInv, LockInv, Locking, SaveInv, Ended, ReleaseInspection, InspectionFinished,
               wrapper, policy, ActivityFinished
<1>14. ASSUME NEW c \in Snapshots, SnapshotAsks(c) PROVE OverInv'
  BY <1>14 DEF OverInv, LockInv, Locking, SaveInv, Ended, SnapshotAsks, CheckOk, NothingToSave,
               most, wrapper, outside, policy
<1>15. ASSUME NEW c \in Closes, CloseAsks(c) PROVE OverInv'
  BY <1>15 DEF OverInv, LockInv, Locking, SaveInv, Ended, CloseAsks, policy, ClosingPhase,
               PolicyClose, wrapper, PolicyReset
<1>16. ASSUME NEW c \in Aborts \cup Closes, AbortEnds(c) PROVE OverInv'
  BY <1>16 DEF OverInv, LockInv, Locking, SaveInv, Ended, AbortEnds, Enters, PolicyClose,
               wrapper, PolicyReset
<1>17. ASSUME ObserveSpawn PROVE OverInv'
  BY <1>17 DEF OverInv, LockInv, Locking, SaveInv, Ended, ObserveSpawn, Reads, ObserverPasses,
               wrapper, policy
<1>18. ASSUME ObserveExit PROVE OverInv'
  BY <1>18 DEF OverInv, LockInv, Locking, SaveInv, Ended, ObserveExit, Reads, ActivityFinished,
               policy, wrapper
<1>19. ASSUME ObserveMainExit PROVE OverInv'
  BY <1>19 DEF OverInv, LockInv, Locking, SaveInv, Ended, ObserveMainExit, Reads,
               ObserverRaises, ObserverPasses, wrapper, policy, Fail
<1>20. ASSUME ObserveCompletion PROVE OverInv'
  BY <1>20 DEF OverInv, LockInv, Locking, SaveInv, Ended, ObserveCompletion, Reads,
               ObserverRaises, wrapper, policy, Fail
<1>21. ASSUME ReaderEnds PROVE OverInv'
  BY <1>21 DEF OverInv, LockInv, Locking, SaveInv, Ended, ReaderEnds, Fail, wrapper, policy
<1>22. ASSUME IdleFires PROVE OverInv'
  BY <1>22 DEF OverInv, LockInv, Locking, SaveInv, Ended, IdleFires, Resolve, still, wrapper
<1>23. ASSUME VmTimerFires PROVE OverInv'
  BY <1>23 DEF OverInv, LockInv, Locking, SaveInv, Ended, VmTimerFires, Resolve, still, wrapper
<1>24. ASSUME PolicyDecides PROVE OverInv'
  BY <1>24 DEF OverInv, LockInv, Locking, SaveInv, Ended, PolicyDecides, Resolve, still, wrapper
<1>25. ASSUME WorkerStops PROVE OverInv'
  BY <1>25 DEF OverInv, LockInv, Locking, SaveInv, Ended, WorkerStops, WorkerWakes, PolicyClose,
               PolicyError, policy, still, PolicyReset
<1>26. ASSUME WorkerDecides PROVE OverInv'
  BY <1>26 DEF OverInv, LockInv, Locking, SaveInv, Ended, WorkerDecides, Requested, WorkerWakes,
               PolicyError, outside, policy
<1>27. ASSUME WorkerSignals PROVE OverInv'
  BY <1>27 DEF OverInv, LockInv, Locking, SaveInv, Ended, WorkerSignals, still, policy
<1>28. ASSUME SaveFails PROVE OverInv'
  BY <1>28 DEF OverInv, LockInv, Locking, SaveInv, Ended, SaveFails, still, policy
<1>29. ASSUME SaveJoins PROVE OverInv'
  BY <1>29 DEF OverInv, LockInv, Locking, SaveInv, Ended, SaveJoins, still, outside, policy
<1>30. ASSUME WorkerCommits PROVE OverInv'
  BY <1>30 DEF OverInv, LockInv, Locking, SaveInv, Ended, WorkerCommits, still, policy
<1>31. ASSUME WorkerPublishes PROVE OverInv'
  BY <1>31 DEF OverInv, LockInv, Locking, SaveInv, Ended, WorkerPublishes, PolicyReset
<1>32. ASSUME WorkerFails PROVE OverInv'
  BY <1>32 DEF OverInv, LockInv, Locking, SaveInv, Ended, WorkerFails, Fail, outside, policy
<1>33. ASSUME WorkerCleansUp PROVE OverInv'
  BY <1>33 DEF OverInv, LockInv, Locking, SaveInv, Ended, WorkerCleansUp, PolicyClose, still,
               PolicyReset
<1>34. ASSUME NEW c \in Users,
              Refused(c)
       PROVE  UNCHANGED <<phase, error, worker, future, lock>>
  BY <1>34 DEF Refused, most, outside, wrapper, policy, still
<1>35. ASSUME NEW c \in Commands,
              ServerCreates(c) \/ ReturnResult(c) \/ AwaitFails(c) \/ ProcExits(c)
       PROVE  UNCHANGED <<phase, error, worker, future, lock>>
  BY <1>35 DEF ServerCreates, wrapper, policy, still, ReturnResult, most, outside, AwaitFails,
               ProcExits
<1>36. ASSUME NEW c \in Inspections,
              InspectsImage(c) \/ ReadyToInspect(c) \/ ReadyFails(c)
       PROVE  UNCHANGED <<phase, error, worker, future, lock>>
  BY <1>36 DEF InspectsImage, most, outside, wrapper, policy, still, ReadyToInspect, ReadyFails
<1>37. ASSUME NEW c \in Snapshots,
              SnapshotReturns(c) \/ SnapshotAnswers(c)
       PROVE  UNCHANGED <<phase, error, worker, future, lock>>
  BY <1>37 DEF SnapshotReturns, most, outside, wrapper, policy, still, SnapshotAnswers
<1>38. ASSUME NEW c \in Closes,
              CloseAnswers(c) \/ CloseReturns(c)
       PROVE  UNCHANGED <<phase, error, worker, future, lock>>
  BY <1>38 DEF CloseAnswers, most, outside, wrapper, policy, still, CloseReturns
<1>39. ASSUME NEW c \in Aborts \cup Closes,
              AbortWaits(c) \/ AbortCancels(c) \/ JoinsWorker(c)
       PROVE  UNCHANGED <<phase, error, worker, future, lock>>
  BY <1>39 DEF AbortWaits, most, outside, wrapper, policy, still, AbortCancels, JoinsWorker
<1>40. ASSUME NEW c \in Rollbacks,
              Rollback(c)
       PROVE  UNCHANGED <<phase, error, worker, future, lock>>
  BY <1>40 DEF Rollback, wrapper, policy, still
<1>41. ASSUME NEW c \in Callers,
              GivesUp(c) \/ WaitsAgain(c)
       PROVE  UNCHANGED <<phase, error, worker, future, lock>>
  BY <1>41 DEF GivesUp, most, outside, wrapper, policy, still, WaitsAgain
<1>42. ASSUME StreamBreaks
       PROVE  UNCHANGED <<phase, error, worker, future, lock>>
  BY <1>42 DEF StreamBreaks, wrapper, policy, still
<1>43. ASSUME NEW o \in {"success", "failed"}, NEW b \in BOOLEAN,
              VmEnds(o, b)
       PROVE  UNCHANGED <<phase, error, worker, future, lock>>
  BY <1>43 DEF VmEnds, wrapper, policy, still
<1>44. ASSUME UNCHANGED vars PROVE UNCHANGED <<phase, error, worker, future, lock>>
  BY <1>44 DEF vars, still, wrapper, outside, policy
<1>45. ASSUME UNCHANGED <<phase, error, worker, future, lock>> PROVE OverInv'
  BY <1>45 DEF OverInv, Ended
<1> QED BY <1>1, <1>2, <1>3, <1>4, <1>5, <1>6, <1>7, <1>8, <1>9, <1>10, <1>11, <1>12, <1>13,
           <1>14, <1>15, <1>16, <1>17, <1>18, <1>19, <1>20, <1>21, <1>22, <1>23, <1>24, <1>25,
           <1>26, <1>27, <1>28, <1>29, <1>30, <1>31, <1>32, <1>33, <1>34, <1>35, <1>36, <1>37,
           <1>38, <1>39, <1>40, <1>41, <1>42, <1>43, <1>44, <1>45
     DEF Command, Inspection, Snapshot, Close, Abort, Reader, Server, Policy, Worker, Next, AllReturned

\* The VM that runs is the cycle's, and its entry is committed after its end.
LEMMA VmStep ==
    ASSUME TypeOK, LockInv, SaveInv, VmInv, [Next]_vars
    PROVE  VmInv'
<1>1. ASSUME NEW c \in Users, StartVm(c) PROVE VmInv'
  BY <1>1 DEF VmInv, Serving, LockInv, Locking, SaveInv, StartVm, CheckOk, wrapper, server
<1>2. ASSUME NEW c \in Users, VmStarted(c) PROVE VmInv'
  BY <1>2 DEF VmInv, Serving, LockInv, Locking, SaveInv, VmStarted, ServerStartsVm, state
<1>3. ASSUME NEW c \in Users, StartFails(c) PROVE VmInv'
  BY <1>3 DEF VmInv, Serving, LockInv, Locking, SaveInv, StartFails, server, ServerStartsVm,
              Fail, state
<1>4. ASSUME NEW c \in Users, WaitsForSnapshot(c) PROVE VmInv'
  BY <1>4 DEF VmInv, Serving, LockInv, Locking, SaveInv, WaitsForSnapshot, CheckOk, state, most,
              wrapper, outside, server
<1>5. ASSUME NEW c \in Users, PolicyBreaks(c) PROVE VmInv'
  BY <1>5 DEF VmInv, Serving, LockInv, Locking, SaveInv, PolicyBreaks, CheckOk, Fail, state,
              most, wrapper, outside, server
<1>6. ASSUME NEW c \in Users, Abandon(c) PROVE VmInv'
  BY <1>6 DEF VmInv, Serving, LockInv, Locking, SaveInv, Abandon, CancelVm, CancelFails, server,
              still, wrapper, state
<1>7. ASSUME NEW c \in Commands, CreateFails(c) PROVE VmInv'
  BY <1>7 DEF VmInv, Serving, LockInv, Locking, SaveInv, CreateFails, Fail, most, wrapper,
              outside, server
<1>8. ASSUME NEW c \in Commands, AwaitFails(c) PROVE VmInv'
  BY <1>8 DEF VmInv, Serving, LockInv, Locking, SaveInv, AwaitFails, server, still, wrapper,
              state
<1>9. ASSUME NEW c \in Snapshots, SnapshotAsks(c) PROVE VmInv'
  BY <1>9 DEF VmInv, Serving, LockInv, Locking, SaveInv, SnapshotAsks, CheckOk, NothingToSave,
              state, most, wrapper, outside, server
<1>10. ASSUME NEW c \in Closes, CloseAsks(c) PROVE VmInv'
  BY <1>10 DEF VmInv, Serving, LockInv, Locking, SaveInv, CloseAsks, ClosingPhase, wrapper,
               server
<1>11. ASSUME NEW c \in Aborts \cup Closes, AbortEnds(c) PROVE VmInv'
  BY <1>11 DEF VmInv, Serving, LockInv, Locking, SaveInv, AbortEnds, wrapper, server
<1>12. ASSUME NEW c \in Aborts \cup Closes, AbortCancels(c) PROVE VmInv'
  BY <1>12 DEF VmInv, Serving, LockInv, Locking, SaveInv, AbortCancels, CancelVm, CancelFails,
               still, wrapper, server, state
<1>13. ASSUME ObserveSpawn PROVE VmInv'
  BY <1>13 DEF VmInv, Serving, LockInv, Locking, SaveInv, ObserveSpawn, ObserverPasses, wrapper
<1>14. ASSUME ObserveMainExit PROVE VmInv'
  BY <1>14 DEF VmInv, Serving, LockInv, Locking, SaveInv, ObserveMainExit, ObserverRaises,
               ObserverPasses, state, wrapper, Fail
<1>15. ASSUME ObserveCompletion PROVE VmInv'
  BY <1>15 DEF VmInv, Serving, LockInv, Locking, SaveInv, ObserveCompletion, ObserverRaises,
               wrapper, Fail
<1>16. ASSUME ReaderEnds PROVE VmInv'
  BY <1>16 DEF VmInv, Serving, LockInv, Locking, SaveInv, ReaderEnds, Fail, state, wrapper,
               server
<1>17. ASSUME NEW o \in {"success", "failed"}, NEW b \in BOOLEAN, VmEnds(o, b) PROVE VmInv'
  BY <1>17 DEF VmInv, Serving, LockInv, Locking, SaveInv, VmEnds, still, wrapper, state
<1>18. ASSUME WorkerStops PROVE VmInv'
  BY <1>18 DEF VmInv, Serving, LockInv, Locking, SaveInv, WorkerStops, WorkerWakes, still,
               server, state
<1>19. ASSUME WorkerDecides PROVE VmInv'
  BY <1>19 DEF VmInv, Serving, LockInv, Locking, SaveInv, WorkerDecides, WorkerWakes, state,
               outside, server
<1>20. ASSUME WorkerSignals PROVE VmInv'
  BY <1>20 DEF VmInv, Serving, LockInv, Locking, SaveInv, WorkerSignals, still, state
<1>21. ASSUME SaveFails PROVE VmInv'
  BY <1>21 DEF VmInv, Serving, LockInv, Locking, SaveInv, SaveFails, EndedWell, CancelVm,
               CancelFails, still, server, state
<1>22. ASSUME SaveJoins PROVE VmInv'
  BY <1>22 DEF VmInv, Serving, LockInv, Locking, SaveInv, SaveJoins, EndedWell, still, outside,
               state, server
<1>23. ASSUME WorkerCommits PROVE VmInv'
  BY <1>23 DEF VmInv, Serving, LockInv, Locking, SaveInv, WorkerCommits, still, server, state
<1>24. ASSUME WorkerPublishes PROVE VmInv'
  BY <1>24 DEF VmInv, Serving, LockInv, Locking, SaveInv, WorkerPublishes, server
<1>25. ASSUME WorkerFails PROVE VmInv'
  BY <1>25 DEF VmInv, Serving, LockInv, Locking, SaveInv, WorkerFails, Fail, state, outside,
               server
<1>26. ASSUME WorkerCleansUp PROVE VmInv'
  BY <1>26 DEF VmInv, Serving, LockInv, Locking, SaveInv, WorkerCleansUp, CancelVm, CancelFails,
               still, server, state
<1>27. ASSUME NEW c \in Users,
              Refused(c) \/ Joins(c)
       PROVE  UNCHANGED <<live, vmState, operation, snapshots, phase, worker>>
  BY <1>27 DEF Refused, most, server, outside, state, wrapper, still, Joins
<1>28. ASSUME NEW c \in Commands,
              FilesFail(c) \/ Reserve(c) \/ ServerCreates(c) \/ Created(c) \/
              ReturnResult(c) \/ ProcExits(c)
       PROVE  UNCHANGED <<live, vmState, operation, snapshots, phase, worker>>
  BY <1>28 DEF FilesFail, most, server, outside, state, wrapper, still, Reserve, ServerCreates,
               Created, ReturnResult, ProcExits
<1>29. ASSUME NEW c \in Inspections,
              InspectsImage(c) \/ HoldsVm(c) \/ ReadyToInspect(c) \/ ReadyFails(c) \/
              ReleaseInspection(c)
       PROVE  UNCHANGED <<live, vmState, operation, snapshots, phase, worker>>
  BY <1>29 DEF InspectsImage, most, server, outside, state, wrapper, still, HoldsVm,
               ReadyToInspect, ReadyFails, ReleaseInspection
<1>30. ASSUME NEW c \in Snapshots,
              SnapshotReturns(c) \/ SnapshotAnswers(c)
       PROVE  UNCHANGED <<live, vmState, operation, snapshots, phase, worker>>
  BY <1>30 DEF SnapshotReturns, most, server, outside, state, wrapper, still, SnapshotAnswers
<1>31. ASSUME NEW c \in Closes,
              CloseAnswers(c) \/ CloseReturns(c)
       PROVE  UNCHANGED <<live, vmState, operation, snapshots, phase, worker>>
  BY <1>31 DEF CloseAnswers, most, server, outside, state, wrapper, still, CloseReturns
<1>32. ASSUME NEW c \in Aborts \cup Closes,
              AbortWaits(c) \/ JoinsWorker(c)
       PROVE  UNCHANGED <<live, vmState, operation, snapshots, phase, worker>>
  BY <1>32 DEF AbortWaits, most, server, outside, state, wrapper, still, JoinsWorker
<1>33. ASSUME NEW c \in Rollbacks,
              Rollback(c)
       PROVE  UNCHANGED <<live, vmState, operation, snapshots, phase, worker>>
  BY <1>33 DEF Rollback, state, server, wrapper, still
<1>34. ASSUME NEW c \in Callers,
              GivesUp(c) \/ WaitsAgain(c)
       PROVE  UNCHANGED <<live, vmState, operation, snapshots, phase, worker>>
  BY <1>34 DEF GivesUp, most, server, outside, state, wrapper, still, WaitsAgain
<1>35. ASSUME ObserveExit \/ StreamBreaks
       PROVE  UNCHANGED <<live, vmState, operation, snapshots, phase, worker>>
  BY <1>35 DEF ObserveExit, wrapper, StreamBreaks, state, server, still
<1>36. ASSUME IdleFires \/ VmTimerFires \/ PolicyDecides
       PROVE  UNCHANGED <<live, vmState, operation, snapshots, phase, worker>>
  BY <1>36 DEF IdleFires, state, server, wrapper, still, VmTimerFires, PolicyDecides
<1>37. ASSUME UNCHANGED vars PROVE UNCHANGED <<live, vmState, operation, snapshots, phase, worker>>
  BY <1>37 DEF vars, still, state, wrapper, outside, server
<1>38. ASSUME UNCHANGED <<live, vmState, operation, snapshots, phase, worker>> PROVE VmInv'
  BY <1>38 DEF VmInv, Serving
<1> QED BY <1>1, <1>2, <1>3, <1>4, <1>5, <1>6, <1>7, <1>8, <1>9, <1>10, <1>11, <1>12, <1>13,
           <1>14, <1>15, <1>16, <1>17, <1>18, <1>19, <1>20, <1>21, <1>22, <1>23, <1>24, <1>25,
           <1>26, <1>27, <1>28, <1>29, <1>30, <1>31, <1>32, <1>33, <1>34, <1>35, <1>36, <1>37,
           <1>38
     DEF Command, Inspection, Snapshot, Close, Abort, Reader, Server, Policy, Worker, Next, AllReturned

\* Each admitted call is counted once, by the session and by its policy.
LEMMA CountStep ==
    ASSUME TypeOK, LockInv, SaveInv, HoldInv, OverInv, CountInv, TrackInv, [Next]_vars
    PROVE  CountInv'
<1>1. ASSUME NEW c \in Users, Refused(c) PROVE CountInv'
  BY <1>1 DEF CountInv, Serving, Holding, LockInv, Locking, OverInv, Ended, Returned, TypeOK,
              TypeCalls, TypeLazy, TypePolicy, Refused, Enters, CheckOk, Leaves, still, most,
              MayBegin, Go, state, outside, policy
<1>2. ASSUME NEW c \in Users, StartVm(c) PROVE CountInv'
  <2>1. Holding' = Holding
    BY <1>2 DEF Holding, TypeOK, TypeCalls, StartVm, Enters, Leaves, Go
  <2>2. IsFiniteSet({})
    BY FS_EmptySet
  <2> QED BY <1>2, <2>1, <2>2 DEF CountInv, Serving, StartVm, PolicyReset, state
<1>3. ASSUME NEW c \in Users, VmStarted(c) PROVE CountInv'
  <2>1. Holding' = Holding
    BY <1>3 DEF Holding, TypeOK, TypeCalls, VmStarted, Go
  <2>2. phase = "starting" /\ creating = 0 /\ active = {} /\ idleActive = 0
    BY <1>3 DEF VmStarted, LockInv, TrackInv, CountInv
  <2>3. inspecting = 0 /\ Cardinality(active) = 0
    BY <2>2, FS_EmptySet DEF CountInv, HoldInv
  <2>4. active \subseteq {p \in Commands : pc'[p] \in {"running"} \cup Returned}
    BY <2>2
  <2> QED BY <1>3, <2>1, <2>2, <2>3, <2>4 DEF CountInv, VmStarted, state
<1>4. ASSUME NEW c \in Users, StartFails(c) PROVE CountInv'
  BY <1>4 DEF CountInv, Serving, Holding, LockInv, Locking, OverInv, Ended, Returned, TypeOK,
              TypeCalls, TypeLazy, TypePolicy, StartFails, Fail, Waiting, Go, state, policy
<1>5. ASSUME NEW c \in Users, Joins(c) PROVE CountInv'
  BY <1>5 DEF CountInv, Serving, Holding, LockInv, Locking, OverInv, Ended, Returned, TypeOK,
              TypeCalls, TypeLazy, TypePolicy, Joins, Enters, CheckOk, Leaves, still, most,
              MayBegin, Go, state, outside, policy
<1>6. ASSUME NEW c \in Users, WaitsForSnapshot(c) PROVE CountInv'
  BY <1>6 DEF CountInv, Serving, Holding, LockInv, Locking, OverInv, Ended, Returned, TypeOK,
              TypeCalls, TypeLazy, TypePolicy, WaitsForSnapshot, Enters, CheckOk, Waiting, Go,
              state, most, MayBegin, outside, policy
<1>7. ASSUME NEW c \in Users, PolicyBreaks(c) PROVE CountInv'
  BY <1>7 DEF CountInv, Serving, Holding, LockInv, Locking, OverInv, Ended, Returned, TypeOK,
              TypeCalls, TypeLazy, TypePolicy, PolicyBreaks, Enters, CheckOk, Fail, Waiting, Go,
              state, most, MayBegin, outside, policy
<1>8. ASSUME NEW c \in Users, Abandon(c) PROVE CountInv'
  BY <1>8 DEF CountInv, Serving, Holding, LockInv, Locking, OverInv, Ended, Returned, TypeOK,
              TypeCalls, TypeLazy, TypePolicy, Abandon, PolicyClose, policy, Go, still,
              PolicyReset, state
<1>9. ASSUME NEW c \in Commands, FilesFail(c) PROVE CountInv'
  BY <1>9 DEF CountInv, Serving, Holding, LockInv, Locking, OverInv, Ended, Returned, TypeOK,
              TypeCalls, TypeLazy, TypePolicy, FilesFail, Go, still, most, state, outside,
              policy
<1>10. ASSUME NEW c \in Commands, Reserve(c) PROVE CountInv'
  <2>1. Holding' = Holding
    BY <1>10 DEF Holding, TypeOK, TypeCalls, Reserve, Go
  <2>2. active \subseteq {p \in Commands : pc'[p] \in {"running"} \cup Returned}
    BY <1>10 DEF Reserve, Go, CountInv, Returned, TypeOK, TypeCalls
  <2>3. phase = "running" /\ Cardinality(active) \in Nat
    BY <1>10, FS_CardinalityType DEF Reserve, LockInv, CountInv
  <2>4. idleActive' = creating' + inspecting' + Cardinality(active')
    BY <1>10, <2>3 DEF Reserve, ActivityStarted, CountInv, Serving, TypeOK, TypeLazy, TypePolicy
  <2> QED BY <1>10, <2>1, <2>2, <2>3, <2>4 DEF CountInv, Reserve
<1>11. ASSUME NEW c \in Commands, Created(c) PROVE CountInv'
  <2>1. Holding' = Holding
    BY <1>11 DEF Holding, TypeOK, TypeCalls, Created, Go
  <2>2. /\ c \notin active /\ earlyExits = {} /\ phase = "running"
        /\ active' = active \cup {c}
    BY <1>11 DEF Created, CountInv, LockInv, Returned
  <2>3. /\ IsFiniteSet(active') /\ Cardinality(active) \in Nat
        /\ Cardinality(active') = Cardinality(active) + 1
    BY <2>2, FS_AddElement, FS_CardinalityType DEF CountInv
  <2>4. active' \subseteq {p \in Commands : pc'[p] \in {"running"} \cup Returned}
    BY <1>11, <2>2 DEF Created, Go, CountInv, TypeOK, TypeCalls
  <2>5. idleActive' = creating' + inspecting' + Cardinality(active')
    BY <1>11, <2>2, <2>3 DEF Created, CountInv, Serving, TypeOK, TypeLazy, TypePolicy, most,
                            outside, policy
  <2> QED BY <1>11, <2>1, <2>2, <2>3, <2>4, <2>5 DEF CountInv, Created
<1>12. ASSUME NEW c \in Commands, CreateFails(c) PROVE CountInv'
  BY <1>12 DEF CountInv, Serving, Holding, LockInv, Locking, OverInv, Ended, Returned, TypeOK,
               TypeCalls, TypeLazy, TypePolicy, CreateFails, Fail, Waiting, Go, most, outside,
               policy
<1>13. ASSUME NEW c \in Commands, ReturnResult(c) PROVE CountInv'
  BY <1>13 DEF CountInv, Serving, Holding, LockInv, Locking, OverInv, Ended, Returned, TypeOK,
               TypeCalls, TypeLazy, TypePolicy, ReturnResult, Go, still, most, state, outside,
               policy
<1>14. ASSUME NEW c \in Commands, AwaitFails(c) PROVE CountInv'
  BY <1>14 DEF CountInv, Serving, Holding, LockInv, Locking, OverInv, Ended, Returned, TypeOK,
               TypeCalls, TypeLazy, TypePolicy, AwaitFails, Go, still, policy, state
<1>15. ASSUME NEW c \in Inspections, InspectsImage(c) PROVE CountInv'
  BY <1>15 DEF CountInv, Serving, Holding, LockInv, Locking, OverInv, Ended, Returned, TypeOK,
               TypeCalls, TypeLazy, TypePolicy, InspectsImage, Enters, CheckOk, Leaves, still,
               most, MayBegin, Go, state, outside, policy
<1>16. ASSUME NEW c \in Inspections, HoldsVm(c) PROVE CountInv'
  <2>1. active \subseteq {p \in Commands : pc'[p] \in {"running"} \cup Returned}
    BY <1>16 DEF HoldsVm, Go, CountInv, Returned, TypeOK, TypeCalls
  <2>2. phase = "running" /\ Cardinality(active) \in Nat
    BY <1>16, FS_CardinalityType DEF HoldsVm, LockInv, CountInv
  <2>3. idleActive' = creating' + inspecting' + Cardinality(active')
    BY <1>16, <2>2 DEF HoldsVm, ActivityStarted, CountInv, Serving, TypeOK, TypeLazy, TypePolicy
  <2> QED BY <1>16, <2>1, <2>2, <2>3 DEF CountInv, HoldsVm
<1>17. ASSUME NEW c \in Inspections, ReadyToInspect(c) PROVE CountInv'
  BY <1>17 DEF CountInv, Serving, Holding, LockInv, Locking, OverInv, Ended, Returned, TypeOK,
               TypeCalls, TypeLazy, TypePolicy, ReadyToInspect, Wakes, VmIsReady, Leaves, still,
               most, Go, state, outside, policy
<1>18. ASSUME NEW c \in Inspections, ReadyFails(c) PROVE CountInv'
  BY <1>18 DEF CountInv, Serving, Holding, LockInv, Locking, OverInv, Ended, Returned, TypeOK,
               TypeCalls, TypeLazy, TypePolicy, ReadyFails, Leaves, still, most, Go, state,
               outside, policy
<1>19. ASSUME NEW c \in Inspections, ReleaseInspection(c) PROVE CountInv'
  <2>1. active \subseteq {p \in Commands : pc'[p] \in {"running"} \cup Returned}
    BY <1>19 DEF ReleaseInspection, Go, CountInv, Returned, TypeOK, TypeCalls
  <2>2. Cardinality(active) \in Nat /\ c \in Holding
    BY <1>19, FS_CardinalityType DEF ReleaseInspection, CountInv, Holding
  <2>3. phase \notin {"cold", "starting"}
    BY <2>2 DEF CountInv
  <2>4. CASE phase \in Ended
    BY <1>19, <2>1, <2>4 DEF CountInv, ReleaseInspection, Ended, Serving
  <2>5. CASE phase \notin Ended
    <3>1. idleActive' = creating' + inspecting' + Cardinality(active')
      <4>1. /\ phase \in Serving /\ idleActive' = idleActive - 1
            /\ inspecting' = inspecting - 1 /\ creating' = creating /\ active' = active
        BY <1>19, <2>3, <2>5 DEF ReleaseInspection, InspectionFinished, ActivityFinished, Ended,
                                Serving, Phases, TypeOK, TypeLazy
      <4> QED BY <2>2, <4>1 DEF CountInv, TypeOK, TypeLazy, TypePolicy
    <3> QED BY <1>19, <2>1, <2>3, <3>1 DEF CountInv, ReleaseInspection
  <2> QED BY <2>4, <2>5
<1>20. ASSUME NEW c \in Snapshots, SnapshotReturns(c) PROVE CountInv'
  BY <1>20 DEF CountInv, Serving, Holding, LockInv, Locking, OverInv, Ended, Returned, TypeOK,
               TypeCalls, TypeLazy, TypePolicy, SnapshotReturns, MayBegin, CheckOk, Go,
               NothingToSave, Asks, still, most, state, outside, policy
<1>21. ASSUME NEW c \in Snapshots, SnapshotAsks(c) PROVE CountInv'
  BY <1>21 DEF CountInv, Serving, Holding, LockInv, Locking, OverInv, Ended, Returned, TypeOK,
               TypeCalls, TypeLazy, TypePolicy, SnapshotAsks, MayBegin, CheckOk, NothingToSave,
               Asks, Waiting, Go, state, most, outside, policy
<1>22. ASSUME NEW c \in Snapshots, SnapshotAnswers(c) PROVE CountInv'
  BY <1>22 DEF CountInv, Serving, Holding, LockInv, Locking, OverInv, Ended, Returned, TypeOK,
               TypeCalls, TypeLazy, TypePolicy, SnapshotAnswers, Wakes, SnapshotIsOver, Leaves,
               still, most, Go, state, outside, policy
<1>23. ASSUME NEW c \in Closes, CloseAsks(c) PROVE CountInv'
  BY <1>23 DEF CountInv, Serving, Holding, LockInv, Locking, OverInv, Ended, Returned, TypeOK,
               TypeCalls, TypeLazy, TypePolicy, CloseAsks, MayBegin, Go, policy, ClosingPhase,
               PolicyClose, Waiting, PolicyReset
<1>24. ASSUME NEW c \in Closes, CloseAnswers(c) PROVE CountInv'
  BY <1>24 DEF CountInv, Serving, Holding, LockInv, Locking, OverInv, Ended, Returned, TypeOK,
               TypeCalls, TypeLazy, TypePolicy, CloseAnswers, Wakes, Leaves, still, most, Go,
               state, outside, policy
<1>25. ASSUME NEW c \in Closes, CloseReturns(c) PROVE CountInv'
  BY <1>25 DEF CountInv, Serving, Holding, LockInv, Locking, OverInv, Ended, Returned, TypeOK,
               TypeCalls, TypeLazy, TypePolicy, CloseReturns, Go, still, most, state, outside,
               policy
<1>26. ASSUME NEW c \in Aborts \cup Closes, AbortWaits(c) PROVE CountInv'
  BY <1>26 DEF CountInv, Serving, Holding, LockInv, Locking, OverInv, Ended, Returned, TypeOK,
               TypeCalls, TypeLazy, TypePolicy, AbortWaits, MayBegin, Go, still, most, state,
               outside, policy
<1>27. ASSUME NEW c \in Aborts \cup Closes, AbortEnds(c) PROVE CountInv'
  BY <1>27 DEF CountInv, Serving, Holding, LockInv, Locking, OverInv, Ended, Returned, TypeOK,
               TypeCalls, TypeLazy, TypePolicy, AbortEnds, Enters, PolicyClose, Waiting, Go,
               MayBegin, PolicyReset
<1>28. ASSUME NEW c \in Aborts \cup Closes, AbortCancels(c) PROVE CountInv'
  BY <1>28 DEF CountInv, Serving, Holding, LockInv, Locking, OverInv, Ended, Returned, TypeOK,
               TypeCalls, TypeLazy, TypePolicy, AbortCancels, Go, still, policy, state
<1>29. ASSUME NEW c \in Aborts \cup Closes, JoinsWorker(c) PROVE CountInv'
  BY <1>29 DEF CountInv, Serving, Holding, LockInv, Locking, OverInv, Ended, Returned, TypeOK,
               TypeCalls, TypeLazy, TypePolicy, JoinsWorker, Go, still, most, state, outside,
               policy
<1>30. ASSUME NEW c \in Rollbacks, Rollback(c) PROVE CountInv'
  BY <1>30 DEF CountInv, Serving, Holding, LockInv, Locking, OverInv, Ended, Returned, TypeOK,
               TypeCalls, TypeLazy, TypePolicy, Rollback, MayBegin, AtBoundary, Go, still,
               policy, CheckOk, state
<1>31. ASSUME NEW c \in Callers, GivesUp(c) PROVE CountInv'
  BY <1>31 DEF CountInv, Serving, Holding, LockInv, Locking, OverInv, Ended, Returned, TypeOK,
               TypeCalls, TypeLazy, TypePolicy, GivesUp, Leaves, still, most, Go, state,
               outside, policy
<1>32. ASSUME ObserveSpawn PROVE CountInv'
  BY <1>32 DEF CountInv, Serving, Holding, LockInv, Locking, OverInv, Ended, Returned, TypeOK,
               TypeCalls, TypeLazy, TypePolicy, ObserveSpawn, Reads, ObserverPasses, policy,
               calls, Waiting
<1>33. ASSUME ObserveExit PROVE CountInv'
  <2>1. Holding' = Holding /\ pc' = pc /\ phase' = phase
    BY <1>33 DEF Holding, ObserveExit, calls
  <2>2. creating = 0 /\ inspecting' = inspecting /\ creating' = creating
    BY <1>33 DEF ObserveExit, Reads, LockInv
  <2>3. CASE phase \notin Ended /\ Head(queue).spid \in active
    <3>1. active' = active \ {Head(queue).spid} /\ idleActive' = idleActive - 1
      BY <1>33, <2>3 DEF ObserveExit, ActivityFinished
    <3>2. /\ IsFiniteSet(active') /\ Cardinality(active) \in Nat
          /\ Cardinality(active') = Cardinality(active) - 1
      BY <2>3, <3>1, FS_RemoveElement, FS_CardinalityType DEF CountInv
    <3>3. phase \in Serving
      BY <2>3 DEF TrackInv, Serving, Ended, TypeOK, TypeLazy, Phases
    <3>4. idleActive' = creating' + inspecting' + Cardinality(active')
      BY <2>2, <3>1, <3>2, <3>3 DEF CountInv, TypeOK, TypeLazy, TypePolicy
    <3> QED BY <2>1, <3>1, <3>2, <3>3, <3>4 DEF CountInv, Serving
  <2>4. CASE UNCHANGED <<active, earlyExits, policy>>
    BY <2>1, <2>2, <2>4 DEF CountInv, policy
  <2> QED BY <1>33, <2>2, <2>3, <2>4 DEF ObserveExit
<1>34. ASSUME ObserveMainExit PROVE CountInv'
  BY <1>34 DEF CountInv, Serving, Holding, LockInv, Locking, OverInv, Ended, Returned, TypeOK,
               TypeCalls, TypeLazy, TypePolicy, ObserveMainExit, Reads, ObserverRaises,
               ObserverPasses, state, policy, calls, Waiting, Fail
<1>35. ASSUME ObserveCompletion PROVE CountInv'
  BY <1>35 DEF CountInv, Serving, Holding, LockInv, Locking, OverInv, Ended, Returned, TypeOK,
               TypeCalls, TypeLazy, TypePolicy, ObserveCompletion, Reads, ObserverRaises,
               policy, calls, Waiting, Fail
<1>36. ASSUME ReaderEnds PROVE CountInv'
  BY <1>36 DEF CountInv, Serving, Holding, LockInv, Locking, OverInv, Ended, Returned, TypeOK,
               TypeCalls, TypeLazy, TypePolicy, ReaderEnds, Waiting, Fail, state, policy, calls
<1>37. ASSUME WorkerStops PROVE CountInv'
  BY <1>37 DEF CountInv, Serving, Holding, LockInv, Locking, OverInv, Ended, Returned, TypeOK,
               TypeCalls, TypeLazy, TypePolicy, WorkerStops, PolicyClose, policy, still, calls,
               PolicyReset, state
<1>38. ASSUME WorkerDecides PROVE CountInv'
  BY <1>38 DEF CountInv, Serving, Holding, LockInv, Locking, OverInv, Ended, Returned, TypeOK,
               TypeCalls, TypeLazy, TypePolicy, WorkerDecides, Drained, Waiting, state, outside,
               calls, policy
<1>39. ASSUME WorkerPublishes PROVE CountInv'
  <2>1. phase = "snapshotting" /\ Holding' = {}
    BY <1>39 DEF WorkerPublishes, SaveInv, HoldInv, Holding, calls
  <2> QED BY <1>39, <2>1 DEF CountInv, WorkerPublishes, Serving, calls
<1>40. ASSUME WorkerFails PROVE CountInv'
  BY <1>40 DEF CountInv, Serving, Holding, LockInv, Locking, OverInv, Ended, Returned, TypeOK,
               TypeCalls, TypeLazy, TypePolicy, WorkerFails, Fail, Waiting, state, outside,
               calls, policy
<1>41. ASSUME WorkerCleansUp PROVE CountInv'
  BY <1>41 DEF CountInv, Serving, Holding, LockInv, Locking, OverInv, Ended, Returned, TypeOK,
               TypeCalls, TypeLazy, TypePolicy, WorkerCleansUp, PolicyClose, still, calls,
               PolicyReset, state
<1>42. ASSUME NEW c \in Commands,
              ServerCreates(c) \/ ProcExits(c)
       PROVE  UNCHANGED <<phase, pc, idleActive, creating, inspecting, active>>
  BY <1>42 DEF ServerCreates, calls, state, policy, still, ProcExits
<1>43. ASSUME NEW c \in Callers,
              WaitsAgain(c)
       PROVE  UNCHANGED <<phase, pc, idleActive, creating, inspecting, active>>
  BY <1>43 DEF WaitsAgain, still, most, outside, calls, policy, state
<1>44. ASSUME StreamBreaks
       PROVE  UNCHANGED <<phase, pc, idleActive, creating, inspecting, active>>
  BY <1>44 DEF StreamBreaks, calls, state, policy, still
<1>45. ASSUME NEW o \in {"success", "failed"}, NEW b \in BOOLEAN,
              VmEnds(o, b)
       PROVE  UNCHANGED <<phase, pc, idleActive, creating, inspecting, active>>
  BY <1>45 DEF VmEnds, calls, state, policy, still
<1>46. ASSUME IdleFires \/ VmTimerFires \/ PolicyDecides
       PROVE  UNCHANGED <<phase, pc, idleActive, creating, inspecting, active>>
  BY <1>46 DEF IdleFires, calls, state, still, VmTimerFires, PolicyDecides
<1>47. ASSUME WorkerSignals \/ SaveFails \/ SaveJoins \/ WorkerCommits
       PROVE  UNCHANGED <<phase, pc, idleActive, creating, inspecting, active>>
  BY <1>47 DEF WorkerSignals, calls, state, policy, still, SaveFails, SaveJoins, outside,
               WorkerCommits
<1>48. ASSUME UNCHANGED vars PROVE UNCHANGED <<phase, pc, idleActive, creating, inspecting, active>>
  BY <1>48 DEF vars, still, state, outside, policy, calls
<1>49. ASSUME UNCHANGED <<phase, pc, idleActive, creating, inspecting, active>> PROVE CountInv'
  BY <1>49 DEF CountInv, Holding, Serving
<1> QED BY <1>1, <1>2, <1>3, <1>4, <1>5, <1>6, <1>7, <1>8, <1>9, <1>10, <1>11, <1>12, <1>13,
           <1>14, <1>15, <1>16, <1>17, <1>18, <1>19, <1>20, <1>21, <1>22, <1>23, <1>24, <1>25,
           <1>26, <1>27, <1>28, <1>29, <1>30, <1>31, <1>32, <1>33, <1>34, <1>35, <1>36, <1>37,
           <1>38, <1>39, <1>40, <1>41, <1>42, <1>43, <1>44, <1>45, <1>46, <1>47, <1>48, <1>49
     DEF Command, Inspection, Snapshot, Close, Abort, Reader, Server, Policy, Worker, Next, AllReturned

\* The position the VM was started from is the session's until the save.
LEMMA TipStep ==
    ASSUME TypeOK, LockInv, SaveInv, TipInv, [Next]_vars
    PROVE  TipInv'
<1>1. ASSUME NEW c \in Users, StartVm(c) PROVE TipInv'
  BY <1>1 DEF TipInv, Serving, LockInv, Locking, SaveInv, StartVm, CheckOk, PendingFiles,
              wrapper, session
<1>2. ASSUME NEW c \in Users, VmStarted(c) PROVE TipInv'
  BY <1>2 DEF TipInv, Serving, LockInv, Locking, SaveInv, VmStarted, ServerStartsVm
<1>3. ASSUME NEW c \in Users, StartFails(c) PROVE TipInv'
  BY <1>3 DEF TipInv, Serving, LockInv, Locking, SaveInv, StartFails, ServerStartsVm, Fail
<1>4. ASSUME NEW c \in Users, WaitsForSnapshot(c) PROVE TipInv'
  BY <1>4 DEF TipInv, Serving, LockInv, Locking, SaveInv, WaitsForSnapshot, CheckOk, most,
              wrapper, outside, session
<1>5. ASSUME NEW c \in Users, PolicyBreaks(c) PROVE TipInv'
  BY <1>5 DEF TipInv, Serving, LockInv, Locking, SaveInv, PolicyBreaks, CheckOk, Fail, most,
              wrapper, outside, session
<1>6. ASSUME NEW c \in Commands, CreateFails(c) PROVE TipInv'
  BY <1>6 DEF TipInv, Serving, LockInv, Locking, SaveInv, CreateFails, Fail, most, wrapper,
              outside, session
<1>7. ASSUME NEW c \in Snapshots, SnapshotAsks(c) PROVE TipInv'
  BY <1>7 DEF TipInv, Serving, LockInv, Locking, SaveInv, SnapshotAsks, CheckOk, NothingToSave,
              most, wrapper, outside, session
<1>8. ASSUME NEW c \in Closes, CloseAsks(c) PROVE TipInv'
  BY <1>8 DEF TipInv, Serving, LockInv, Locking, SaveInv, CloseAsks, ClosingPhase, wrapper,
              session
<1>9. ASSUME NEW c \in Aborts \cup Closes, AbortEnds(c) PROVE TipInv'
  BY <1>9 DEF TipInv, Serving, LockInv, Locking, SaveInv, AbortEnds, wrapper, session
<1>10. ASSUME NEW c \in Rollbacks, Rollback(c) PROVE TipInv'
  BY <1>10 DEF TipInv, Serving, LockInv, Locking, SaveInv, Rollback, AtBoundary, HasParent,
               still, wrapper, CheckOk
<1>11. ASSUME ObserveSpawn PROVE TipInv'
  BY <1>11 DEF TipInv, Serving, LockInv, Locking, SaveInv, ObserveSpawn, ObserverPasses,
               wrapper, session
<1>12. ASSUME ObserveMainExit PROVE TipInv'
  BY <1>12 DEF TipInv, Serving, LockInv, Locking, SaveInv, ObserveMainExit, ObserverRaises,
               ObserverPasses, wrapper, session, Fail
<1>13. ASSUME ObserveCompletion PROVE TipInv'
  BY <1>13 DEF TipInv, Serving, LockInv, Locking, SaveInv, ObserveCompletion, ObserverRaises,
               wrapper, session, Fail
<1>14. ASSUME ReaderEnds PROVE TipInv'
  BY <1>14 DEF TipInv, Serving, LockInv, Locking, SaveInv, ReaderEnds, Fail, session, wrapper
<1>15. ASSUME WorkerStops PROVE TipInv'
  BY <1>15 DEF TipInv, Serving, LockInv, Locking, SaveInv, WorkerStops, WorkerWakes, still,
               session
<1>16. ASSUME WorkerDecides PROVE TipInv'
  BY <1>16 DEF TipInv, Serving, LockInv, Locking, SaveInv, WorkerDecides, WorkerWakes, outside,
               session
<1>17. ASSUME WorkerSignals PROVE TipInv'
  BY <1>17 DEF TipInv, Serving, LockInv, Locking, SaveInv, WorkerSignals, still, session
<1>18. ASSUME SaveFails PROVE TipInv'
  BY <1>18 DEF TipInv, Serving, LockInv, Locking, SaveInv, SaveFails, still, session
<1>19. ASSUME SaveJoins PROVE TipInv'
  BY <1>19 DEF TipInv, Serving, LockInv, Locking, SaveInv, SaveJoins, still, outside, session
<1>20. ASSUME WorkerCommits PROVE TipInv'
  BY <1>20 DEF TipInv, Serving, LockInv, Locking, SaveInv, WorkerCommits, still
<1>21. ASSUME WorkerPublishes PROVE TipInv'
  BY <1>21 DEF TipInv, Serving, LockInv, Locking, SaveInv, WorkerPublishes, session
<1>22. ASSUME WorkerFails PROVE TipInv'
  BY <1>22 DEF TipInv, Serving, LockInv, Locking, SaveInv, WorkerFails, Fail, outside, session
<1>23. ASSUME WorkerCleansUp PROVE TipInv'
  BY <1>23 DEF TipInv, Serving, LockInv, Locking, SaveInv, WorkerCleansUp, still, session
<1>24. ASSUME NEW c \in Users,
              Refused(c) \/ Joins(c) \/ Abandon(c)
       PROVE  UNCHANGED <<phase, worker, opParent, opVersion, tip, version, history>>
  BY <1>24 DEF Refused, most, outside, session, wrapper, still, Joins, Abandon
<1>25. ASSUME NEW c \in Commands,
              FilesFail(c) \/ Reserve(c) \/ ServerCreates(c) \/ Created(c) \/
              ReturnResult(c) \/ AwaitFails(c) \/ ProcExits(c)
       PROVE  UNCHANGED <<phase, worker, opParent, opVersion, tip, version, history>>
  BY <1>25 DEF FilesFail, most, outside, session, wrapper, still, Reserve, ServerCreates,
               Created, ReturnResult, AwaitFails, ProcExits
<1>26. ASSUME NEW c \in Inspections,
              InspectsImage(c) \/ HoldsVm(c) \/ ReadyToInspect(c) \/ ReadyFails(c) \/
              ReleaseInspection(c)
       PROVE  UNCHANGED <<phase, worker, opParent, opVersion, tip, version, history>>
  BY <1>26 DEF InspectsImage, most, outside, session, wrapper, still, HoldsVm, ReadyToInspect,
               ReadyFails, ReleaseInspection
<1>27. ASSUME NEW c \in Snapshots,
              SnapshotReturns(c) \/ SnapshotAnswers(c)
       PROVE  UNCHANGED <<phase, worker, opParent, opVersion, tip, version, history>>
  BY <1>27 DEF SnapshotReturns, most, outside, session, wrapper, still, SnapshotAnswers
<1>28. ASSUME NEW c \in Closes,
              CloseAnswers(c) \/ CloseReturns(c)
       PROVE  UNCHANGED <<phase, worker, opParent, opVersion, tip, version, history>>
  BY <1>28 DEF CloseAnswers, most, outside, session, wrapper, still, CloseReturns
<1>29. ASSUME NEW c \in Aborts \cup Closes,
              AbortWaits(c) \/ AbortCancels(c) \/ JoinsWorker(c)
       PROVE  UNCHANGED <<phase, worker, opParent, opVersion, tip, version, history>>
  BY <1>29 DEF AbortWaits, most, outside, session, wrapper, still, AbortCancels, JoinsWorker
<1>30. ASSUME NEW c \in Callers,
              GivesUp(c) \/ WaitsAgain(c)
       PROVE  UNCHANGED <<phase, worker, opParent, opVersion, tip, version, history>>
  BY <1>30 DEF GivesUp, most, outside, session, wrapper, still, WaitsAgain
<1>31. ASSUME ObserveExit \/ StreamBreaks
       PROVE  UNCHANGED <<phase, worker, opParent, opVersion, tip, version, history>>
  BY <1>31 DEF ObserveExit, wrapper, session, StreamBreaks, still
<1>32. ASSUME NEW o \in {"success", "failed"}, NEW b \in BOOLEAN,
              VmEnds(o, b)
       PROVE  UNCHANGED <<phase, worker, opParent, opVersion, tip, version, history>>
  BY <1>32 DEF VmEnds, wrapper, session, still
<1>33. ASSUME IdleFires \/ VmTimerFires \/ PolicyDecides
       PROVE  UNCHANGED <<phase, worker, opParent, opVersion, tip, version, history>>
  BY <1>33 DEF IdleFires, wrapper, session, still, VmTimerFires, PolicyDecides
<1>34. ASSUME UNCHANGED vars PROVE UNCHANGED <<phase, worker, opParent, opVersion, tip, version, history>>
  BY <1>34 DEF vars, still, wrapper, outside, session
<1>35. ASSUME UNCHANGED <<phase, worker, opParent, opVersion, tip, version, history>> PROVE TipInv'
  BY <1>35 DEF TipInv, Serving
<1> QED BY <1>1, <1>2, <1>3, <1>4, <1>5, <1>6, <1>7, <1>8, <1>9, <1>10, <1>11, <1>12, <1>13,
           <1>14, <1>15, <1>16, <1>17, <1>18, <1>19, <1>20, <1>21, <1>22, <1>23, <1>24, <1>25,
           <1>26, <1>27, <1>28, <1>29, <1>30, <1>31, <1>32, <1>33, <1>34, <1>35
     DEF Command, Inspection, Snapshot, Close, Abort, Reader, Server, Policy, Worker, Next, AllReturned

-----------------------------------------------------------------------------
(* The files: what is saved, and what the VM shows                         *)

\* Only commands leave effects in an image.
LEMMA EntryFiles == TypeOK => \A i \in DOMAIN history : history[i].files \subseteq Commands
<1> DEFINE Entry == [parent : Nat, files : SUBSET Commands, torn : SUBSET Commands]
<1> SUFFICES ASSUME TypeOK, NEW i \in DOMAIN history PROVE history[i].files \subseteq Commands
  OBVIOUS
<1>1. history \in Seq(Entry) /\ i \in 1 .. Len(history)
  BY DEF TypeOK, TypeSession
<1>2. history[i] \in Entry
  <2> HIDE DEF Entry
  <2> QED BY <1>1, ElementOfSeq
<1> QED BY <1>2

\* What is saved is the work of commands.
LEMMA SavedTypes == TypeOK => Saved \subseteq Commands
BY EntryFiles, Zenon DEF Saved

\* A commit adds the files of the new entry to what is saved.
LEMMA SavedGrows ==
    ASSUME TypeOK, NEW e, history' = Append(history, e)
    PROVE  Saved' = Saved \cup e.files
<1>1. /\ Len(history) \in Nat /\ DOMAIN history = 1 .. Len(history)
      /\ DOMAIN history' = 1 .. Len(history) + 1
      /\ \A i \in 1 .. Len(history) : history'[i] = history[i]
      /\ history'[Len(history) + 1] = e
  BY DEF TypeOK, TypeSession
<1>2. Saved' \subseteq Saved \cup e.files
  <2> SUFFICES ASSUME NEW i \in DOMAIN history', NEW c \in history'[i].files
               PROVE  c \in Saved \cup e.files
    BY Zenon DEF Saved
  <2>1. CASE i = Len(history) + 1
    BY <1>1, <2>1
  <2>2. CASE i # Len(history) + 1
    <3>1. i \in DOMAIN history /\ c \in history[i].files
      BY <1>1, <2>2
    <3> QED BY <3>1, Zenon DEF Saved
  <2> QED BY <2>1, <2>2
<1>3. Saved \subseteq Saved'
  <2> SUFFICES ASSUME NEW i \in DOMAIN history, NEW c \in history[i].files
               PROVE  c \in Saved'
    BY Zenon DEF Saved
  <2>1. i \in DOMAIN history' /\ c \in history'[i].files
    BY <1>1
  <2> QED BY <2>1, Zenon DEF Saved
<1>4. e.files \subseteq Saved'
  <2>1. Len(history) + 1 \in DOMAIN history'
    BY <1>1
  <2> QED BY <1>1, <2>1, Zenon DEF Saved
<1> QED BY <1>2, <1>3, <1>4

\* Nothing runs in the VM, and nothing died with it, outside the cycle or once
\* the save began.
LEMMA NothingRuns ==
    ASSUME TypeOK, LockInv, TrackInv, phase \in {"cold", "starting", "snapshotting"}
    PROVE  procs = {} /\ torn = {}
<1>1. active = {} /\ phase \notin Ended
  BY DEF TrackInv, Ended
<1>2. \A c \in Commands : pc[c] # "creating"
  BY DEF LockInv
<1> QED BY <1>1, <1>2 DEF TrackInv, TypeOK, TypeServer

\* A new VM shows only saved files.
LEMMA StartsSaved == TypeOK /\ ServerStartsVm => fs' \subseteq Saved /\ procs' = {} /\ torn' = {}
<1> SUFFICES ASSUME TypeOK, ServerStartsVm PROVE fs' \subseteq Saved /\ procs' = {} /\ torn' = {}
  OBVIOUS
<1>1. tip \in DOMAIN history
  BY DEF TypeOK, TypeSession
<1>2. history[tip].files \subseteq Saved
  BY <1>1, Zenon DEF Saved
<1> QED BY <1>2 DEF ServerStartsVm

\* A step that starts nothing, drops no files and lets calls only return keeps
\* RunInv.
LEMMA RunStays ==
    ASSUME TypeOK, RunInv, Saved' = Saved, exits' = exits,
           procs' \cup torn' \subseteq procs \cup torn,
           fs' \subseteq procs \cup torn \cup fs \cup Saved,
           \A p \in Commands : pc'[p] = pc[p] \/ (pc[p] \in {"running", "abandon"} /\ pc'[p] \in Returned),
           worker' = "publish" => history'[tip'].files = fs'
    PROVE  RunInv'
<1>1. procs \cup torn \cup fs \cup procs' \cup torn' \subseteq Commands
  BY DEF TypeOK, TypeServer
<1>2. Saved \subseteq Commands
  BY SavedTypes
<1>3. ASSUME NEW p \in procs' \cup torn' \cup fs' \cup Saved'
      PROVE  pc'[p] \in {"creating", "running", "abandon"} \cup Returned
  <2>1. p \in procs \cup torn \cup fs \cup Saved /\ p \in Commands
    BY <1>1, <1>2, <1>3
  <2> QED BY <2>1 DEF RunInv, Returned
<1>4. ASSUME NEW p \in exits' \cap Commands
      PROVE  p \notin procs' \cup torn' /\ pc'[p] \in {"running", "abandon"} \cup Returned
  <2>1. p \notin procs \cup torn /\ pc[p] \in {"running", "abandon"} \cup Returned
    BY <1>4 DEF RunInv
  <2> QED BY <2>1, <1>4 DEF Returned
<1> QED BY <1>3, <1>4 DEF RunInv

\* No effect of an accepted command is lost before the session ends.
LEMMA WorkStep ==
    ASSUME TypeOK, LockInv, TrackInv, SaveInv, VmInv, OverInv, EndInv, CloseInv, WorkInv, [Next]_vars
    PROVE  WorkInv'
<1>0. history' = history => Saved' = Saved
  BY DEF Saved
<1>1. ASSUME NEW c \in Users, Refused(c) PROVE WorkInv'
  BY <1>0, <1>1 DEF WorkInv, Accepted, ClosedWell, NoAborts, LockInv, Locking, Ended, TypeOK,
              TypeCalls, TypeServer, Refused, Enters, CheckOk, Leaves, still, most, MayBegin,
              Go, wrapper, outside, server, session
<1>2. ASSUME NEW c \in Users, StartVm(c) PROVE WorkInv'
  BY <1>0, <1>2 DEF WorkInv, Accepted, ClosedWell, NoAborts, LockInv, Locking, Ended, TypeOK,
              TypeCalls, TypeServer, StartVm, Enters, CheckOk, Leaves, wrapper, server, session,
              MayBegin, Go
<1>3. ASSUME NEW c \in Users, VmStarted(c) PROVE WorkInv'
  <2>1. phase = "starting" /\ procs = {} /\ torn = {} /\ worker # "publish"
    BY <1>3, NothingRuns DEF VmStarted, LockInv, SaveInv
  <2>2. fs \subseteq Saved /\ Accepted \subseteq Saved
    BY <2>1 DEF WorkInv, Ended
  <2>3. Accepted' = Accepted /\ phase' = "running" /\ history' = history /\ worker' # "publish"
    BY <1>3, <2>1 DEF Accepted, VmStarted, Go, TypeOK, TypeCalls
  <2> QED BY <1>0, <2>2, <2>3 DEF WorkInv, ClosedWell
<1>4. ASSUME NEW c \in Users, StartFails(c) PROVE WorkInv'
  <2>1. phase' = "failed" /\ phase = "starting" /\ UNCHANGED worker
    BY <1>4 DEF StartFails, Fail, LockInv
  <2> QED BY <2>1 DEF WorkInv, ClosedWell, SaveInv, Ended
<1>5. ASSUME NEW c \in Users, Joins(c) PROVE WorkInv'
  BY <1>0, <1>5 DEF WorkInv, Accepted, ClosedWell, NoAborts, LockInv, Locking, Ended, TypeOK,
              TypeCalls, TypeServer, Joins, Enters, CheckOk, Leaves, still, most, MayBegin, Go,
              wrapper, outside, server, session
<1>6. ASSUME NEW c \in Users, WaitsForSnapshot(c) PROVE WorkInv'
  BY <1>0, <1>6 DEF WorkInv, Accepted, ClosedWell, NoAborts, LockInv, Locking, Ended, TypeOK,
              TypeCalls, TypeServer, WaitsForSnapshot, Enters, CheckOk, Waiting, Go, most,
              MayBegin, wrapper, outside, server, session
<1>7. ASSUME NEW c \in Users, PolicyBreaks(c) PROVE WorkInv'
  BY <1>0, <1>7 DEF WorkInv, Accepted, ClosedWell, NoAborts, LockInv, Locking, Ended, TypeOK,
              TypeCalls, TypeServer, PolicyBreaks, Enters, CheckOk, Fail, Waiting, Go, most,
              MayBegin, wrapper, outside, server, session
<1>8. ASSUME NEW c \in Users, Abandon(c) PROVE WorkInv'
  <2>1. Accepted' = Accepted /\ UNCHANGED <<phase, error, worker, fs, history>>
    BY <1>8 DEF Accepted, Abandon, Go, CancelVm, CancelFails, still, session, wrapper, server,
               TypeOK, TypeCalls
  <2>2. NoAborts' => NoAborts
    BY <1>8 DEF NoAborts, Abandon, Go, TypeOK, TypeCalls
  <2>3. CASE error
    BY <1>0, <2>1, <2>2, <2>3 DEF WorkInv, ClosedWell, OverInv
  <2>4. CASE UNCHANGED server
    BY <1>0, <2>1, <2>2, <2>4 DEF WorkInv, ClosedWell, server
  <2> QED BY <1>8, <2>3, <2>4 DEF Abandon
<1>9. ASSUME NEW c \in Commands, FilesFail(c) PROVE WorkInv'
  BY <1>0, <1>9 DEF WorkInv, Accepted, ClosedWell, NoAborts, LockInv, Locking, Ended, TypeOK,
              TypeCalls, TypeServer, FilesFail, Go, still, most, wrapper, outside, server,
              session
<1>10. ASSUME NEW c \in Commands, Reserve(c) PROVE WorkInv'
  BY <1>0, <1>10 DEF WorkInv, Accepted, ClosedWell, NoAborts, LockInv, Locking, Ended, TypeOK,
               TypeCalls, TypeServer, Reserve, Go, wrapper, server, session
<1>11. ASSUME NEW c \in Commands, ServerCreates(c) PROVE WorkInv'
  BY <1>0, <1>11 DEF WorkInv, Accepted, ClosedWell, NoAborts, LockInv, Locking, Ended, TypeOK,
               TypeCalls, TypeServer, ServerCreates, HasRun, still, wrapper, session, calls
<1>12. ASSUME NEW c \in Commands, Created(c) PROVE WorkInv'
  BY <1>0, <1>12 DEF WorkInv, Accepted, ClosedWell, NoAborts, LockInv, Locking, Ended, TypeOK,
               TypeCalls, TypeServer, Created, HasRun, Waiting, Go, most, wrapper, outside,
               server, session
<1>13. ASSUME NEW c \in Commands, CreateFails(c) PROVE WorkInv'
  BY <1>0, <1>13 DEF WorkInv, Accepted, ClosedWell, NoAborts, LockInv, Locking, Ended, TypeOK,
               TypeCalls, TypeServer, CreateFails, Fail, Waiting, Go, most, wrapper, outside,
               server, session
<1>14. ASSUME NEW c \in Commands, ReturnResult(c) PROVE WorkInv'
  BY <1>0, <1>14 DEF WorkInv, Accepted, ClosedWell, NoAborts, LockInv, Locking, Ended, TypeOK,
               TypeCalls, TypeServer, ReturnResult, Go, still, most, wrapper, outside, server,
               session
<1>15. ASSUME NEW c \in Commands, AwaitFails(c) PROVE WorkInv'
  BY <1>0, <1>15 DEF WorkInv, Accepted, ClosedWell, NoAborts, LockInv, Locking, Ended, TypeOK,
               TypeCalls, TypeServer, AwaitFails, server, Go, still, wrapper, session
<1>16. ASSUME NEW c \in Inspections, InspectsImage(c) PROVE WorkInv'
  BY <1>0, <1>16 DEF WorkInv, Accepted, ClosedWell, NoAborts, LockInv, Locking, Ended, TypeOK,
               TypeCalls, TypeServer, InspectsImage, Enters, CheckOk, Leaves, still, most,
               MayBegin, Go, wrapper, outside, server, session
<1>17. ASSUME NEW c \in Inspections, HoldsVm(c) PROVE WorkInv'
  BY <1>0, <1>17 DEF WorkInv, Accepted, ClosedWell, NoAborts, LockInv, Locking, Ended, TypeOK,
               TypeCalls, TypeServer, HoldsVm, Go, wrapper, server, session
<1>18. ASSUME NEW c \in Inspections, ReadyToInspect(c) PROVE WorkInv'
  BY <1>0, <1>18 DEF WorkInv, Accepted, ClosedWell, NoAborts, LockInv, Locking, Ended, TypeOK,
               TypeCalls, TypeServer, ReadyToInspect, Wakes, VmIsReady, Leaves, still, most, Go,
               wrapper, outside, server, session
<1>19. ASSUME NEW c \in Inspections, ReadyFails(c) PROVE WorkInv'
  BY <1>0, <1>19 DEF WorkInv, Accepted, ClosedWell, NoAborts, LockInv, Locking, Ended, TypeOK,
               TypeCalls, TypeServer, ReadyFails, Leaves, still, most, Go, wrapper, outside,
               server, session
<1>20. ASSUME NEW c \in Inspections, ReleaseInspection(c) PROVE WorkInv'
  BY <1>0, <1>20 DEF WorkInv, Accepted, ClosedWell, NoAborts, LockInv, Locking, Ended, TypeOK,
               TypeCalls, TypeServer, ReleaseInspection, InspectionFinished, Waiting, Go,
               wrapper, server, session
<1>21. ASSUME NEW c \in Snapshots, SnapshotReturns(c) PROVE WorkInv'
  BY <1>0, <1>21 DEF WorkInv, Accepted, ClosedWell, NoAborts, LockInv, Locking, Ended, TypeOK,
               TypeCalls, TypeServer, SnapshotReturns, MayBegin, CheckOk, Go, NothingToSave,
               Asks, still, most, wrapper, outside, server, session
<1>22. ASSUME NEW c \in Snapshots, SnapshotAsks(c) PROVE WorkInv'
  BY <1>0, <1>22 DEF WorkInv, Accepted, ClosedWell, NoAborts, LockInv, Locking, Ended, TypeOK,
               TypeCalls, TypeServer, SnapshotAsks, MayBegin, CheckOk, NothingToSave, Asks,
               Waiting, Go, most, wrapper, outside, server, session
<1>23. ASSUME NEW c \in Snapshots, SnapshotAnswers(c) PROVE WorkInv'
  BY <1>0, <1>23 DEF WorkInv, Accepted, ClosedWell, NoAborts, LockInv, Locking, Ended, TypeOK,
               TypeCalls, TypeServer, SnapshotAnswers, Wakes, SnapshotIsOver, Leaves, still,
               most, Go, wrapper, outside, server, session
<1>24. ASSUME NEW c \in Closes, CloseAsks(c) PROVE WorkInv'
  <2>1. Accepted' = Accepted /\ UNCHANGED <<error, worker, fs, procs, torn, history>>
    BY <1>24 DEF Accepted, CloseAsks, Go, session, wrapper, server, TypeOK, TypeCalls
  <2>2. NoAborts' = NoAborts
    BY <1>24 DEF NoAborts, CloseAsks, Go, TypeOK, TypeCalls
  <2>3. CASE phase = "cold"
    <3>1. procs = {} /\ torn = {} /\ fs \subseteq Saved /\ Accepted \subseteq Saved
      BY <2>3, NothingRuns DEF WorkInv, Ended
    <3>2. phase' = "closed" /\ worker # "publish"
      BY <1>24, <2>3 DEF CloseAsks, ClosingPhase, SaveInv
    <3> QED BY <1>0, <2>1, <3>1, <3>2 DEF WorkInv, Ended
  <2>4. CASE phase # "cold"
    <3>1. phase' = phase \/ (phase = "running" /\ phase' = "draining")
      BY <1>24, <2>4 DEF CloseAsks, ClosingPhase
    <3> QED BY <1>0, <2>1, <2>2, <3>1 DEF WorkInv, ClosedWell, Ended
  <2> QED BY <2>3, <2>4
<1>25. ASSUME NEW c \in Closes, CloseAnswers(c) PROVE WorkInv'
  BY <1>0, <1>25 DEF WorkInv, Accepted, ClosedWell, NoAborts, LockInv, Locking, Ended, TypeOK,
               TypeCalls, TypeServer, CloseAnswers, Wakes, Leaves, still, most, Go, wrapper,
               outside, server, session
<1>26. ASSUME NEW c \in Closes, CloseReturns(c) PROVE WorkInv'
  BY <1>0, <1>26 DEF WorkInv, Accepted, ClosedWell, NoAborts, LockInv, Locking, Ended, TypeOK,
               TypeCalls, TypeServer, CloseReturns, WorkerJoined, Go, still, most, wrapper,
               outside, server, session
<1>27. ASSUME NEW c \in Aborts \cup Closes, AbortWaits(c) PROVE WorkInv'
  BY <1>0, <1>27 DEF WorkInv, Accepted, ClosedWell, NoAborts, LockInv, Locking, Ended, TypeOK,
               TypeCalls, TypeServer, AbortWaits, MayBegin, Go, still, most, wrapper, outside,
               server, session
<1>28. ASSUME NEW c \in Aborts \cup Closes, AbortEnds(c) PROVE WorkInv'
  <2>1. phase' = "closed" /\ phase # "snapshotting" /\ UNCHANGED <<error, worker>>
    BY <1>28 DEF AbortEnds, wrapper
  <2>2. ~ClosedWell'
    <3>1. CASE c \in Aborts
      BY <1>28, <3>1 DEF AbortEnds, Go, ClosedWell, NoAborts, TypeOK, TypeCalls
    <3>2. CASE c \in Closes
      <4>1. pc[c] = "aborting"
        BY <1>28, <3>2 DEF AbortEnds
      <4> QED BY <2>1, <3>2, <4>1 DEF CloseInv, ClosedWell
    <3> QED BY <3>1, <3>2
  <2> QED BY <2>1, <2>2 DEF WorkInv, SaveInv, Ended
<1>29. ASSUME NEW c \in Aborts \cup Closes, AbortCancels(c) PROVE WorkInv'
  <2>1. Accepted' = Accepted /\ UNCHANGED <<phase, error, worker, fs, history>>
    BY <1>29 DEF Accepted, AbortCancels, Go, CancelVm, CancelFails, still, session, wrapper, server,
               TypeOK, TypeCalls
  <2>2. (NoAborts' => NoAborts) /\ phase \in Ended
    BY <1>29 DEF NoAborts, AbortCancels, Go, TypeOK, TypeCalls, EndInv
  <2> QED BY <1>0, <2>1, <2>2 DEF WorkInv, ClosedWell
<1>30. ASSUME NEW c \in Aborts \cup Closes, JoinsWorker(c) PROVE WorkInv'
  BY <1>0, <1>30 DEF WorkInv, Accepted, ClosedWell, NoAborts, LockInv, Locking, Ended, TypeOK,
               TypeCalls, TypeServer, JoinsWorker, WorkerJoined, Go, still, most, wrapper,
               outside, server, session
<1>31. ASSUME NEW c \in Rollbacks, Rollback(c) PROVE WorkInv'
  BY <1>0, <1>31 DEF WorkInv, Accepted, ClosedWell, NoAborts, LockInv, Locking, Ended, TypeOK,
               TypeCalls, TypeServer, Rollback, MayBegin, AtBoundary, HasParent, Go, still,
               wrapper, server, CheckOk
<1>32. ASSUME NEW c \in Callers, GivesUp(c) PROVE WorkInv'
  BY <1>0, <1>32 DEF WorkInv, Accepted, ClosedWell, NoAborts, LockInv, Locking, Ended, TypeOK,
               TypeCalls, TypeServer, GivesUp, Leaves, still, most, Go, wrapper, outside,
               server, session
<1>33. ASSUME ObserveSpawn PROVE WorkInv'
  BY <1>0, <1>33 DEF WorkInv, Accepted, ClosedWell, NoAborts, LockInv, Locking, Ended, TypeOK,
               TypeCalls, TypeServer, ObserveSpawn, Reads, ObserverPasses, wrapper, session,
               calls, Waiting
<1>34. ASSUME ObserveMainExit PROVE WorkInv'
  BY <1>0, <1>34 DEF WorkInv, Accepted, ClosedWell, NoAborts, LockInv, Locking, Ended, TypeOK,
               TypeCalls, TypeServer, ObserveMainExit, Reads, ObserverRaises, ObserverPasses,
               wrapper, session, calls, Waiting, Fail
<1>35. ASSUME ObserveCompletion PROVE WorkInv'
  BY <1>0, <1>35 DEF WorkInv, Accepted, ClosedWell, NoAborts, LockInv, Locking, Ended, TypeOK,
               TypeCalls, TypeServer, ObserveCompletion, Reads, ObserverRaises, wrapper,
               session, calls, Waiting, Fail
<1>36. ASSUME ReaderEnds PROVE WorkInv'
  BY <1>0, <1>36 DEF WorkInv, Accepted, ClosedWell, NoAborts, LockInv, Locking, Ended, TypeOK,
               TypeCalls, TypeServer, ReaderEnds, Waiting, Fail, session, wrapper, server, calls
<1>37. ASSUME NEW c \in Commands, ProcExits(c) PROVE WorkInv'
  <2>1. phase \notin {"cold", "starting"} /\ worker # "publish"
    BY <1>37, NothingRuns DEF ProcExits, SaveInv
  <2>2. /\ Accepted' = Accepted /\ NoAborts' = NoAborts
        /\ UNCHANGED <<phase, error, worker, torn, history>>
        /\ procs \cup fs = procs' \cup fs'
    BY <1>37 DEF Accepted, NoAborts, ProcExits, still, session, wrapper, calls
  <2> QED BY <1>0, <2>1, <2>2 DEF WorkInv, ClosedWell
<1>38. ASSUME NEW o \in {"success", "failed"}, NEW b \in BOOLEAN, VmEnds(o, b) PROVE WorkInv'
  BY <1>0, <1>38 DEF WorkInv, Accepted, ClosedWell, NoAborts, LockInv, Locking, Ended, TypeOK,
               TypeCalls, TypeServer, VmEnds, still, wrapper, session, calls
<1>39. ASSUME WorkerStops PROVE WorkInv'
  BY <1>0, <1>39 DEF WorkInv, Accepted, ClosedWell, NoAborts, LockInv, Locking, Ended, TypeOK,
               TypeCalls, TypeServer, WorkerStops, WorkerWakes, still, server, session, calls
<1>40. ASSUME WorkerDecides PROVE WorkInv'
  BY <1>0, <1>40 DEF WorkInv, Accepted, ClosedWell, NoAborts, LockInv, Locking, Ended, TypeOK,
               TypeCalls, TypeServer, WorkerDecides, WorkerWakes, Waiting, outside, calls,
               server, session
<1>41. ASSUME WorkerSignals PROVE WorkInv'
  BY <1>0, <1>41 DEF WorkInv, Accepted, ClosedWell, NoAborts, LockInv, Locking, Ended, TypeOK,
               TypeCalls, TypeServer, WorkerSignals, still, session, calls
<1>42. ASSUME SaveFails PROVE WorkInv'
  <2>1. /\ Accepted' = Accepted /\ NoAborts' = NoAborts /\ UNCHANGED <<phase, error, fs, history>>
        /\ worker' # "publish" /\ torn' = torn /\ (procs' = procs \/ procs' = {})
    BY <1>42 DEF Accepted, NoAborts, SaveFails, CancelVm, CancelFails, still, session, calls, server
  <2>2. phase \in Ended \/ procs = {}
    BY <1>42, NothingRuns DEF SaveFails, SaveInv, Ended
  <2>3. procs' = procs \/ phase' \in Ended
    BY <2>1, <2>2
  <2> QED BY <1>0, <2>1, <2>3 DEF WorkInv, ClosedWell
<1>43. ASSUME SaveJoins PROVE WorkInv'
  BY <1>0, <1>43 DEF WorkInv, Accepted, ClosedWell, NoAborts, LockInv, Locking, Ended, TypeOK,
               TypeCalls, TypeServer, SaveJoins, still, outside, calls, server, session
<1>44. ASSUME WorkerCommits PROVE WorkInv'
  <2>1. ASSUME history' = Append(history, [parent |-> opParent, files |-> fs, torn |-> torn]),
               worker' = "publish"
        PROVE  WorkInv'
    <3>1. Saved' = Saved \cup fs
      BY <2>1, SavedGrows
    <3> QED BY <1>44, <2>1, <3>1 DEF WorkInv, ClosedWell, NoAborts, Accepted, WorkerCommits, still,
               server, calls
  <2>2. CASE worker' = "failing" /\ UNCHANGED <<history, tip>>
    BY <1>0, <1>44, <2>2 DEF WorkInv, ClosedWell, NoAborts, Accepted, WorkerCommits, still, server,
                          calls
  <2> QED BY <1>44, <2>1, <2>2 DEF WorkerCommits
<1>45. ASSUME WorkerPublishes PROVE WorkInv'
  <2>1. procs = {} /\ torn = {} /\ phase = "snapshotting" /\ fs \subseteq Saved
    BY <1>45, NothingRuns DEF WorkerPublishes, SaveInv, WorkInv
  <2>2. Accepted \subseteq Saved
    BY <2>1 DEF WorkInv, Ended
  <2>3. Accepted' = Accepted /\ UNCHANGED <<fs, procs, torn, history>>
    BY <1>45 DEF Accepted, WorkerPublishes, session, server, calls
  <2> QED BY <1>0, <2>1, <2>2, <2>3 DEF WorkInv
<1>46. ASSUME WorkerFails PROVE WorkInv'
  BY <1>0, <1>46 DEF WorkInv, Accepted, ClosedWell, NoAborts, LockInv, Locking, Ended, TypeOK,
               TypeCalls, TypeServer, WorkerFails, Fail, Waiting, outside, calls, server,
               session
<1>47. ASSUME WorkerCleansUp PROVE WorkInv'
  <2>1. /\ Accepted' = Accepted /\ NoAborts' = NoAborts /\ UNCHANGED <<phase, error, fs, history>>
        /\ worker' # "publish" /\ phase \in Ended
    BY <1>47 DEF Accepted, NoAborts, WorkerCleansUp, CancelVm, CancelFails, still, session, calls,
               server, OverInv
  <2> QED BY <1>0, <2>1 DEF WorkInv, ClosedWell
<1>48. ASSUME NEW c \in Callers,
              WaitsAgain(c)
       PROVE  UNCHANGED <<phase, error, pc, worker, fs, procs, torn, history>>
  BY <1>48 DEF WaitsAgain, most, server, outside, session, calls, wrapper, still
<1>49. ASSUME ObserveExit \/ StreamBreaks
       PROVE  UNCHANGED <<phase, error, pc, worker, fs, procs, torn, history>>
  BY <1>49 DEF ObserveExit, calls, wrapper, session, StreamBreaks, server, still
<1>50. ASSUME IdleFires \/ VmTimerFires \/ PolicyDecides
       PROVE  UNCHANGED <<phase, error, pc, worker, fs, procs, torn, history>>
  BY <1>50 DEF IdleFires, server, session, calls, wrapper, still, VmTimerFires, PolicyDecides
<1>51. ASSUME UNCHANGED vars PROVE UNCHANGED <<phase, error, pc, worker, fs, procs, torn, history>>
  BY <1>51 DEF vars, still, wrapper, outside, server, session, calls
<1>52. ASSUME UNCHANGED <<phase, error, pc, worker, fs, procs, torn, history>> PROVE WorkInv'
  BY <1>52 DEF WorkInv, Accepted, ClosedWell, NoAborts, Saved
<1> QED BY <1>1, <1>2, <1>3, <1>4, <1>5, <1>6, <1>7, <1>8, <1>9, <1>10, <1>11, <1>12, <1>13,
           <1>14, <1>15, <1>16, <1>17, <1>18, <1>19, <1>20, <1>21, <1>22, <1>23, <1>24, <1>25,
           <1>26, <1>27, <1>28, <1>29, <1>30, <1>31, <1>32, <1>33, <1>34, <1>35, <1>36, <1>37,
           <1>38, <1>39, <1>40, <1>41, <1>42, <1>43, <1>44, <1>45, <1>46, <1>47, <1>48, <1>49,
           <1>50, <1>51, <1>52
     DEF Command, Inspection, Snapshot, Close, Abort, Reader, Server, Policy, Worker, Next, AllReturned

\* A process is started once, by the call that asked for it.
LEMMA RunStep ==
    ASSUME TypeOK, LockInv, TrackInv, ExitsInv, SaveInv, TipInv, RunInv, [Next]_vars
    PROVE  RunInv'
<1>0. history' = history => Saved' = Saved
  BY DEF Saved
<1>1. ASSUME NEW c \in Users, Refused(c) PROVE RunInv'
  BY <1>0, <1>1 DEF RunInv, Returned, LockInv, Locking, SaveInv, TypeOK, TypeCalls, TypeServer,
              Refused, Enters, Leaves, most, MayBegin, Go, wrapper, outside, reader, server,
              session
<1>2. ASSUME NEW c \in Users, StartVm(c) PROVE RunInv'
  BY <1>0, <1>2 DEF RunInv, Returned, LockInv, Locking, SaveInv, TypeOK, TypeCalls, TypeServer,
              StartVm, Enters, PendingFiles, Leaves, wrapper, reader, server, session, MayBegin,
              Go
<1>3. ASSUME NEW c \in Users, VmStarted(c) PROVE RunInv'
  <2>1. \A p \in Commands : pc'[p] = pc[p] \/ (pc[p] = "starting" /\ pc'[p] = "admitted")
    BY <1>3 DEF VmStarted, Go, TypeOK, TypeCalls
  <2>2. fs' \subseteq Saved /\ procs' = {} /\ torn' = {}
    BY <1>3, StartsSaved DEF VmStarted
  <2>3. UNCHANGED <<history, exits>> /\ worker' # "publish"
    BY <1>3 DEF VmStarted, LockInv, SaveInv
  <2>4. Saved \subseteq Commands
    BY SavedTypes
  <2> QED BY <1>0, <2>1, <2>2, <2>3, <2>4 DEF RunInv, Returned
<1>4. ASSUME NEW c \in Users, StartFails(c) PROVE RunInv'
  <2>1. \A p \in Commands : pc'[p] = pc[p] \/ (pc[p] = "starting" /\ pc'[p] = "abandon")
    BY <1>4 DEF StartFails, Go, TypeOK, TypeCalls
  <2>2. UNCHANGED <<fs, procs, torn>> \/ (fs' \subseteq Saved /\ procs' = {} /\ torn' = {})
    BY <1>4, StartsSaved DEF StartFails, server
  <2>3. UNCHANGED <<history, exits, worker>> /\ worker # "publish"
    BY <1>4 DEF StartFails, LockInv, SaveInv
  <2>4. Saved \subseteq Commands /\ procs \cup torn \cup fs \subseteq Commands
    BY SavedTypes DEF TypeOK, TypeServer
  <2> QED BY <1>0, <2>1, <2>2, <2>3, <2>4 DEF RunInv
<1>5. ASSUME NEW c \in Users, Joins(c) PROVE RunInv'
  BY <1>0, <1>5 DEF RunInv, Returned, LockInv, Locking, SaveInv, TypeOK, TypeCalls, TypeServer, Joins,
              Enters, Leaves, most, MayBegin, Go, wrapper, outside, reader, server, session
<1>6. ASSUME NEW c \in Users, WaitsForSnapshot(c) PROVE RunInv'
  BY <1>0, <1>6 DEF RunInv, Returned, LockInv, Locking, SaveInv, TypeOK, TypeCalls, TypeServer,
              WaitsForSnapshot, Enters, Waiting, Go, most, MayBegin, wrapper, outside, reader,
              server, session
<1>7. ASSUME NEW c \in Users, PolicyBreaks(c) PROVE RunInv'
  BY <1>0, <1>7 DEF RunInv, Returned, LockInv, Locking, SaveInv, TypeOK, TypeCalls, TypeServer,
              PolicyBreaks, Enters, Waiting, Go, most, MayBegin, wrapper, outside, reader,
              server, session
<1>8. ASSUME NEW c \in Users, Abandon(c) PROVE RunInv'
  BY <1>0, <1>8 DEF RunInv, Returned, LockInv, Locking, SaveInv, TypeOK, TypeCalls, TypeServer,
              Abandon, CancelVm, CancelFails, server, Go, wrapper, reader, session
<1>9. ASSUME NEW c \in Commands, FilesFail(c) PROVE RunInv'
  BY <1>0, <1>9 DEF RunInv, Returned, LockInv, Locking, SaveInv, TypeOK, TypeCalls, TypeServer,
              FilesFail, Go, most, wrapper, outside, reader, server, session
<1>10. ASSUME NEW c \in Commands, Reserve(c) PROVE RunInv'
  BY <1>0, <1>10 DEF RunInv, Returned, LockInv, Locking, SaveInv, TypeOK, TypeCalls, TypeServer,
               Reserve, Go, wrapper, reader, server, session
<1>11. ASSUME NEW c \in Commands, ServerCreates(c) PROVE RunInv'
  BY <1>0, <1>11 DEF RunInv, Returned, LockInv, Locking, SaveInv, TypeOK, TypeCalls, TypeServer,
               ServerCreates, HasRun, wrapper, reader, session, calls
<1>12. ASSUME NEW c \in Commands, Created(c) PROVE RunInv'
  BY <1>0, <1>12 DEF RunInv, Returned, LockInv, Locking, SaveInv, TypeOK, TypeCalls, TypeServer,
               Created, HasRun, Waiting, Go, most, wrapper, outside, reader, server, session
<1>13. ASSUME NEW c \in Commands, CreateFails(c) PROVE RunInv'
  BY <1>0, <1>13 DEF RunInv, Returned, LockInv, Locking, SaveInv, TypeOK, TypeCalls, TypeServer,
               CreateFails, Waiting, Go, most, wrapper, outside, reader, server, session
<1>14. ASSUME NEW c \in Commands, ReturnResult(c) PROVE RunInv'
  BY <1>0, <1>14 DEF RunInv, Returned, LockInv, Locking, SaveInv, TypeOK, TypeCalls, TypeServer,
               ReturnResult, Go, most, wrapper, outside, reader, server, session
<1>15. ASSUME NEW c \in Commands, AwaitFails(c) PROVE RunInv'
  <2>1. /\ \A p \in Commands : p # c => pc'[p] = pc[p]
        /\ pc[c] = "running" /\ pc'[c] \in Returned
    BY <1>15 DEF AwaitFails, Go, Returned, TypeOK, TypeCalls
  <2>2. UNCHANGED <<worker, fs, torn, exits, history, tip>> /\ procs' \subseteq procs
    BY <1>15 DEF AwaitFails, wrapper, reader, server, session
  <2> QED BY <1>0, <2>1, <2>2, RunStays DEF RunInv
<1>16. ASSUME NEW c \in Inspections, InspectsImage(c) PROVE RunInv'
  BY <1>0, <1>16 DEF RunInv, Returned, LockInv, Locking, SaveInv, TypeOK, TypeCalls, TypeServer,
               InspectsImage, Enters, PendingFiles, Leaves, most, MayBegin, Go, wrapper,
               outside, reader, server, session
<1>17. ASSUME NEW c \in Inspections, HoldsVm(c) PROVE RunInv'
  BY <1>0, <1>17 DEF RunInv, Returned, LockInv, Locking, SaveInv, TypeOK, TypeCalls, TypeServer,
               HoldsVm, Go, wrapper, reader, server, session
<1>18. ASSUME NEW c \in Inspections, ReadyToInspect(c) PROVE RunInv'
  BY <1>0, <1>18 DEF RunInv, Returned, LockInv, Locking, SaveInv, TypeOK, TypeCalls, TypeServer,
               ReadyToInspect, Wakes, Leaves, most, Go, wrapper, outside, reader, server,
               session
<1>19. ASSUME NEW c \in Inspections, ReadyFails(c) PROVE RunInv'
  BY <1>0, <1>19 DEF RunInv, Returned, LockInv, Locking, SaveInv, TypeOK, TypeCalls, TypeServer,
               ReadyFails, Leaves, most, Go, wrapper, outside, reader, server, session
<1>20. ASSUME NEW c \in Inspections, ReleaseInspection(c) PROVE RunInv'
  BY <1>0, <1>20 DEF RunInv, Returned, LockInv, Locking, SaveInv, TypeOK, TypeCalls, TypeServer,
               ReleaseInspection, Waiting, Go, wrapper, reader, server, session
<1>21. ASSUME NEW c \in Snapshots, SnapshotReturns(c) PROVE RunInv'
  <2>1. \A p \in Commands : pc'[p] = pc[p]
    BY <1>21 DEF SnapshotReturns, Go, TypeOK, TypeCalls
  <2>2. UNCHANGED <<worker, fs, procs, torn, exits, history, tip>>
    BY <1>21 DEF SnapshotReturns, still, most, outside, wrapper, reader, server, session
  <2> QED BY <1>0, <2>1, <2>2, RunStays DEF RunInv
<1>22. ASSUME NEW c \in Snapshots, SnapshotAsks(c) PROVE RunInv'
  BY <1>0, <1>22 DEF RunInv, Returned, LockInv, Locking, SaveInv, TypeOK, TypeCalls, TypeServer,
               SnapshotAsks, MayBegin, Asks, Waiting, Go, most, wrapper, outside, reader,
               server, session
<1>23. ASSUME NEW c \in Snapshots, SnapshotAnswers(c) PROVE RunInv'
  BY <1>0, <1>23 DEF RunInv, Returned, LockInv, Locking, SaveInv, TypeOK, TypeCalls, TypeServer,
               SnapshotAnswers, Wakes, Leaves, most, Go, wrapper, outside, reader, server,
               session
<1>24. ASSUME NEW c \in Closes, CloseAsks(c) PROVE RunInv'
  <2>1. \A p \in Commands : pc'[p] = pc[p]
    BY <1>24 DEF CloseAsks, Go, TypeOK, TypeCalls
  <2>2. UNCHANGED <<worker, fs, procs, torn, exits, history, tip>>
    BY <1>24 DEF CloseAsks, still, most, outside, wrapper, reader, server, session
  <2> QED BY <1>0, <2>1, <2>2, RunStays DEF RunInv
<1>25. ASSUME NEW c \in Closes, CloseAnswers(c) PROVE RunInv'
  BY <1>0, <1>25 DEF RunInv, Returned, LockInv, Locking, SaveInv, TypeOK, TypeCalls, TypeServer,
               CloseAnswers, Wakes, Leaves, most, Go, wrapper, outside, reader, server, session
<1>26. ASSUME NEW c \in Closes, CloseReturns(c) PROVE RunInv'
  BY <1>0, <1>26 DEF RunInv, Returned, LockInv, Locking, SaveInv, TypeOK, TypeCalls, TypeServer,
               CloseReturns, WorkerJoined, Go, most, wrapper, outside, reader, server, session
<1>27. ASSUME NEW c \in Aborts \cup Closes, AbortWaits(c) PROVE RunInv'
  BY <1>0, <1>27 DEF RunInv, Returned, LockInv, Locking, SaveInv, TypeOK, TypeCalls, TypeServer,
               AbortWaits, MayBegin, Go, most, wrapper, outside, reader, server, session
<1>28. ASSUME NEW c \in Aborts \cup Closes, AbortEnds(c) PROVE RunInv'
  BY <1>0, <1>28 DEF RunInv, Returned, LockInv, Locking, SaveInv, TypeOK, TypeCalls, TypeServer,
               AbortEnds, Enters, Waiting, Go, wrapper, reader, server, session, MayBegin
<1>29. ASSUME NEW c \in Aborts \cup Closes, AbortCancels(c) PROVE RunInv'
  <2>1. \A p \in Commands : pc'[p] = pc[p]
    BY <1>29 DEF AbortCancels, Go, TypeOK, TypeCalls
  <2>2. UNCHANGED <<worker, fs, torn, exits, history, tip>> /\ procs' \subseteq procs
    BY <1>29 DEF AbortCancels, CancelVm, CancelFails, wrapper, reader, server, session
  <2> QED BY <1>0, <2>1, <2>2, RunStays DEF RunInv
<1>30. ASSUME NEW c \in Aborts \cup Closes, JoinsWorker(c) PROVE RunInv'
  BY <1>0, <1>30 DEF RunInv, Returned, LockInv, Locking, SaveInv, TypeOK, TypeCalls, TypeServer,
               JoinsWorker, WorkerJoined, Go, most, wrapper, outside, reader, server, session
<1>31. ASSUME NEW c \in Rollbacks, Rollback(c) PROVE RunInv'
  <2>1. \A p \in Commands : pc'[p] = pc[p]
    BY <1>31 DEF Rollback, Go, TypeOK, TypeCalls
  <2>2. UNCHANGED <<worker, fs, procs, torn, exits, history>>
    BY <1>31 DEF Rollback, still, most, outside, wrapper, reader, server, session
  <2>3. worker' # "publish" \/ tip' = tip
    BY <1>31 DEF Rollback, AtBoundary, SaveInv, wrapper
  <2>4. worker' = "publish" => history'[tip'].files = fs'
    BY <2>2, <2>3 DEF RunInv
  <2> QED BY <1>0, <2>1, <2>2, <2>4, RunStays
<1>32. ASSUME NEW c \in Callers, GivesUp(c) PROVE RunInv'
  BY <1>0, <1>32 DEF RunInv, Returned, LockInv, Locking, SaveInv, TypeOK, TypeCalls, TypeServer,
               GivesUp, Leaves, most, Go, wrapper, outside, reader, server, session
<1>33. ASSUME ObserveSpawn PROVE RunInv'
  BY <1>0, <1>33 DEF RunInv, Returned, LockInv, Locking, SaveInv, TypeOK, TypeCalls, TypeServer,
               ObserveSpawn, Reads, ObserverPasses, wrapper, session, calls, Waiting, reader
<1>34. ASSUME ObserveExit PROVE RunInv'
  <2>1. UNCHANGED <<pc, worker, fs, procs, torn, history, tip>>
    BY <1>34 DEF ObserveExit, wrapper, session, calls
  <2>2. exits' = exits \cup {Head(queue).spid} /\ Head(queue).spid \in Commands
    BY <1>34, ExitRead DEF ObserveExit, Reads, TypeOK
  <2>3. Gone(Head(queue).spid)
    BY <1>34, ExitRead DEF ObserveExit, Reads, TypeOK
  <2>4. pc[Head(queue).spid] # "creating"
    BY <1>34, <2>2 DEF ObserveExit, Reads, LockInv, Locking
  <2>5. pc[Head(queue).spid] \in {"running", "abandon"} \cup Returned
    BY <2>2, <2>3, <2>4 DEF RunInv, Gone, Returned
  <2> QED BY <1>0, <2>1, <2>2, <2>3, <2>5 DEF RunInv, Gone
<1>35. ASSUME ObserveMainExit PROVE RunInv'
  BY <1>0, <1>35 DEF RunInv, Returned, LockInv, Locking, SaveInv, TypeOK, TypeCalls, TypeServer,
               ObserveMainExit, Reads, ObserverRaises, ObserverPasses, wrapper, session, calls,
               Waiting, reader
<1>36. ASSUME ObserveCompletion PROVE RunInv'
  BY <1>0, <1>36 DEF RunInv, Returned, LockInv, Locking, SaveInv, TypeOK, TypeCalls, TypeServer,
               ObserveCompletion, Reads, ObserverRaises, wrapper, session, calls, Waiting
<1>37. ASSUME NEW c \in Commands, ProcExits(c) PROVE RunInv'
  <2>1. UNCHANGED <<pc, worker, torn, exits, history, tip>> /\ procs' \subseteq procs
    BY <1>37 DEF ProcExits, wrapper, reader, session, calls
  <2>2. fs' = fs \cup {c} /\ c \in procs
    BY <1>37 DEF ProcExits
  <2>3. worker # "publish"
    BY <1>37, NothingRuns DEF ProcExits, SaveInv
  <2> QED BY <1>0, <2>1, <2>2, <2>3, RunStays
<1>38. ASSUME NEW o \in {"success", "failed"}, NEW b \in BOOLEAN, VmEnds(o, b) PROVE RunInv'
  BY <1>0, <1>38 DEF RunInv, Returned, LockInv, Locking, SaveInv, TypeOK, TypeCalls, TypeServer,
               VmEnds, wrapper, reader, session, calls
<1>39. ASSUME WorkerStops PROVE RunInv'
  BY <1>0, <1>39 DEF RunInv, Returned, LockInv, Locking, SaveInv, TypeOK, TypeCalls, TypeServer,
               WorkerStops, WorkerWakes, reader, server, session, calls
<1>40. ASSUME WorkerDecides PROVE RunInv'
  BY <1>0, <1>40 DEF RunInv, Returned, LockInv, Locking, SaveInv, TypeOK, TypeCalls, TypeServer,
               WorkerDecides, WorkerWakes, Waiting, outside, calls, reader, server, session
<1>41. ASSUME WorkerSignals PROVE RunInv'
  BY <1>0, <1>41 DEF RunInv, Returned, LockInv, Locking, SaveInv, TypeOK, TypeCalls, TypeServer,
               WorkerSignals, reader, session, calls
<1>42. ASSUME SaveFails PROVE RunInv'
  BY <1>0, <1>42 DEF RunInv, Returned, LockInv, Locking, SaveInv, TypeOK, TypeCalls, TypeServer,
               SaveFails, CancelVm, CancelFails, reader, session, calls, server
<1>43. ASSUME SaveJoins PROVE RunInv'
  BY <1>0, <1>43 DEF RunInv, Returned, LockInv, Locking, SaveInv, TypeOK, TypeCalls, TypeServer,
               SaveJoins, outside, calls, reader, server, session
<1>44. ASSUME WorkerCommits PROVE RunInv'
  <2>1. UNCHANGED <<pc, fs, procs, torn, exits>>
    BY <1>44 DEF WorkerCommits, reader, server, calls
  <2>2. CASE UNCHANGED <<history, tip>> /\ worker' = "failing"
    BY <1>0, <2>1, <2>2 DEF RunInv
  <2>3. CASE /\ history' = Append(history, [parent |-> opParent, files |-> fs, torn |-> torn])
             /\ tip' = IF tip = opParent /\ version = opVersion THEN Len(history) + 1 ELSE tip
    <3>1. Saved' = Saved \cup fs
      BY <2>3, SavedGrows
    <3>2. tip = opParent /\ version = opVersion
      BY <1>44 DEF WorkerCommits, SaveInv, TipInv, Serving
    <3>3. history'[tip'].files = fs
      BY <2>3, <3>2 DEF TypeOK, TypeSession
    <3> QED BY <2>1, <3>1, <3>3 DEF RunInv
  <2> QED BY <1>44, <2>2, <2>3 DEF WorkerCommits
<1>45. ASSUME WorkerPublishes PROVE RunInv'
  BY <1>0, <1>45 DEF RunInv, Returned, LockInv, Locking, SaveInv, TypeOK, TypeCalls, TypeServer,
               WorkerPublishes, Waiting, reader, server, session, calls
<1>46. ASSUME WorkerFails PROVE RunInv'
  BY <1>0, <1>46 DEF RunInv, Returned, LockInv, Locking, SaveInv, TypeOK, TypeCalls, TypeServer,
               WorkerFails, Waiting, outside, calls, reader, server, session
<1>47. ASSUME WorkerCleansUp PROVE RunInv'
  BY <1>0, <1>47 DEF RunInv, Returned, LockInv, Locking, SaveInv, TypeOK, TypeCalls, TypeServer,
               WorkerCleansUp, CancelVm, CancelFails, reader, session, calls, server
<1>48. ASSUME NEW c \in Callers,
              WaitsAgain(c)
       PROVE  UNCHANGED <<pc, worker, fs, procs, torn, exits, history, tip>>
  BY <1>48 DEF WaitsAgain, reader, most, session, server, outside, calls, wrapper
<1>49. ASSUME ReaderEnds \/ StreamBreaks
       PROVE  UNCHANGED <<pc, worker, fs, procs, torn, exits, history, tip>>
  BY <1>49 DEF ReaderEnds, calls, server, session, wrapper, StreamBreaks
<1>50. ASSUME IdleFires \/ VmTimerFires \/ PolicyDecides
       PROVE  UNCHANGED <<pc, worker, fs, procs, torn, exits, history, tip>>
  BY <1>50 DEF IdleFires, reader, server, session, calls, wrapper, VmTimerFires, PolicyDecides
<1>51. ASSUME UNCHANGED vars PROVE UNCHANGED <<pc, worker, fs, procs, torn, exits, history, tip>>
  BY <1>51 DEF vars, wrapper, outside, reader, server, session, calls
<1>52. ASSUME UNCHANGED <<pc, worker, fs, procs, torn, exits, history, tip>> PROVE RunInv'
  BY <1>52 DEF RunInv, Saved
<1> QED BY <1>1, <1>2, <1>3, <1>4, <1>5, <1>6, <1>7, <1>8, <1>9, <1>10, <1>11, <1>12, <1>13,
           <1>14, <1>15, <1>16, <1>17, <1>18, <1>19, <1>20, <1>21, <1>22, <1>23, <1>24, <1>25,
           <1>26, <1>27, <1>28, <1>29, <1>30, <1>31, <1>32, <1>33, <1>34, <1>35, <1>36, <1>37,
           <1>38, <1>39, <1>40, <1>41, <1>42, <1>43, <1>44, <1>45, <1>46, <1>47, <1>48, <1>49,
           <1>50, <1>51, <1>52
     DEF Command, Inspection, Snapshot, Close, Abort, Reader, Server, Policy, Worker, Next, AllReturned

\* The cycle that a snapshot() call waits for saves what it asked for.
LEMMA AskStep ==
    ASSUME TypeOK, LockInv, TrackInv, SaveInv, WorkInv, AskInv, [Next]_vars
    PROVE  AskInv'
<1>0. history' = history => Saved' = Saved
  BY DEF Saved
<1>1. ASSUME NEW c \in Users, Refused(c) PROVE AskInv'
  BY <1>0, <1>1 DEF AskInv, Returned, TypeOK, TypeCalls, LockInv, Locking, Refused, Enters, Leaves,
              still, most, asking, MayBegin, Go, state, outside, session
<1>2. ASSUME NEW c \in Users, StartVm(c) PROVE AskInv'
  BY <1>0, <1>2 DEF AskInv, Returned, TypeOK, TypeCalls, LockInv, Locking, StartVm, Enters, Leaves,
              session, asking, MayBegin, Go
<1>3. ASSUME NEW c \in Users, VmStarted(c) PROVE AskInv'
  BY <1>0, <1>3 DEF AskInv, Returned, TypeOK, TypeCalls, LockInv, Locking, VmStarted, ServerStartsVm,
              Go, state, asking
<1>4. ASSUME NEW c \in Users, StartFails(c) PROVE AskInv'
  BY <1>0, <1>4 DEF AskInv, Returned, TypeOK, TypeCalls, LockInv, Locking, StartFails, ServerStartsVm,
              Waiting, Go, state, asking
<1>5. ASSUME NEW c \in Users, Joins(c) PROVE AskInv'
  BY <1>0, <1>5 DEF AskInv, Returned, TypeOK, TypeCalls, LockInv, Locking, Joins, Enters, Leaves,
              still, most, asking, MayBegin, Go, state, outside, session
<1>6. ASSUME NEW c \in Users, WaitsForSnapshot(c) PROVE AskInv'
  BY <1>0, <1>6 DEF AskInv, Returned, TypeOK, TypeCalls, LockInv, Locking, WaitsForSnapshot, Enters,
              Waiting, Go, state, most, asking, MayBegin, outside, session
<1>7. ASSUME NEW c \in Users, PolicyBreaks(c) PROVE AskInv'
  BY <1>0, <1>7 DEF AskInv, Returned, TypeOK, TypeCalls, LockInv, Locking, PolicyBreaks, Enters,
              Waiting, Go, state, most, asking, MayBegin, outside, session
<1>8. ASSUME NEW c \in Users, Abandon(c) PROVE AskInv'
  BY <1>0, <1>8 DEF AskInv, Returned, TypeOK, TypeCalls, LockInv, Locking, Abandon, Go, still,
              session, asking, state
<1>9. ASSUME NEW c \in Commands, FilesFail(c) PROVE AskInv'
  BY <1>0, <1>9 DEF AskInv, Returned, TypeOK, TypeCalls, LockInv, Locking, FilesFail, Go, still, most,
              asking, state, outside, session
<1>10. ASSUME NEW c \in Commands, Reserve(c) PROVE AskInv'
  BY <1>0, <1>10 DEF AskInv, Returned, TypeOK, TypeCalls, LockInv, Locking, Reserve, Go, session,
               asking
<1>11. ASSUME NEW c \in Commands, Created(c) PROVE AskInv'
  BY <1>0, <1>11 DEF AskInv, Returned, TypeOK, TypeCalls, LockInv, Locking, Created, Waiting, Go,
               most, asking, outside, session
<1>12. ASSUME NEW c \in Commands, CreateFails(c) PROVE AskInv'
  BY <1>0, <1>12 DEF AskInv, Returned, TypeOK, TypeCalls, LockInv, Locking, CreateFails, Waiting, Go,
               most, asking, outside, session
<1>13. ASSUME NEW c \in Commands, ReturnResult(c) PROVE AskInv'
  BY <1>0, <1>13 DEF AskInv, Returned, TypeOK, TypeCalls, LockInv, Locking, ReturnResult, Go, still,
               most, asking, state, outside, session
<1>14. ASSUME NEW c \in Commands, AwaitFails(c) PROVE AskInv'
  BY <1>0, <1>14 DEF AskInv, Returned, TypeOK, TypeCalls, LockInv, Locking, AwaitFails, Go, still,
               session, asking, state
<1>15. ASSUME NEW c \in Inspections, InspectsImage(c) PROVE AskInv'
  BY <1>0, <1>15 DEF AskInv, Returned, TypeOK, TypeCalls, LockInv, Locking, InspectsImage, Enters,
               Leaves, still, most, asking, MayBegin, Go, state, outside, session
<1>16. ASSUME NEW c \in Inspections, HoldsVm(c) PROVE AskInv'
  BY <1>0, <1>16 DEF AskInv, Returned, TypeOK, TypeCalls, LockInv, Locking, HoldsVm, Go, session,
               asking
<1>17. ASSUME NEW c \in Inspections, ReadyToInspect(c) PROVE AskInv'
  BY <1>0, <1>17 DEF AskInv, Returned, TypeOK, TypeCalls, LockInv, Locking, ReadyToInspect, Wakes,
               Leaves, still, most, asking, Go, state, outside, session
<1>18. ASSUME NEW c \in Inspections, ReadyFails(c) PROVE AskInv'
  BY <1>0, <1>18 DEF AskInv, Returned, TypeOK, TypeCalls, LockInv, Locking, ReadyFails, Leaves, still,
               most, asking, Go, state, outside, session
<1>19. ASSUME NEW c \in Inspections, ReleaseInspection(c) PROVE AskInv'
  BY <1>0, <1>19 DEF AskInv, Returned, TypeOK, TypeCalls, LockInv, Locking, ReleaseInspection,
               Waiting, Go, session, asking
<1>20. ASSUME NEW c \in Snapshots, SnapshotReturns(c) PROVE AskInv'
  <2>1. \A s \in Snapshots : s # c => pc'[s] = pc[s] /\ asked'[s] = asked[s] /\ seen'[s] = seen[s]
    BY <1>20 DEF SnapshotReturns, Go, Asks, TypeOK, TypeCalls
  <2>2. \A p \in Commands : pc'[p] = pc[p]
    BY <1>20 DEF SnapshotReturns, Go, TypeOK, TypeCalls
  <2>3. history' = history /\ snapshots' = snapshots
    BY <1>20 DEF SnapshotReturns, still, state, most, outside, session
  <2>4. CASE pc'[c] = "raised"
    BY <1>0, <2>1, <2>2, <2>3, <2>4 DEF AskInv, TypeOK, TypeCalls
  <2>5. CASE NothingToSave /\ pc'[c] = "done" /\ Asks(c)
    <3>1. asked'[c] = Accepted
      BY <2>5 DEF Asks, Accepted, TypeOK, TypeCalls
    <3>2. Accepted \subseteq Saved
      BY <2>5, NothingRuns DEF NothingToSave, WorkInv, Ended
    <3>3. /\ \A p \in asked'[c] : pc'[p] \in {"running"} \cup Returned
          /\ {p \in asked'[c] : pc'[p] # "raised"} \subseteq Saved
      BY <2>2, <3>1, <3>2 DEF Accepted, Returned
    <3> QED BY <1>0, <2>1, <2>2, <2>3, <3>3 DEF AskInv, TypeOK, TypeCalls
  <2> QED BY <1>20, <2>4, <2>5 DEF SnapshotReturns, Go, TypeOK, TypeCalls
<1>21. ASSUME NEW c \in Snapshots, SnapshotAsks(c) PROVE AskInv'
  <2>1. \A s \in Snapshots : s # c => pc'[s] = pc[s] /\ asked'[s] = asked[s] /\ seen'[s] = seen[s]
    BY <1>21 DEF SnapshotAsks, Go, Asks, TypeOK, TypeCalls
  <2>2. \A p \in Commands : pc'[p] = pc[p]
    BY <1>21 DEF SnapshotAsks, Go, TypeOK, TypeCalls
  <2>3. history' = history /\ snapshots' = snapshots
    BY <1>21 DEF SnapshotAsks, state, most, outside, session
  <2>4. pc'[c] = "waiting" /\ seen'[c] = snapshots /\ asked'[c] = Accepted
    BY <1>21 DEF SnapshotAsks, Go, Asks, Accepted, TypeOK, TypeCalls
  <2>5. \A p \in asked'[c] : pc'[p] \in {"running"} \cup Returned
    BY <2>2, <2>4 DEF Accepted, Returned
  <2> QED BY <1>0, <2>1, <2>2, <2>3, <2>4, <2>5 DEF AskInv, TypeOK, TypeCalls
<1>22. ASSUME NEW c \in Snapshots, SnapshotAnswers(c) PROVE AskInv'
  BY <1>0, <1>22 DEF AskInv, Returned, TypeOK, TypeCalls, LockInv, Locking, SnapshotAnswers, Wakes,
               SnapshotIsOver, Leaves, still, most, asking, Go, state, outside, session
<1>23. ASSUME NEW c \in Closes, CloseAsks(c) PROVE AskInv'
  BY <1>0, <1>23 DEF AskInv, Returned, TypeOK, TypeCalls, LockInv, Locking, CloseAsks, MayBegin, Go,
               Waiting, session, asking
<1>24. ASSUME NEW c \in Closes, CloseAnswers(c) PROVE AskInv'
  BY <1>0, <1>24 DEF AskInv, Returned, TypeOK, TypeCalls, LockInv, Locking, CloseAnswers, Wakes,
               Leaves, still, most, asking, Go, state, outside, session
<1>25. ASSUME NEW c \in Closes, CloseReturns(c) PROVE AskInv'
  BY <1>0, <1>25 DEF AskInv, Returned, TypeOK, TypeCalls, LockInv, Locking, CloseReturns, Go, still,
               most, asking, state, outside, session
<1>26. ASSUME NEW c \in Aborts \cup Closes, AbortWaits(c) PROVE AskInv'
  BY <1>0, <1>26 DEF AskInv, Returned, TypeOK, TypeCalls, LockInv, Locking, AbortWaits, MayBegin, Go,
               still, most, asking, state, outside, session
<1>27. ASSUME NEW c \in Aborts \cup Closes, AbortEnds(c) PROVE AskInv'
  BY <1>0, <1>27 DEF AskInv, Returned, TypeOK, TypeCalls, LockInv, Locking, AbortEnds, Enters,
               Waiting, Go, session, asking, MayBegin
<1>28. ASSUME NEW c \in Aborts \cup Closes, AbortCancels(c) PROVE AskInv'
  BY <1>0, <1>28 DEF AskInv, Returned, TypeOK, TypeCalls, LockInv, Locking, AbortCancels, Go, still,
               session, asking, state
<1>29. ASSUME NEW c \in Aborts \cup Closes, JoinsWorker(c) PROVE AskInv'
  BY <1>0, <1>29 DEF AskInv, Returned, TypeOK, TypeCalls, LockInv, Locking, JoinsWorker, Go, still,
               most, asking, state, outside, session
<1>30. ASSUME NEW c \in Rollbacks, Rollback(c) PROVE AskInv'
  BY <1>0, <1>30 DEF AskInv, Returned, TypeOK, TypeCalls, LockInv, Locking, Rollback, MayBegin,
               HasParent, Go, still, asking, state
<1>31. ASSUME NEW c \in Callers, GivesUp(c) PROVE AskInv'
  BY <1>0, <1>31 DEF AskInv, Returned, TypeOK, TypeCalls, LockInv, Locking, GivesUp, Leaves, still,
               most, asking, Go, state, outside, session
<1>32. ASSUME WorkerCommits PROVE AskInv'
  <2>1. Saved \subseteq Saved'
    <3>1. CASE history' = Append(history, [parent |-> opParent, files |-> fs, torn |-> torn])
      BY <3>1, SavedGrows
    <3>2. CASE history' = history
      BY <1>0, <3>2
    <3> QED BY <1>32, <3>1, <3>2 DEF WorkerCommits
  <2>2. UNCHANGED <<pc, seen, asked, snapshots>>
    BY <1>32 DEF WorkerCommits, still, state, calls
  <2> QED BY <2>1, <2>2 DEF AskInv
<1>33. ASSUME WorkerPublishes PROVE AskInv'
  <2>1. phase = "snapshotting" /\ worker = "publish" /\ procs = {} /\ torn = {} /\ fs \subseteq Saved
    BY <1>33, NothingRuns DEF WorkerPublishes, SaveInv, WorkInv
  <2>2. Accepted \subseteq Saved
    BY <2>1 DEF WorkInv, Ended
  <2>3. UNCHANGED <<pc, seen, asked, history>>
    BY <1>33 DEF WorkerPublishes, calls, session
  <2>4. ASSUME NEW s \in Snapshots, pc[s] \in {"waiting", "done"}
        PROVE  {p \in asked[s] : pc[p] # "raised"} \subseteq Saved
    <3>1. \A p \in asked[s] : p \in Commands /\ pc[p] \in {"running"} \cup Returned
      BY <2>4 DEF AskInv, TypeOK, TypeCalls
    <3> QED BY <2>2, <3>1 DEF Accepted, Returned
  <2> QED BY <1>0, <2>3, <2>4 DEF AskInv
<1>34. ASSUME NEW c \in Commands,
              ServerCreates(c) \/ ProcExits(c)
       PROVE  UNCHANGED <<pc, seen, asked, snapshots, history>>
  BY <1>34 DEF ServerCreates, calls, session, state, still, ProcExits
<1>35. ASSUME NEW c \in Callers,
              WaitsAgain(c)
       PROVE  UNCHANGED <<pc, seen, asked, snapshots, history>>
  BY <1>35 DEF WaitsAgain, still, most, outside, session, calls, state
<1>36. ASSUME ObserveSpawn \/ ObserveExit \/ ObserveMainExit \/ ObserveCompletion \/
              ReaderEnds \/ StreamBreaks
       PROVE  UNCHANGED <<pc, seen, asked, snapshots, history>>
  BY <1>36 DEF ObserveSpawn, calls, session, ObserveExit, ObserveMainExit, state,
               ObserveCompletion, ReaderEnds, StreamBreaks, still
<1>37. ASSUME NEW o \in {"success", "failed"}, NEW b \in BOOLEAN,
              VmEnds(o, b)
       PROVE  UNCHANGED <<pc, seen, asked, snapshots, history>>
  BY <1>37 DEF VmEnds, calls, session, state, still
<1>38. ASSUME IdleFires \/ VmTimerFires \/ PolicyDecides
       PROVE  UNCHANGED <<pc, seen, asked, snapshots, history>>
  BY <1>38 DEF IdleFires, calls, session, state, still, VmTimerFires, PolicyDecides
<1>39. ASSUME WorkerStops \/ WorkerDecides \/ WorkerSignals \/ SaveFails \/ SaveJoins \/
              WorkerFails \/ WorkerCleansUp
       PROVE  UNCHANGED <<pc, seen, asked, snapshots, history>>
  BY <1>39 DEF WorkerStops, calls, session, state, still, WorkerDecides, outside, WorkerSignals,
               SaveFails, SaveJoins, WorkerFails, WorkerCleansUp
<1>40. ASSUME UNCHANGED vars PROVE UNCHANGED <<pc, seen, asked, snapshots, history>>
  BY <1>40 DEF vars, still, state, outside, session, calls
<1>41. ASSUME UNCHANGED <<pc, seen, asked, snapshots, history>> PROVE AskInv'
  BY <1>41 DEF AskInv, Saved
<1> QED BY <1>1, <1>2, <1>3, <1>4, <1>5, <1>6, <1>7, <1>8, <1>9, <1>10, <1>11, <1>12, <1>13,
           <1>14, <1>15, <1>16, <1>17, <1>18, <1>19, <1>20, <1>21, <1>22, <1>23, <1>24, <1>25,
           <1>26, <1>27, <1>28, <1>29, <1>30, <1>31, <1>32, <1>33, <1>34, <1>35, <1>36, <1>37,
           <1>38, <1>39, <1>40, <1>41
     DEF Command, Inspection, Snapshot, Close, Abort, Reader, Server, Policy, Worker, Next, AllReturned

-----------------------------------------------------------------------------
(* The calls that end a session                                            *)

\* Nothing restarts a VM or a save behind the call that ended the session.
LEMMA EndStep ==
    ASSUME TypeOK, LockInv, SaveInv, VmInv, EndInv, [Next]_vars
    PROVE  EndInv'
<1>1. ASSUME NEW c \in Users, Refused(c) PROVE EndInv'
  BY <1>1 DEF EndInv, LockInv, Locking, SaveInv, VmInv, Ended, TypeOK, TypeCalls, Refused,
              Enters, CheckOk, Leaves, still, most, MayBegin, Go, wrapper, outside, server
<1>2. ASSUME NEW c \in Users, StartVm(c) PROVE EndInv'
  BY <1>2 DEF EndInv, LockInv, Locking, SaveInv, VmInv, Ended, TypeOK, TypeCalls, StartVm,
              Enters, CheckOk, Leaves, wrapper, server, MayBegin, Go
<1>3. ASSUME NEW c \in Users, VmStarted(c) PROVE EndInv'
  BY <1>3 DEF EndInv, LockInv, Locking, SaveInv, VmInv, Ended, TypeOK, TypeCalls, VmStarted,
              ServerStartsVm, Go
<1>4. ASSUME NEW c \in Users, StartFails(c) PROVE EndInv'
  BY <1>4 DEF EndInv, LockInv, Locking, SaveInv, VmInv, Ended, TypeOK, TypeCalls, StartFails,
              server, ServerStartsVm, Fail, Waiting, Go
<1>5. ASSUME NEW c \in Users, Joins(c) PROVE EndInv'
  BY <1>5 DEF EndInv, LockInv, Locking, SaveInv, VmInv, Ended, TypeOK, TypeCalls, Joins, Enters,
              CheckOk, Leaves, still, most, MayBegin, Go, wrapper, outside, server
<1>6. ASSUME NEW c \in Users, WaitsForSnapshot(c) PROVE EndInv'
  BY <1>6 DEF EndInv, LockInv, Locking, SaveInv, VmInv, Ended, TypeOK, TypeCalls,
              WaitsForSnapshot, Enters, CheckOk, Waiting, Go, most, MayBegin, wrapper, outside,
              server
<1>7. ASSUME NEW c \in Users, PolicyBreaks(c) PROVE EndInv'
  BY <1>7 DEF EndInv, LockInv, Locking, SaveInv, VmInv, Ended, TypeOK, TypeCalls, PolicyBreaks,
              Enters, CheckOk, Fail, Waiting, Go, most, MayBegin, wrapper, outside, server
<1>8. ASSUME NEW c \in Users, Abandon(c) PROVE EndInv'
  BY <1>8 DEF EndInv, LockInv, Locking, SaveInv, VmInv, Ended, TypeOK, TypeCalls, Abandon,
              CancelVm, CancelFails, server, Go, still, wrapper
<1>9. ASSUME NEW c \in Commands, FilesFail(c) PROVE EndInv'
  BY <1>9 DEF EndInv, LockInv, Locking, SaveInv, VmInv, Ended, TypeOK, TypeCalls, FilesFail, Go,
              still, most, wrapper, outside, server
<1>10. ASSUME NEW c \in Commands, Reserve(c) PROVE EndInv'
  BY <1>10 DEF EndInv, LockInv, Locking, SaveInv, VmInv, Ended, TypeOK, TypeCalls, Reserve, Go,
               wrapper, server
<1>11. ASSUME NEW c \in Commands, Created(c) PROVE EndInv'
  BY <1>11 DEF EndInv, LockInv, Locking, SaveInv, VmInv, Ended, TypeOK, TypeCalls, Created,
               Waiting, Go, most, wrapper, outside, server
<1>12. ASSUME NEW c \in Commands, CreateFails(c) PROVE EndInv'
  BY <1>12 DEF EndInv, LockInv, Locking, SaveInv, VmInv, Ended, TypeOK, TypeCalls, CreateFails,
               Fail, Waiting, Go, most, wrapper, outside, server
<1>13. ASSUME NEW c \in Commands, ReturnResult(c) PROVE EndInv'
  BY <1>13 DEF EndInv, LockInv, Locking, SaveInv, VmInv, Ended, TypeOK, TypeCalls, ReturnResult,
               Go, still, most, wrapper, outside, server
<1>14. ASSUME NEW c \in Commands, AwaitFails(c) PROVE EndInv'
  BY <1>14 DEF EndInv, LockInv, Locking, SaveInv, VmInv, Ended, TypeOK, TypeCalls, AwaitFails,
               server, Go, still, wrapper
<1>15. ASSUME NEW c \in Inspections, InspectsImage(c) PROVE EndInv'
  BY <1>15 DEF EndInv, LockInv, Locking, SaveInv, VmInv, Ended, TypeOK, TypeCalls,
               InspectsImage, Enters, CheckOk, Leaves, still, most, MayBegin, Go, wrapper,
               outside, server
<1>16. ASSUME NEW c \in Inspections, HoldsVm(c) PROVE EndInv'
  BY <1>16 DEF EndInv, LockInv, Locking, SaveInv, VmInv, Ended, TypeOK, TypeCalls, HoldsVm, Go,
               wrapper, server
<1>17. ASSUME NEW c \in Inspections, ReadyToInspect(c) PROVE EndInv'
  BY <1>17 DEF EndInv, LockInv, Locking, SaveInv, VmInv, Ended, TypeOK, TypeCalls,
               ReadyToInspect, Wakes, VmIsReady, Leaves, still, most, Go, wrapper, outside,
               server
<1>18. ASSUME NEW c \in Inspections, ReadyFails(c) PROVE EndInv'
  BY <1>18 DEF EndInv, LockInv, Locking, SaveInv, VmInv, Ended, TypeOK, TypeCalls, ReadyFails,
               Leaves, still, most, Go, wrapper, outside, server
<1>19. ASSUME NEW c \in Inspections, ReleaseInspection(c) PROVE EndInv'
  BY <1>19 DEF EndInv, LockInv, Locking, SaveInv, VmInv, Ended, TypeOK, TypeCalls,
               ReleaseInspection, InspectionFinished, Waiting, Go, wrapper, server
<1>20. ASSUME NEW c \in Snapshots, SnapshotReturns(c) PROVE EndInv'
  BY <1>20 DEF EndInv, LockInv, Locking, SaveInv, VmInv, Ended, TypeOK, TypeCalls,
               SnapshotReturns, MayBegin, CheckOk, Go, NothingToSave, Asks, still, most,
               wrapper, outside, server
<1>21. ASSUME NEW c \in Snapshots, SnapshotAsks(c) PROVE EndInv'
  BY <1>21 DEF EndInv, LockInv, Locking, SaveInv, VmInv, Ended, TypeOK, TypeCalls, SnapshotAsks,
               MayBegin, CheckOk, NothingToSave, Asks, Waiting, Go, most, wrapper, outside,
               server
<1>22. ASSUME NEW c \in Snapshots, SnapshotAnswers(c) PROVE EndInv'
  BY <1>22 DEF EndInv, LockInv, Locking, SaveInv, VmInv, Ended, TypeOK, TypeCalls,
               SnapshotAnswers, Wakes, SnapshotIsOver, Leaves, still, most, Go, wrapper,
               outside, server
<1>23. ASSUME NEW c \in Closes, CloseAsks(c) PROVE EndInv'
  BY <1>23 DEF EndInv, LockInv, Locking, SaveInv, VmInv, Ended, TypeOK, TypeCalls, CloseAsks,
               MayBegin, Go, ClosingPhase, Waiting, wrapper, server
<1>24. ASSUME NEW c \in Closes, CloseAnswers(c) PROVE EndInv'
  BY <1>24 DEF EndInv, LockInv, Locking, SaveInv, VmInv, Ended, TypeOK, TypeCalls, CloseAnswers,
               Wakes, Leaves, still, most, Go, wrapper, outside, server
<1>25. ASSUME NEW c \in Closes, CloseReturns(c) PROVE EndInv'
  BY <1>25 DEF EndInv, LockInv, Locking, SaveInv, VmInv, Ended, TypeOK, TypeCalls, CloseReturns,
               WorkerJoined, Go, still, most, wrapper, outside, server
<1>26. ASSUME NEW c \in Aborts \cup Closes, AbortWaits(c) PROVE EndInv'
  BY <1>26 DEF EndInv, LockInv, Locking, SaveInv, VmInv, Ended, TypeOK, TypeCalls, AbortWaits,
               MayBegin, Go, still, most, wrapper, outside, server
<1>27. ASSUME NEW c \in Aborts \cup Closes, AbortEnds(c) PROVE EndInv'
  <2>1. operation = 0 => operation \notin live
    BY DEF VmInv, TypeOK, TypeLazy
  <2>2. \A a \in Callers : a # c => pc'[a] = pc[a]
    BY <1>27 DEF AbortEnds, Go, TypeOK, TypeCalls
  <2>3. pc'[c] \in {"joining", "cancelling"} /\ (pc'[c] = "joining" => operation = 0)
    BY <1>27 DEF AbortEnds, Go, TypeOK, TypeCalls
  <2>4. phase' \in Ended /\ UNCHANGED <<operation, live, worker>>
    BY <1>27 DEF AbortEnds, Ended, wrapper, server
  <2> QED BY <2>1, <2>2, <2>3, <2>4 DEF EndInv
<1>28. ASSUME NEW c \in Aborts \cup Closes, AbortCancels(c) PROVE EndInv'
  BY <1>28 DEF EndInv, LockInv, Locking, SaveInv, VmInv, Ended, TypeOK, TypeCalls, AbortCancels,
               CancelVm, Go, CancelFails, still, wrapper, server
<1>29. ASSUME NEW c \in Aborts \cup Closes, JoinsWorker(c) PROVE EndInv'
  BY <1>29 DEF EndInv, LockInv, Locking, SaveInv, VmInv, Ended, TypeOK, TypeCalls, JoinsWorker,
               WorkerJoined, Go, still, most, wrapper, outside, server
<1>30. ASSUME NEW c \in Rollbacks, Rollback(c) PROVE EndInv'
  BY <1>30 DEF EndInv, LockInv, Locking, SaveInv, VmInv, Ended, TypeOK, TypeCalls, Rollback,
               MayBegin, AtBoundary, Go, still, wrapper, server, CheckOk
<1>31. ASSUME NEW c \in Callers, GivesUp(c) PROVE EndInv'
  BY <1>31 DEF EndInv, LockInv, Locking, SaveInv, VmInv, Ended, TypeOK, TypeCalls, GivesUp,
               Leaves, still, most, Go, wrapper, outside, server
<1>32. ASSUME ObserveSpawn PROVE EndInv'
  BY <1>32 DEF EndInv, LockInv, Locking, SaveInv, VmInv, Ended, TypeOK, TypeCalls, ObserveSpawn,
               Reads, ObserverPasses, wrapper, calls, Waiting
<1>33. ASSUME ObserveMainExit PROVE EndInv'
  BY <1>33 DEF EndInv, LockInv, Locking, SaveInv, VmInv, Ended, TypeOK, TypeCalls,
               ObserveMainExit, Reads, ObserverRaises, ObserverPasses, wrapper, calls, Waiting,
               Fail
<1>34. ASSUME ObserveCompletion PROVE EndInv'
  BY <1>34 DEF EndInv, LockInv, Locking, SaveInv, VmInv, Ended, TypeOK, TypeCalls,
               ObserveCompletion, Reads, ObserverRaises, wrapper, calls, Waiting, Fail
<1>35. ASSUME ReaderEnds PROVE EndInv'
  BY <1>35 DEF EndInv, LockInv, Locking, SaveInv, VmInv, Ended, TypeOK, TypeCalls, ReaderEnds,
               Waiting, Fail, wrapper, server, calls
<1>36. ASSUME NEW o \in {"success", "failed"}, NEW b \in BOOLEAN, VmEnds(o, b) PROVE EndInv'
  BY <1>36 DEF EndInv, LockInv, Locking, SaveInv, VmInv, Ended, TypeOK, TypeCalls, VmEnds,
               still, wrapper, calls
<1>37. ASSUME WorkerStops PROVE EndInv'
  BY <1>37 DEF EndInv, LockInv, Locking, SaveInv, VmInv, Ended, TypeOK, TypeCalls, WorkerStops,
               WorkerWakes, still, server, calls
<1>38. ASSUME WorkerDecides PROVE EndInv'
  BY <1>38 DEF EndInv, LockInv, Locking, SaveInv, VmInv, Ended, TypeOK, TypeCalls,
               WorkerDecides, WorkerWakes, Waiting, outside, calls, server
<1>39. ASSUME WorkerSignals PROVE EndInv'
  BY <1>39 DEF EndInv, LockInv, Locking, SaveInv, VmInv, Ended, TypeOK, TypeCalls,
               WorkerSignals, still, calls
<1>40. ASSUME SaveFails PROVE EndInv'
  BY <1>40 DEF EndInv, LockInv, Locking, SaveInv, VmInv, Ended, TypeOK, TypeCalls, SaveFails,
               CancelVm, CancelFails, still, calls, server
<1>41. ASSUME SaveJoins PROVE EndInv'
  BY <1>41 DEF EndInv, LockInv, Locking, SaveInv, VmInv, Ended, TypeOK, TypeCalls, SaveJoins,
               still, outside, calls, server
<1>42. ASSUME WorkerCommits PROVE EndInv'
  BY <1>42 DEF EndInv, LockInv, Locking, SaveInv, VmInv, Ended, TypeOK, TypeCalls,
               WorkerCommits, still, server, calls
<1>43. ASSUME WorkerPublishes PROVE EndInv'
  BY <1>43 DEF EndInv, LockInv, Locking, SaveInv, VmInv, Ended, TypeOK, TypeCalls,
               WorkerPublishes, Waiting, server, calls
<1>44. ASSUME WorkerFails PROVE EndInv'
  BY <1>44 DEF EndInv, LockInv, Locking, SaveInv, VmInv, Ended, TypeOK, TypeCalls, WorkerFails,
               Fail, Waiting, outside, calls, server
<1>45. ASSUME WorkerCleansUp PROVE EndInv'
  BY <1>45 DEF EndInv, LockInv, Locking, SaveInv, VmInv, Ended, TypeOK, TypeCalls,
               WorkerCleansUp, CancelVm, CancelFails, still, calls, server
<1>46. ASSUME NEW c \in Commands,
              ServerCreates(c) \/ ProcExits(c)
       PROVE  UNCHANGED <<phase, pc, operation, live, worker>>
  BY <1>46 DEF ServerCreates, calls, wrapper, still, ProcExits
<1>47. ASSUME NEW c \in Callers,
              WaitsAgain(c)
       PROVE  UNCHANGED <<phase, pc, operation, live, worker>>
  BY <1>47 DEF WaitsAgain, most, server, outside, calls, wrapper, still
<1>48. ASSUME ObserveExit \/ StreamBreaks
       PROVE  UNCHANGED <<phase, pc, operation, live, worker>>
  BY <1>48 DEF ObserveExit, calls, wrapper, StreamBreaks, server, still
<1>49. ASSUME IdleFires \/ VmTimerFires \/ PolicyDecides
       PROVE  UNCHANGED <<phase, pc, operation, live, worker>>
  BY <1>49 DEF IdleFires, calls, server, wrapper, still, VmTimerFires, PolicyDecides
<1>50. ASSUME UNCHANGED vars PROVE UNCHANGED <<phase, pc, operation, live, worker>>
  BY <1>50 DEF vars, still, wrapper, outside, server, calls
<1>51. ASSUME UNCHANGED <<phase, pc, operation, live, worker>> PROVE EndInv'
  BY <1>51 DEF EndInv
<1> QED BY <1>1, <1>2, <1>3, <1>4, <1>5, <1>6, <1>7, <1>8, <1>9, <1>10, <1>11, <1>12, <1>13,
           <1>14, <1>15, <1>16, <1>17, <1>18, <1>19, <1>20, <1>21, <1>22, <1>23, <1>24, <1>25,
           <1>26, <1>27, <1>28, <1>29, <1>30, <1>31, <1>32, <1>33, <1>34, <1>35, <1>36, <1>37,
           <1>38, <1>39, <1>40, <1>41, <1>42, <1>43, <1>44, <1>45, <1>46, <1>47, <1>48, <1>49,
           <1>50, <1>51
     DEF Command, Inspection, Snapshot, Close, Abort, Reader, Server, Policy, Worker, Next, AllReturned

\* Only an abort closes a session with an error, and it is reported.
LEMMA CloseStep ==
    ASSUME TypeOK, LockInv, SaveInv, VmInv, OverInv, CloseInv, [Next]_vars
    PROVE  CloseInv'
<1>1. ASSUME NEW c \in Users, Refused(c) PROVE CloseInv'
  BY <1>1 DEF CloseInv, ClosedWell, NoAborts, Reported, LockInv, Locking, SaveInv, OverInv,
              Ended, TypeOK, TypeCalls, Refused, Enters, CheckOk, Leaves, still, most, MayBegin,
              Go, wrapper, outside, server
<1>2. ASSUME NEW c \in Users, StartVm(c) PROVE CloseInv'
  BY <1>2 DEF CloseInv, ClosedWell, NoAborts, Reported, LockInv, Locking, SaveInv, OverInv,
              Ended, TypeOK, TypeCalls, StartVm, Enters, CheckOk, Leaves, wrapper, server,
              MayBegin, Go
<1>3. ASSUME NEW c \in Users, VmStarted(c) PROVE CloseInv'
  BY <1>3 DEF CloseInv, ClosedWell, NoAborts, Reported, LockInv, Locking, SaveInv, OverInv,
              Ended, TypeOK, TypeCalls, VmStarted, ServerStartsVm, Go
<1>4. ASSUME NEW c \in Users, StartFails(c) PROVE CloseInv'
  BY <1>4 DEF CloseInv, ClosedWell, NoAborts, Reported, LockInv, Locking, SaveInv, OverInv,
              Ended, TypeOK, TypeCalls, StartFails, server, ServerStartsVm, Fail, Waiting, Go
<1>5. ASSUME NEW c \in Users, Joins(c) PROVE CloseInv'
  BY <1>5 DEF CloseInv, ClosedWell, NoAborts, Reported, LockInv, Locking, SaveInv, OverInv,
              Ended, TypeOK, TypeCalls, Joins, Enters, CheckOk, Leaves, still, most, MayBegin,
              Go, wrapper, outside, server
<1>6. ASSUME NEW c \in Users, WaitsForSnapshot(c) PROVE CloseInv'
  BY <1>6 DEF CloseInv, ClosedWell, NoAborts, Reported, LockInv, Locking, SaveInv, OverInv,
              Ended, TypeOK, TypeCalls, WaitsForSnapshot, Enters, CheckOk, Waiting, Go, most,
              MayBegin, wrapper, outside, server
<1>7. ASSUME NEW c \in Users, PolicyBreaks(c) PROVE CloseInv'
  BY <1>7 DEF CloseInv, ClosedWell, NoAborts, Reported, LockInv, Locking, SaveInv, OverInv,
              Ended, TypeOK, TypeCalls, PolicyBreaks, Enters, CheckOk, Fail, Waiting, Go, most,
              MayBegin, wrapper, outside, server
<1>8. ASSUME NEW c \in Users, Abandon(c) PROVE CloseInv'
  BY <1>8 DEF CloseInv, ClosedWell, NoAborts, Reported, LockInv, Locking, SaveInv, OverInv,
              Ended, TypeOK, TypeCalls, Abandon, CancelVm, CancelFails, server, Go, still,
              wrapper
<1>9. ASSUME NEW c \in Commands, FilesFail(c) PROVE CloseInv'
  BY <1>9 DEF CloseInv, ClosedWell, NoAborts, Reported, LockInv, Locking, SaveInv, OverInv,
              Ended, TypeOK, TypeCalls, FilesFail, Go, still, most, wrapper, outside, server
<1>10. ASSUME NEW c \in Commands, Reserve(c) PROVE CloseInv'
  BY <1>10 DEF CloseInv, ClosedWell, NoAborts, Reported, LockInv, Locking, SaveInv, OverInv,
               Ended, TypeOK, TypeCalls, Reserve, Go, wrapper, server
<1>11. ASSUME NEW c \in Commands, Created(c) PROVE CloseInv'
  BY <1>11 DEF CloseInv, ClosedWell, NoAborts, Reported, LockInv, Locking, SaveInv, OverInv,
               Ended, TypeOK, TypeCalls, Created, Waiting, Go, most, wrapper, outside, server
<1>12. ASSUME NEW c \in Commands, CreateFails(c) PROVE CloseInv'
  BY <1>12 DEF CloseInv, ClosedWell, NoAborts, Reported, LockInv, Locking, SaveInv, OverInv,
               Ended, TypeOK, TypeCalls, CreateFails, Fail, Waiting, Go, most, wrapper, outside,
               server
<1>13. ASSUME NEW c \in Commands, ReturnResult(c) PROVE CloseInv'
  BY <1>13 DEF CloseInv, ClosedWell, NoAborts, Reported, LockInv, Locking, SaveInv, OverInv,
               Ended, TypeOK, TypeCalls, ReturnResult, Go, still, most, wrapper, outside, server
<1>14. ASSUME NEW c \in Commands, AwaitFails(c) PROVE CloseInv'
  BY <1>14 DEF CloseInv, ClosedWell, NoAborts, Reported, LockInv, Locking, SaveInv, OverInv,
               Ended, TypeOK, TypeCalls, AwaitFails, server, Go, still, wrapper
<1>15. ASSUME NEW c \in Inspections, InspectsImage(c) PROVE CloseInv'
  BY <1>15 DEF CloseInv, ClosedWell, NoAborts, Reported, LockInv, Locking, SaveInv, OverInv,
               Ended, TypeOK, TypeCalls, InspectsImage, Enters, CheckOk, Leaves, still, most,
               MayBegin, Go, wrapper, outside, server
<1>16. ASSUME NEW c \in Inspections, HoldsVm(c) PROVE CloseInv'
  BY <1>16 DEF CloseInv, ClosedWell, NoAborts, Reported, LockInv, Locking, SaveInv, OverInv,
               Ended, TypeOK, TypeCalls, HoldsVm, Go, wrapper, server
<1>17. ASSUME NEW c \in Inspections, ReadyToInspect(c) PROVE CloseInv'
  BY <1>17 DEF CloseInv, ClosedWell, NoAborts, Reported, LockInv, Locking, SaveInv, OverInv,
               Ended, TypeOK, TypeCalls, ReadyToInspect, Wakes, VmIsReady, Leaves, still, most,
               Go, wrapper, outside, server
<1>18. ASSUME NEW c \in Inspections, ReadyFails(c) PROVE CloseInv'
  BY <1>18 DEF CloseInv, ClosedWell, NoAborts, Reported, LockInv, Locking, SaveInv, OverInv,
               Ended, TypeOK, TypeCalls, ReadyFails, Leaves, still, most, Go, wrapper, outside,
               server
<1>19. ASSUME NEW c \in Inspections, ReleaseInspection(c) PROVE CloseInv'
  BY <1>19 DEF CloseInv, ClosedWell, NoAborts, Reported, LockInv, Locking, SaveInv, OverInv,
               Ended, TypeOK, TypeCalls, ReleaseInspection, InspectionFinished, Waiting, Go,
               wrapper, server
<1>20. ASSUME NEW c \in Snapshots, SnapshotReturns(c) PROVE CloseInv'
  BY <1>20 DEF CloseInv, ClosedWell, NoAborts, Reported, LockInv, Locking, SaveInv, OverInv,
               Ended, TypeOK, TypeCalls, SnapshotReturns, MayBegin, CheckOk, Go, NothingToSave,
               Asks, still, most, wrapper, outside, server
<1>21. ASSUME NEW c \in Snapshots, SnapshotAsks(c) PROVE CloseInv'
  BY <1>21 DEF CloseInv, ClosedWell, NoAborts, Reported, LockInv, Locking, SaveInv, OverInv,
               Ended, TypeOK, TypeCalls, SnapshotAsks, MayBegin, CheckOk, NothingToSave, Asks,
               Waiting, Go, most, wrapper, outside, server
<1>22. ASSUME NEW c \in Snapshots, SnapshotAnswers(c) PROVE CloseInv'
  BY <1>22 DEF CloseInv, ClosedWell, NoAborts, Reported, LockInv, Locking, SaveInv, OverInv,
               Ended, TypeOK, TypeCalls, SnapshotAnswers, Wakes, SnapshotIsOver, Leaves, still,
               most, Go, wrapper, outside, server
<1>23. ASSUME NEW c \in Closes, CloseAsks(c) PROVE CloseInv'
  <2>1. CASE phase = "closed"
    <3>1. pc' = [pc EXCEPT ![c] = "done"] /\ phase' = phase /\ UNCHANGED <<error, live, worker>>
      BY <1>23, <2>1 DEF CloseAsks, Go, wrapper, server
    <3>2. pc[c] = "idle"
      BY <1>23 DEF CloseAsks
    <3>3. NoAborts' = NoAborts /\ Reported' = Reported /\ ClosedWell' = ClosedWell
      BY <3>1, <3>2 DEF NoAborts, Reported, ClosedWell, TypeOK, TypeCalls
    <3>4. NoAborts => ClosedWell \/ (error /\ Reported)
      BY <2>1 DEF CloseInv, ClosedWell
    <3> QED BY <3>1, <3>2, <3>3, <3>4 DEF CloseInv, TypeOK, TypeCalls
  <2>2. CASE phase # "closed"
    <3>1. pc' = [pc EXCEPT ![c] = "waiting"] /\ UNCHANGED <<error, live, worker>>
      BY <1>23, <2>2 DEF CloseAsks, Go, wrapper, server
    <3>2. pc[c] = "idle"
      BY <1>23 DEF CloseAsks
    <3>3. phase' = "closed" => phase = "cold"
      BY <1>23, <2>2 DEF CloseAsks, ClosingPhase
    <3>4. NoAborts' = NoAborts /\ Reported' = Reported /\ ~ClosedWell
      BY <2>2, <3>1, <3>2 DEF NoAborts, Reported, ClosedWell, TypeOK, TypeCalls
    <3>5. phase = "cold" => ~error /\ live = {} /\ worker \in {"none", "wait"}
      BY DEF OverInv, Ended, VmInv
    <3> QED BY <3>1, <3>2, <3>3, <3>4, <3>5 DEF CloseInv, ClosedWell, TypeOK, TypeCalls
  <2> QED BY <2>1, <2>2
<1>24. ASSUME NEW c \in Closes, CloseAnswers(c) PROVE CloseInv'
  BY <1>24 DEF CloseInv, ClosedWell, NoAborts, Reported, LockInv, Locking, SaveInv, OverInv,
               Ended, TypeOK, TypeCalls, CloseAnswers, Wakes, Leaves, still, most, Go, wrapper,
               outside, server
<1>25. ASSUME NEW c \in Closes, CloseReturns(c) PROVE CloseInv'
  BY <1>25 DEF CloseInv, ClosedWell, NoAborts, Reported, LockInv, Locking, SaveInv, OverInv,
               Ended, TypeOK, TypeCalls, CloseReturns, WorkerJoined, Go, still, most, wrapper,
               outside, server
<1>26. ASSUME NEW c \in Aborts \cup Closes, AbortWaits(c) PROVE CloseInv'
  BY <1>26 DEF CloseInv, ClosedWell, NoAborts, Reported, LockInv, Locking, SaveInv, OverInv,
               Ended, TypeOK, TypeCalls, AbortWaits, MayBegin, Go, still, most, wrapper,
               outside, server
<1>27. ASSUME NEW c \in Aborts \cup Closes, AbortEnds(c) PROVE CloseInv'
  BY <1>27 DEF CloseInv, ClosedWell, NoAborts, Reported, LockInv, Locking, SaveInv, OverInv,
               Ended, TypeOK, TypeCalls, AbortEnds, Enters, Waiting, Go, wrapper, server,
               MayBegin
<1>28. ASSUME NEW c \in Aborts \cup Closes, AbortCancels(c) PROVE CloseInv'
  BY <1>28 DEF CloseInv, ClosedWell, NoAborts, Reported, LockInv, Locking, SaveInv, OverInv,
               Ended, TypeOK, TypeCalls, AbortCancels, CancelVm, Go, CancelFails, still,
               wrapper, server
<1>29. ASSUME NEW c \in Aborts \cup Closes, JoinsWorker(c) PROVE CloseInv'
  BY <1>29 DEF CloseInv, ClosedWell, NoAborts, Reported, LockInv, Locking, SaveInv, OverInv,
               Ended, TypeOK, TypeCalls, JoinsWorker, WorkerJoined, Go, still, most, wrapper,
               outside, server
<1>30. ASSUME NEW c \in Rollbacks, Rollback(c) PROVE CloseInv'
  BY <1>30 DEF CloseInv, ClosedWell, NoAborts, Reported, LockInv, Locking, SaveInv, OverInv,
               Ended, TypeOK, TypeCalls, Rollback, MayBegin, AtBoundary, Go, still, wrapper,
               server, CheckOk
<1>31. ASSUME NEW c \in Callers, GivesUp(c) PROVE CloseInv'
  BY <1>31 DEF CloseInv, ClosedWell, NoAborts, Reported, LockInv, Locking, SaveInv, OverInv,
               Ended, TypeOK, TypeCalls, GivesUp, Leaves, still, most, Go, wrapper, outside,
               server
<1>32. ASSUME ObserveSpawn PROVE CloseInv'
  BY <1>32 DEF CloseInv, ClosedWell, NoAborts, Reported, LockInv, Locking, SaveInv, OverInv,
               Ended, TypeOK, TypeCalls, ObserveSpawn, Reads, ObserverPasses, wrapper, calls,
               Waiting
<1>33. ASSUME ObserveMainExit PROVE CloseInv'
  BY <1>33 DEF CloseInv, ClosedWell, NoAborts, Reported, LockInv, Locking, SaveInv, OverInv,
               Ended, TypeOK, TypeCalls, ObserveMainExit, Reads, ObserverRaises, ObserverPasses,
               wrapper, calls, Waiting, Fail
<1>34. ASSUME ObserveCompletion PROVE CloseInv'
  BY <1>34 DEF CloseInv, ClosedWell, NoAborts, Reported, LockInv, Locking, SaveInv, OverInv,
               Ended, TypeOK, TypeCalls, ObserveCompletion, Reads, ObserverRaises, wrapper,
               calls, Waiting, Fail
<1>35. ASSUME ReaderEnds PROVE CloseInv'
  BY <1>35 DEF CloseInv, ClosedWell, NoAborts, Reported, LockInv, Locking, SaveInv, OverInv,
               Ended, TypeOK, TypeCalls, ReaderEnds, Waiting, Fail, wrapper, server, calls
<1>36. ASSUME NEW o \in {"success", "failed"}, NEW b \in BOOLEAN, VmEnds(o, b) PROVE CloseInv'
  BY <1>36 DEF CloseInv, ClosedWell, NoAborts, Reported, LockInv, Locking, SaveInv, OverInv,
               Ended, TypeOK, TypeCalls, VmEnds, still, wrapper, calls
<1>37. ASSUME WorkerStops PROVE CloseInv'
  BY <1>37 DEF CloseInv, ClosedWell, NoAborts, Reported, LockInv, Locking, SaveInv, OverInv,
               Ended, TypeOK, TypeCalls, WorkerStops, WorkerWakes, still, server, calls
<1>38. ASSUME WorkerDecides PROVE CloseInv'
  BY <1>38 DEF CloseInv, ClosedWell, NoAborts, Reported, LockInv, Locking, SaveInv, OverInv,
               Ended, TypeOK, TypeCalls, WorkerDecides, WorkerWakes, Waiting, outside, calls,
               server
<1>39. ASSUME WorkerSignals PROVE CloseInv'
  BY <1>39 DEF CloseInv, ClosedWell, NoAborts, Reported, LockInv, Locking, SaveInv, OverInv,
               Ended, TypeOK, TypeCalls, WorkerSignals, still, calls
<1>40. ASSUME SaveFails PROVE CloseInv'
  BY <1>40 DEF CloseInv, ClosedWell, NoAborts, Reported, LockInv, Locking, SaveInv, OverInv,
               Ended, TypeOK, TypeCalls, SaveFails, CancelVm, CancelFails, still, calls, server
<1>41. ASSUME SaveJoins PROVE CloseInv'
  BY <1>41 DEF CloseInv, ClosedWell, NoAborts, Reported, LockInv, Locking, SaveInv, OverInv,
               Ended, TypeOK, TypeCalls, SaveJoins, still, outside, calls, server
<1>42. ASSUME WorkerCommits PROVE CloseInv'
  BY <1>42 DEF CloseInv, ClosedWell, NoAborts, Reported, LockInv, Locking, SaveInv, OverInv,
               Ended, TypeOK, TypeCalls, WorkerCommits, still, server, calls
<1>43. ASSUME WorkerPublishes PROVE CloseInv'
  <2>1. /\ worker = "publish" /\ phase = "snapshotting" /\ ~error /\ live = {}
        /\ worker' = "wait" /\ UNCHANGED <<error, live, pc>>
    BY <1>43 DEF WorkerPublishes, SaveInv, VmInv, server, calls
  <2> QED BY <2>1 DEF CloseInv, ClosedWell, NoAborts, Reported
<1>44. ASSUME WorkerFails PROVE CloseInv'
  BY <1>44 DEF CloseInv, ClosedWell, NoAborts, Reported, LockInv, Locking, SaveInv, OverInv,
               Ended, TypeOK, TypeCalls, WorkerFails, Fail, Waiting, outside, calls, server
<1>45. ASSUME WorkerCleansUp PROVE CloseInv'
  BY <1>45 DEF CloseInv, ClosedWell, NoAborts, Reported, LockInv, Locking, SaveInv, OverInv,
               Ended, TypeOK, TypeCalls, WorkerCleansUp, CancelVm, CancelFails, still, calls,
               server
<1>46. ASSUME NEW c \in Commands,
              ServerCreates(c) \/ ProcExits(c)
       PROVE  UNCHANGED <<phase, error, pc, live, worker>>
  BY <1>46 DEF ServerCreates, calls, wrapper, still, ProcExits
<1>47. ASSUME NEW c \in Callers,
              WaitsAgain(c)
       PROVE  UNCHANGED <<phase, error, pc, live, worker>>
  BY <1>47 DEF WaitsAgain, most, server, outside, calls, wrapper, still
<1>48. ASSUME ObserveExit \/ StreamBreaks
       PROVE  UNCHANGED <<phase, error, pc, live, worker>>
  BY <1>48 DEF ObserveExit, calls, wrapper, StreamBreaks, server, still
<1>49. ASSUME IdleFires \/ VmTimerFires \/ PolicyDecides
       PROVE  UNCHANGED <<phase, error, pc, live, worker>>
  BY <1>49 DEF IdleFires, calls, server, wrapper, still, VmTimerFires, PolicyDecides
<1>50. ASSUME UNCHANGED vars PROVE UNCHANGED <<phase, error, pc, live, worker>>
  BY <1>50 DEF vars, still, wrapper, outside, server, calls
<1>51. ASSUME UNCHANGED <<phase, error, pc, live, worker>> PROVE CloseInv'
  BY <1>51 DEF CloseInv, ClosedWell, NoAborts, Reported
<1> QED BY <1>1, <1>2, <1>3, <1>4, <1>5, <1>6, <1>7, <1>8, <1>9, <1>10, <1>11, <1>12, <1>13,
           <1>14, <1>15, <1>16, <1>17, <1>18, <1>19, <1>20, <1>21, <1>22, <1>23, <1>24, <1>25,
           <1>26, <1>27, <1>28, <1>29, <1>30, <1>31, <1>32, <1>33, <1>34, <1>35, <1>36, <1>37,
           <1>38, <1>39, <1>40, <1>41, <1>42, <1>43, <1>44, <1>45, <1>46, <1>47, <1>48, <1>49,
           <1>50, <1>51
     DEF Command, Inspection, Snapshot, Close, Abort, Reader, Server, Policy, Worker, Next, AllReturned

-----------------------------------------------------------------------------
(* The theorems                                                            *)

\* The initial state satisfies every part of the invariant.
LEMMA InitIInv == Init => IInv
<1> SUFFICES ASSUME Init PROVE IInv
  OBVIOUS
<1> USE DEF Init
<1>1. TypeFlags
  BY DEF TypeFlags
<1>2. TypeLazy /\ TypeWrapper /\ TypePolicy
  BY DEF TypeLazy, Phases, TypeWrapper, TypePolicy
<1>3. TypeReader /\ TypeServer /\ TypeEvents
  BY DEF TypeReader, TypeServer, TypeEvents
<1>4. TypeSession
  BY DEF TypeSession
<1>5. TypeCalls
  BY DEF TypeCalls
<1>6. HistoryGrows
  BY DEF HistoryGrows
<1>7. LockInv
  BY DEF LockInv, Locking
<1>8. ExitsInv /\ TrackInv /\ SaveInv /\ NoTornSnapshot
  BY DEF ExitsInv, TrackInv, SaveInv, NoTornSnapshot
<1>9. HoldInv
  <2>1. Holding = {}
    BY DEF Holding
  <2> QED BY <2>1, FS_EmptySet DEF HoldInv
<1>10. VmInv /\ OverInv /\ TipInv /\ RunInv
  <2>1. Saved = {}
    BY DEF Saved
  <2> QED BY <2>1 DEF VmInv, OverInv, TipInv, RunInv, Serving, Returned
<1>11. CountInv
  <2>1. Holding = {} /\ IsFiniteSet({})
    BY FS_EmptySet DEF Holding
  <2> QED BY <2>1 DEF CountInv, Serving
<1>12. WorkInv /\ AskInv
  BY DEF WorkInv, AskInv, Accepted, ClosedWell
<1>13. EndInv /\ CloseInv
  BY DEF EndInv, CloseInv, ClosedWell
<1> QED BY <1>1, <1>2, <1>3, <1>4, <1>5, <1>6, <1>7, <1>8, <1>9, <1>10, <1>11, <1>12, <1>13
     DEF IInv, TypeOK

\* IInv holds of every state the session reaches.
THEOREM Invariance == Spec => []IInv
<1>1. IInv /\ [Next]_vars => IInv'
  BY TypeStep, HistoryStep, LockStep, ExitsStep, TrackStep, SaveStep, HoldStep, NoTornStep,
     OverStep, VmStep, CountStep, TipStep, WorkStep, RunStep, AskStep, EndStep, CloseStep
     DEF IInv
<1> QED BY InitIInv, <1>1, PTL DEF Spec

\* Types are correct for any finite number of calls of every kind.
THEOREM TypeCorrect == Spec => []TypeOK
<1>1. IInv => TypeOK
  BY DEF IInv
<1> QED BY Invariance, <1>1, PTL

\* Whatever the calls and the schedule, no saved image holds the work of a
\* process that the save killed half-way (_control, wants_snapshot, _save).
THEOREM NoTornSnapshots == Spec => []NoTornSnapshot
<1>1. IInv => NoTornSnapshot
  BY DEF IInv
<1> QED BY Invariance, <1>1, PTL

\* While a save is under way nothing runs in the VM and nobody inspects it.
THEOREM SavesAreQuiescent == Spec => []QuiescentSave
<1>1. IInv => QuiescentSave
  <2> SUFFICES ASSUME IInv, phase = "snapshotting"
               PROVE  procs = {} /\ Holding = {} /\ \A c \in Commands : pc[c] # "creating"
    BY DEF QuiescentSave
  <2>1. \A c \in Commands : pc[c] # "creating"
    BY DEF IInv, LockInv
  <2>2. procs = {}
    BY <2>1 DEF IInv, TrackInv, Ended, TypeOK, TypeServer
  <2>3. Holding = {}
    BY DEF IInv, HoldInv
  <2> QED BY <2>1, <2>2, <2>3
<1> QED BY Invariance, <1>1, PTL

\* No step leaves the phases that end a session: a save under way when the
\* session failed or was aborted does not reopen it.
LEMMA EndedStep ==
    ASSUME IInv, [Next]_vars, phase \in Ended
    PROVE  phase' \in Ended
<1>1. ASSUME NEW c \in Users, StartVm(c) PROVE phase' \in Ended
  BY <1>1 DEF Ended, StartVm, CheckOk
<1>2. ASSUME NEW c \in Users, VmStarted(c) PROVE phase' \in Ended
  BY <1>2 DEF VmStarted, IInv, LockInv, Ended
<1>3. ASSUME NEW c \in Users, StartFails(c) PROVE phase' \in Ended
  BY <1>3 DEF Ended, StartFails, Fail
<1>4. ASSUME NEW c \in Users, WaitsForSnapshot(c) PROVE phase' \in Ended
  BY <1>4 DEF Ended, WaitsForSnapshot, CheckOk
<1>5. ASSUME NEW c \in Users, PolicyBreaks(c) PROVE phase' \in Ended
  BY <1>5 DEF Ended, PolicyBreaks, CheckOk, Fail
<1>6. ASSUME NEW c \in Commands, CreateFails(c) PROVE phase' \in Ended
  BY <1>6 DEF Ended, CreateFails, Fail
<1>7. ASSUME NEW c \in Snapshots, SnapshotAsks(c) PROVE phase' \in Ended
  BY <1>7 DEF Ended, SnapshotAsks, CheckOk, NothingToSave
<1>8. ASSUME NEW c \in Closes, CloseAsks(c) PROVE phase' \in Ended
  BY <1>8 DEF Ended, CloseAsks, ClosingPhase
<1>9. ASSUME NEW c \in Aborts \cup Closes, AbortEnds(c) PROVE phase' \in Ended
  BY <1>9 DEF Ended, AbortEnds
<1>10. ASSUME ObserveSpawn PROVE phase' \in Ended
  BY <1>10 DEF Ended, ObserveSpawn, ObserverPasses
<1>11. ASSUME ObserveMainExit PROVE phase' \in Ended
  BY <1>11 DEF Ended, ObserveMainExit, ObserverRaises, ObserverPasses, Fail
<1>12. ASSUME ObserveCompletion PROVE phase' \in Ended
  BY <1>12 DEF Ended, ObserveCompletion, ObserverRaises, Fail
<1>13. ASSUME ReaderEnds PROVE phase' \in Ended
  BY <1>13 DEF Ended, ReaderEnds, Fail
<1>14. ASSUME WorkerDecides PROVE phase' \in Ended
  BY <1>14 DEF Ended, WorkerDecides
<1>15. ASSUME WorkerPublishes PROVE phase' \in Ended
  BY <1>15 DEF WorkerPublishes, IInv, SaveInv, Ended
<1>16. ASSUME WorkerFails PROVE phase' \in Ended
  BY <1>16 DEF Ended, WorkerFails, Fail
<1>17. ASSUME NEW c \in Users,
              Refused(c) \/ Joins(c) \/ Abandon(c)
       PROVE  UNCHANGED <<phase>>
  BY <1>17 DEF Refused, still, Joins, Abandon
<1>18. ASSUME NEW c \in Commands,
              FilesFail(c) \/ Reserve(c) \/ ServerCreates(c) \/ Created(c) \/
              ReturnResult(c) \/ AwaitFails(c) \/ ProcExits(c)
       PROVE  UNCHANGED <<phase>>
  BY <1>18 DEF FilesFail, still, Reserve, ServerCreates, Created, ReturnResult, AwaitFails,
               ProcExits
<1>19. ASSUME NEW c \in Inspections,
              InspectsImage(c) \/ HoldsVm(c) \/ ReadyToInspect(c) \/ ReadyFails(c) \/
              ReleaseInspection(c)
       PROVE  UNCHANGED <<phase>>
  BY <1>19 DEF InspectsImage, still, HoldsVm, ReadyToInspect, ReadyFails, ReleaseInspection
<1>20. ASSUME NEW c \in Snapshots,
              SnapshotReturns(c) \/ SnapshotAnswers(c)
       PROVE  UNCHANGED <<phase>>
  BY <1>20 DEF SnapshotReturns, still, SnapshotAnswers
<1>21. ASSUME NEW c \in Closes,
              CloseAnswers(c) \/ CloseReturns(c)
       PROVE  UNCHANGED <<phase>>
  BY <1>21 DEF CloseAnswers, still, CloseReturns
<1>22. ASSUME NEW c \in Aborts \cup Closes,
              AbortWaits(c) \/ AbortCancels(c) \/ JoinsWorker(c)
       PROVE  UNCHANGED <<phase>>
  BY <1>22 DEF AbortWaits, still, AbortCancels, JoinsWorker
<1>23. ASSUME NEW c \in Rollbacks,
              Rollback(c)
       PROVE  UNCHANGED <<phase>>
  BY <1>23 DEF Rollback, still
<1>24. ASSUME NEW c \in Callers,
              GivesUp(c) \/ WaitsAgain(c)
       PROVE  UNCHANGED <<phase>>
  BY <1>24 DEF GivesUp, still, WaitsAgain
<1>25. ASSUME ObserveExit \/ StreamBreaks
       PROVE  UNCHANGED <<phase>>
  BY <1>25 DEF ObserveExit, StreamBreaks, still
<1>26. ASSUME NEW o \in {"success", "failed"}, NEW b \in BOOLEAN,
              VmEnds(o, b)
       PROVE  UNCHANGED <<phase>>
  BY <1>26 DEF VmEnds, still
<1>27. ASSUME IdleFires \/ VmTimerFires \/ PolicyDecides
       PROVE  UNCHANGED <<phase>>
  BY <1>27 DEF IdleFires, still, VmTimerFires, PolicyDecides
<1>28. ASSUME WorkerStops \/ WorkerSignals \/ SaveFails \/ SaveJoins \/ WorkerCommits \/
              WorkerCleansUp
       PROVE  UNCHANGED <<phase>>
  BY <1>28 DEF WorkerStops, still, WorkerSignals, SaveFails, SaveJoins, WorkerCommits,
               WorkerCleansUp
<1>29. ASSUME UNCHANGED vars PROVE UNCHANGED <<phase>>
  BY <1>29 DEF vars, still
<1>30. ASSUME UNCHANGED <<phase>> PROVE phase' \in Ended
  BY <1>30 DEF Ended
<1> QED BY <1>1, <1>2, <1>3, <1>4, <1>5, <1>6, <1>7, <1>8, <1>9, <1>10, <1>11, <1>12, <1>13,
           <1>14, <1>15, <1>16, <1>17, <1>18, <1>19, <1>20, <1>21, <1>22, <1>23, <1>24, <1>25,
           <1>26, <1>27, <1>28, <1>29, <1>30
     DEF Command, Inspection, Snapshot, Close, Abort, Reader, Server, Policy, Worker, Next, AllReturned

\* Once abort() has returned, no call of a closed session and no worker is left
\* that could find it failed.
LEMMA ClosedStep ==
    ASSUME IInv, [Next]_vars, phase = "closed", NEW a \in Aborts, pc[a] = "done"
    PROVE  phase' = "closed"
<1>0. phase \in Ended /\ worker \in {"none", "done"}
  BY DEF IInv, EndInv, Ended
<1>1. ASSUME NEW c \in Users, StartVm(c) PROVE phase' = "closed"
  BY <1>1 DEF StartVm, CheckOk, Ended
<1>2. ASSUME NEW c \in Users, VmStarted(c) PROVE phase' = "closed"
  BY <1>2 DEF VmStarted, IInv, LockInv
<1>3. ASSUME NEW c \in Users, StartFails(c) PROVE phase' = "closed"
  BY <1>3 DEF StartFails, IInv, LockInv
<1>4. ASSUME NEW c \in Users, WaitsForSnapshot(c) \/ PolicyBreaks(c) PROVE phase' = "closed"
  BY <1>4 DEF WaitsForSnapshot, PolicyBreaks, CheckOk, Ended
<1>5. ASSUME NEW c \in Commands, CreateFails(c) PROVE phase' = "closed"
  BY <1>5 DEF CreateFails, IInv, LockInv, Users, Callers
<1>6. ASSUME NEW c \in Snapshots, SnapshotAsks(c) PROVE phase' = "closed"
  BY <1>6 DEF SnapshotAsks, CheckOk, Ended
<1>7. ASSUME NEW c \in Closes, CloseAsks(c) PROVE phase' = "closed"
  BY <1>7 DEF CloseAsks
<1>8. ASSUME NEW c \in Aborts \cup Closes, AbortEnds(c) PROVE phase' = "closed"
  BY <1>8 DEF AbortEnds
<1>9. ASSUME ObserveSpawn \/ ObserveMainExit \/ ObserveCompletion \/ ReaderEnds
      PROVE  phase' = "closed"
  BY <1>0, <1>9
     DEF ObserveSpawn, ObserveMainExit, ObserveCompletion, ReaderEnds, ObserverPasses
<1>10. ASSUME Worker PROVE phase' = "closed"
  BY <1>0, <1>10
     DEF Worker, WorkerStops, WorkerWakes, WorkerDecides, WorkerSignals, SaveFails, SaveJoins,
         WorkerCommits, WorkerPublishes, WorkerFails, WorkerCleansUp
<1>11. ASSUME NEW c \in Users,
              Refused(c) \/ Joins(c) \/ Abandon(c)
       PROVE  UNCHANGED <<phase>>
  BY <1>11 DEF Refused, still, Joins, Abandon
<1>12. ASSUME NEW c \in Commands,
              FilesFail(c) \/ Reserve(c) \/ ServerCreates(c) \/ Created(c) \/
              ReturnResult(c) \/ AwaitFails(c) \/ ProcExits(c)
       PROVE  UNCHANGED <<phase>>
  BY <1>12 DEF FilesFail, still, Reserve, ServerCreates, Created, ReturnResult, AwaitFails,
               ProcExits
<1>13. ASSUME NEW c \in Inspections,
              InspectsImage(c) \/ HoldsVm(c) \/ ReadyToInspect(c) \/ ReadyFails(c) \/
              ReleaseInspection(c)
       PROVE  UNCHANGED <<phase>>
  BY <1>13 DEF InspectsImage, still, HoldsVm, ReadyToInspect, ReadyFails, ReleaseInspection
<1>14. ASSUME NEW c \in Snapshots,
              SnapshotReturns(c) \/ SnapshotAnswers(c)
       PROVE  UNCHANGED <<phase>>
  BY <1>14 DEF SnapshotReturns, still, SnapshotAnswers
<1>15. ASSUME NEW c \in Closes,
              CloseAnswers(c) \/ CloseReturns(c)
       PROVE  UNCHANGED <<phase>>
  BY <1>15 DEF CloseAnswers, still, CloseReturns
<1>16. ASSUME NEW c \in Aborts \cup Closes,
              AbortWaits(c) \/ AbortCancels(c) \/ JoinsWorker(c)
       PROVE  UNCHANGED <<phase>>
  BY <1>16 DEF AbortWaits, still, AbortCancels, JoinsWorker
<1>17. ASSUME NEW c \in Rollbacks,
              Rollback(c)
       PROVE  UNCHANGED <<phase>>
  BY <1>17 DEF Rollback, still
<1>18. ASSUME NEW c \in Callers,
              GivesUp(c) \/ WaitsAgain(c)
       PROVE  UNCHANGED <<phase>>
  BY <1>18 DEF GivesUp, still, WaitsAgain
<1>19. ASSUME ObserveExit \/ StreamBreaks
       PROVE  UNCHANGED <<phase>>
  BY <1>19 DEF ObserveExit, StreamBreaks, still
<1>20. ASSUME NEW o \in {"success", "failed"}, NEW b \in BOOLEAN,
              VmEnds(o, b)
       PROVE  UNCHANGED <<phase>>
  BY <1>20 DEF VmEnds, still
<1>21. ASSUME IdleFires \/ VmTimerFires \/ PolicyDecides
       PROVE  UNCHANGED <<phase>>
  BY <1>21 DEF IdleFires, still, VmTimerFires, PolicyDecides
<1>22. ASSUME UNCHANGED vars PROVE UNCHANGED <<phase>>
  BY <1>22 DEF vars, still
<1> QED BY <1>1, <1>2, <1>3, <1>4, <1>5, <1>6, <1>7, <1>8, <1>9, <1>10, <1>11, <1>12, <1>13,
           <1>14, <1>15, <1>16, <1>17, <1>18, <1>19, <1>20, <1>21, <1>22
     DEF Command, Inspection, Snapshot, Close, Abort, Reader, Server, Policy, Next, AllReturned

\* A session that failed or closed stays so for ever, and one that closed stays
\* closed once abort() has returned.
THEOREM EndsForGood == Spec => EndedForGood
<1>1. IInv /\ [Next]_vars => (phase \in Ended => phase' \in Ended)
  BY EndedStep
<1>2. IInv /\ [Next]_vars =>
          (phase = "closed" /\ (\E a \in Aborts : pc[a] = "done") => phase' = "closed")
  BY ClosedStep
<1> QED BY Invariance, <1>1, <1>2, PTL DEF Spec, EndedForGood

\* At most one VM runs, and a cold session has none: _start never overlaps the
\* VM that _save is stopping.
THEOREM OneVmRuns == Spec => []OneVm
<1>1. IInv => OneVm
  <2> SUFFICES ASSUME IInv PROVE OneVm
    OBVIOUS
  <2>1. Cardinality({}) = 0 /\ Cardinality({snapshots + 1}) = 1
    BY FS_EmptySet, FS_Singleton
  <2>2. live = {} \/ live = {snapshots + 1}
    BY DEF IInv, VmInv
  <2> QED BY <2>1, <2>2 DEF IInv, VmInv, OneVm
<1> QED BY Invariance, <1>1, PTL

\* The idle policy counts exactly the admitted commands and inspections.
THEOREM ActivityBalances == Spec => []ActivityBalance
<1>1. IInv => ActivityBalance
  BY DEF IInv, CountInv, HoldInv, LockInv, ActivityBalance, Serving
<1> QED BY Invariance, <1>1, PTL

\* The entry of a cycle is the tip when it is published: no history operation
\* moved the position while the VM ran.
THEOREM SnapshotBecomesTip == Spec => []SnapshotIsTip
<1>1. IInv => SnapshotIsTip
  BY DEF IInv, TipInv, SnapshotIsTip
<1> QED BY Invariance, <1>1, PTL

\* A snapshot() that returns covers every command accepted before it was
\* called, whichever cycle saved it, unless that command's own call raised.
THEOREM SnapshotsCover == Spec => []SnapshotCovers
<1>1. IInv => SnapshotCovers
  BY DEF IInv, AskInv, SnapshotCovers
<1> QED BY Invariance, <1>1, PTL

\* An abort() that returns left no VM running and no worker that could still
\* save or publish.
THEOREM AbortsFreeVm == Spec => []AbortFreesVm
<1>1. IInv => AbortFreesVm
  BY DEF IInv, EndInv, AbortFreesVm
<1> QED BY Invariance, <1>1, PTL

\* A close() that returns, with no abort() made, saved what was returned and
\* left no VM, or another close() reported that the session failed.
THEOREM ClosesSave == Spec => []CloseSaves
<1>1. IInv => CloseSaves
  <2> SUFFICES ASSUME IInv, NEW k \in Closes, pc[k] = "done", NoAborts
               PROVE  \/ Done \subseteq Saved /\ operation \notin live /\ ~error
                      \/ error /\ Reported
    BY DEF CloseSaves
  <2>1. ClosedWell \/ (error /\ Reported)
    BY DEF IInv, CloseInv
  <2>2. ClosedWell => Accepted \subseteq Saved /\ live = {} /\ ~error
    BY DEF IInv, CloseInv, WorkInv, ClosedWell
  <2>3. Done \subseteq Accepted
    BY DEF Done, Accepted
  <2> QED BY <2>1, <2>2, <2>3
<1> QED BY Invariance, <1>1, PTL

-----------------------------------------------------------------------------
(* The refinement: a session is a shared filesystem.                       *)

\* A step that leaves the entries, the position, the VM's files and the results
\* alone, and does not start or stop to show the VM's files unless it ends the
\* session.
Same ==
    /\ UNCHANGED <<history, tip, fs>> /\ Done' = Done
    /\ phase' \in Ended \/ (phase' \in Serving) = (phase \in Serving)

\* A step of the shared filesystem, or none.
FilesStep == Files!Next \/ UNCHANGED Files!vars

\* Such a step is none of the filesystem's, or the end of the session.
LEMMA SameSteps ==
    ASSUME IInv, [Next]_vars, Same
    PROVE  FilesStep
<1>1. UNCHANGED <<history[tip].files, [i \in DOMAIN history |-> history[i].files], Done>>
  BY DEF Same
<1>2. phase \in Ended => Visible = history[tip].files
  BY DEF Visible, Ended
<1>3. phase' \in Ended => Visible' = history[tip].files
  BY DEF Same, Visible, Ended
<1>4. CASE phase \in Ended
  <2>1. phase' \in Ended
    BY <1>4, EndedStep
  <2> QED BY <1>1, <1>2, <1>3, <1>4, <2>1 DEF FilesStep, Files!vars
<1>5. CASE phase \notin Ended /\ phase' \in Ended
  <2>1. Files!End
    BY <1>1, <1>3, <1>5 DEF Files!End
  <2> QED BY <2>1 DEF FilesStep, Files!Next
<1>6. CASE phase \notin Ended /\ phase' \notin Ended
  <2>1. Visible' = Visible
    BY <1>6 DEF Same, Visible, Serving
  <2> QED BY <1>1, <1>6, <2>1 DEF FilesStep, Files!vars
<1> QED BY <1>4, <1>5, <1>6

\* The entries after a commit, as the filesystem's log.
LEMMA LogAppends ==
    ASSUME TypeOK, NEW e, history' = Append(history, e)
    PROVE  [i \in DOMAIN history' |-> history'[i].files]
              = Append([i \in DOMAIN history |-> history[i].files], e.files)
<1> DEFINE log == [i \in DOMAIN history |-> history[i].files]
           next == [i \in DOMAIN history' |-> history'[i].files]
<1>1. /\ Len(history) \in Nat /\ DOMAIN history = 1 .. Len(history)
      /\ DOMAIN history' = 1 .. Len(history) + 1
      /\ \A i \in 1 .. Len(history) : history'[i] = history[i]
      /\ history'[Len(history) + 1] = e
  BY DEF TypeOK, TypeSession
<1>2. log \in Seq(SUBSET Commands) /\ Len(log) = Len(history)
  <2>1. \A i \in DOMAIN history : history[i].files \subseteq Commands
    BY EntryFiles
  <2>2. log \in [1 .. Len(history) -> SUBSET Commands]
    BY <1>1, <2>1
  <2> QED BY <1>1, <2>2
<1>3. \A i \in 1 .. Len(history) + 1 : next[i] = Append(log, e.files)[i]
  BY <1>1, <1>2
<1>4. DOMAIN next = 1 .. Len(history) + 1 /\ DOMAIN Append(log, e.files) = 1 .. Len(history) + 1
  BY <1>1, <1>2
<1> QED BY <1>3, <1>4

\* Every step of the session is a step of the shared filesystem, or none.
LEMMA FilesSimulation ==
    ASSUME IInv, [Next]_vars
    PROVE  FilesStep
<1>1. ASSUME NEW c \in Users, Refused(c) PROVE Same
  BY <1>1 DEF Same, Done, Serving, Ended, IInv, TypeOK, TypeCalls, LockInv, Refused, Enters,
              CheckOk, Leaves, still, most, MayBegin, Go, outside, server, session
<1>2. ASSUME NEW c \in Users, StartVm(c) PROVE Same
  BY <1>2 DEF Same, Done, Serving, Ended, IInv, TypeOK, TypeCalls, LockInv, StartVm, Enters,
              CheckOk, PendingFiles, Leaves, server, session, MayBegin, Go
<1>3. ASSUME NEW c \in Users, VmStarted(c) PROVE FilesStep
  <2>1. phase = "starting" /\ phase' = "running"
    BY <1>3 DEF VmStarted, IInv, LockInv
  <2>2. fs' = history[tip].files /\ UNCHANGED <<history, tip>>
    BY <1>3 DEF VmStarted, ServerStartsVm
  <2>3. Done' = Done
    BY <1>3 DEF Done, VmStarted, Go, IInv, TypeOK, TypeCalls
  <2>4. Visible' = Visible
    BY <2>1, <2>2 DEF Visible
  <2> QED BY <2>1, <2>2, <2>3, <2>4 DEF FilesStep, Files!vars, Ended
<1>4. ASSUME NEW c \in Users, StartFails(c) PROVE FilesStep
  <2>1. phase = "starting" /\ phase' = "failed" /\ UNCHANGED <<history, tip>>
    BY <1>4 DEF StartFails, Fail, IInv, LockInv
  <2>2. Done' = Done
    BY <1>4 DEF Done, StartFails, Go, IInv, TypeOK, TypeCalls
  <2>3. Visible' = history[tip].files
    BY <2>1 DEF Visible
  <2>4. Files!End
    BY <2>1, <2>2, <2>3 DEF Files!End, Ended
  <2> QED BY <2>4 DEF FilesStep, Files!Next
<1>5. ASSUME NEW c \in Users, Joins(c) PROVE Same
  BY <1>5 DEF Same, Done, Serving, Ended, IInv, TypeOK, TypeCalls, LockInv, Joins, Enters,
              CheckOk, Leaves, still, most, MayBegin, Go, outside, server, session
<1>6. ASSUME NEW c \in Users, WaitsForSnapshot(c) PROVE Same
  BY <1>6 DEF Same, Done, Serving, Ended, IInv, TypeOK, TypeCalls, LockInv, WaitsForSnapshot,
              Enters, CheckOk, Waiting, Go, most, MayBegin, outside, server, session
<1>7. ASSUME NEW c \in Users, PolicyBreaks(c) PROVE Same
  BY <1>7 DEF Same, Done, Serving, Ended, IInv, TypeOK, TypeCalls, LockInv, PolicyBreaks,
              Enters, CheckOk, Fail, Waiting, Go, most, MayBegin, outside, server, session
<1>8. ASSUME NEW c \in Users, Abandon(c) PROVE Same
  BY <1>8 DEF Same, Done, Serving, Ended, IInv, TypeOK, TypeCalls, LockInv, Abandon, CancelVm,
              CancelFails, server, Go, still, session
<1>9. ASSUME NEW c \in Commands, FilesFail(c) PROVE Same
  BY <1>9 DEF Same, Done, Serving, Ended, IInv, TypeOK, TypeCalls, LockInv, FilesFail, Go,
              still, most, outside, server, session
<1>10. ASSUME NEW c \in Commands, Reserve(c) PROVE Same
  BY <1>10 DEF Same, Done, Serving, Ended, IInv, TypeOK, TypeCalls, LockInv, Reserve, Go,
               server, session
<1>11. ASSUME NEW c \in Commands, Created(c) PROVE Same
  BY <1>11 DEF Same, Done, Serving, Ended, IInv, TypeOK, TypeCalls, LockInv, Created, HasRun,
               Waiting, Go, most, outside, server, session
<1>12. ASSUME NEW c \in Commands, CreateFails(c) PROVE Same
  BY <1>12 DEF Same, Done, Serving, Ended, IInv, TypeOK, TypeCalls, LockInv, CreateFails, Fail,
               Waiting, Go, most, outside, server, session
<1>13. ASSUME NEW c \in Commands, ReturnResult(c) PROVE FilesStep
  <2>1. UNCHANGED <<phase, fs, history, tip>>
    BY <1>13 DEF ReturnResult, still, most, outside, server, session
  <2>2. Visible' = Visible
    BY <2>1 DEF Visible
  <2>3. CASE error
    <3>1. Done' = Done
      BY <1>13, <2>3 DEF ReturnResult, Go, Done, IInv, TypeOK, TypeCalls
    <3> QED BY <2>1, <2>2, <3>1 DEF FilesStep, Files!vars
  <2>4. CASE ~error
    <3>1. Done' = Done \cup {c}
      BY <1>13, <2>4 DEF ReturnResult, Go, Done, IInv, TypeOK, TypeCalls
    <3>2. phase \in Ended \/ c \in Visible \cup Saved
      <4> SUFFICES ASSUME phase \notin Ended PROVE c \in Visible \cup Saved
        OBVIOUS
      <4>1. c \notin procs \cup torn /\ c \in Accepted
        BY <1>13 DEF ReturnResult, IInv, RunInv, Accepted
      <4>2. c \in fs \cup Saved
        BY <4>1 DEF IInv, WorkInv
      <4>3. CASE phase \in Serving
        BY <4>2, <4>3 DEF Visible, Serving
      <4>4. CASE phase \in {"cold", "starting"}
        BY <4>2, <4>4 DEF IInv, WorkInv
      <4> QED BY <4>3, <4>4 DEF Serving, Ended, IInv, TypeOK, TypeLazy, Phases
    <3>3. Saved = Files!Logged
      BY DEF Saved, Files!Logged
    <3>4. Files!Acknowledge(c)
      BY <2>1, <2>2, <3>1, <3>2, <3>3 DEF Files!Acknowledge
    <3> QED BY <3>4 DEF FilesStep, Files!Next
  <2> QED BY <2>3, <2>4
<1>14. ASSUME NEW c \in Commands, AwaitFails(c) PROVE Same
  BY <1>14 DEF Same, Done, Serving, Ended, IInv, TypeOK, TypeCalls, LockInv, AwaitFails, server,
               Go, still, session
<1>15. ASSUME NEW c \in Inspections, InspectsImage(c) PROVE Same
  BY <1>15 DEF Same, Done, Serving, Ended, IInv, TypeOK, TypeCalls, LockInv, InspectsImage,
               Enters, CheckOk, PendingFiles, Leaves, still, most, MayBegin, Go, outside,
               server, session
<1>16. ASSUME NEW c \in Inspections, HoldsVm(c) PROVE Same
  BY <1>16 DEF Same, Done, Serving, Ended, IInv, TypeOK, TypeCalls, LockInv, HoldsVm, Go,
               server, session
<1>17. ASSUME NEW c \in Inspections, ReadyToInspect(c) PROVE Same
  BY <1>17 DEF Same, Done, Serving, Ended, IInv, TypeOK, TypeCalls, LockInv, ReadyToInspect,
               Wakes, VmIsReady, Leaves, still, most, Go, outside, server, session
<1>18. ASSUME NEW c \in Inspections, ReadyFails(c) PROVE Same
  BY <1>18 DEF Same, Done, Serving, Ended, IInv, TypeOK, TypeCalls, LockInv, ReadyFails, Leaves,
               still, most, Go, outside, server, session
<1>19. ASSUME NEW c \in Inspections, ReleaseInspection(c) PROVE Same
  BY <1>19 DEF Same, Done, Serving, Ended, IInv, TypeOK, TypeCalls, LockInv, ReleaseInspection,
               InspectionFinished, Waiting, Go, server, session
<1>20. ASSUME NEW c \in Snapshots, SnapshotReturns(c) PROVE Same
  BY <1>20 DEF Same, Done, Serving, Ended, IInv, TypeOK, TypeCalls, LockInv, SnapshotReturns,
               MayBegin, CheckOk, Go, NothingToSave, Asks, still, most, outside, server, session
<1>21. ASSUME NEW c \in Snapshots, SnapshotAsks(c) PROVE Same
  BY <1>21 DEF Same, Done, Serving, Ended, IInv, TypeOK, TypeCalls, LockInv, SnapshotAsks,
               MayBegin, CheckOk, NothingToSave, Asks, Waiting, Go, most, outside, server,
               session
<1>22. ASSUME NEW c \in Snapshots, SnapshotAnswers(c) PROVE Same
  BY <1>22 DEF Same, Done, Serving, Ended, IInv, TypeOK, TypeCalls, LockInv, SnapshotAnswers,
               Wakes, SnapshotIsOver, Leaves, still, most, Go, outside, server, session
<1>23. ASSUME NEW c \in Closes, CloseAsks(c) PROVE Same
  BY <1>23 DEF Same, Done, Serving, Ended, IInv, TypeOK, TypeCalls, LockInv, CloseAsks,
               MayBegin, Go, ClosingPhase, Waiting, server, session
<1>24. ASSUME NEW c \in Closes, CloseAnswers(c) PROVE Same
  BY <1>24 DEF Same, Done, Serving, Ended, IInv, TypeOK, TypeCalls, LockInv, CloseAnswers,
               Wakes, Leaves, still, most, Go, outside, server, session
<1>25. ASSUME NEW c \in Closes, CloseReturns(c) PROVE Same
  BY <1>25 DEF Same, Done, Serving, Ended, IInv, TypeOK, TypeCalls, LockInv, CloseReturns, Go,
               still, most, outside, server, session
<1>26. ASSUME NEW c \in Aborts \cup Closes, AbortWaits(c) PROVE Same
  BY <1>26 DEF Same, Done, Serving, Ended, IInv, TypeOK, TypeCalls, LockInv, AbortWaits,
               MayBegin, Go, still, most, outside, server, session
<1>27. ASSUME NEW c \in Aborts \cup Closes, AbortEnds(c) PROVE Same
  BY <1>27 DEF Same, Done, Serving, Ended, IInv, TypeOK, TypeCalls, LockInv, AbortEnds, Enters,
               Waiting, Go, server, session, MayBegin
<1>28. ASSUME NEW c \in Aborts \cup Closes, AbortCancels(c) PROVE Same
  BY <1>28 DEF Same, Done, Serving, Ended, IInv, TypeOK, TypeCalls, LockInv, AbortCancels,
               CancelVm, Go, CancelFails, still, session, server
<1>29. ASSUME NEW c \in Aborts \cup Closes, JoinsWorker(c) PROVE Same
  BY <1>29 DEF Same, Done, Serving, Ended, IInv, TypeOK, TypeCalls, LockInv, JoinsWorker, Go,
               still, most, outside, server, session
<1>30. ASSUME NEW c \in Rollbacks, Rollback(c) PROVE FilesStep
  <2>1. UNCHANGED <<phase, fs, history>>
    BY <1>30 DEF Rollback, still, server
  <2>2. Done' = Done
    BY <1>30 DEF Rollback, Go, Done, IInv, TypeOK, TypeCalls
  <2>3. CASE UNCHANGED tip
    BY <2>1, <2>2, <2>3, SameSteps DEF Same
  <2>4. CASE AtBoundary /\ HasParent /\ tip' = history[tip].parent
    <3>1. phase = "cold" /\ tip' \in DOMAIN history
      BY <2>4 DEF AtBoundary, HasParent, IInv, HistoryGrows, TypeOK, TypeSession
    <3>2. Visible = history[tip].files /\ Visible' = history[tip'].files
      BY <2>1, <3>1 DEF Visible
    <3>3. Files!Select(tip')
      BY <2>1, <2>2, <3>1, <3>2 DEF Files!Select, Ended
    <3> QED BY <3>1, <3>3 DEF FilesStep, Files!Next
  <2> QED BY <1>30, <2>3, <2>4 DEF Rollback
<1>31. ASSUME NEW c \in Callers, GivesUp(c) PROVE Same
  BY <1>31 DEF Same, Done, Serving, Ended, IInv, TypeOK, TypeCalls, LockInv, GivesUp, Leaves,
               still, most, Go, outside, server, session
<1>32. ASSUME ObserveSpawn PROVE Same
  BY <1>32 DEF Same, Done, Serving, Ended, IInv, TypeOK, TypeCalls, LockInv, ObserveSpawn,
               Reads, ObserverPasses, session, calls, Waiting
<1>33. ASSUME ObserveMainExit PROVE Same
  BY <1>33 DEF Same, Done, Serving, Ended, IInv, TypeOK, TypeCalls, LockInv, ObserveMainExit,
               Reads, ObserverRaises, ObserverPasses, session, calls, Waiting, Fail
<1>34. ASSUME ObserveCompletion PROVE Same
  BY <1>34 DEF Same, Done, Serving, Ended, IInv, TypeOK, TypeCalls, LockInv, ObserveCompletion,
               Reads, ObserverRaises, session, calls, Waiting, Fail
<1>35. ASSUME ReaderEnds PROVE Same
  BY <1>35 DEF Same, Done, Serving, Ended, IInv, TypeOK, TypeCalls, LockInv, ReaderEnds,
               Waiting, Fail, session, server, calls
<1>36. ASSUME NEW c \in Commands, ProcExits(c) PROVE FilesStep
  <2>1. UNCHANGED <<phase, history, tip>> /\ Done' = Done /\ fs' = fs \cup {c}
    BY <1>36 DEF ProcExits, still, session, calls, Done
  <2>2. phase \notin {"cold", "starting"}
    BY <1>36, NothingRuns DEF ProcExits, IInv
  <2>3. CASE phase \in Ended
    <3>1. Visible' = Visible
      BY <2>1, <2>3 DEF Visible, Ended
    <3> QED BY <2>1, <3>1 DEF FilesStep, Files!vars
  <2>4. CASE phase \in Serving
    <3>1. Visible' = Visible \cup {c}
      BY <2>1, <2>4 DEF Visible, Serving
    <3>2. Files!RunCommand(c)
      BY <2>1, <2>4, <3>1 DEF Files!RunCommand, Serving, Ended
    <3> QED BY <3>2 DEF FilesStep, Files!Next
  <2> QED BY <2>2, <2>3, <2>4 DEF Serving, Ended, IInv, TypeOK, TypeLazy, Phases
<1>37. ASSUME WorkerDecides PROVE Same
  BY <1>37 DEF Same, Done, Serving, Ended, IInv, TypeOK, TypeCalls, LockInv, WorkerDecides,
               Waiting, outside, calls, server, session
<1>38. ASSUME SaveFails PROVE Same
  BY <1>38 DEF Same, Done, Serving, Ended, IInv, TypeOK, TypeCalls, LockInv, SaveFails,
               CancelVm, CancelFails, still, session, calls, server
<1>39. ASSUME WorkerCommits PROVE FilesStep
  <2>1. UNCHANGED <<phase, fs, pc>> /\ Done' = Done
    BY <1>39 DEF WorkerCommits, still, server, calls, Done
  <2>2. CASE UNCHANGED <<history, tip>>
    BY <2>1, <2>2, SameSteps DEF Same
  <2>3. CASE /\ history' = Append(history, [parent |-> opParent, files |-> fs, torn |-> torn])
             /\ tip' = IF tip = opParent /\ version = opVersion THEN Len(history) + 1 ELSE tip
    <3>1. phase = "snapshotting" /\ tip = opParent /\ version = opVersion
      BY <1>39 DEF WorkerCommits, IInv, SaveInv, TipInv, Serving
    <3>2. history'[tip'].files = fs
      BY <2>3, <3>1 DEF IInv, TypeOK, TypeSession
    <3>3. Visible = fs /\ Visible' = fs
      BY <2>1, <3>1 DEF Visible
    <3>4. [i \in DOMAIN history' |-> history'[i].files]
             = Append([i \in DOMAIN history |-> history[i].files], fs)
      BY <2>3, LogAppends DEF IInv
    <3>5. Files!Save
      BY <2>1, <3>1, <3>2, <3>3, <3>4 DEF Files!Save, Ended
    <3> QED BY <3>5 DEF FilesStep, Files!Next
  <2> QED BY <1>39, <2>2, <2>3 DEF WorkerCommits
<1>40. ASSUME WorkerPublishes PROVE FilesStep
  <2>1. UNCHANGED <<fs, history, tip>> /\ Done' = Done
    BY <1>40 DEF WorkerPublishes, server, session, calls, Done
  <2>2. phase = "snapshotting" /\ phase' \in {"closed", "cold"} /\ history[tip].files = fs
    BY <1>40 DEF WorkerPublishes, IInv, SaveInv, RunInv
  <2>3. Visible = fs /\ Visible' = fs
    BY <2>1, <2>2 DEF Visible
  <2>4. CASE phase' = "closed"
    <3>1. Files!End
      BY <2>1, <2>2, <2>3, <2>4 DEF Files!End, Ended
    <3> QED BY <3>1 DEF FilesStep, Files!Next
  <2>5. CASE phase' = "cold"
    BY <2>1, <2>2, <2>3, <2>5 DEF FilesStep, Files!vars, Ended
  <2> QED BY <2>2, <2>4, <2>5
<1>41. ASSUME WorkerFails PROVE Same
  BY <1>41 DEF Same, Done, Serving, Ended, IInv, TypeOK, TypeCalls, LockInv, WorkerFails, Fail,
               Waiting, outside, calls, server, session
<1>42. ASSUME WorkerCleansUp PROVE Same
  BY <1>42 DEF Same, Done, Serving, Ended, IInv, TypeOK, TypeCalls, LockInv, WorkerCleansUp,
               CancelVm, CancelFails, still, session, calls, server
<1>43. ASSUME NEW c \in Commands,
              ServerCreates(c)
       PROVE  UNCHANGED <<phase, fs, history, tip, pc>>
  BY <1>43 DEF ServerCreates, calls, session, still
<1>44. ASSUME NEW c \in Callers,
              WaitsAgain(c)
       PROVE  UNCHANGED <<phase, fs, history, tip, pc>>
  BY <1>44 DEF WaitsAgain, server, outside, most, session, calls, still
<1>45. ASSUME ObserveExit \/ StreamBreaks
       PROVE  UNCHANGED <<phase, fs, history, tip, pc>>
  BY <1>45 DEF ObserveExit, calls, session, StreamBreaks, server, still
<1>46. ASSUME NEW o \in {"success", "failed"}, NEW b \in BOOLEAN,
              VmEnds(o, b)
       PROVE  UNCHANGED <<phase, fs, history, tip, pc>>
  BY <1>46 DEF VmEnds, calls, session, still
<1>47. ASSUME IdleFires \/ VmTimerFires \/ PolicyDecides
       PROVE  UNCHANGED <<phase, fs, history, tip, pc>>
  BY <1>47 DEF IdleFires, calls, server, session, still, VmTimerFires, PolicyDecides
<1>48. ASSUME WorkerStops \/ WorkerSignals \/ SaveJoins
       PROVE  UNCHANGED <<phase, fs, history, tip, pc>>
  BY <1>48 DEF WorkerStops, calls, server, session, still, WorkerSignals, SaveJoins, outside
<1>49. ASSUME UNCHANGED vars PROVE UNCHANGED <<phase, fs, history, tip, pc>>
  BY <1>49 DEF vars, still, outside, server, session, calls
<1>50. ASSUME UNCHANGED <<phase, fs, history, tip, pc>> PROVE Same
  BY <1>50 DEF Same, Done
<1> QED BY SameSteps, <1>1, <1>2, <1>3, <1>4, <1>5, <1>6, <1>7, <1>8, <1>9, <1>10, <1>11, <1>12, <1>13,
           <1>14, <1>15, <1>16, <1>17, <1>18, <1>19, <1>20, <1>21, <1>22, <1>23, <1>24, <1>25,
           <1>26, <1>27, <1>28, <1>29, <1>30, <1>31, <1>32, <1>33, <1>34, <1>35, <1>36, <1>37,
           <1>38, <1>39, <1>40, <1>41, <1>42, <1>43, <1>44, <1>45, <1>46, <1>47, <1>48, <1>49,
           <1>50
     DEF Command, Inspection, Snapshot, Close, Abort, Reader, Server, Policy, Worker, Next, AllReturned

\* The session that has not begun shows an empty filesystem.
LEMMA FilesInit == Init => Files!Init
<1> SUFFICES ASSUME Init PROVE Files!Init
  OBVIOUS
<1>1. DOMAIN history = {1} /\ history[1].files = {} /\ tip = 1 /\ phase = "cold"
  BY DEF Init
<1>2. [i \in DOMAIN history |-> history[i].files] = <<{}>>
  BY <1>1
<1>3. Visible = {} /\ Done = {}
  BY <1>1 DEF Visible, Done, Init
<1> QED BY <1>1, <1>2, <1>3 DEF Files!Init, Ended

\* Whatever the calls, the schedule and the failures, a session implements the
\* shared filesystem it promises: commands see the effects of those before
\* them, an entry holds exactly those effects, and the position changes only
\* while nothing is unsaved.
THEOREM ImplementsFiles == Spec => ImplementsSharedFilesystem
<1>1. IInv /\ [Next]_vars => [Files!Next]_(Files!vars)
  BY FilesSimulation DEF FilesStep
<1> QED BY Invariance, FilesInit, <1>1, PTL DEF Spec, ImplementsSharedFilesystem, Files!Spec
=============================================================================
