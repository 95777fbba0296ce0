----------------------- MODULE OperationEventsProofs -----------------------
(***************************************************************************)
(* Theorems about OperationEvents, for any calls, writers, events and lag: *)
(* whoever reads a handle finds the end of its queue, a result is what the *)
(* server did for its process, and a writer accounts for what was received.*)
(* They follow from what the reader has delivered of the stream at any     *)
(* moment, to a handle, to its queue or to the buffer that waits for it.   *)
(***************************************************************************)
EXTENDS OperationEvents, TLAPS

-----------------------------------------------------------------------------
(* The inductive invariant.                                                *)

CallSteps == Resting \cup {"creating", "created", "reading", "following", "waiting",
                           "cancelling", "signalling", "ending", "joining"}
PipeSteps == Resting \cup {"waiting", "testing", "source", "part", "last", "sending",
                           "acking", "closing", "closed", "stopping"}
TypeServer ==
    /\ emitted \in Seq(Events) /\ running \subseteq Procs
    /\ outcome \in {"running", "ended", "cancelled"}
TypeReader ==
    /\ reader \in {"none", "streaming", "routing", "closing", "ending", "telling", "finished", "dead"}
    /\ remembered \in 0 .. Len(emitted)
    /\ streamError \in BOOLEAN /\ terminal \in BOOLEAN /\ terminalEvent \in BOOLEAN
TypeQueues ==
    /\ sizeCap \in BOOLEAN /\ claimed \subseteq Procs
    /\ pendingEvents \in [Procs -> Seq(Events)] /\ queues \in [Procs -> Seq(Events \cup {End})]
    /\ read \in [Procs -> Seq(Events)]
TypeCalls ==
    /\ pc \in [Calls -> CallSteps] /\ cursor \in [Follows -> 0 .. remembered]
    /\ response \in {"none", "running", "success", "failed", "cancelled"}
TypeCancel ==
    /\ cancelRequested \in BOOLEAN /\ failing \in BOOLEAN
    /\ canceller \in Cancellers \cup {NoOne}
TypePipes ==
    /\ stdin \in [Pipes -> [parts : 0 .. Chunks, eof : BOOLEAN]]
    /\ pipe \in [Pipes -> PipeSteps]
    /\ sent \in [Pipes -> 0 .. Chunks] /\ eofSent \in [Pipes -> BOOLEAN]
TypeInv == TypeServer /\ TypeReader /\ TypeQueues /\ TypeCalls /\ TypeCancel /\ TypePipes

\* What a writer was told of each part, and what its process received.
PipeOk(t) ==
    /\ stdin[t].parts \in IF pipe[t] \in {"stopping", "raised"} THEN {sent[t], sent[t] + 1}
                          ELSE {IF pipe[t] = "acking" THEN sent[t] + 1 ELSE sent[t]}
    /\ pipe[t] \in {"part", "sending", "acking"} => sent[t] < Chunks
    /\ pipe[t] \notin {"closed", "stopping", "raised"} => stdin[t].eof = eofSent[t]
    /\ pipe[t] = "closed" => stdin[t].eof = TRUE
    /\ pipe[t] # "done" => eofSent[t] = FALSE
PipeInv == \A t \in Pipes : PipeOk(t)

\* The reader's flags follow its step.
ReaderInv ==
    /\ reader \in {"telling", "finished"} => terminal
    /\ reader \in {"none", "streaming", "routing", "closing", "ending"} => ~terminal
    /\ terminalEvent => terminal
    /\ reader = "routing" => remembered > 0

\* A subprocess emits nothing before it is created, and its exit comes last.
ExitOf(p) == Event("exit", p)
ServerInv ==
    \A p \in Procs :
        /\ pc[p] \in {"idle", "creating"} =>
             p \notin running /\ \A i \in DOMAIN emitted : emitted[i].spid # p
        /\ \A j \in DOMAIN emitted : emitted[j] = ExitOf(p) =>
             p \notin running /\ \A i \in DOMAIN emitted : emitted[i].spid = p => i <= j

\* A handle has nothing before its claim and no buffer after it; its queue is
\* registered unless the stream had ended, and closed if it has.
Reads(p) == pc[p] \in {"reading", "done", "broken", "incomplete"}
HandleInv ==
    \A p \in Procs :
        /\ ~Reads(p) => p \notin claimed /\ read[p] = <<>> /\ queues[p] = <<>>
        /\ Reads(p) => pendingEvents[p] = <<>> /\ (terminal \/ p \in claimed)
        /\ pc[p] = "reading" /\ terminal => queues[p] # <<>> /\ queues[p][Len(queues[p])] = End

\* What a sequence holds, and what it holds among its first n items.
Upto(s, n) == {s[i] : i \in 1 .. n}
Items(s) == Upto(s, Len(s))

\* The events that the reader has delivered, as long as it delivers any.
Routes == reader \in {"none", "streaming", "routing"}
Routed == IF reader = "routing" THEN remembered - 1 ELSE remembered
Arrived(p) == Items(read[p]) \cup Items(queues[p]) \cup Items(pendingEvents[p])

\* Only what concerns a handle arrives, and is in the stream; what was routed
\* has arrived.
ArrivalInv ==
    \A p \in Procs :
        /\ \A e \in Arrived(p) : e \in {SizeCap, End} \/ (e.spid = p /\ e \in Upto(emitted, Routed))
        /\ SizeCap \in Arrived(p) => sizeCap
        /\ Routes => /\ \A e \in Upto(emitted, Routed) : e.spid = p => e \in Arrived(p)
                     /\ sizeCap /\ (p \in claimed \/ pendingEvents[p] # <<>>) => SizeCap \in Arrived(p)

CapInv == Routes => (sizeCap <=> SizeCap \in Upto(emitted, Routed))

\* An exit that waits in a queue or a buffer is preceded by the rest, and by the
\* size cap exactly if that is how the server emitted them; so is one that was read.
Whole(p, seen) ==
    /\ \A e \in {Event("spawn", p), Event("output", p)} : InStream(e) => e \in seen
    /\ SizeCap \in seen <=> CapBefore(p)
InOrder(p, seen, s) ==
    \A k \in DOMAIN s : s[k] = ExitOf(p) => Whole(p, seen \cup Upto(s, k - 1))
Ordered(p, seen, queue, buffer, step) ==
    /\ InOrder(p, seen, queue) /\ InOrder(p, {}, buffer)
    /\ step = "done" => ExitOf(p) \in seen /\ Whole(p, seen)
OrderInv ==
    \A p \in Procs : Ordered(p, Items(read[p]), queues[p], pendingEvents[p], pc[p])

IInv ==
    /\ TypeInv /\ PipeInv /\ ReaderInv /\ ServerInv /\ HandleInv
    /\ ArrivalInv /\ CapInv /\ OrderInv

-----------------------------------------------------------------------------
(* Events and sequences of them.                                           *)

\* The kinds of events and items differ, and a process's events are three.
LEMMA EventFacts ==
    /\ SizeCap \in Events /\ Completion \in Events /\ SizeCap # Completion /\ SizeCap # End
    /\ SizeCap.spid \notin Procs /\ Completion.spid \notin Procs /\ End.spid \notin Procs
    /\ \A p \in Procs \cup {Main}, t \in {"spawn", "output", "exit"} :
         /\ Event(t, p) \in Events /\ Event(t, p).spid = p /\ Event(t, p).type = t
         /\ Event(t, p) # SizeCap /\ Event(t, p) # Completion /\ Event(t, p) # End
    /\ \A e \in Events : e.spid \in Procs =>
         e \in {Event("spawn", e.spid), Event("output", e.spid), Event("exit", e.spid)}
    /\ Main \notin Procs /\ End \notin Events
<1>1. Main \notin Procs /\ NoOne \notin Procs /\ NoOne # Main
  BY OperationAssumption DEF Calls
<1>2. /\ SizeCap \in Events /\ Completion \in Events /\ SizeCap # Completion /\ SizeCap # End
      /\ SizeCap.spid \notin Procs /\ Completion.spid \notin Procs /\ End.spid \notin Procs
  BY <1>1 DEF Events, Event, SizeCap, Completion, End
<1>3. ASSUME NEW p \in Procs \cup {Main}, NEW t \in {"spawn", "output", "exit"}
      PROVE  /\ Event(t, p) \in Events /\ Event(t, p).spid = p /\ Event(t, p).type = t
             /\ Event(t, p) # SizeCap /\ Event(t, p) # Completion /\ Event(t, p) # End
  BY <1>1 DEF Events, Event, SizeCap, Completion, End
<1>4. ASSUME NEW e \in Events, e.spid \in Procs
      PROVE  e \in {Event("spawn", e.spid), Event("output", e.spid), Event("exit", e.spid)}
  <2>1. PICK t \in {"spawn", "output", "exit"}, p \in Procs \cup {Main} : e = Event(t, p)
    BY <1>2, <1>4 DEF Events
  <2>2. e.spid = p
    BY <1>3, <2>1
  <2> QED BY <2>1, <2>2
<1>5. End \notin Events
  <2>1. \A e \in Events : e.type # "end"
    BY DEF Events, Event, SizeCap, Completion
  <2>2. End.type = "end"
    BY DEF End, Event
  <2> QED BY <2>1, <2>2
<1>6. \A p \in Procs \cup {Main}, t \in {"spawn", "output", "exit"} :
        /\ Event(t, p) \in Events /\ Event(t, p).spid = p /\ Event(t, p).type = t
        /\ Event(t, p) # SizeCap /\ Event(t, p) # Completion /\ Event(t, p) # End
  BY <1>3
<1>7. \A e \in Events : e.spid \in Procs =>
        e \in {Event("spawn", e.spid), Event("output", e.spid), Event("exit", e.spid)}
  BY <1>4
<1> QED BY <1>1, <1>2, <1>5, <1>6, <1>7

\* What a sequence holds once an item was put at its end.
LEMMA ItemsOfAppend ==
    ASSUME NEW S, NEW s \in Seq(S), NEW e \in S
    PROVE  /\ Items(Append(s, e)) = Items(s) \cup {e}
           /\ \A n \in 0 .. Len(s) : Upto(Append(s, e), n) = Upto(s, n)
<1> DEFINE t == Append(s, e)
<1>1. /\ t \in Seq(S) /\ Len(t) = Len(s) + 1 /\ t[Len(s) + 1] = e /\ Len(s) \in Nat
      /\ \A i \in 1 .. Len(s) : t[i] = s[i]
  OBVIOUS
<1> HIDE DEF t
<1>2. \A n \in 0 .. Len(s) : Upto(t, n) = Upto(s, n)
  BY <1>1 DEF Upto
<1>3. Items(t) = Upto(t, Len(s)) \cup {e}
  BY <1>1 DEF Items, Upto
<1> QED BY <1>1, <1>2, <1>3 DEF Items, t

\* What a queue holds is its first item and what is left behind it.
LEMMA ItemsOfTail ==
    ASSUME NEW S, NEW s \in Seq(S), s # <<>>
    PROVE  /\ Items(s) = {Head(s)} \cup Items(Tail(s)) /\ Head(s) = s[1] /\ Head(s) \in S
           /\ \A n \in 0 .. Len(s) - 1 : Upto(s, n + 1) = {Head(s)} \cup Upto(Tail(s), n)
<1> DEFINE t == Tail(s)
<1>1. /\ t \in Seq(S) /\ Len(s) \in Nat \ {0} /\ Len(t) = Len(s) - 1 /\ Head(s) = s[1] /\ s[1] \in S
      /\ \A i \in 1 .. Len(t) : t[i] = s[i + 1]
  OBVIOUS
<1> HIDE DEF t
<1>2. ASSUME NEW n \in 0 .. Len(s) - 1 PROVE Upto(s, n + 1) = {s[1]} \cup Upto(t, n)
  <2>1. \A x : x \in Upto(t, n) => x \in Upto(s, n + 1)
    BY <1>1 DEF Upto
  <2>2. s[1] \in Upto(s, n + 1)
    BY <1>1 DEF Upto
  <2>3. ASSUME NEW i \in 1 .. n + 1 PROVE s[i] \in {s[1]} \cup Upto(t, n)
    <3>1. i = 1 \/ i - 1 \in 1 .. n
      OBVIOUS
    <3>2. i - 1 \in 1 .. n => s[i] = t[i - 1]
      BY <1>1
    <3> QED BY <3>1, <3>2 DEF Upto
  <2> QED BY <2>1, <2>2, <2>3 DEF Upto
<1> QED BY <1>1, <1>2 DEF Items, t

\* What an empty sequence and one of one item hold.
LEMMA ItemsOfNone ==
    /\ Items(<<>>) = {} /\ \A s : Upto(s, 0) = {}
    /\ \A e : Items(<<e>>) = {e}
  BY DEF Items, Upto

-----------------------------------------------------------------------------
(* What a step does to each part of the state.                             *)

\* The steps that emit events, start or end a process.
LEMMA ServerSteps ==
    ASSUME [Next]_vars
    PROVE  \/ \E p \in Procs : Output(p) \/ Exit(p) \/ ServerCreates(p)
           \/ CapsOutput \/ OperationEnds
           \/ \E c \in Waits \cup Shutdowns \cup {Main} : CancelAsks(c)
           \/ \E t \in Pipes : PipeKills(t)
           \/ UNCHANGED <<emitted, running, outcome>>
<1>1. ASSUME ReaderRuns \/ StreamStops \/ AllRest \/ UNCHANGED vars
      PROVE  UNCHANGED serverVars
  BY <1>1 DEF ReaderRuns, ReaderTakes, ReaderRoutes, ReaderCloses, ReaderEnds, ReaderTells,
              StreamStops, AllRest, vars
<1>2. ASSUME NEW p \in Procs, RunBegins(p) \/ CreateFails(p) \/ ClaimQueue(p) \/ HandleReads(p)
      PROVE  UNCHANGED serverVars
  BY <1>2 DEF RunBegins, CreateFails, ClaimQueue, HandleReads
<1>3. ASSUME NEW f \in Follows, FollowBegins(f) \/ Follow(f) \/ FollowTimesOut(f)
      PROVE  UNCHANGED serverVars
  BY <1>3 DEF FollowBegins, Follow, FollowTimesOut
<1>4. ASSUME NEW w \in Waits, WaitBegins(w) \/ WaitFails(w) \/ WaitCompletes(w)
      PROVE  UNCHANGED serverVars
  BY <1>4 DEF WaitBegins, WaitFails, WaitCompletes
<1>5. ASSUME NEW s \in Shutdowns, ShutdownBegins(s) \/ ShutdownRuns(s)
      PROVE  UNCHANGED serverVars
  BY <1>5 DEF ShutdownBegins, ShutdownRuns, ShutdownSignals, ShutdownDecides, Joined, JoinTimesOut
<1>6. ASSUME NEW c, CancelAgain(c) \/ CancelAnswers(c)
      PROVE  UNCHANGED serverVars
  BY <1>6 DEF CancelAgain, CancelAnswers
<1>7. ASSUME NEW t \in Pipes, PipeBegins(t) \/ PipeSpawned(t) \/ PipeTests(t) \/ PipeReads(t)
                              \/ PipeSends(t) \/ PipeAcked(t) \/ PipeFails(t)
      PROVE  UNCHANGED <<emitted, running, outcome>>
  BY <1>7 DEF PipeBegins, PipeSpawned, PipeTests, PipeReads, PipeSends, PipeAcked, PipeFails, serverVars
<1> QED
  BY <1>1, <1>2, <1>3, <1>4, <1>5, <1>6, <1>7
     DEF Next, Server, HandleRuns, CancelRuns, PipeRuns, serverVars

\* The steps that move events from the stream to those who read them.
LEMMA QueueSteps ==
    ASSUME [Next]_vars
    PROVE  \/ ReaderRoutes \/ ReaderEnds
           \/ \E p \in Procs : ClaimQueue(p) \/ HandleReads(p)
           \/ UNCHANGED <<queueVars, read>>
<1>1. ASSUME ReaderTakes \/ ReaderCloses \/ ReaderTells \/ StreamStops \/ AllRest
             \/ CapsOutput \/ OperationEnds \/ UNCHANGED vars
      PROVE  UNCHANGED <<queueVars, read>>
  BY <1>1 DEF ReaderTakes, ReaderCloses, ReaderTells, StreamStops, AllRest, CapsOutput, OperationEnds,
              vars, callVars
<1>2. ASSUME NEW p \in Procs, RunBegins(p) \/ ServerCreates(p) \/ CreateFails(p) \/ Output(p) \/ Exit(p)
      PROVE  UNCHANGED <<queueVars, read>>
  BY <1>2 DEF RunBegins, ServerCreates, CreateFails, Output, Exit, callVars
<1>3. ASSUME NEW f \in Follows, FollowBegins(f) \/ Follow(f) \/ FollowTimesOut(f)
      PROVE  UNCHANGED <<queueVars, read>>
  BY <1>3 DEF FollowBegins, Follow, FollowTimesOut
<1>4. ASSUME NEW w \in Waits, WaitBegins(w) \/ WaitFails(w) \/ WaitCompletes(w)
      PROVE  UNCHANGED <<queueVars, read>>
  BY <1>4 DEF WaitBegins, WaitFails, WaitCompletes
<1>5. ASSUME NEW s \in Shutdowns, ShutdownBegins(s) \/ ShutdownRuns(s)
      PROVE  UNCHANGED <<queueVars, read>>
  BY <1>5 DEF ShutdownBegins, ShutdownRuns, ShutdownSignals, ShutdownDecides, Joined, JoinTimesOut,
              Joins, callVars
<1>6. ASSUME NEW c, CancelRuns(c)
      PROVE  UNCHANGED <<queueVars, read>>
  BY <1>6 DEF CancelRuns, CancelAgain, CancelAsks, CancelAnswers, callVars
<1>7. ASSUME NEW t \in Pipes, PipeBegins(t) \/ PipeRuns(t) \/ PipeFails(t)
      PROVE  UNCHANGED <<queueVars, read>>
  BY <1>7 DEF PipeBegins, PipeRuns, PipeSpawned, PipeTests, PipeReads, PipeSends, PipeAcked, PipeKills,
              PipeFails, callVars
<1> QED
  BY <1>1, <1>2, <1>3, <1>4, <1>5, <1>6, <1>7 DEF Next, Server, HandleRuns, ReaderRuns

\* The steps of the reader; a call that begins may start it.
LEMMA ReaderSteps ==
    ASSUME [Next]_vars
    PROVE  \/ ReaderRuns \/ StreamStops
           \/ \E s \in Shutdowns : JoinTimesOut(s)
           \/ /\ StartReader \/ UNCHANGED reader
              /\ UNCHANGED <<remembered, streamError, terminal, terminalEvent>>
<1>1. ASSUME Server \/ AllRest \/ UNCHANGED vars
      PROVE  UNCHANGED readerVars
  BY <1>1 DEF Server, CapsOutput, OperationEnds, Output, Exit, AllRest, vars
<1>2. ASSUME NEW p \in Procs, RunBegins(p) \/ HandleRuns(p)
      PROVE  UNCHANGED readerVars
  BY <1>2 DEF RunBegins, HandleRuns, ServerCreates, CreateFails, ClaimQueue, HandleReads
<1>3. ASSUME NEW f \in Follows, Follow(f) \/ FollowTimesOut(f)
      PROVE  UNCHANGED readerVars
  BY <1>3 DEF Follow, FollowTimesOut
<1>4. ASSUME NEW w \in Waits, WaitFails(w) \/ WaitCompletes(w)
      PROVE  UNCHANGED readerVars
  BY <1>4 DEF WaitFails, WaitCompletes
<1>5. ASSUME NEW s \in Shutdowns,
             ShutdownBegins(s) \/ ShutdownSignals(s) \/ ShutdownDecides(s) \/ Joined(s)
      PROVE  UNCHANGED readerVars
  BY <1>5 DEF ShutdownBegins, ShutdownSignals, ShutdownDecides, Joined
<1>6. ASSUME NEW c, CancelRuns(c)
      PROVE  UNCHANGED readerVars
  BY <1>6 DEF CancelRuns, CancelAgain, CancelAsks, CancelAnswers
<1>7. ASSUME NEW t \in Pipes, PipeRuns(t) \/ PipeFails(t)
      PROVE  UNCHANGED readerVars
  BY <1>7 DEF PipeRuns, PipeSpawned, PipeTests, PipeReads, PipeSends, PipeAcked, PipeKills, PipeFails
<1>8. ASSUME NEW c, FollowBegins(c) \/ WaitBegins(c) \/ PipeBegins(c)
      PROVE  StartReader /\ UNCHANGED <<remembered, streamError, terminal, terminalEvent>>
  BY <1>8 DEF FollowBegins, WaitBegins, PipeBegins
<1> QED
  BY <1>1, <1>2, <1>3, <1>4, <1>5, <1>6, <1>7, <1>8 DEF Next, ShutdownRuns, readerVars

\* The steps of run() and of the handles; other calls move only themselves.
LEMMA HandleSteps ==
    ASSUME TypeCalls, [Next]_vars
    PROVE  \/ \E p \in Procs : RunBegins(p) \/ HandleRuns(p)
           \/ \A p \in Procs : pc'[p] = pc[p]
<1> DEFINE Still == \A p \in Procs : pc'[p] = pc[p]
<1>1. ASSUME Server \/ ReaderRuns \/ StreamStops \/ AllRest \/ UNCHANGED vars
      PROVE  Still
  BY <1>1 DEF Server, CapsOutput, OperationEnds, Output, Exit, ReaderRuns, ReaderTakes, ReaderRoutes,
              ReaderCloses, ReaderEnds, ReaderTells, StreamStops, AllRest, vars, callVars
<1>2. ASSUME NEW c \in Calls \ Procs, \E step : Goes(c, step)
      PROVE  Still
  BY <1>2 DEF Goes, TypeCalls, Calls
<1>3. Follows \cup Waits \cup Shutdowns \subseteq Calls \ Procs
  BY OperationAssumption DEF Calls
<1>4. ASSUME NEW f \in Follows, FollowBegins(f) \/ Follow(f) \/ FollowTimesOut(f)
      PROVE  Still
  <2>1. UNCHANGED pc \/ \E step : Goes(f, step)
    BY <1>4 DEF FollowBegins, Follow, FollowTimesOut
  <2> QED BY <1>2, <1>3, <2>1
<1>5. ASSUME NEW w \in Waits, WaitBegins(w) \/ WaitFails(w) \/ WaitCompletes(w)
      PROVE  Still
  <2>1. \E step : Goes(w, step)
    BY <1>5 DEF WaitBegins, WaitFails, WaitCompletes
  <2> QED BY <1>2, <1>3, <2>1
<1>6. ASSUME NEW s \in Shutdowns, ShutdownBegins(s) \/ ShutdownRuns(s)
      PROVE  Still
  <2>1. UNCHANGED pc \/ \E step : Goes(s, step)
    BY <1>6 DEF ShutdownBegins, ShutdownRuns, ShutdownSignals, ShutdownDecides, Joined, JoinTimesOut,
                Joins, callVars
  <2> QED BY <1>2, <1>3, <2>1
<1>7. ASSUME NEW c \in Waits \cup Shutdowns \cup {Main}, CancelRuns(c)
      PROVE  Still
  <2>1. UNCHANGED pc \/ (c \in Waits \cup Shutdowns /\ \E step : Goes(c, step))
    BY <1>7 DEF CancelRuns, CancelAgain, CancelAsks, CancelAnswers, AfterCancel, callVars
  <2> QED BY <1>2, <1>3, <2>1
<1>8. ASSUME NEW t \in Pipes, PipeBegins(t) \/ PipeRuns(t) \/ PipeFails(t)
      PROVE  Still
  BY <1>8 DEF PipeBegins, PipeRuns, PipeSpawned, PipeTests, PipeReads, PipeSends, PipeAcked, PipeKills,
              PipeFails, callVars
<1> QED
  BY <1>1, <1>4, <1>5, <1>6, <1>7, <1>8 DEF Next

-----------------------------------------------------------------------------
(* Types.                                                                  *)

\* The types, the writers' accounts and the reader's flags at the start.
LEMMA InitTypes == Init => TypeInv /\ PipeInv /\ ReaderInv
<1> SUFFICES ASSUME Init PROVE TypeInv /\ PipeInv /\ ReaderInv
  OBVIOUS
<1>1. Event("spawn", Main) \in Events
  BY EventFacts
<1>2. TypeServer /\ TypeReader
  <2>1. /\ <<Event("spawn", Main)>> \in Seq(Events) /\ Len(<<Event("spawn", Main)>>) = 1
    BY <1>1
  <2>2. emitted \in Seq(Events) /\ 0 \in 0 .. Len(emitted)
    BY <2>1 DEF Init
  <2> QED BY <2>2 DEF Init, TypeServer, TypeReader
<1>3. TypeQueues /\ TypeCancel
  <2>1. <<>> \in Seq(Events) /\ <<>> \in Seq(Events \cup {End})
    OBVIOUS
  <2> QED BY <2>1 DEF Init, TypeQueues, TypeCancel
<1>4. TypeCalls /\ TypePipes
  BY OperationAssumption DEF Init, TypeCalls, TypePipes, CallSteps, PipeSteps, Resting
<1>5. PipeInv /\ ReaderInv
  BY DEF Init, PipeInv, PipeOk, ReaderInv
<1> QED BY <1>2, <1>3, <1>4, <1>5 DEF TypeInv

\* The stream only grows.
LEMMA StreamGrows ==
    ASSUME TypeServer, [Next]_vars
    PROVE  /\ TypeServer' /\ Len(emitted) <= Len(emitted')
           /\ \A i \in 1 .. Len(emitted) : emitted'[i] = emitted[i]
<1> DEFINE Grows == /\ TypeServer' /\ Len(emitted) <= Len(emitted')
                    /\ \A i \in 1 .. Len(emitted) : emitted'[i] = emitted[i]
<1>1. ASSUME NEW e \in Events, Emit(e), running' \subseteq Procs,
             outcome' \in {"running", "ended", "cancelled"}
      PROVE  Grows
  BY <1>1 DEF Emit, TypeServer
<1>2. ASSUME UNCHANGED <<emitted, running, outcome>> PROVE Grows
  BY <1>2 DEF TypeServer
<1>3. ASSUME NEW p \in Procs, Output(p) \/ Exit(p) \/ ServerCreates(p) PROVE Grows
  <2>1. running' \subseteq Procs /\ outcome' = outcome
    BY <1>3 DEF Output, Exit, ServerCreates, TypeServer
  <2>2. \E e \in {Event("output", p), Event("exit", p), Event("spawn", p)} : Emit(e)
    BY <1>3 DEF Output, Exit, ServerCreates
  <2> QED BY <1>1, <2>1, <2>2, EventFacts DEF TypeServer
<1>4. CASE CapsOutput
  <2>1. Emit(SizeCap) /\ running' = running /\ outcome' = outcome
    BY <1>4 DEF CapsOutput
  <2> QED BY <1>1, <2>1, EventFacts DEF TypeServer
<1>5. CASE OperationEnds
  <2>1. <<Event("exit", Main), Completion>> \in Seq(Events)
    BY EventFacts
  <2>2. emitted' = emitted \o <<Event("exit", Main), Completion>> /\ running' = {} /\ outcome' = "ended"
    BY <1>5 DEF OperationEnds
  <2> QED BY <2>1, <2>2 DEF TypeServer
<1>6. ASSUME NEW c, CancelAsks(c) PROVE Grows
  <2>1. CASE Emit(Completion) /\ running' = {} /\ outcome' = "cancelled"
    BY <1>1, <2>1, EventFacts
  <2> QED BY <1>2, <1>6, <2>1 DEF CancelAsks, serverVars
<1>7. ASSUME NEW t \in Pipes, PipeKills(t) PROVE Grows
  <2>1. CASE t \in running /\ running' = running \ {t} /\ Emit(Event("exit", t)) /\ outcome' = outcome
    BY <1>1, <2>1, EventFacts DEF TypeServer
  <2> QED BY <1>2, <1>7, <2>1 DEF PipeKills, serverVars
<1> QED BY <1>2, <1>3, <1>4, <1>5, <1>6, <1>7, ServerSteps

\* The reader keeps its types and flags, and never forgets an event.
LEMMA ReaderTypes ==
    ASSUME TypeServer, TypeReader, ReaderInv, [Next]_vars
    PROVE  TypeReader' /\ ReaderInv' /\ remembered <= remembered'
<1>1. /\ Len(emitted) \in Nat /\ Len(emitted') \in Nat /\ Len(emitted) <= Len(emitted')
      /\ remembered \in Nat /\ remembered <= Len(emitted)
  BY StreamGrows DEF TypeServer, TypeReader
<1> DEFINE Goal == TypeReader' /\ ReaderInv' /\ remembered <= remembered'
<1>2. CASE ReaderTakes
  <2>1. CASE remembered' = remembered + 1 /\ reader' \in {"closing", "routing"} /\ UNCHANGED streamError
    <3>1. remembered' \in 0 .. Len(emitted') /\ remembered' > 0
      BY <1>1, <1>2, <2>1 DEF ReaderTakes
    <3>2. ~terminal' /\ UNCHANGED <<terminal, terminalEvent>>
      BY <1>2 DEF ReaderTakes, ReaderInv
    <3> QED BY <1>1, <2>1, <3>1, <3>2 DEF TypeReader, ReaderInv
  <2>2. CASE reader' = "closing" /\ streamError' = TRUE /\ UNCHANGED remembered
    <3>1. ~terminal' /\ UNCHANGED <<terminal, terminalEvent>>
      BY <1>2 DEF ReaderTakes, ReaderInv
    <3> QED BY <1>1, <2>2, <3>1 DEF TypeReader, ReaderInv
  <2> QED BY <1>2, <2>1, <2>2 DEF ReaderTakes
<1>3. CASE ReaderRoutes
  BY <1>1, <1>3 DEF ReaderRoutes, TypeReader, ReaderInv
<1>4. CASE ReaderCloses
  <2>1. UNCHANGED <<remembered, terminal, terminalEvent>> /\ reader' = "ending" /\ reader = "closing"
    BY <1>4 DEF ReaderCloses
  <2>2. streamError' \in BOOLEAN
    BY <1>4 DEF ReaderCloses, TypeReader
  <2> QED BY <1>1, <2>1, <2>2 DEF TypeReader, ReaderInv
<1>5. CASE ReaderEnds
  <2>1. UNCHANGED <<remembered, streamError, terminalEvent>> /\ reader' = "telling" /\ terminal' = TRUE
    BY <1>5 DEF ReaderEnds
  <2> QED BY <1>1, <2>1 DEF TypeReader, ReaderInv
<1>6. CASE ReaderTells
  <2>1. /\ UNCHANGED <<remembered, streamError, terminal>> /\ reader' = "finished" /\ reader = "telling"
        /\ terminalEvent' = TRUE
    BY <1>6 DEF ReaderTells
  <2> QED BY <1>1, <2>1 DEF TypeReader, ReaderInv
<1>7. CASE StreamStops
  <2>1. /\ UNCHANGED <<remembered, terminal, terminalEvent>> /\ reader' = "closing" /\ reader = "streaming"
        /\ streamError' \in BOOLEAN
    BY <1>7 DEF StreamStops
  <2> QED BY <1>1, <2>1 DEF TypeReader, ReaderInv
<1>8. ASSUME NEW s \in Shutdowns, JoinTimesOut(s) PROVE Goal
  <2>1. UNCHANGED <<remembered, terminal, terminalEvent>>
    BY <1>8 DEF JoinTimesOut
  <2>2. \/ UNCHANGED <<reader, streamError>>
        \/ reader \in {"streaming", "routing"} /\ reader' = "closing" /\ streamError' = TRUE
        \/ reader' = "dead" /\ UNCHANGED streamError
    BY <1>8 DEF JoinTimesOut
  <2>3. CASE UNCHANGED <<reader, streamError>>
    BY <1>1, <2>1, <2>3 DEF TypeReader, ReaderInv
  <2>4. CASE reader \in {"streaming", "routing"} /\ reader' = "closing" /\ streamError' = TRUE
    <3>1. ~terminal
      BY <2>4 DEF ReaderInv
    <3> QED BY <1>1, <2>1, <2>4, <3>1 DEF TypeReader, ReaderInv
  <2>5. CASE reader' = "dead" /\ UNCHANGED streamError
    BY <1>1, <2>1, <2>5 DEF TypeReader, ReaderInv
  <2> QED BY <2>2, <2>3, <2>4, <2>5
<1>9. CASE (StartReader \/ UNCHANGED reader) /\ UNCHANGED <<remembered, streamError, terminal, terminalEvent>>
  BY <1>1, <1>9 DEF StartReader, TypeReader, ReaderInv
<1> QED BY <1>2, <1>3, <1>4, <1>5, <1>6, <1>7, <1>8, <1>9, ReaderSteps DEF ReaderRuns

\* Routing appends the event that was remembered last.
LEMMA Routing ==
    ASSUME TypeServer, TypeReader, TypeQueues, ReaderInv, ReaderRoutes
    PROVE  /\ remembered \in DOMAIN emitted /\ emitted[remembered] \in Events
           /\ Route(emitted[remembered])
<1>1. remembered \in 1 .. Len(emitted)
  BY DEF ReaderRoutes, TypeReader, ReaderInv, TypeServer
<1> QED BY <1>1 DEF ReaderRoutes, TypeServer

\* Queues, buffers and what was read keep their types.
LEMMA QueueTypes ==
    ASSUME TypeServer, TypeReader, TypeQueues, ReaderInv, [Next]_vars
    PROVE  TypeQueues'
<1> USE EventFacts
<1>1. CASE ReaderRoutes
  <2> DEFINE e == emitted[remembered]
  <2>1. e \in Events /\ Route(e) /\ UNCHANGED <<claimed, read>>
    BY <1>1, Routing DEF ReaderRoutes, callVars
  <2> HIDE DEF e
  <2>2. CASE e = SizeCap
    <3>1. /\ sizeCap' = TRUE
          /\ queues' = [p \in Procs |-> IF p \in claimed THEN Append(queues[p], e) ELSE queues[p]]
          /\ pendingEvents' = [p \in Procs |->
               IF pendingEvents[p] # <<>> THEN Append(pendingEvents[p], e) ELSE <<>>]
      BY <2>1, <2>2 DEF Route, TypeQueues
    <3>2. ASSUME NEW p \in Procs
          PROVE  Append(queues[p], e) \in Seq(Events \cup {End}) /\ Append(pendingEvents[p], e) \in Seq(Events)
      BY <2>1 DEF TypeQueues
    <3> QED BY <2>1, <3>1, <3>2 DEF TypeQueues
  <2>3. CASE e # SizeCap /\ e.spid \in claimed
    <3>1. queues' = [queues EXCEPT ![e.spid] = Append(@, e)] /\ UNCHANGED <<sizeCap, pendingEvents>>
      BY <2>1, <2>3 DEF Route, TypeQueues
    <3>2. Append(queues[e.spid], e) \in Seq(Events \cup {End})
      BY <2>1, <2>3 DEF TypeQueues
    <3> QED BY <2>1, <3>1, <3>2 DEF TypeQueues
  <2>4. CASE e # SizeCap /\ e.spid \in Procs \ claimed
    <3>1. Buffered(e.spid, e) \in Seq(Events)
      BY <2>1, <2>4 DEF Buffered, TypeQueues
    <3>2. pendingEvents' = [pendingEvents EXCEPT ![e.spid] = Buffered(e.spid, e)] /\ UNCHANGED <<sizeCap, queues>>
      BY <2>1, <2>4 DEF Route
    <3> QED BY <2>1, <2>4, <3>1, <3>2 DEF TypeQueues
  <2>5. CASE e # SizeCap /\ e.spid \notin Procs
    BY <2>1, <2>5 DEF Route, TypeQueues
  <2> QED BY <2>2, <2>3, <2>4, <2>5
<1>2. CASE ReaderEnds
  BY <1>2 DEF ReaderEnds, TypeQueues, callVars
<1>3. ASSUME NEW p \in Procs, ClaimQueue(p) PROVE TypeQueues'
  <2> DEFINE waited == IF pendingEvents[p] = <<>> /\ sizeCap THEN <<SizeCap>> ELSE pendingEvents[p]
  <2>1. waited \in Seq(Events \cup {End})
    <3>1. pendingEvents[p] \in Seq(Events) /\ SizeCap \in Events
      BY DEF TypeQueues
    <3>2. pendingEvents[p] \in Seq(Events \cup {End}) /\ <<SizeCap>> \in Seq(Events \cup {End})
      BY <3>1
    <3> QED BY <3>2
  <2>2. ClosedIfTerminal(waited) \in Seq(Events \cup {End})
    BY <2>1 DEF ClosedIfTerminal
  <2>3. /\ queues' = [queues EXCEPT ![p] = ClosedIfTerminal(waited)] /\ UNCHANGED <<sizeCap, read>>
        /\ claimed' \in {claimed, claimed \cup {p}} /\ pendingEvents' = [pendingEvents EXCEPT ![p] = <<>>]
    BY <1>3 DEF ClaimQueue
  <2> HIDE DEF waited
  <2> QED BY <2>2, <2>3 DEF TypeQueues
<1>4. ASSUME NEW p \in Procs, HandleReads(p) PROVE TypeQueues'
  <2>1. queues[p] \in Seq(Events \cup {End}) /\ queues[p] # <<>>
    BY <1>4 DEF HandleReads, TypeQueues
  <2>2. Tail(queues[p]) \in Seq(Events \cup {End}) /\ (Head(queues[p]) = End \/ Head(queues[p]) \in Events)
    BY <2>1, ItemsOfTail
  <2>3. read' = read \/ (Head(queues[p]) \in Events /\ read' = [read EXCEPT ![p] = Append(@, Head(queues[p]))])
    BY <1>4, <2>2 DEF HandleReads
  <2>4. read' \in [Procs -> Seq(Events)]
    <3>1. CASE UNCHANGED read
      BY <3>1 DEF TypeQueues
    <3>2. CASE Head(queues[p]) \in Events /\ read' = [read EXCEPT ![p] = Append(@, Head(queues[p]))]
      <4>1. Append(read[p], Head(queues[p])) \in Seq(Events)
        BY <3>2 DEF TypeQueues
      <4> QED BY <3>2, <4>1 DEF TypeQueues
    <3> QED BY <2>3, <3>1, <3>2
  <2> QED BY <1>4, <2>2, <2>4 DEF HandleReads, TypeQueues
<1>5. CASE UNCHANGED <<queueVars, read>>
  BY <1>5 DEF queueVars, TypeQueues
<1> QED BY <1>1, <1>2, <1>3, <1>4, <1>5, QueueSteps

\* Every step of a call is one of those a call may be at.
LEMMA PcTypes ==
    ASSUME TypeCalls, [Next]_vars
    PROVE  pc' \in [Calls -> CallSteps]
<1> DEFINE Typed == pc' \in [Calls -> CallSteps]
<1>1. ASSUME NEW c \in Calls, \E step \in CallSteps : Goes(c, step)
      PROVE  Typed
  BY <1>1 DEF Goes, TypeCalls
<1>2. Procs \subseteq Calls /\ Follows \subseteq Calls /\ Waits \subseteq Calls /\ Shutdowns \subseteq Calls
  BY DEF Calls
<1>3. ASSUME Server \/ ReaderRuns \/ StreamStops \/ AllRest \/ UNCHANGED vars
      PROVE  UNCHANGED pc
  BY <1>3 DEF Server, CapsOutput, OperationEnds, Output, Exit, ReaderRuns, ReaderTakes, ReaderRoutes,
              ReaderCloses, ReaderEnds, ReaderTells, StreamStops, AllRest, vars, callVars
<1>4. ASSUME NEW p \in Procs, RunBegins(p) \/ ServerCreates(p) \/ CreateFails(p) \/ ClaimQueue(p)
      PROVE  Typed
  <2>1. \E step \in {"creating", "created", "failed", "reading"} : Goes(p, step)
    BY <1>4 DEF RunBegins, ServerCreates, CreateFails, ClaimQueue
  <2> QED BY <1>1, <1>2, <2>1 DEF CallSteps, Resting
<1>5. ASSUME NEW p \in Procs, HandleReads(p) PROVE Typed
  <2>1. \E step \in {"broken", "incomplete", "done", "reading"} : Goes(p, step)
    BY <1>5 DEF HandleReads, AtEnd
  <2> QED BY <1>1, <1>2, <2>1 DEF CallSteps, Resting
<1>6. ASSUME NEW f \in Follows, FollowBegins(f) \/ Follow(f) \/ FollowTimesOut(f) PROVE Typed
  <2>1. UNCHANGED pc \/ \E step \in {"following", "broken", "done", "left"} : Goes(f, step)
    BY <1>6 DEF FollowBegins, Follow, FollowTimesOut
  <2> QED BY <1>1, <1>2, <2>1 DEF CallSteps, Resting, TypeCalls
<1>7. ASSUME NEW w \in Waits, WaitBegins(w) \/ WaitFails(w) \/ WaitCompletes(w) PROVE Typed
  <2>1. \E step \in {"waiting", "cancelling", "done"} : Goes(w, step)
    BY <1>7 DEF WaitBegins, WaitFails, WaitCompletes
  <2> QED BY <1>1, <1>2, <2>1 DEF CallSteps, Resting
<1>8. ASSUME NEW s \in Shutdowns, ShutdownBegins(s) PROVE Typed
  <2>1. \E step \in {"cancelling", "joining", "signalling"} : Goes(s, step)
    BY <1>8 DEF ShutdownBegins, Joins
  <2> QED BY <1>1, <1>2, <2>1 DEF CallSteps
<1>9. ASSUME NEW s \in Shutdowns, ShutdownRuns(s) PROVE Typed
  <2>1. UNCHANGED pc \/ \E step \in {"ending", "joining", "cancelling", "raised", "done"} : Goes(s, step)
    BY <1>9 DEF ShutdownRuns, ShutdownSignals, ShutdownDecides, Joined, JoinTimesOut, Joins, callVars
  <2> QED BY <1>1, <1>2, <2>1 DEF CallSteps, Resting, TypeCalls
<1>10. ASSUME NEW c \in Waits \cup Shutdowns \cup {Main}, CancelRuns(c) PROVE Typed
  <2>1. UNCHANGED pc \/ (c \in Waits \cup Shutdowns /\ \E step \in {"raised", "joining"} : Goes(c, step))
    BY <1>10 DEF CancelRuns, CancelAgain, CancelAsks, CancelAnswers, AfterCancel, callVars
  <2> QED BY <1>1, <1>2, <2>1 DEF CallSteps, Resting, TypeCalls
<1>11. ASSUME NEW t \in Pipes, PipeBegins(t) \/ PipeRuns(t) \/ PipeFails(t) PROVE UNCHANGED pc
  BY <1>11 DEF PipeBegins, PipeRuns, PipeSpawned, PipeTests, PipeReads, PipeSends, PipeAcked, PipeKills,
               PipeFails, callVars
<1> QED
  BY <1>3, <1>4, <1>5, <1>6, <1>7, <1>8, <1>9, <1>10, <1>11 DEF Next, HandleRuns, TypeCalls

\* The calls and the server's response keep their types.
LEMMA CallTypes ==
    ASSUME TypeServer, TypeReader, ReaderInv, TypeCalls, [Next]_vars
    PROVE  TypeCalls'
<1>1. remembered \in Nat /\ remembered' \in Nat /\ remembered <= remembered'
  BY ReaderTypes, StreamGrows DEF TypeReader, TypeServer
<1>2. (\E f \in Follows : Follow(f)) \/ UNCHANGED cursor
  BY DEF Next, vars, Server, CapsOutput, OperationEnds, Output, Exit, ReaderRuns, ReaderTakes, ReaderRoutes,
         ReaderCloses, ReaderEnds, ReaderTells, StreamStops, AllRest, callVars, RunBegins, HandleRuns,
         ServerCreates, CreateFails, ClaimQueue, HandleReads, FollowBegins, FollowTimesOut, WaitBegins,
         WaitFails, WaitCompletes, ShutdownBegins, ShutdownRuns, ShutdownSignals, ShutdownDecides, Joined,
         JoinTimesOut, Joins, CancelRuns, CancelAgain, CancelAsks, CancelAnswers, PipeBegins, PipeRuns,
         PipeSpawned, PipeTests, PipeReads, PipeSends, PipeAcked, PipeKills, PipeFails
<1>3. cursor' \in [Follows -> 0 .. remembered']
  <2>1. CASE UNCHANGED cursor
    BY <1>1, <2>1 DEF TypeCalls
  <2>2. ASSUME NEW f \in Follows, Follow(f), cursor' = [cursor EXCEPT ![f] = @ + 1], cursor[f] < remembered
        PROVE  cursor' \in [Follows -> 0 .. remembered']
    BY <1>1, <2>2 DEF TypeCalls
  <2> QED BY <1>2, <2>1, <2>2 DEF Follow, Unread
<1>4. response' \in {"none", "running", "success", "failed", "cancelled"}
  <2>1. (\E w \in Waits : WaitCompletes(w)) \/ UNCHANGED response
    BY DEF Next, vars, Server, CapsOutput, OperationEnds, Output, Exit, ReaderRuns, ReaderTakes, ReaderRoutes,
           ReaderCloses, ReaderEnds, ReaderTells, StreamStops, AllRest, callVars, RunBegins, HandleRuns,
           ServerCreates, CreateFails, ClaimQueue, HandleReads, FollowBegins, Follow, FollowTimesOut, WaitBegins,
           WaitFails, ShutdownBegins, ShutdownRuns, ShutdownSignals, ShutdownDecides, Joined,
           JoinTimesOut, Joins, CancelRuns, CancelAgain, CancelAsks, CancelAnswers, PipeBegins, PipeRuns,
           PipeSpawned, PipeTests, PipeReads, PipeSends, PipeAcked, PipeKills, PipeFails
  <2>2. ASSUME NEW w \in Waits, WaitCompletes(w) PROVE response' = response \/ response' \in Responses
    BY <2>2 DEF WaitCompletes
  <2>3. Responses \subseteq {"none", "running", "success", "failed", "cancelled"}
    BY DEF Responses, TypeServer
  <2> QED BY <2>1, <2>2, <2>3 DEF TypeCalls
<1> QED BY <1>3, <1>4, PcTypes DEF TypeCalls

\* A call that asks for a cancellation stays where it is until that is answered.
LEMMA CancellersStay ==
    ASSUME TypeCalls, TypePipes, [Next]_vars, NEW x \in Cancellers
    PROVE  \/ x \in Cancellers'
           \/ \E c \in Waits \cup Shutdowns \cup {Main} : CancelAgain(c) \/ CancelAnswers(c)
<1> DEFINE Stays == x \in Cancellers'
<1>1. /\ x \in Waits \cup Shutdowns \cup (Pipes \cap {Main}) /\ Main \notin Calls
      /\ x = Main => pipe[Main] = "stopping" /\ Main \in Pipes
      /\ x # Main => pc[x] = "cancelling" /\ x \in Calls
  BY OperationAssumption DEF Cancellers, Cancels, Calls
<1>2. ASSUME UNCHANGED pc \/ \E c \in Calls : \E step : pc[c] # "cancelling" /\ Goes(c, step),
             UNCHANGED pipe \/ \E t \in Pipes : \E step : pipe[t] # "stopping" /\ PipeGoes(t, step)
      PROVE  Stays
  <2>1. x # Main => pc'[x] = "cancelling"
    BY <1>1, <1>2 DEF Goes, TypeCalls
  <2>2. x = Main => pipe'[x] = "stopping"
    BY <1>1, <1>2 DEF PipeGoes, TypePipes
  <2> QED BY <1>1, <2>1, <2>2 DEF Cancellers, Cancels
<1>3. ASSUME Server \/ ReaderRuns \/ StreamStops \/ AllRest \/ UNCHANGED vars
      PROVE  UNCHANGED <<pc, pipe>>
  BY <1>3 DEF Server, CapsOutput, OperationEnds, Output, Exit, ReaderRuns, ReaderTakes, ReaderRoutes,
              ReaderCloses, ReaderEnds, ReaderTells, StreamStops, AllRest, vars, callVars, pipeVars
<1>4. ASSUME NEW p \in Procs, RunBegins(p) \/ HandleRuns(p)
      PROVE  UNCHANGED pipe /\ \E c \in Calls : \E step : pc[c] # "cancelling" /\ Goes(c, step)
  <2>1. p \in Calls
    BY DEF Calls
  <2> QED BY <1>4, <2>1 DEF RunBegins, HandleRuns, ServerCreates, CreateFails, ClaimQueue, HandleReads, pipeVars
<1>5. ASSUME NEW f \in Follows, FollowBegins(f) \/ Follow(f) \/ FollowTimesOut(f)
      PROVE  UNCHANGED pipe /\ (UNCHANGED pc \/ \E c \in Calls : \E step : pc[c] # "cancelling" /\ Goes(c, step))
  <2>1. f \in Calls
    BY DEF Calls
  <2> QED BY <1>5, <2>1 DEF FollowBegins, Follow, FollowTimesOut, pipeVars
<1>6. ASSUME NEW w \in Waits, WaitBegins(w) \/ WaitFails(w) \/ WaitCompletes(w)
      PROVE  UNCHANGED pipe /\ \E c \in Calls : \E step : pc[c] # "cancelling" /\ Goes(c, step)
  <2>1. w \in Calls
    BY DEF Calls
  <2> QED BY <1>6, <2>1 DEF WaitBegins, WaitFails, WaitCompletes, pipeVars
<1>7. ASSUME NEW s \in Shutdowns, ShutdownBegins(s) \/ ShutdownRuns(s)
      PROVE  UNCHANGED pipe /\ (UNCHANGED pc \/ \E c \in Calls : \E step : pc[c] # "cancelling" /\ Goes(c, step))
  <2>1. s \in Calls
    BY DEF Calls
  <2> QED
    BY <1>7, <2>1 DEF ShutdownBegins, ShutdownRuns, ShutdownSignals, ShutdownDecides, Joined, JoinTimesOut,
                      Joins, callVars, pipeVars
<1>8. ASSUME NEW c, CancelAsks(c) PROVE UNCHANGED <<pc, pipe>>
  BY <1>8 DEF CancelAsks, callVars, pipeVars
<1>9. ASSUME NEW t \in Pipes, PipeBegins(t) \/ PipeSpawned(t) \/ PipeReads(t) \/ PipeSends(t) \/ PipeAcked(t)
      PROVE  UNCHANGED pc /\ \E u \in Pipes : \E step : pipe[u] # "stopping" /\ PipeGoes(u, step)
  BY <1>9 DEF PipeBegins, PipeSpawned, PipeReads, PipeSends, PipeAcked, callVars
<1>10. ASSUME NEW t \in Pipes, PipeTests(t) \/ PipeFails(t)
       PROVE  UNCHANGED pc /\ \E u \in Pipes : \E step : pipe[u] # "stopping" /\ PipeGoes(u, step)
  BY <1>10 DEF PipeTests, PipeFails, Untested, callVars
<1>11. ASSUME NEW t \in Pipes, PipeKills(t) PROVE Stays
  <2>1. UNCHANGED pc /\ t # Main /\ PipeGoes(t, "raised")
    BY <1>11 DEF PipeKills, callVars
  <2>2. x = Main => pipe'[x] = "stopping"
    BY <1>1, <2>1 DEF PipeGoes, TypePipes
  <2> QED BY <1>1, <2>1, <2>2 DEF Cancellers, Cancels
<1> HIDE DEF Stays
<1> QED
  BY <1>2, <1>3, <1>4, <1>5, <1>6, <1>7, <1>8, <1>9, <1>10, <1>11 DEF Next, CancelRuns, PipeRuns, Stays

\* The cancel lock keeps its type: who is inside leaves it before it rests.
LEMMA CancelTypes ==
    ASSUME TypeCalls, TypePipes, TypeCancel, [Next]_vars
    PROVE  TypeCancel'
<1>1. ASSUME NEW c, CancelAsks(c) PROVE TypeCancel'
  <2>1. c \in Cancellers /\ canceller' = c /\ UNCHANGED <<cancelRequested, failing, pc, pipe>>
    BY <1>1 DEF CancelAsks, callVars, pipeVars
  <2> QED BY <2>1 DEF TypeCancel, Cancellers, Cancels
<1>2. ASSUME NEW c, CancelAgain(c) PROVE TypeCancel'
  BY <1>2 DEF CancelAgain, cancelVars, TypeCancel
<1>3. ASSUME NEW c, CancelAnswers(c) PROVE TypeCancel'
  BY <1>3 DEF CancelAnswers, TypeCancel
<1>4. \/ \E c \in Waits \cup Shutdowns \cup {Main} : CancelRuns(c)
      \/ UNCHANGED canceller /\ cancelRequested' \in BOOLEAN /\ failing' \in BOOLEAN
  BY DEF TypeCancel, Next, vars, Server, CapsOutput, OperationEnds, Output, Exit, ReaderRuns, ReaderTakes,
         ReaderRoutes, ReaderCloses, ReaderEnds, ReaderTells, StreamStops, AllRest, cancelVars, RunBegins,
         HandleRuns, ServerCreates, CreateFails, ClaimQueue, HandleReads, FollowBegins, Follow, FollowTimesOut,
         WaitBegins, WaitFails, WaitCompletes, ShutdownBegins, ShutdownRuns, ShutdownSignals, ShutdownDecides,
         Joined, JoinTimesOut, PipeBegins, PipeRuns, PipeSpawned, PipeTests, PipeReads, PipeSends, PipeAcked,
         PipeKills, PipeFails
<1>5. ASSUME UNCHANGED canceller, cancelRequested' \in BOOLEAN, failing' \in BOOLEAN,
             \A x \in Cancellers : x \in Cancellers'
      PROVE  TypeCancel'
  BY <1>5 DEF TypeCancel
<1> QED BY <1>1, <1>2, <1>3, <1>4, <1>5, CancellersStay DEF CancelRuns

-----------------------------------------------------------------------------
(* Writers.                                                                *)

\* Writers whose variables stay keep their accounts.
LEMMA PipeStays ==
    ASSUME UNCHANGED <<stdin, pipeVars>>
    PROVE  (TypePipes /\ PipeInv) => (TypePipes /\ PipeInv)'
  BY DEF TypePipes, PipeInv, PipeOk, pipeVars

\* A step of a writer leaves the others alone.
LEMMA OneWriter ==
    ASSUME TypePipes, PipeInv, NEW t \in Pipes, NEW step \in PipeSteps, PipeGoes(t, step),
           NEW received \in [parts : 0 .. Chunks, eof : BOOLEAN], stdin' = [stdin EXCEPT ![t] = received],
           NEW told \in 0 .. Chunks, sent' = [sent EXCEPT ![t] = told],
           NEW closed \in BOOLEAN, eofSent' = [eofSent EXCEPT ![t] = closed],
           PipeOk(t)'
    PROVE  TypePipes' /\ PipeInv'
<1>1. TypePipes'
  BY DEF TypePipes, PipeGoes
<1>2. ASSUME NEW u \in Pipes, u # t
      PROVE  pipe'[u] = pipe[u] /\ stdin'[u] = stdin[u] /\ sent'[u] = sent[u] /\ eofSent'[u] = eofSent[u]
  BY <1>2 DEF PipeGoes, TypePipes
<1>3. ASSUME NEW u \in Pipes, u # t PROVE PipeOk(u)'
  <2>1. PipeOk(u)
    BY DEF PipeInv
  <2> QED BY <1>2, <1>3, <2>1 DEF PipeOk
<1> QED BY <1>1, <1>3 DEF PipeInv

\* The steps that leave what was received and told alone.
LEMMA WriterMoves ==
    ASSUME TypePipes, PipeInv, NEW t \in Pipes, NEW step \in PipeSteps, PipeGoes(t, step),
           UNCHANGED <<stdin, sent, eofSent>>,
           \/ /\ pipe[t] \in {"idle", "waiting", "testing", "source", "part", "last"}
              /\ step \in {"waiting", "testing", "source", "part", "last", "sending", "closing", "stopping", "exited", "done"}
              /\ step \in {"part", "sending"} => sent[t] < Chunks
           \/ pipe[t] # "done" /\ step = "stopping"
           \/ pipe[t] = "stopping" /\ step = "raised"
    PROVE  TypePipes' /\ PipeInv'
<1>1. /\ stdin[t] \in [parts : 0 .. Chunks, eof : BOOLEAN] /\ sent[t] \in 0 .. Chunks /\ eofSent[t] \in BOOLEAN
      /\ stdin' = [stdin EXCEPT ![t] = stdin[t]] /\ sent' = [sent EXCEPT ![t] = sent[t]]
      /\ eofSent' = [eofSent EXCEPT ![t] = eofSent[t]]
  BY DEF TypePipes
<1>2. PipeOk(t) /\ pipe'[t] = step /\ stdin'[t] = stdin[t] /\ sent'[t] = sent[t] /\ eofSent'[t] = eofSent[t]
  BY DEF PipeInv, PipeGoes, TypePipes
<1>3. stdin[t].parts \in 0 .. Chunks /\ Chunks \in Nat
  BY <1>1, OperationAssumption
<1>4. PipeOk(t)'
  <2>1. CASE pipe[t] # "done" /\ step = "stopping"
    BY <1>1, <1>2, <1>3, <2>1 DEF PipeOk
  <2>2. CASE step = "raised" /\ pipe[t] = "stopping"
    BY <1>1, <1>2, <1>3, <2>2 DEF PipeOk
  <2>3. CASE /\ pipe[t] \in {"idle", "waiting", "testing", "source", "part", "last"}
             /\ step \in {"waiting", "testing", "source", "part", "last", "sending", "closing", "exited", "done"}
             /\ step \in {"part", "sending"} => sent[t] < Chunks
    BY <1>1, <1>2, <1>3, <2>3 DEF PipeOk
  <2> QED BY <2>1, <2>2, <2>3
<1> QED BY <1>1, <1>4, OneWriter

\* Whatever a writer, the server or a failure does, each writer's account of
\* what its process received stays right.
LEMMA WriterSteps ==
    ASSUME TypePipes, TypeCancel, PipeInv, [Next]_vars
    PROVE  TypePipes' /\ PipeInv'
<1> DEFINE Goal == TypePipes' /\ PipeInv'
<1>1. ASSUME NEW t \in Pipes, PipeBegins(t) \/ PipeSpawned(t) PROVE Goal
  <2>1. \E step \in {"waiting", "testing"} : PipeGoes(t, step)
    BY <1>1 DEF PipeBegins, PipeSpawned
  <2>2. pipe[t] \in {"idle", "waiting"} /\ UNCHANGED <<stdin, sent, eofSent>>
    BY <1>1 DEF PipeBegins, PipeSpawned, serverVars
  <2> QED BY <2>1, <2>2, WriterMoves DEF PipeSteps, Resting
<1>2. ASSUME NEW t \in Pipes, PipeTests(t) PROVE Goal
  <2>1. UNCHANGED <<stdin, sent, eofSent>> /\ pipe[t] \in Untested
    BY <1>2 DEF PipeTests, serverVars
  <2>2. \/ PipeGoes(t, "stopping") \/ PipeGoes(t, "exited") \/ PipeGoes(t, "source")
        \/ PipeGoes(t, "closing") \/ (pipe[t] = "part" /\ PipeGoes(t, "sending"))
    BY <1>2 DEF PipeTests, Untested
  <2>3. pipe[t] = "part" => sent[t] < Chunks
    BY DEF PipeInv, PipeOk
  <2> QED BY <2>1, <2>2, <2>3, WriterMoves DEF PipeSteps, Resting, Untested
<1>3. ASSUME NEW t \in Pipes, PipeReads(t) PROVE Goal
  <2>1. UNCHANGED <<stdin, sent, eofSent>> /\ pipe[t] = "source"
    BY <1>3 DEF PipeReads, serverVars
  <2>2. \/ sent[t] < Chunks /\ PipeGoes(t, "part")
        \/ \E step \in {"last", "done", "testing"} : PipeGoes(t, step)
    BY <1>3 DEF PipeReads
  <2> QED BY <2>1, <2>2, WriterMoves DEF PipeSteps, Resting
<1>4. ASSUME NEW t \in Pipes, PipeFails(t) PROVE Goal
  <2>1. UNCHANGED <<stdin, sent, eofSent>> /\ pipe[t] # "done" /\ PipeGoes(t, "stopping")
    BY <1>4 DEF PipeFails, OnError, serverVars
  <2> QED BY <2>1, WriterMoves DEF PipeSteps
<1>5. ASSUME NEW t \in Pipes, PipeKills(t) PROVE Goal
  <2>1. UNCHANGED <<stdin, sent, eofSent>> /\ pipe[t] = "stopping" /\ PipeGoes(t, "raised")
    BY <1>5 DEF PipeKills, serverVars
  <2> QED BY <2>1, WriterMoves DEF PipeSteps, Resting
<1>6. ASSUME NEW t \in Pipes, PipeSends(t) PROVE Goal
  <2>1. /\ stdin[t] \in [parts : 0 .. Chunks, eof : BOOLEAN] /\ sent[t] \in 0 .. Chunks /\ Chunks \in Nat
        /\ eofSent[t] \in BOOLEAN /\ sent' = [sent EXCEPT ![t] = sent[t]]
        /\ eofSent' = [eofSent EXCEPT ![t] = eofSent[t]]
    BY <1>6, OperationAssumption DEF PipeSends, TypePipes
  <2>2. PipeOk(t)
    BY DEF PipeInv
  <2>3. CASE pipe[t] = "sending" /\ PipeGoes(t, "acking") /\ stdin' = [stdin EXCEPT ![t].parts = @ + 1]
    <3> DEFINE received == [stdin[t] EXCEPT !.parts = @ + 1]
    <3>1. stdin[t].parts = sent[t] /\ sent[t] < Chunks /\ stdin[t].eof = eofSent[t] /\ eofSent[t] = FALSE
      BY <2>2, <2>3 DEF PipeOk
    <3>2. /\ received \in [parts : 0 .. Chunks, eof : BOOLEAN]
          /\ received.parts = sent[t] + 1 /\ received.eof = eofSent[t]
      BY <2>1, <3>1
    <3>3. stdin' = [stdin EXCEPT ![t] = received]
      BY <2>3
    <3> HIDE DEF received
    <3>4. stdin'[t] = received /\ pipe'[t] = "acking" /\ sent'[t] = sent[t] /\ eofSent'[t] = eofSent[t]
      BY <2>1, <2>3, <3>3 DEF TypePipes, PipeGoes
    <3>5. PipeOk(t)'
      BY <3>1, <3>2, <3>4 DEF PipeOk
    <3> QED BY <2>1, <2>3, <3>2, <3>3, <3>5, OneWriter DEF PipeSteps
  <2>4. CASE pipe[t] = "closing" /\ PipeGoes(t, "closed") /\ stdin' = [stdin EXCEPT ![t].eof = TRUE]
    <3> DEFINE received == [stdin[t] EXCEPT !.eof = TRUE]
    <3>1. stdin[t].parts = sent[t] /\ eofSent[t] = FALSE
      BY <2>2, <2>4 DEF PipeOk
    <3>2. /\ received \in [parts : 0 .. Chunks, eof : BOOLEAN]
          /\ received.parts = sent[t] /\ received.eof = TRUE
      BY <2>1, <3>1
    <3>3. stdin' = [stdin EXCEPT ![t] = received]
      BY <2>4
    <3> HIDE DEF received
    <3>4. stdin'[t] = received /\ pipe'[t] = "closed" /\ sent'[t] = sent[t] /\ eofSent'[t] = eofSent[t]
      BY <2>1, <2>4, <3>3 DEF TypePipes, PipeGoes
    <3>5. PipeOk(t)'
      BY <3>1, <3>2, <3>4 DEF PipeOk
    <3> QED BY <2>1, <2>4, <3>2, <3>3, <3>5, OneWriter DEF PipeSteps
  <2> QED BY <1>6, <2>3, <2>4 DEF PipeSends
<1>7. ASSUME NEW t \in Pipes, PipeAcked(t) PROVE Goal
  <2>1. /\ stdin[t] \in [parts : 0 .. Chunks, eof : BOOLEAN] /\ sent[t] \in 0 .. Chunks /\ Chunks \in Nat
        /\ eofSent[t] \in BOOLEAN /\ stdin' = [stdin EXCEPT ![t] = stdin[t]]
    BY <1>7, OperationAssumption DEF PipeAcked, TypePipes, serverVars
  <2>2. PipeOk(t)
    BY DEF PipeInv
  <2>3. CASE /\ pipe[t] = "acking" /\ PipeGoes(t, "testing")
             /\ sent' = [sent EXCEPT ![t] = @ + 1] /\ UNCHANGED eofSent
    <3>1. stdin[t].parts = sent[t] + 1 /\ sent[t] < Chunks /\ stdin[t].eof = eofSent[t] /\ eofSent[t] = FALSE
      BY <2>2, <2>3 DEF PipeOk
    <3>2. /\ sent[t] + 1 \in 0 .. Chunks /\ sent' = [sent EXCEPT ![t] = sent[t] + 1]
          /\ eofSent' = [eofSent EXCEPT ![t] = eofSent[t]]
      BY <2>1, <2>3, <3>1 DEF TypePipes
    <3>3. stdin'[t] = stdin[t] /\ pipe'[t] = "testing" /\ sent'[t] = sent[t] + 1 /\ eofSent'[t] = eofSent[t]
      BY <2>1, <2>3, <3>2 DEF TypePipes, PipeGoes
    <3>4. /\ stdin'[t].parts = sent'[t] /\ stdin'[t].eof = eofSent'[t] /\ eofSent'[t] = FALSE
      BY <3>1, <3>3
    <3>5. PipeOk(t)'
      BY <3>3, <3>4 DEF PipeOk
    <3> QED BY <2>1, <2>3, <3>2, <3>5, OneWriter DEF PipeSteps
  <2>4. CASE /\ pipe[t] = "closed" /\ PipeGoes(t, "done")
             /\ eofSent' = [eofSent EXCEPT ![t] = TRUE] /\ UNCHANGED sent
    <3>1. stdin[t].parts = sent[t] /\ stdin[t].eof = TRUE
      BY <2>2, <2>4 DEF PipeOk
    <3>2. sent' = [sent EXCEPT ![t] = sent[t]]
      BY <2>1, <2>4 DEF TypePipes
    <3>3. stdin'[t] = stdin[t] /\ pipe'[t] = "done" /\ sent'[t] = sent[t] /\ eofSent'[t] = TRUE
      BY <2>1, <2>4, <3>2 DEF TypePipes, PipeGoes
    <3>4. PipeOk(t)'
      BY <3>1, <3>3 DEF PipeOk
    <3> QED BY <2>1, <2>4, <3>2, <3>4, OneWriter DEF PipeSteps, Resting
  <2> QED BY <1>7, <2>3, <2>4 DEF PipeAcked
<1>8. ASSUME NEW c \in Waits \cup Shutdowns \cup {Main}, CancelAgain(c) \/ CancelAnswers(c) PROVE Goal
  <2>1. UNCHANGED <<stdin, sent, eofSent>> /\ AfterCancel(c)
    BY <1>8 DEF CancelAgain, CancelAnswers, serverVars
  <2>2. c \in Cancellers
    BY <1>8, OperationAssumption DEF CancelAgain, CancelAnswers, TypeCancel, Calls
  <2>3. CASE c = Main
    <3>1. Main \in Pipes /\ pipe[Main] = "stopping" /\ PipeGoes(Main, "raised")
      BY <2>1, <2>2, <2>3, OperationAssumption DEF Cancellers, Cancels, AfterCancel, PipeGoes, Calls
    <3> QED BY <2>1, <3>1, WriterMoves DEF PipeSteps, Resting
  <2>4. CASE c # Main
    BY <2>1, <2>4, PipeStays DEF AfterCancel, pipeVars
  <2> QED BY <2>3, <2>4
<1>9. ASSUME NEW c, CancelAsks(c) PROVE UNCHANGED <<stdin, pipeVars>>
  BY <1>9 DEF CancelAsks, serverVars
<1>10. \/ \E c \in Waits \cup Shutdowns \cup {Main} : CancelRuns(c)
       \/ \E t \in Pipes : PipeBegins(t) \/ PipeRuns(t) \/ PipeFails(t)
       \/ UNCHANGED <<stdin, pipeVars>>
  BY DEF Next, vars, Server, CapsOutput, OperationEnds, Output, Exit, ReaderRuns, ReaderTakes, ReaderRoutes,
         ReaderCloses, ReaderEnds, ReaderTells, StreamStops, AllRest, serverVars, RunBegins, HandleRuns,
         ServerCreates, CreateFails, ClaimQueue, HandleReads, FollowBegins, Follow, FollowTimesOut, WaitBegins,
         WaitFails, WaitCompletes, ShutdownBegins, ShutdownRuns, ShutdownSignals, ShutdownDecides, Joined,
         JoinTimesOut
<1> QED
  BY <1>1, <1>2, <1>3, <1>4, <1>5, <1>6, <1>7, <1>8, <1>9, <1>10, PipeStays DEF CancelRuns, PipeRuns

-----------------------------------------------------------------------------
(* Subprocesses and their events.                                          *)

\* How the handle of a subprocess moves on.
LEMMA HandleMoves ==
    ASSUME TypeCalls, [Next]_vars, NEW p \in Procs
    PROVE  \/ pc'[p] = pc[p]
           \/ pc[p] = "idle" /\ pc'[p] = "creating"
           \/ ServerCreates(p) /\ pc[p] = "creating" /\ pc'[p] = "created"
           \/ pc[p] \in {"creating", "created"} /\ pc'[p] = "failed"
           \/ ClaimQueue(p) /\ pc[p] = "created" /\ pc'[p] = "reading"
           \/ HandleReads(p) /\ pc[p] = "reading" /\ pc'[p] \in {"done", "broken", "incomplete"}
<1>1. Procs \subseteq Calls
  BY DEF Calls
<1>2. ASSUME NEW q \in Procs, NEW step, Goes(q, step)
      PROVE  q # p => pc'[p] = pc[p]
  BY <1>1, <1>2 DEF Goes, TypeCalls
<1>3. ASSUME NEW step, Goes(p, step) PROVE pc'[p] = step
  BY <1>1, <1>3 DEF Goes, TypeCalls
<1>4. ASSUME NEW q \in Procs, RunBegins(q) \/ HandleRuns(q) PROVE \E step : Goes(q, step)
  BY <1>4 DEF RunBegins, HandleRuns, ServerCreates, CreateFails, ClaimQueue, HandleReads
<1>5. CASE RunBegins(p)
  BY <1>3, <1>5 DEF RunBegins
<1>6. CASE ServerCreates(p)
  BY <1>3, <1>6 DEF ServerCreates
<1>7. CASE CreateFails(p)
  BY <1>3, <1>7 DEF CreateFails
<1>8. CASE ClaimQueue(p)
  BY <1>3, <1>8 DEF ClaimQueue
<1>9. CASE HandleReads(p)
  <2>1. \E step \in {"broken", "incomplete", "done", "reading"} : Goes(p, step)
    BY <1>9 DEF HandleReads, AtEnd
  <2>2. pc[p] = "reading"
    BY <1>9 DEF HandleReads
  <2> QED BY <1>3, <1>9, <2>1, <2>2
<1> QED BY <1>2, <1>4, <1>5, <1>6, <1>7, <1>8, <1>9, HandleSteps DEF HandleRuns

\* What a step emits of a subprocess, and when.
Spawns(p) == Emit(Event("spawn", p)) /\ pc[p] = "creating" /\ pc'[p] = "created"
Writes(p) == Emit(Event("output", p)) /\ p \in running
Exits(p) == Emit(ExitOf(p)) /\ p \in running /\ p \notin running'
Silent(p) ==
    /\ p \in running' => p \in running
    /\ \A i \in DOMAIN emitted' : i \in DOMAIN emitted \/ emitted'[i].spid # p

\* What a step may do to a process's part of the stream.
LEMMA StreamSteps ==
    ASSUME TypeServer, TypeCalls, [Next]_vars, NEW p \in Procs
    PROVE  Spawns(p) \/ Writes(p) \/ Exits(p) \/ Silent(p)
<1> DEFINE Goal == Spawns(p) \/ Writes(p) \/ Exits(p) \/ Silent(p)
<1>1. ASSUME NEW e \in Events, e.spid # p, Emit(e), p \in running' => p \in running
      PROVE  Silent(p)
  BY <1>1 DEF Silent, Emit, TypeServer
<1>2. ASSUME NEW q \in Procs, Output(q) PROVE Goal
  <2>1. CASE q = p
    BY <1>2, <2>1 DEF Output, Writes
  <2>2. CASE q # p
    BY <1>1, <1>2, <2>2, EventFacts DEF Output
  <2> QED BY <2>1, <2>2
<1>3. ASSUME NEW q \in Procs, Exit(q) PROVE Goal
  <2>1. CASE q = p
    BY <1>3, <2>1 DEF Exit, Exits, ExitOf
  <2>2. CASE q # p
    BY <1>1, <1>3, <2>2, EventFacts DEF Exit
  <2> QED BY <2>1, <2>2
<1>4. ASSUME NEW q \in Procs, ServerCreates(q) PROVE Goal
  <2>1. CASE q = p
    <3>1. p \in Calls
      BY DEF Calls
    <3> QED BY <1>4, <2>1, <3>1 DEF ServerCreates, Spawns, Goes, TypeCalls
  <2>2. CASE q # p
    BY <1>1, <1>4, <2>2, EventFacts DEF ServerCreates
  <2> QED BY <2>1, <2>2
<1>5. CASE CapsOutput
  BY <1>1, <1>5, EventFacts DEF CapsOutput
<1>6. CASE OperationEnds
  <2>1. /\ Event("exit", Main).spid = Main /\ Completion.spid # p /\ Main # p
        /\ <<Event("exit", Main), Completion>> \in Seq(Events)
    BY EventFacts
  <2>2. emitted' = emitted \o <<Event("exit", Main), Completion>> /\ running' = {}
    BY <1>6 DEF OperationEnds
  <2>3. ASSUME NEW i \in DOMAIN emitted', i \notin DOMAIN emitted
        PROVE  emitted'[i] \in {Event("exit", Main), Completion}
    BY <2>1, <2>2, <2>3 DEF TypeServer
  <2> QED BY <2>1, <2>2, <2>3 DEF Silent
<1>7. ASSUME NEW c, CancelAsks(c) PROVE Goal
  <2>1. CASE UNCHANGED serverVars
    BY <2>1 DEF Silent, serverVars
  <2>2. CASE running' = {} /\ Emit(Completion)
    BY <1>1, <2>2, EventFacts
  <2> QED BY <1>7, <2>1, <2>2 DEF CancelAsks
<1>8. ASSUME NEW t \in Pipes, PipeKills(t) PROVE Goal
  <2>1. CASE UNCHANGED serverVars
    BY <2>1 DEF Silent, serverVars
  <2>2. CASE t \in running /\ running' = running \ {t} /\ Emit(Event("exit", t)) /\ t # p
    BY <1>1, <2>2, EventFacts DEF TypeServer
  <2>3. CASE t \in running /\ running' = running \ {t} /\ Emit(Event("exit", t)) /\ t = p
    BY <2>3 DEF Exits, ExitOf
  <2> QED BY <1>8, <2>1, <2>2, <2>3 DEF PipeKills
<1>9. CASE UNCHANGED <<emitted, running, outcome>>
  BY <1>9 DEF Silent
<1> QED BY <1>2, <1>3, <1>4, <1>5, <1>6, <1>7, <1>8, <1>9, ServerSteps

\* No event comes before its process was created, none after its exit.
LEMMA ServerKeeps ==
    ASSUME TypeServer, TypeCalls, ServerInv, [Next]_vars
    PROVE  ServerInv'
<1>1. SUFFICES ASSUME NEW p \in Procs
               PROVE  /\ pc'[p] \in {"idle", "creating"} =>
                           p \notin running' /\ \A i \in DOMAIN emitted' : emitted'[i].spid # p
                      /\ \A j \in DOMAIN emitted' : emitted'[j] = ExitOf(p) =>
                           p \notin running' /\ \A i \in DOMAIN emitted' : emitted'[i].spid = p => i <= j
  BY DEF ServerInv, ExitOf
<1>2. pc'[p] \in {"idle", "creating"} => pc[p] \in {"idle", "creating"}
  BY HandleMoves
<1>3. /\ pc[p] \in {"idle", "creating"} =>
           p \notin running /\ \A i \in DOMAIN emitted : emitted[i].spid # p
      /\ \A j \in DOMAIN emitted : emitted[j] = ExitOf(p) =>
           p \notin running /\ \A i \in DOMAIN emitted : emitted[i].spid = p => i <= j
  BY DEF ServerInv
<1>4. /\ ExitOf(p).spid = p /\ ExitOf(p) # Event("spawn", p) /\ ExitOf(p) # Event("output", p)
      /\ Event("spawn", p) \in Events /\ Event("output", p) \in Events /\ ExitOf(p) \in Events
  BY EventFacts DEF ExitOf
<1>5. DOMAIN emitted = 1 .. Len(emitted) /\ Len(emitted) \in Nat
  BY DEF TypeServer
<1>6. \A i \in DOMAIN emitted : i \in DOMAIN emitted' /\ emitted'[i] = emitted[i]
  BY <1>5, StreamGrows DEF TypeServer
<1>7. ASSUME NEW e \in Events, Emit(e)
      PROVE  /\ DOMAIN emitted' = 1 .. Len(emitted) + 1 /\ emitted'[Len(emitted) + 1] = e
             /\ \A i \in 1 .. Len(emitted) : emitted'[i] = emitted[i]
  BY <1>7 DEF Emit, TypeServer
<1>8. CASE Spawns(p)
  <2>1. pc'[p] \notin {"idle", "creating"} /\ \A i \in DOMAIN emitted : emitted[i].spid # p
    BY <1>3, <1>8 DEF Spawns
  <2>2. \A j \in DOMAIN emitted' : emitted'[j] # ExitOf(p)
    BY <1>4, <1>5, <1>7, <1>8, <2>1 DEF Spawns
  <2> QED BY <2>1, <2>2
<1>9. CASE Writes(p)
  <2>1. pc'[p] \notin {"idle", "creating"} /\ \A j \in DOMAIN emitted : emitted[j] # ExitOf(p)
    BY <1>2, <1>3, <1>9 DEF Writes
  <2>2. \A j \in DOMAIN emitted' : emitted'[j] # ExitOf(p)
    BY <1>4, <1>5, <1>7, <1>9, <2>1 DEF Writes
  <2> QED BY <2>1, <2>2
<1>10. CASE Exits(p)
  <2>1. /\ pc'[p] \notin {"idle", "creating"} /\ \A j \in DOMAIN emitted : emitted[j] # ExitOf(p)
        /\ p \notin running'
    BY <1>2, <1>3, <1>10 DEF Exits
  <2>2. \A j \in DOMAIN emitted' : emitted'[j] = ExitOf(p) => j = Len(emitted) + 1
    BY <1>4, <1>5, <1>7, <1>10, <2>1 DEF Exits
  <2>3. \A i \in DOMAIN emitted' : i <= Len(emitted) + 1
    BY <1>4, <1>5, <1>7, <1>10 DEF Exits
  <2> QED BY <2>1, <2>2, <2>3
<1>11. CASE Silent(p)
  <2>1. \A i \in DOMAIN emitted' : emitted'[i].spid = p => i \in DOMAIN emitted /\ emitted'[i] = emitted[i]
    BY <1>6, <1>11 DEF Silent
  <2>2. \A j \in DOMAIN emitted' : emitted'[j] = ExitOf(p) => j \in DOMAIN emitted /\ emitted[j] = ExitOf(p)
    BY <1>4, <2>1
  <2> QED BY <1>2, <1>3, <1>11, <2>1, <2>2 DEF Silent
<1> QED BY <1>8, <1>9, <1>10, <1>11, StreamSteps

-----------------------------------------------------------------------------
(* Handles and their queues.                                               *)

\* Whether the handle of p gets the event that is routed: in its queue, in a
\* buffer that is begun with it, or in one that is there already.
Wants(p, e) == e.spid = p \/ e = SizeCap
Queued(p, e) ==
    /\ p \in claimed /\ Wants(p, e)
    /\ queues'[p] = Append(queues[p], e) /\ pendingEvents'[p] = pendingEvents[p]
Kept(p, e) ==
    /\ p \notin claimed /\ queues'[p] = queues[p]
    /\ \/ e.spid = p /\ pendingEvents'[p] = Buffered(p, e)
       \/ e = SizeCap /\ pendingEvents[p] # <<>> /\ pendingEvents'[p] = Append(pendingEvents[p], e)
PassedBy(p, e) ==
    /\ e.spid # p /\ (e = SizeCap => p \notin claimed /\ pendingEvents[p] = <<>>)
    /\ queues'[p] = queues[p] /\ pendingEvents'[p] = pendingEvents[p]

\* What routing one event does to one process's queue and buffer.
LEMMA RoutesOne ==
    ASSUME TypeServer, TypeReader, TypeQueues, ReaderInv, ReaderRoutes, NEW p \in Procs,
           p \in claimed => pendingEvents[p] = <<>>
    PROVE  /\ UNCHANGED <<emitted, remembered, terminal, claimed, read, pc>> /\ ~terminal
           /\ IF emitted[remembered] = SizeCap THEN sizeCap' = TRUE ELSE UNCHANGED sizeCap
           /\ \/ Queued(p, emitted[remembered]) \/ Kept(p, emitted[remembered])
              \/ PassedBy(p, emitted[remembered])
<1> DEFINE e == emitted[remembered]
<1>1. /\ UNCHANGED <<emitted, remembered, terminal, claimed, read, pc>> /\ ~terminal
      /\ e \in Events /\ Route(e)
  BY Routing DEF ReaderRoutes, callVars, serverVars, ReaderInv
<1> HIDE DEF e
<1>2. SizeCap.spid \notin Procs
  BY EventFacts
<1>3. CASE e = SizeCap
  <2>1. /\ sizeCap' = TRUE
        /\ queues'[p] = IF p \in claimed THEN Append(queues[p], e) ELSE queues[p]
        /\ pendingEvents'[p] = IF pendingEvents[p] # <<>> THEN Append(pendingEvents[p], e) ELSE <<>>
    BY <1>1, <1>2, <1>3 DEF Route, TypeQueues
  <2>2. Queued(p, e) \/ Kept(p, e) \/ PassedBy(p, e)
    BY <1>2, <1>3, <2>1 DEF Queued, Kept, PassedBy, Wants
  <2> QED BY <1>1, <1>3, <2>1, <2>2 DEF e
<1>4. CASE e # SizeCap
  <2>1. UNCHANGED sizeCap
    BY <1>1, <1>4 DEF Route
  <2>2. Queued(p, e) \/ Kept(p, e) \/ PassedBy(p, e)
    <3>1. CASE e.spid \in claimed
      <4>1. queues' = [queues EXCEPT ![e.spid] = Append(@, e)] /\ UNCHANGED pendingEvents
        BY <1>1, <1>4, <3>1 DEF Route, TypeQueues
      <4> QED BY <1>4, <3>1, <4>1 DEF Queued, PassedBy, Wants, TypeQueues
    <3>2. CASE e.spid \in Procs \ claimed
      <4>1. pendingEvents' = [pendingEvents EXCEPT ![e.spid] = Buffered(e.spid, e)] /\ UNCHANGED queues
        BY <1>1, <1>4, <3>2 DEF Route
      <4> QED BY <1>4, <3>2, <4>1 DEF Kept, PassedBy, TypeQueues
    <3>3. CASE e.spid \notin Procs
      BY <1>1, <1>4, <3>3 DEF Route, PassedBy, TypeQueues
    <3> QED BY <3>1, <3>2, <3>3
  <2> QED BY <1>1, <1>4, <2>1, <2>2 DEF e
<1> QED BY <1>3, <1>4

\* What a claim gives to the handle.
Waited(p) == IF pendingEvents[p] = <<>> /\ sizeCap THEN <<SizeCap>> ELSE pendingEvents[p]

\* What a claim does: the buffered events are the queue, closed if the stream is.
LEMMA ClaimsOne ==
    ASSUME TypeQueues, TypeCalls, NEW p \in Procs, ClaimQueue(p)
    PROVE  /\ UNCHANGED <<emitted, remembered, reader, terminal, sizeCap, read>>
           /\ Waited(p) \in Seq(Events)
           /\ pendingEvents'[p] = <<>> /\ pc'[p] = "reading" /\ (terminal \/ p \in claimed')
           /\ queues'[p] = IF terminal THEN Append(Waited(p), End) ELSE Waited(p)
           /\ \A q \in Procs \ {p} : /\ pc'[q] = pc[q] /\ (q \in claimed' <=> q \in claimed)
                                     /\ queues'[q] = queues[q] /\ pendingEvents'[q] = pendingEvents[q]
<1>1. Procs \subseteq Calls
  BY DEF Calls
<1>2. Waited(p) \in Seq(Events)
  BY EventFacts DEF Waited, TypeQueues
<1>3. /\ Goes(p, "reading") /\ queues' = [queues EXCEPT ![p] = ClosedIfTerminal(Waited(p))]
      /\ claimed' = IF terminal THEN claimed ELSE claimed \cup {p}
      /\ pendingEvents' = [pendingEvents EXCEPT ![p] = <<>>]
      /\ UNCHANGED <<emitted, remembered, reader, terminal, sizeCap, read>>
  BY DEF ClaimQueue, Waited, serverVars, readerVars
<1> QED BY <1>1, <1>2, <1>3 DEF Goes, ClosedIfTerminal, TypeQueues, TypeCalls

\* What a handle reads.
LEMMA ReadsOne ==
    ASSUME TypeQueues, TypeCalls, NEW p \in Procs, HandleReads(p)
    PROVE  /\ UNCHANGED <<emitted, remembered, reader, terminal, sizeCap, claimed, pendingEvents>>
           /\ queues[p] \in Seq(Events \cup {End}) /\ queues[p] # <<>> /\ queues'[p] = Tail(queues[p])
           /\ \/ /\ Head(queues[p]) = End /\ read'[p] = read[p] /\ pc'[p] \in {"broken", "incomplete"}
              \/ /\ Head(queues[p]) \in Events /\ read'[p] = Append(read[p], Head(queues[p]))
                 /\ Head(queues[p]).type = "exit" => pc'[p] = "done"
                 /\ Head(queues[p]).type # "exit" => pc'[p] = "reading"
           /\ pc[p] = "reading"
           /\ \A q \in Procs \ {p} :
                pc'[q] = pc[q] /\ queues'[q] = queues[q] /\ read'[q] = read[q]
<1> DEFINE item == Head(queues[p])
<1>1. Procs \subseteq Calls
  BY DEF Calls
<1>2. queues[p] \in Seq(Events \cup {End}) /\ queues[p] # <<>> /\ pc[p] = "reading"
  BY DEF HandleReads, TypeQueues
<1>3. item = End \/ item \in Events
  BY <1>2, ItemsOfTail
<1>4. /\ UNCHANGED <<emitted, remembered, reader, terminal, sizeCap, claimed, pendingEvents>>
      /\ queues' = [queues EXCEPT ![p] = Tail(@)]
  BY DEF HandleReads, serverVars, readerVars
<1>5. \E step : Goes(p, step)
  BY DEF HandleReads
<1>6. CASE item = End
  <2>1. read' = read /\ Goes(p, AtEnd)
    <3>1. item.type # "exit"
      BY <1>6 DEF End, Event
    <3> QED BY <1>6, <3>1 DEF HandleReads
  <2>2. AtEnd \in {"broken", "incomplete"}
    BY DEF AtEnd
  <2> QED BY <1>1, <1>2, <1>4, <1>6, <2>1, <2>2 DEF Goes, TypeQueues, TypeCalls
<1>7. CASE item \in Events
  <2>1. item # End
    BY <1>7, EventFacts
  <2>2. /\ read' = [read EXCEPT ![p] = Append(@, item)]
        /\ item.type = "exit" => Goes(p, "done")
        /\ item.type # "exit" => Goes(p, "reading")
    BY <2>1 DEF HandleReads
  <2> HIDE DEF item
  <2>3. \A q \in Procs \ {p} : read'[q] = read[q]
    BY <2>2 DEF TypeQueues
  <2>4. read'[p] = Append(read[p], item)
    BY <2>2 DEF TypeQueues
  <2>5. /\ item.type = "exit" => pc'[p] = "done"
        /\ item.type # "exit" => pc'[p] = "reading"
    BY <1>1, <2>2 DEF Goes, TypeCalls
  <2>6. \A q \in Procs \ {p} : pc'[q] = pc[q]
    BY <1>1, <1>5 DEF Goes, TypeCalls
  <2>7. queues'[p] = Tail(queues[p]) /\ \A q \in Procs \ {p} : queues'[q] = queues[q]
    BY <1>4 DEF TypeQueues
  <2> QED BY <1>2, <1>4, <1>7, <2>3, <2>4, <2>5, <2>6, <2>7 DEF item
<1> QED BY <1>3, <1>6, <1>7

\* Only the end of the reader makes the stream terminal.
LEMMA TerminalSteps ==
    ASSUME [Next]_vars
    PROVE  UNCHANGED terminal \/ ReaderEnds
  BY ReaderSteps DEF ReaderRuns, ReaderTakes, ReaderRoutes, ReaderCloses, ReaderTells, StreamStops, JoinTimesOut

\* A handle has its queue from its claim on, and its end once the stream ended.
LEMMA HandleKeeps ==
    ASSUME TypeServer, TypeReader, TypeQueues, TypeCalls, ReaderInv, HandleInv, [Next]_vars
    PROVE  HandleInv'
<1> DEFINE
      Closed(q) == q # <<>> /\ q[Len(q)] = End
      Idle(p) == ~Reads(p) => p \notin claimed /\ read[p] = <<>> /\ queues[p] = <<>>
      Kept1(p) == Reads(p) => pendingEvents[p] = <<>> /\ (terminal \/ p \in claimed)
      Ends(p) == pc[p] = "reading" /\ terminal => Closed(queues[p])
<1>1. SUFFICES ASSUME NEW p \in Procs PROVE Idle(p)' /\ Kept1(p)' /\ Ends(p)'
  BY DEF HandleInv
<1>2. Idle(p) /\ Kept1(p) /\ Ends(p)
  BY DEF HandleInv
<1>3. p \in claimed => pendingEvents[p] = <<>>
  BY <1>2
<1>4. queues[p] \in Seq(Events \cup {End})
  BY DEF TypeQueues
<1>5. CASE ReaderRoutes
  <2> DEFINE e == emitted[remembered]
  <2>1. /\ UNCHANGED <<terminal, claimed, read, pc>> /\ ~terminal
        /\ Queued(p, e) \/ Kept(p, e) \/ PassedBy(p, e)
    BY <1>3, <1>5, RoutesOne
  <2> HIDE DEF e
  <2>2. CASE Queued(p, e)
    BY <1>2, <2>1, <2>2 DEF Queued, Reads
  <2>3. CASE Kept(p, e)
    BY <1>2, <2>1, <2>3 DEF Kept, Reads
  <2>4. CASE PassedBy(p, e)
    BY <1>2, <2>1, <2>4 DEF PassedBy, Reads
  <2> QED BY <2>1, <2>2, <2>3, <2>4
<1>6. CASE ReaderEnds
  <2>1. /\ UNCHANGED <<claimed, read, pc, pendingEvents>> /\ ~terminal /\ terminal' = TRUE
        /\ queues'[p] = IF p \in claimed THEN Append(queues[p], End) ELSE queues[p]
    BY <1>6 DEF ReaderEnds, callVars, ReaderInv
  <2>2. Closed(Append(queues[p], End))
    BY <1>4
  <2>3. Idle(p)' /\ Kept1(p)'
    BY <1>2, <2>1 DEF Reads
  <2>4. Ends(p)'
    <3>1. pc[p] = "reading" => p \in claimed
      BY <1>2, <2>1 DEF Reads
    <3> QED BY <2>1, <2>2, <3>1
  <2> QED BY <2>3, <2>4
<1>7. ASSUME NEW q \in Procs, ClaimQueue(q) PROVE Idle(p)' /\ Kept1(p)' /\ Ends(p)'
  <2>1. UNCHANGED <<terminal, read>>
    BY <1>7, ClaimsOne
  <2>2. CASE q = p
    <3>1. /\ pendingEvents'[p] = <<>> /\ pc'[p] = "reading" /\ (terminal \/ p \in claimed')
          /\ Waited(p) \in Seq(Events) /\ queues'[p] = IF terminal THEN Append(Waited(p), End) ELSE Waited(p)
      BY <1>7, <2>2, ClaimsOne
    <3>2. Closed(Append(Waited(p), End))
      BY <3>1
    <3> QED BY <2>1, <3>1, <3>2 DEF Reads
  <2>3. CASE q # p
    <3>1. /\ pc'[p] = pc[p] /\ (p \in claimed' <=> p \in claimed)
          /\ queues'[p] = queues[p] /\ pendingEvents'[p] = pendingEvents[p]
      BY <1>7, <2>3, ClaimsOne
    <3> QED BY <1>2, <2>1, <3>1 DEF Reads
  <2> QED BY <2>2, <2>3
<1>8. ASSUME NEW q \in Procs, HandleReads(q) PROVE Idle(p)' /\ Kept1(p)' /\ Ends(p)'
  <2>1. UNCHANGED <<terminal, claimed, pendingEvents>>
    BY <1>8, ReadsOne
  <2>2. CASE q = p
    <3>1. /\ queues[p] # <<>> /\ queues'[p] = Tail(queues[p]) /\ pc[p] = "reading"
          /\ pc'[p] \in {"reading", "done", "broken", "incomplete"}
          /\ pc'[p] = "reading" => Head(queues[p]) \in Events
      BY <1>8, <2>2, ReadsOne
    <3>2. Idle(p)' /\ Kept1(p)'
      BY <1>2, <2>1, <3>1 DEF Reads
    <3>3. ASSUME pc'[p] = "reading", terminal PROVE Closed(Tail(queues[p]))
      <4>1. queues[p][1] # End /\ queues[p][Len(queues[p])] = End
        BY <1>2, <1>4, <3>1, <3>3, EventFacts, ItemsOfTail
      <4> QED BY <1>4, <3>1, <4>1
    <3> QED BY <2>1, <3>1, <3>2, <3>3
  <2>3. CASE q # p
    <3>1. pc'[p] = pc[p] /\ queues'[p] = queues[p] /\ read'[p] = read[p]
      BY <1>8, <2>3, ReadsOne
    <3> QED BY <1>2, <2>1, <3>1 DEF Reads
  <2> QED BY <2>2, <2>3
<1>9. CASE UNCHANGED <<queueVars, read>> /\ ~ReaderEnds /\ \A q \in Procs : ~ClaimQueue(q) /\ ~HandleReads(q)
  <2>1. UNCHANGED <<terminal, claimed, pendingEvents, queues, read>>
    BY <1>9, TerminalSteps DEF queueVars
  <2>2. Reads(p)' = Reads(p) /\ (pc'[p] = "reading" <=> pc[p] = "reading")
    BY <1>9, HandleMoves DEF Reads
  <2> QED BY <1>2, <2>1, <2>2
<1> QED BY <1>5, <1>6, <1>7, <1>8, <1>9, QueueSteps

-----------------------------------------------------------------------------
(* What the reader has delivered.                                          *)

\* What was routed stays routed.
LEMMA RoutedSteps ==
    ASSUME TypeServer, TypeReader, ReaderInv, [Next]_vars
    PROVE  /\ Upto(emitted, Routed) \subseteq Upto(emitted, Routed)'
           /\ Routes' => Routes
           /\ \/ ReaderRoutes /\ Upto(emitted, Routed)' = Upto(emitted, Routed) \cup {emitted[remembered]}
              \/ ~ReaderRoutes /\ (Routes' => Upto(emitted, Routed)' = Upto(emitted, Routed))
<1>1. /\ Len(emitted) \in Nat /\ Len(emitted') \in Nat /\ Len(emitted) <= Len(emitted')
      /\ \A i \in 1 .. Len(emitted) : emitted'[i] = emitted[i]
      /\ remembered \in Nat /\ remembered <= Len(emitted) /\ (reader = "routing" => remembered > 0)
  BY StreamGrows DEF TypeServer, TypeReader, ReaderInv
<1>2. Routed \in Nat /\ Routed <= Len(emitted)
  BY <1>1 DEF Routed
<1>3. \A n \in 0 .. Len(emitted) : Upto(emitted', n) = Upto(emitted, n)
  BY <1>1 DEF Upto
<1>4. \A m, n \in Nat : m <= n => Upto(emitted', m) \subseteq Upto(emitted', n)
  BY DEF Upto
<1>5. CASE ReaderRoutes
  <2>1. reader = "routing" /\ reader' = "streaming" /\ remembered' = remembered /\ emitted' = emitted
    BY <1>5 DEF ReaderRoutes, serverVars
  <2>2. Routed = remembered - 1 /\ Routed' = remembered
    BY <2>1 DEF Routed
  <2>3. Upto(emitted, remembered) = Upto(emitted, remembered - 1) \cup {emitted[remembered]}
    BY <1>1, <2>1 DEF Upto
  <2> QED BY <1>5, <2>1, <2>2, <2>3 DEF Routes
<1>6. CASE ~ReaderRoutes
  <2>1. Routed' \in Nat /\ Routed <= Routed' /\ (Routes' => Routes /\ Routed' = Routed)
    <3>1. CASE ReaderTakes
      <4>1. reader = "streaming" /\ reader' \in {"routing", "closing"}
        BY <3>1 DEF ReaderTakes
      <4>2. \/ remembered' = remembered + 1
            \/ remembered' = remembered /\ reader' = "closing"
        BY <3>1 DEF ReaderTakes
      <4> QED BY <1>1, <4>1, <4>2 DEF Routed, Routes
    <3>2. CASE ReaderCloses \/ ReaderEnds \/ ReaderTells \/ StreamStops
      <4>1. /\ reader \in {"streaming", "closing", "ending", "telling"}
            /\ reader' \in {"closing", "ending", "telling", "finished"} /\ remembered' = remembered
        BY <3>2 DEF ReaderCloses, ReaderEnds, ReaderTells, StreamStops
      <4> QED BY <1>1, <4>1 DEF Routed, Routes
    <3>3. ASSUME NEW s, JoinTimesOut(s)
          PROVE  Routed' \in Nat /\ Routed <= Routed' /\ (Routes' => Routes /\ Routed' = Routed)
      <4>1. remembered' = remembered /\ (reader' = reader \/ reader' \in {"closing", "dead"})
        BY <3>3 DEF JoinTimesOut
      <4> QED BY <1>1, <4>1 DEF Routed, Routes
    <3>4. CASE (StartReader \/ UNCHANGED reader) /\ UNCHANGED remembered
      BY <1>1, <3>4 DEF Routed, Routes, StartReader
    <3> QED BY <1>6, <3>1, <3>2, <3>3, <3>4, ReaderSteps DEF ReaderRuns
  <2> QED BY <1>2, <1>3, <1>4, <1>6, <2>1
<1> QED BY <1>5, <1>6

\* The reader knows of the size cap exactly once it has routed it.
LEMMA CapKeeps ==
    ASSUME TypeServer, TypeReader, TypeQueues, TypeCalls, ReaderInv, CapInv, HandleInv, [Next]_vars
    PROVE  CapInv'
<1>1. CASE ReaderRoutes
  <2>1. IF emitted[remembered] = SizeCap THEN sizeCap' = TRUE ELSE UNCHANGED sizeCap
    <3> DEFINE e == emitted[remembered]
    <3>1. Route(e) /\ e \in Events
      BY <1>1, Routing
    <3> HIDE DEF e
    <3>2. SizeCap.spid \notin claimed /\ SizeCap.spid \notin Procs
      BY EventFacts DEF TypeQueues
    <3>3. IF e = SizeCap THEN sizeCap' = TRUE ELSE UNCHANGED sizeCap
      BY <3>1, <3>2 DEF Route
    <3> QED BY <3>3 DEF e
  <2>2. Routes /\ Routes' /\ Upto(emitted, Routed)' = Upto(emitted, Routed) \cup {emitted[remembered]}
    BY <1>1, RoutedSteps DEF Routes, ReaderRoutes
  <2> QED BY <2>1, <2>2 DEF CapInv
<1>2. CASE ~ReaderRoutes
  <2>1. UNCHANGED sizeCap
    BY <1>2, QueueSteps DEF ReaderEnds, ClaimQueue, HandleReads, queueVars
  <2>2. Routes' => Routes /\ Upto(emitted, Routed)' = Upto(emitted, Routed)
    BY <1>2, RoutedSteps
  <2> QED BY <2>1, <2>2 DEF CapInv
<1> QED BY <1>1, <1>2

\* What was routed for a process is in its buffer, its queue or with its reader,
\* and nothing else is.
LEMMA ArrivalKeeps ==
    ASSUME TypeServer, TypeReader, TypeQueues, TypeCalls, ReaderInv, HandleInv, ArrivalInv, [Next]_vars
    PROVE  ArrivalInv'
<1> DEFINE
      Mine(p) == \A e \in Arrived(p) : e \in {SizeCap, End} \/ (e.spid = p /\ e \in Upto(emitted, Routed))
      Capped(p) == SizeCap \in Arrived(p) => sizeCap
      Given(p) == Routes => \A e \in Upto(emitted, Routed) : e.spid = p => e \in Arrived(p)
      Told(p) == Routes /\ sizeCap /\ (p \in claimed \/ pendingEvents[p] # <<>>) => SizeCap \in Arrived(p)
      Goal(p) == Mine(p)' /\ Capped(p)' /\ Given(p)' /\ Told(p)'
<1>1. SUFFICES ASSUME NEW p \in Procs PROVE Goal(p)
  BY DEF ArrivalInv
<1>2. Mine(p) /\ Capped(p) /\ Given(p) /\ Told(p)
  BY DEF ArrivalInv
<1>3. /\ queues[p] \in Seq(Events \cup {End}) /\ pendingEvents[p] \in Seq(Events) /\ read[p] \in Seq(Events)
      /\ claimed \subseteq Procs
  BY DEF TypeQueues
<1>4. /\ p \in claimed => pendingEvents[p] = <<>>
      /\ ~Reads(p) => p \notin claimed /\ read[p] = <<>> /\ queues[p] = <<>>
      /\ Reads(p) => pendingEvents[p] = <<>> /\ (terminal \/ p \in claimed)
  BY DEF HandleInv
<1>5. SizeCap.spid # p /\ End.spid # p /\ SizeCap # End /\ SizeCap \in Events
  BY EventFacts
<1> HIDE DEF Goal
<1>6. CASE ReaderRoutes
  <2> DEFINE e == emitted[remembered]
  <2>1. /\ UNCHANGED <<claimed, read>> /\ ~terminal /\ (IF e = SizeCap THEN sizeCap' = TRUE ELSE UNCHANGED sizeCap)
        /\ Queued(p, e) \/ Kept(p, e) \/ PassedBy(p, e)
    BY <1>4, <1>6, RoutesOne
  <2>2. Upto(emitted, Routed)' = Upto(emitted, Routed) \cup {e} /\ Routes
    BY <1>6, RoutedSteps DEF Routes, ReaderRoutes
  <2>3. e \in Events
    BY <1>6, Routing
  <2> HIDE DEF e
  <2>4. ASSUME Arrived(p)' = Arrived(p) \cup {e}, Wants(p, e),
               sizeCap /\ (p \in claimed \/ pendingEvents'[p] # <<>>) => SizeCap \in Arrived(p)
        PROVE  Goal(p)
    BY <1>2, <1>5, <2>1, <2>2, <2>4 DEF Goal, Wants
  <2>5. CASE Queued(p, e)
    <3>1. Arrived(p)' = Arrived(p) \cup {e}
      BY <1>3, <2>1, <2>3, <2>5, ItemsOfAppend DEF Queued, Arrived
    <3> QED BY <1>2, <1>4, <2>2, <2>4, <2>5, <3>1 DEF Queued
  <2>6. CASE Kept(p, e) /\ (pendingEvents[p] # <<>> \/ ~sizeCap)
    <3>1. pendingEvents'[p] = Append(pendingEvents[p], e) /\ queues'[p] = queues[p] /\ Wants(p, e)
      BY <2>6 DEF Kept, Buffered, Wants
    <3>2. Arrived(p)' = Arrived(p) \cup {e}
      BY <1>3, <2>1, <2>3, <3>1, ItemsOfAppend DEF Arrived
    <3> QED BY <1>2, <2>2, <2>4, <2>6, <3>1, <3>2 DEF Kept
  <2>7. CASE Kept(p, e) /\ pendingEvents[p] = <<>> /\ sizeCap
    <3>1. pendingEvents'[p] = <<SizeCap, e>> /\ queues'[p] = queues[p] /\ e.spid = p
      BY <2>7 DEF Kept, Buffered
    <3>2. Items(<<SizeCap, e>>) = {SizeCap, e}
      BY DEF Items, Upto
    <3>3. Arrived(p)' = Arrived(p) \cup {SizeCap, e}
      BY <2>1, <2>7, <3>1, <3>2, ItemsOfNone DEF Arrived
    <3>4. e # SizeCap /\ sizeCap' = sizeCap
      BY <1>5, <2>1, <3>1
    <3> QED BY <1>2, <1>5, <2>1, <2>2, <2>7, <3>1, <3>3, <3>4 DEF Goal
  <2>8. CASE PassedBy(p, e)
    <3>1. Arrived(p)' = Arrived(p)
      BY <2>1, <2>8 DEF Arrived, PassedBy
    <3>2. e.spid # p /\ (e = SizeCap => p \notin claimed /\ pendingEvents'[p] = <<>>) /\ pendingEvents'[p] = pendingEvents[p]
      BY <2>8 DEF PassedBy
    <3> QED BY <1>2, <2>1, <2>2, <3>1, <3>2 DEF Goal
  <2> QED BY <2>1, <2>5, <2>6, <2>7, <2>8
<1>7. ASSUME ~ReaderRoutes,
             Arrived(p)' \subseteq Arrived(p) \cup {End, SizeCap}, SizeCap \in Arrived(p)' => sizeCap, UNCHANGED sizeCap,
             Routes' => /\ \A e \in Arrived(p) : e # End => e \in Arrived(p)'
                        /\ sizeCap /\ (p \in claimed' \/ pendingEvents'[p] # <<>>) => SizeCap \in Arrived(p)'
      PROVE  Goal(p)
  <2>1. Upto(emitted, Routed) \subseteq Upto(emitted, Routed)'
    BY RoutedSteps
  <2>2. Routes' => Routes /\ Upto(emitted, Routed)' = Upto(emitted, Routed)
    BY <1>7, RoutedSteps
  <2>3. Mine(p)' /\ Capped(p)'
    BY <1>2, <1>7, <2>1
  <2>4. Given(p)' /\ Told(p)'
    BY <1>2, <1>5, <1>7, <2>2
  <2> QED BY <2>3, <2>4 DEF Goal
<1>8. CASE ReaderEnds
  <2>1. /\ UNCHANGED <<sizeCap, pendingEvents, claimed, read>> /\ reader' = "telling" /\ reader = "ending"
        /\ queues'[p] = IF p \in claimed THEN Append(queues[p], End) ELSE queues[p]
    BY <1>8 DEF ReaderEnds, callVars
  <2>2. Items(queues'[p]) \subseteq Items(queues[p]) \cup {End}
    BY <1>3, <2>1, ItemsOfAppend
  <2>3. Arrived(p)' \subseteq Arrived(p) \cup {End}
    BY <2>1, <2>2 DEF Arrived
  <2>4. ~ReaderRoutes /\ ~Routes'
    BY <2>1 DEF ReaderRoutes, Routes
  <2> QED BY <1>2, <1>5, <1>7, <2>1, <2>3, <2>4
<1>9. ASSUME NEW q \in Procs, ClaimQueue(q), ~ReaderRoutes PROVE Goal(p)
  <2>1. UNCHANGED <<sizeCap, read>>
    BY <1>9, ClaimsOne
  <2>2. CASE q = p
    <3>1. /\ pendingEvents'[p] = <<>> /\ Waited(p) \in Seq(Events)
          /\ queues'[p] = IF terminal THEN Append(Waited(p), End) ELSE Waited(p)
      BY <1>9, <2>2, ClaimsOne
    <3>2. Waited(p) \in Seq(Events \cup {End})
      BY <3>1
    <3>3. \/ Items(queues'[p]) = Items(Waited(p)) \cup {End}
          \/ Items(queues'[p]) = Items(Waited(p))
      BY <3>1, <3>2, ItemsOfAppend
    <3>4. pc[p] = "created"
      BY <1>9, <2>2 DEF ClaimQueue
    <3>5. read[p] = <<>> /\ queues[p] = <<>>
      BY <1>4, <3>4 DEF Reads
    <3>6. Arrived(p) = Items(pendingEvents[p]) /\ Arrived(p)' = Items(queues'[p])
      BY <2>1, <3>1, <3>5, ItemsOfNone DEF Arrived
    <3>7. \/ Items(Waited(p)) = Arrived(p) /\ (pendingEvents[p] # <<>> \/ ~sizeCap)
          \/ Items(Waited(p)) = {SizeCap} /\ Arrived(p) = {} /\ sizeCap
      BY <3>6, ItemsOfNone DEF Waited
    <3> QED
      <4>1. /\ Arrived(p)' \subseteq Arrived(p) \cup {End, SizeCap} /\ (SizeCap \in Arrived(p)' => sizeCap)
            /\ \A e \in Arrived(p) : e \in Arrived(p)'
        BY <1>2, <1>5, <3>3, <3>6, <3>7
      <4>2. Routes' => Routes
        BY RoutedSteps
      <4>3. Routes' /\ sizeCap => SizeCap \in Arrived(p)'
        BY <1>2, <3>3, <3>6, <3>7, <4>2
      <4> QED BY <1>7, <1>9, <2>1, <4>1, <4>3
  <2>3. CASE q # p
    <3>1. /\ p \in claimed' <=> p \in claimed
          /\ queues'[p] = queues[p] /\ pendingEvents'[p] = pendingEvents[p]
      BY <1>9, <2>3, ClaimsOne
    <3>2. Arrived(p)' = Arrived(p)
      BY <2>1, <3>1 DEF Arrived
    <3> QED BY <1>2, <1>7, <1>9, <2>1, <3>1, <3>2, RoutedSteps
  <2> QED BY <2>2, <2>3
<1>10. ASSUME NEW q \in Procs, HandleReads(q), ~ReaderRoutes PROVE Goal(p)
  <2>1. UNCHANGED <<sizeCap, claimed, pendingEvents>>
    BY <1>10, ReadsOne
  <2>2. /\ Arrived(p)' \subseteq Arrived(p) /\ \A e \in Arrived(p) : e # End => e \in Arrived(p)'
    <3>1. CASE q = p
      <4>1. /\ queues[p] # <<>> /\ queues'[p] = Tail(queues[p])
            /\ \/ Head(queues[p]) = End /\ read'[p] = read[p]
               \/ Head(queues[p]) \in Events /\ read'[p] = Append(read[p], Head(queues[p]))
        BY <1>10, <3>1, ReadsOne
      <4>2. Items(queues[p]) = {Head(queues[p])} \cup Items(queues'[p])
        BY <1>3, <4>1, ItemsOfTail
      <4>3. ASSUME NEW e \in Events PROVE Items(Append(read[p], e)) = Items(read[p]) \cup {e}
        BY <1>3, ItemsOfAppend
      <4>4. \/ Head(queues[p]) = End /\ Items(read'[p]) = Items(read[p])
            \/ Items(read'[p]) = Items(read[p]) \cup {Head(queues[p])}
        BY <4>1, <4>3
      <4> QED BY <2>1, <4>2, <4>4 DEF Arrived
    <3>2. CASE q # p
      <4>1. queues'[p] = queues[p] /\ read'[p] = read[p]
        BY <1>10, <3>2, ReadsOne
      <4> QED BY <2>1, <4>1 DEF Arrived
    <3> QED BY <3>1, <3>2
  <2> QED BY <1>2, <1>5, <1>7, <1>10, <2>1, <2>2, RoutedSteps
<1>11. CASE UNCHANGED <<queueVars, read>> /\ ~ReaderRoutes
  <2>1. UNCHANGED <<sizeCap, claimed, pendingEvents>> /\ Arrived(p)' = Arrived(p)
    BY <1>11 DEF queueVars, Arrived
  <2> QED BY <1>2, <1>7, <1>11, <2>1, RoutedSteps
<1> QED BY <1>6, <1>8, <1>9, <1>10, <1>11, QueueSteps

-----------------------------------------------------------------------------
(* What precedes an exit.                                                  *)

\* Only the events of p and the size cap count.
LEMMA WholeOf ==
    ASSUME NEW p \in Procs, NEW A, NEW B, Whole(p, A),
           \A e \in {Event("spawn", p), Event("output", p), SizeCap} : e \in A <=> e \in B
    PROVE  Whole(p, B)
  BY DEF Whole

\* Once the exit is in the stream nothing that counts is added to it.
LEMMA WholeStays ==
    ASSUME TypeServer, TypeCalls, ServerInv, [Next]_vars,
           NEW p \in Procs, InStream(ExitOf(p)), NEW seen, Whole(p, seen)
    PROVE  Whole(p, seen)'
<1>1. /\ ExitOf(p).spid = p /\ Event("spawn", p).spid = p /\ Event("output", p).spid = p
  BY EventFacts DEF ExitOf
<1>2. PICK j \in DOMAIN emitted : emitted[j] = ExitOf(p)
  BY DEF InStream
<1>3. \A i \in DOMAIN emitted : i \in DOMAIN emitted' /\ emitted'[i] = emitted[i]
  BY StreamGrows DEF TypeServer
<1>4. DOMAIN emitted = 1 .. Len(emitted) /\ DOMAIN emitted' = 1 .. Len(emitted') /\ Len(emitted) \in Nat
  BY StreamGrows DEF TypeServer
<1>5. \A i \in DOMAIN emitted' : emitted'[i].spid = p => i \in DOMAIN emitted /\ emitted'[i] = emitted[i]
  <2>1. ServerInv'
    BY ServerKeeps
  <2>2. \A i \in DOMAIN emitted' : emitted'[i].spid = p => i <= j
    BY <1>2, <1>3, <2>1 DEF ServerInv, ExitOf
  <2> QED BY <1>2, <1>3, <1>4, <2>2
<1>6. \A e \in {Event("spawn", p), Event("output", p)} : InStream(e)' => InStream(e)
  BY <1>1, <1>5 DEF InStream
<1>7. CapBefore(p)' <=> CapBefore(p)
  <2>1. \A k \in DOMAIN emitted : emitted[k] = ExitOf(p) <=> emitted'[k] = ExitOf(p)
    BY <1>3
  <2>2. \A k \in DOMAIN emitted' : emitted'[k] = ExitOf(p) => k \in DOMAIN emitted
    BY <1>1, <1>5
  <2>3. \A k \in DOMAIN emitted : \A i \in 1 .. k - 1 : emitted'[i] = emitted[i]
    BY <1>3, <1>4
  <2>4. CapBefore(p)' => CapBefore(p)
    BY <2>1, <2>2, <2>3 DEF CapBefore, ExitOf
  <2>5. CapBefore(p) => CapBefore(p)'
    BY <1>3, <2>1, <2>3 DEF CapBefore, ExitOf
  <2> QED BY <2>4, <2>5
<1> QED BY <1>6, <1>7 DEF Whole

\* When the exit of p is routed everything that counts was routed before.
LEMMA WholeAtExit ==
    ASSUME TypeServer, TypeReader, ReaderInv, ServerInv, CapInv, reader = "routing",
           NEW p \in Procs, emitted[remembered] = ExitOf(p), NEW seen,
           \A e \in Upto(emitted, Routed) : e.spid = p => e \in seen,
           SizeCap \in seen <=> sizeCap
    PROVE  Whole(p, seen)
<1>1. remembered \in DOMAIN emitted /\ DOMAIN emitted = 1 .. Len(emitted) /\ Len(emitted) \in Nat
  BY DEF TypeServer, TypeReader, ReaderInv
<1>2. Routed = remembered - 1 /\ Routes
  BY DEF Routed, Routes
<1>3. \A e \in {Event("spawn", p), Event("output", p), ExitOf(p)} : e.spid = p
  BY EventFacts DEF ExitOf
<1>4. ExitOf(p) \notin {Event("spawn", p), Event("output", p)}
  BY DEF ExitOf, Event
<1>5. \A i \in DOMAIN emitted : emitted[i].spid = p => i <= remembered
  BY <1>1 DEF ServerInv
<1>6. ASSUME NEW e \in {Event("spawn", p), Event("output", p)}, InStream(e) PROVE e \in seen
  <2>1. PICK i \in DOMAIN emitted : emitted[i] = e
    BY <1>6 DEF InStream
  <2>2. e.spid = p /\ i <= remembered /\ i # remembered
    BY <1>3, <1>4, <1>5, <2>1
  <2>3. i \in 1 .. Routed
    BY <1>1, <1>2, <2>2
  <2> QED BY <2>1, <2>2, <2>3 DEF Upto
<1>7. CapBefore(p) <=> SizeCap \in Upto(emitted, Routed)
  <2>1. ASSUME CapBefore(p) PROVE SizeCap \in Upto(emitted, Routed)
    <3>1. PICK j \in DOMAIN emitted : emitted[j] = ExitOf(p) /\ \E i \in 1 .. j - 1 : emitted[i] = SizeCap
      BY <2>1 DEF CapBefore, ExitOf
    <3>2. PICK i \in 1 .. j - 1 : emitted[i] = SizeCap
      BY <3>1
    <3>3. j <= remembered
      BY <1>3, <1>5, <3>1
    <3>4. i \in 1 .. Routed
      BY <1>1, <1>2, <3>3
    <3> QED BY <3>2, <3>4 DEF Upto
  <2>2. ASSUME SizeCap \in Upto(emitted, Routed) PROVE CapBefore(p)
    BY <1>1, <1>2, <2>2 DEF CapBefore, Upto, ExitOf
  <2> QED BY <2>1, <2>2
<1>8. sizeCap <=> SizeCap \in Upto(emitted, Routed)
  BY <1>2 DEF CapInv
<1> QED BY <1>6, <1>7, <1>8 DEF Whole

\* An item put at the end of an ordered queue, after what must precede it.
LEMMA InOrderAppend ==
    ASSUME NEW p, NEW seen, NEW S, NEW s \in Seq(S), NEW e \in S, InOrder(p, seen, s),
           e = ExitOf(p) => Whole(p, seen \cup Items(s))
    PROVE  InOrder(p, seen, Append(s, e))
<1> DEFINE t == Append(s, e)
<1>1. /\ DOMAIN t = 1 .. Len(s) + 1 /\ t[Len(s) + 1] = e /\ Len(s) \in Nat /\ DOMAIN s = 1 .. Len(s)
      /\ \A i \in 1 .. Len(s) : t[i] = s[i]
  OBVIOUS
<1>2. \A n \in 0 .. Len(s) : Upto(t, n) = Upto(s, n)
  BY ItemsOfAppend
<1> HIDE DEF t
<1>3. SUFFICES ASSUME NEW k \in DOMAIN t, t[k] = ExitOf(p)
               PROVE  Whole(p, seen \cup Upto(t, k - 1))
  BY DEF InOrder, t
<1>4. CASE k \in 1 .. Len(s)
  <2>1. k \in DOMAIN s /\ s[k] = ExitOf(p) /\ k - 1 \in 0 .. Len(s)
    BY <1>1, <1>3, <1>4
  <2>2. Upto(t, k - 1) = Upto(s, k - 1)
    BY <1>2, <2>1
  <2> QED BY <2>1, <2>2 DEF InOrder
<1>5. CASE k = Len(s) + 1
  <2>1. Upto(t, k - 1) = Items(s) /\ e = ExitOf(p)
    BY <1>1, <1>2, <1>3, <1>5 DEF Items
  <2> QED BY <2>1
<1> QED BY <1>1, <1>4, <1>5

\* Reading the first item leaves the rest in order.
LEMMA InOrderTail ==
    ASSUME NEW p, NEW seen, NEW S, NEW s \in Seq(S), s # <<>>, InOrder(p, seen, s)
    PROVE  /\ InOrder(p, seen \cup {Head(s)}, Tail(s))
           /\ Head(s) = ExitOf(p) => Whole(p, seen)
<1>1. /\ Len(s) \in Nat \ {0} /\ DOMAIN s = 1 .. Len(s) /\ DOMAIN Tail(s) = 1 .. Len(s) - 1 /\ Head(s) = s[1]
      /\ \A i \in 1 .. Len(s) - 1 : Tail(s)[i] = s[i + 1]
  OBVIOUS
<1>2. ASSUME NEW k \in DOMAIN Tail(s), Tail(s)[k] = ExitOf(p)
      PROVE  Whole(p, (seen \cup {Head(s)}) \cup Upto(Tail(s), k - 1))
  <2>1. k + 1 \in DOMAIN s /\ s[k + 1] = ExitOf(p) /\ k - 1 \in 0 .. Len(s) - 1 /\ k \in Nat
    BY <1>1, <1>2
  <2>2. Whole(p, seen \cup Upto(s, (k + 1) - 1))
    BY <2>1 DEF InOrder
  <2>3. Upto(s, (k - 1) + 1) = {Head(s)} \cup Upto(Tail(s), k - 1)
    BY <2>1, ItemsOfTail
  <2>4. (k + 1) - 1 = (k - 1) + 1
    BY <2>1
  <2>5. seen \cup Upto(s, (k + 1) - 1) = (seen \cup {Head(s)}) \cup Upto(Tail(s), k - 1)
    BY <2>3, <2>4
  <2> QED BY <2>2, <2>5
<1>3. ASSUME Head(s) = ExitOf(p) PROVE Whole(p, seen)
  <2>1. 1 \in DOMAIN s /\ Whole(p, seen \cup Upto(s, 0))
    BY <1>1, <1>3 DEF InOrder
  <2> QED BY <2>1, ItemsOfNone
<1> QED BY <1>2, <1>3 DEF InOrder

\* What was seen may be replaced by what holds the same events of p.
LEMMA InOrderOf ==
    ASSUME NEW p \in Procs, NEW A, NEW B, NEW s, InOrder(p, A, s),
           \A e \in {Event("spawn", p), Event("output", p), SizeCap} : e \in A <=> e \in B
    PROVE  InOrder(p, B, s)
<1>1. ASSUME NEW k \in DOMAIN s, s[k] = ExitOf(p) PROVE Whole(p, B \cup Upto(s, k - 1))
  <2>1. Whole(p, A \cup Upto(s, k - 1))
    BY <1>1 DEF InOrder
  <2> QED BY <2>1, WholeOf
<1> QED BY <1>1 DEF InOrder

\* What is ordered stays so while the stream stays.
LEMMA OrderedSame ==
    ASSUME UNCHANGED emitted, NEW p, NEW A, NEW s, NEW w, NEW step, Ordered(p, A, s, w, step)
    PROVE  Ordered(p, A, s, w, step)'
<1>1. /\ \A e : InStream(e)' <=> InStream(e)
      /\ CapBefore(p)' <=> CapBefore(p)
  BY DEF InStream, CapBefore
<1> QED BY <1>1 DEF Ordered, InOrder, Whole

\* What is ordered stays so while the stream grows: nothing follows an exit.
LEMMA OrderedStays ==
    ASSUME TypeServer, TypeCalls, ServerInv, [Next]_vars, NEW p \in Procs,
           NEW A, NEW s, NEW w, NEW step, Ordered(p, A, s, w, step),
           DOMAIN s = 1 .. Len(s), DOMAIN w = 1 .. Len(w),
           ExitOf(p) \in A \cup Items(s) \cup Items(w) => InStream(ExitOf(p))
    PROVE  Ordered(p, A, s, w, step)'
<1>1. ASSUME NEW t \in {s, w}, NEW seen, InOrder(p, seen, t) PROVE InOrder(p, seen, t)'
  <2>1. ASSUME NEW k \in DOMAIN t, t[k] = ExitOf(p) PROVE Whole(p, seen \cup Upto(t, k - 1))'
    <3>1. ExitOf(p) \in Items(s) \cup Items(w)
      BY <2>1 DEF Items, Upto
    <3>2. Whole(p, seen \cup Upto(t, k - 1))
      BY <1>1, <2>1 DEF InOrder
    <3> QED BY <3>1, <3>2, WholeStays
  <2> QED BY <2>1 DEF InOrder, ExitOf
<1>2. ASSUME ExitOf(p) \in A, Whole(p, A) PROVE Whole(p, A)'
  BY <1>2, WholeStays
<1> QED BY <1>1, <1>2 DEF Ordered, ExitOf

\* Every exit, waiting or read, is preceded by all that its process did.
LEMMA OrderKeeps ==
    ASSUME TypeServer, TypeReader, TypeQueues, TypeCalls, ReaderInv, ServerInv, HandleInv, ArrivalInv, CapInv,
           OrderInv, [Next]_vars
    PROVE  OrderInv'
<1>1. SUFFICES ASSUME NEW p \in Procs, NEW A, NEW s, NEW w, NEW step, A = Items(read'[p]),
                      s = queues'[p], w = pendingEvents'[p], step = pc'[p]
               PROVE  Ordered(p, A, s, w, step)'
  BY DEF OrderInv, Ordered, InOrder, Whole
<1>2. /\ InOrder(p, Items(read[p]), queues[p]) /\ InOrder(p, {}, pendingEvents[p])
      /\ pc[p] = "done" => ExitOf(p) \in Items(read[p]) /\ Whole(p, Items(read[p]))
  BY DEF OrderInv, Ordered
<1>3. /\ queues[p] \in Seq(Events \cup {End}) /\ pendingEvents[p] \in Seq(Events) /\ read[p] \in Seq(Events)
  BY DEF TypeQueues
<1>4. /\ p \in claimed => pendingEvents[p] = <<>>
      /\ ~Reads(p) => p \notin claimed /\ read[p] = <<>> /\ queues[p] = <<>>
      /\ Reads(p) => pendingEvents[p] = <<>> /\ (terminal \/ p \in claimed)
  BY DEF HandleInv
<1>5. /\ \A e \in Arrived(p) : e \in {SizeCap, End} \/ (e.spid = p /\ e \in Upto(emitted, Routed))
      /\ SizeCap \in Arrived(p) => sizeCap
      /\ Routes => /\ \A e \in Upto(emitted, Routed) : e.spid = p => e \in Arrived(p)
                   /\ sizeCap /\ (p \in claimed \/ pendingEvents[p] # <<>>) => SizeCap \in Arrived(p)
  BY DEF ArrivalInv
<1>6. /\ ExitOf(p) \in Events /\ ExitOf(p).spid = p /\ ExitOf(p).type = "exit"
      /\ ExitOf(p) # SizeCap /\ ExitOf(p) # End
      /\ ExitOf(p) \notin {Event("spawn", p), Event("output", p)} /\ SizeCap \in Events /\ SizeCap # End
      /\ End \notin {Event("spawn", p), Event("output", p)}
  BY EventFacts DEF ExitOf, Event, End
<1>7. CASE ReaderRoutes
  <2> DEFINE e == emitted[remembered]
  <2>1. /\ UNCHANGED <<emitted, read, pc>> /\ ~terminal
        /\ Queued(p, e) \/ Kept(p, e) \/ PassedBy(p, e)
    BY <1>4, <1>7, RoutesOne
  <2>2. e \in Events /\ reader = "routing" /\ Routes
    BY <1>7, Routing DEF ReaderRoutes, Routes
  <2>3. A = Items(read[p]) /\ step = pc[p]
    BY <1>1, <2>1
  <2>4. ASSUME e = ExitOf(p), NEW seen, \A x \in Arrived(p) : x.spid = p => x \in seen, SizeCap \in seen <=> sizeCap
        PROVE  Whole(p, seen)
    BY <1>5, <2>2, <2>4, WholeAtExit
  <2> HIDE DEF e
  <2>5. CASE Queued(p, e)
    <3>1. /\ p \in claimed /\ s = Append(queues[p], e) /\ w = pendingEvents[p] /\ pendingEvents[p] = <<>>
      BY <1>1, <1>4, <2>5 DEF Queued
    <3>2. Arrived(p) = A \cup Items(queues[p])
      BY <2>3, <3>1, ItemsOfNone DEF Arrived
    <3>3. e = ExitOf(p) => Whole(p, A \cup Items(queues[p]))
      BY <1>5, <2>2, <2>4, <3>1, <3>2
    <3>4. InOrder(p, A, s)
      BY <1>2, <1>3, <2>2, <2>3, <3>1, <3>3, InOrderAppend
    <3> QED BY <1>2, <2>1, <2>3, <3>1, <3>4, OrderedSame DEF Ordered
  <2>6. CASE Kept(p, e)
    <3>1. p \notin claimed /\ s = queues[p]
      BY <1>1, <2>6 DEF Kept
    <3>2. Arrived(p) = Items(pendingEvents[p])
      BY <1>4, <2>1, <3>1, ItemsOfNone DEF Arrived
    <3>3. CASE pendingEvents[p] # <<>> \/ ~sizeCap
      <4>1. w = Append(pendingEvents[p], e)
        BY <1>1, <2>6, <3>3 DEF Kept, Buffered
      <4>2. e = ExitOf(p) => Whole(p, Items(pendingEvents[p]))
        BY <1>5, <2>2, <2>4, <3>2, <3>3
      <4>3. InOrder(p, {}, w)
        BY <1>2, <1>3, <2>2, <4>1, <4>2, InOrderAppend
      <4> QED BY <1>2, <2>1, <2>3, <3>1, <4>3, OrderedSame DEF Ordered
    <3>4. CASE pendingEvents[p] = <<>> /\ sizeCap
      <4>1. w \in {<<SizeCap, e>>, Append(<<>>, e)}
        BY <1>1, <2>6, <3>4 DEF Kept, Buffered
      <4>2. e.spid = p /\ w = <<SizeCap, e>>
        BY <1>1, <2>6, <3>4 DEF Kept, Buffered
      <4>3. Arrived(p) = {}
        BY <3>2, <3>4, ItemsOfNone
      <4>4. e = ExitOf(p) => Whole(p, {SizeCap})
        BY <2>4, <3>4, <4>3
      <4>5. InOrder(p, {}, <<SizeCap>>)
        BY <1>6 DEF InOrder
      <4>6. w = Append(<<SizeCap>>, e) /\ <<SizeCap>> \in Seq(Events) /\ Items(<<SizeCap>>) = {SizeCap}
        BY <1>6, <4>2, ItemsOfNone
      <4>7. InOrder(p, {}, w)
        BY <2>2, <4>4, <4>5, <4>6, InOrderAppend
      <4> QED BY <1>2, <2>1, <2>3, <3>1, <4>7, OrderedSame DEF Ordered
    <3> QED BY <3>3, <3>4
  <2>7. CASE PassedBy(p, e)
    <3>1. s = queues[p] /\ w = pendingEvents[p]
      BY <1>1, <2>7 DEF PassedBy
    <3> QED BY <1>2, <2>1, <2>3, <3>1, OrderedSame DEF Ordered
  <2> QED BY <2>1, <2>5, <2>6, <2>7
<1>8. CASE ReaderEnds
  <2>1. /\ UNCHANGED <<emitted, pendingEvents, claimed, read, pc>>
        /\ queues'[p] = IF p \in claimed THEN Append(queues[p], End) ELSE queues[p]
    BY <1>8 DEF ReaderEnds, callVars, serverVars
  <2>2. InOrder(p, Items(read[p]), Append(queues[p], End))
    BY <1>2, <1>3, <1>6, InOrderAppend
  <2>3. InOrder(p, A, s) /\ A = Items(read[p]) /\ w = pendingEvents[p] /\ step = pc[p]
    BY <1>1, <1>2, <2>1, <2>2
  <2> QED BY <1>2, <2>1, <2>3, OrderedSame DEF Ordered
<1>9. ASSUME NEW q \in Procs, ClaimQueue(q) PROVE Ordered(p, A, s, w, step)'
  <2>1. UNCHANGED <<emitted, read>>
    BY <1>9, ClaimsOne
  <2>2. CASE q = p
    <3>1. /\ pendingEvents'[p] = <<>> /\ pc'[p] = "reading" /\ Waited(p) \in Seq(Events)
          /\ queues'[p] = IF terminal THEN Append(Waited(p), End) ELSE Waited(p)
      BY <1>9, <2>2, ClaimsOne
    <3>2. read[p] = <<>>
      BY <1>4, <1>9, <2>2 DEF ClaimQueue, Reads
    <3>3. A = {} /\ w = <<>> /\ step = "reading"
      BY <1>1, <2>1, <3>1, <3>2, ItemsOfNone
    <3>4. InOrder(p, {}, <<SizeCap>>)
      BY <1>6 DEF InOrder
    <3>5. InOrder(p, {}, Waited(p))
      BY <1>2, <3>4 DEF Waited
    <3>6. Waited(p) \in Seq(Events \cup {End})
      BY <3>1
    <3>7. InOrder(p, {}, Append(Waited(p), End))
      BY <1>6, <3>5, <3>6, InOrderAppend
    <3>8. InOrder(p, A, s)
      BY <1>1, <3>1, <3>3, <3>5, <3>7
    <3>9. InOrder(p, {}, w)
      BY <3>3 DEF InOrder
    <3>10. Ordered(p, A, s, w, step)
      BY <3>3, <3>8, <3>9 DEF Ordered
    <3> QED BY <2>1, <3>10, OrderedSame
  <2>3. CASE q # p
    <3>1. s = queues[p] /\ w = pendingEvents[p] /\ A = Items(read[p]) /\ step = pc[p]
      BY <1>1, <1>9, <2>1, <2>3, ClaimsOne
    <3> QED BY <1>2, <2>1, <3>1, OrderedSame DEF Ordered
  <2> QED BY <2>2, <2>3
<1>10. ASSUME NEW q \in Procs, HandleReads(q) PROVE Ordered(p, A, s, w, step)'
  <2>1. UNCHANGED <<emitted, pendingEvents>> /\ w = pendingEvents[p]
    BY <1>1, <1>10, ReadsOne
  <2>2. CASE q = p
    <3> DEFINE item == Head(queues[p])
    <3>1. /\ queues[p] # <<>> /\ s = Tail(queues[p])
          /\ \/ item = End /\ read'[p] = read[p] /\ step \in {"broken", "incomplete"}
             \/ /\ item \in Events /\ read'[p] = Append(read[p], item)
                /\ item.type = "exit" => step = "done"
                /\ item.type # "exit" => step = "reading"
      BY <1>1, <1>10, <2>2, ReadsOne
    <3>2. /\ InOrder(p, Items(read[p]) \cup {item}, s)
          /\ item = ExitOf(p) => Whole(p, Items(read[p]))
      BY <1>2, <1>3, <3>1, InOrderTail
    <3>3. item \in Arrived(p)
      BY <1>3, <3>1, ItemsOfTail DEF Arrived
    <3> HIDE DEF item
    <3>4. CASE item = End
      <4>1. A = Items(read[p]) /\ step # "done"
        BY <1>1, <1>6, <3>1, <3>4, EventFacts
      <4>2. InOrder(p, A, s)
        BY <1>6, <3>2, <3>4, <4>1, InOrderOf
      <4> QED BY <1>2, <2>1, <4>1, <4>2, OrderedSame DEF Ordered
    <3>5. CASE item \in Events /\ item # End
      <4>1. A = Items(read[p]) \cup {item} /\ (step = "done" => item.type = "exit")
        <5>1. Items(Append(read[p], item)) = Items(read[p]) \cup {item}
          BY <1>3, <3>5, ItemsOfAppend
        <5> QED BY <1>1, <3>1, <3>5, <5>1
      <4>2. ASSUME step = "done" PROVE item = ExitOf(p)
        <5>1. item # SizeCap
          BY <4>1, <4>2 DEF SizeCap, Event
        <5>2. item.spid = p
          BY <1>5, <3>3, <3>5, <5>1
        <5>3. item \in {Event("spawn", p), Event("output", p), Event("exit", p)}
          BY <3>5, <5>2, EventFacts
        <5> QED BY <4>1, <4>2, <5>3 DEF ExitOf, Event
      <4>3. ASSUME step = "done" PROVE ExitOf(p) \in A /\ Whole(p, A)
        <5>1. item = ExitOf(p) /\ Whole(p, Items(read[p]))
          BY <3>2, <4>2, <4>3
        <5> QED BY <1>6, <4>1, <5>1, WholeOf
      <4> QED BY <1>2, <2>1, <3>2, <4>1, <4>3, OrderedSame DEF Ordered
    <3> QED BY <1>6, <3>1, <3>4, <3>5
  <2>3. CASE q # p
    <3>1. s = queues[p] /\ A = Items(read[p]) /\ step = pc[p]
      BY <1>1, <1>10, <2>3, ReadsOne
    <3> QED BY <1>2, <2>1, <3>1, OrderedSame DEF Ordered
  <2> QED BY <2>2, <2>3
<1>11. CASE UNCHANGED <<queueVars, read>> /\ \A q \in Procs : ~HandleReads(q)
  <2>1. s = queues[p] /\ w = pendingEvents[p] /\ A = Items(read[p])
    BY <1>1, <1>11 DEF queueVars
  <2>2. step = "done" => pc[p] = "done"
    BY <1>1, <1>11, HandleMoves
  <2>3. ExitOf(p) \in A \cup Items(s) \cup Items(w) => InStream(ExitOf(p))
    <3>1. ASSUME ExitOf(p) \in Arrived(p) PROVE ExitOf(p) \in Upto(emitted, Routed)
      BY <1>5, <1>6, <3>1
    <3>2. 1 .. Routed \subseteq DOMAIN emitted
      BY DEF TypeReader, TypeServer, ReaderInv, Routed
    <3> QED BY <2>1, <3>1, <3>2 DEF Arrived, Upto, InStream
  <2>4. DOMAIN s = 1 .. Len(s) /\ DOMAIN w = 1 .. Len(w)
    BY <1>3, <2>1
  <2>5. Ordered(p, A, s, w, step)
    BY <1>2, <2>1, <2>2 DEF Ordered
  <2> QED BY <2>3, <2>4, <2>5, OrderedStays
<1> QED BY <1>7, <1>8, <1>9, <1>10, <1>11, QueueSteps

-----------------------------------------------------------------------------
(* The theorems.                                                           *)

\* Initially nothing has been delivered, nor created.
LEMMA InitIInv == Init => IInv
<1> SUFFICES ASSUME Init PROVE IInv
  OBVIOUS
<1>1. TypeInv /\ PipeInv /\ ReaderInv
  BY InitTypes
<1>2. /\ emitted = <<Event("spawn", Main)>> /\ remembered = 0 /\ reader \in {"none", "streaming"}
      /\ sizeCap = FALSE /\ running = {} /\ claimed = {} /\ Routed = 0
  BY DEF Init, Routed
<1>3. \A p \in Procs : /\ pc[p] = "idle" /\ read[p] = <<>> /\ queues[p] = <<>> /\ pendingEvents[p] = <<>>
  BY DEF Init, Calls
<1>4. ServerInv
  <2>1. \A i \in DOMAIN emitted : emitted[i] = Event("spawn", Main)
    BY <1>2
  <2>2. \A p \in Procs : Event("spawn", Main).spid # p /\ Event("spawn", Main) # ExitOf(p)
    BY EventFacts DEF ExitOf, Event
  <2> QED BY <1>2, <2>1, <2>2 DEF ServerInv, ExitOf
<1>5. HandleInv
  BY <1>2, <1>3 DEF HandleInv, Reads
<1>6. Upto(emitted, Routed) = {} /\ \A p \in Procs : Arrived(p) = {}
  BY <1>2, <1>3, ItemsOfNone DEF Arrived
<1>7. ArrivalInv /\ CapInv
  BY <1>2, <1>6 DEF ArrivalInv, CapInv
<1>8. OrderInv
  <2>1. \A p, seen : InOrder(p, seen, <<>>)
    BY DEF InOrder
  <2> QED BY <1>3, <2>1 DEF OrderInv, Ordered
<1> QED BY <1>1, <1>4, <1>5, <1>7, <1>8 DEF IInv

\* Every step keeps the invariant.
LEMMA NextIInv == IInv /\ [Next]_vars => IInv'
<1> SUFFICES ASSUME IInv, [Next]_vars PROVE IInv'
  OBVIOUS
<1> USE DEF IInv, TypeInv
<1>1. TypeServer'
  BY StreamGrows
<1>2. TypeReader' /\ ReaderInv'
  BY ReaderTypes
<1>3. TypeQueues'
  BY QueueTypes
<1>4. TypeCalls'
  BY CallTypes
<1>5. TypeCancel'
  BY CancelTypes
<1>6. TypePipes' /\ PipeInv'
  BY WriterSteps
<1>7. ServerInv'
  BY ServerKeeps
<1>8. HandleInv'
  BY HandleKeeps
<1>9. ArrivalInv'
  BY ArrivalKeeps
<1>10. CapInv'
  BY CapKeeps
<1>11. OrderInv'
  BY OrderKeeps
<1> QED BY <1>1, <1>2, <1>3, <1>4, <1>5, <1>6, <1>7, <1>8, <1>9, <1>10, <1>11

\* Every behaviour of an operation keeps the inductive invariant: what the
\* reader task or thread routed, and nothing else, has reached the handle, the
\* queue or the buffer of its process, in the server's order.
THEOREM Inductive == Spec => []IInv
  BY InitIInv, NextIInv, PTL DEF Spec

\* The reader's flags, queues and counters have their types: what a handle
\* reads, what waits for it and what the stream gave are events of this operation.
THEOREM TypesKept == Spec => []TypeOK
<1>1. TypeInv => TypeOK
  BY DEF TypeInv, TypeServer, TypeReader, TypeQueues, TypeCalls, TypeCancel, TypePipes, TypeOK
<1> QED BY <1>1, Inductive, PTL DEF IInv

\* A handle that reads after the end of the stream finds the end of its queue,
\* whether it claimed the queue before the reader ended or after (claim_queue).
THEOREM HandlesFindTheEnd == Spec => []EndReachesHandles
<1>1. HandleInv => EndReachesHandles
  BY DEF HandleInv, EndReachesHandles
<1> QED BY <1>1, Inductive, PTL DEF IInv

\* pipe_stdin() that returns has counted the parts that were received, each
\* once, and reports EOF exactly if it was delivered.
THEOREM StdinIsAccounted == Spec => []StdinAccounted
<1>1. TypePipes /\ PipeInv => StdinAccounted
  <2> SUFFICES ASSUME TypePipes, PipeInv, NEW t \in Pipes, pipe[t] \in {"done", "exited"}
               PROVE  stdin[t] = [parts |-> sent[t], eof |-> eofSent[t]]
    BY DEF StdinAccounted
  <2>1. stdin[t] \in [parts : 0 .. Chunks, eof : BOOLEAN]
    BY DEF TypePipes
  <2>2. stdin[t].parts = sent[t] /\ stdin[t].eof = eofSent[t]
    BY DEF PipeInv, PipeOk
  <2> QED BY <2>1, <2>2
<1> QED BY <1>1, Inductive, PTL DEF IInv, TypeInv

\* A handle's result is what the server did for its process: spawned and wrote
\* as the server says, and marked truncated exactly if the size cap was emitted
\* before the exit, whatever of the answer and the events came first.
THEOREM ResultsAreWhole == Spec => []ResultIsWhole
<1>1. TypeInv /\ ReaderInv /\ ArrivalInv /\ OrderInv => ResultIsWhole
  <2> SUFFICES ASSUME TypeInv, ReaderInv, ArrivalInv, OrderInv, NEW p \in Procs, pc[p] = "done"
               PROVE  Collected(read[p]) = [spawned   |-> InStream(Event("spawn", p)),
                                            output    |-> InStream(Event("output", p)),
                                            truncated |-> CapBefore(p)]
    BY DEF ResultIsWhole
  <2>1. Whole(p, Items(read[p]))
    BY DEF OrderInv, Ordered
  <2>2. read[p] \in Seq(Events) /\ DOMAIN read[p] = 1 .. Len(read[p])
    BY DEF TypeInv, TypeQueues
  <2>3. \A i \in DOMAIN read[p] : read[p][i] \in Items(read[p]) /\ read[p][i] \in Events
    BY <2>2 DEF Items, Upto
  <2>4. \A e \in Items(read[p]) : \E i \in DOMAIN read[p] : read[p][i] = e
    BY <2>2 DEF Items, Upto
  <2>5. ASSUME NEW i \in DOMAIN read[p]
        PROVE  \/ read[p][i] = SizeCap
               \/ /\ read[p][i] \in {Event("spawn", p), Event("output", p), Event("exit", p)}
                  /\ InStream(read[p][i])
    <3> DEFINE e == read[p][i]
    <3>1. e \in Arrived(p) /\ e \in Events
      BY <2>3 DEF Arrived
    <3> HIDE DEF e
    <3>2. e = SizeCap \/ (e.spid = p /\ e \in Upto(emitted, Routed))
      BY <3>1, EventFacts DEF ArrivalInv
    <3>3. e.spid = p => e \in {Event("spawn", p), Event("output", p), Event("exit", p)}
      BY <3>1, EventFacts
    <3>4. 1 .. Routed \subseteq DOMAIN emitted
      BY DEF TypeInv, TypeReader, TypeServer, ReaderInv, Routed
    <3>5. e \in Upto(emitted, Routed) => InStream(e)
      BY <3>4 DEF Upto, InStream
    <3> QED BY <3>2, <3>3, <3>5 DEF e
  <2>6. /\ Event("spawn", p).type = "spawn" /\ Event("output", p).type = "output"
        /\ Event("exit", p).type = "exit" /\ SizeCap.type = "size_cap"
    BY DEF Event, SizeCap
  <2>7. (\E i \in DOMAIN read[p] : read[p][i].type = "spawn") <=> InStream(Event("spawn", p))
    BY <2>1, <2>4, <2>5, <2>6 DEF Whole
  <2>8. (\E i \in DOMAIN read[p] : read[p][i].type = "output") <=> InStream(Event("output", p))
    BY <2>1, <2>4, <2>5, <2>6 DEF Whole
  <2>9. (\E i \in DOMAIN read[p] : read[p][i] = SizeCap) <=> CapBefore(p)
    BY <2>1, <2>3, <2>4 DEF Whole
  <2>10. /\ InStream(Event("spawn", p)) \in BOOLEAN /\ InStream(Event("output", p)) \in BOOLEAN
         /\ CapBefore(p) \in BOOLEAN
    BY DEF InStream, CapBefore
  <2>11. /\ (\E i \in DOMAIN read[p] : read[p][i].type = "spawn") = InStream(Event("spawn", p))
         /\ (\E i \in DOMAIN read[p] : read[p][i].type = "output") = InStream(Event("output", p))
         /\ (\E i \in DOMAIN read[p] : read[p][i] = SizeCap) = CapBefore(p)
    BY <2>7, <2>8, <2>9, <2>10
  <2> QED BY <2>11 DEF Collected
<1> QED BY <1>1, Inductive, PTL DEF IInv

=============================================================================
