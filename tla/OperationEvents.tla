-------------------------- MODULE OperationEvents --------------------------
(***************************************************************************)
(* AsyncOperation and Operation: one reader of the server's event stream   *)
(* serves every subprocess handle, events() subscription, wait() and       *)
(* pipe_stdin() of the operation, and shutdown() ends it.  The asyncio and *)
(* the threaded class have the same steps; where they differ the module    *)
(* allows both, and says so.                                               *)
(***************************************************************************)
EXTENDS Sequences, Naturals, FiniteSets

CONSTANTS
    Procs,      \* subprocesses: one run() and the handle it returns for each
    Waits,      \* calls of operation.wait()
    Follows,    \* subscriptions with events()
    Shutdowns,  \* exits of the operation's context
    Pipes,      \* processes with a pipe_stdin() writer: subprocesses, or Main
    Talkers,    \* subprocesses that may write output
    Main,       \* spid 1, the operation's own process
    NoOne,
    Chunks,     \* parts in a writer's source
    Lag,        \* bound: events of processes that the transport holds unread
    Racing      \* bound: calls and writers that begin in one behaviour

Calls == Procs \cup Waits \cup Follows \cup Shutdowns

ASSUME OperationAssumption ==
    /\ Procs \cap (Waits \cup Follows \cup Shutdowns) = {}
    /\ Waits \cap (Follows \cup Shutdowns) = {} /\ Follows \cap Shutdowns = {}
    /\ Pipes \subseteq Procs \cup {Main} /\ Talkers \subseteq Procs /\ Main \notin Calls
    /\ NoOne \notin Calls \cup {Main} /\ {Chunks, Lag, Racing} \subseteq Nat

VARIABLES
    \* the server
    emitted,            \* every event of the operation so far
    running,            \* subprocesses that run
    outcome,            \* "running", "cancelled" or "ended", well or not
    stdin,              \* stdin[t]: [parts, eof] that t has received
    \* the reader task or thread, pump()
    reader, remembered, \* its step; how many events are in self.history
    streamError, terminal, terminalEvent,
    sizeCap, pendingEvents, queues, claimed,
    \* the calls
    pc, read, cursor, response, cancelRequested, canceller, failing,
    pipe, sent, eofSent

serverVars == <<emitted, running, outcome, stdin>>
readerVars == <<reader, remembered, streamError, terminal, terminalEvent>>
queueVars == <<sizeCap, pendingEvents, queues, claimed>>
cancelVars == <<cancelRequested, canceller, failing>>
callVars == <<pc, read, cursor, response>>
pipeVars == <<pipe, sent, eofSent>>
vars == <<serverVars, readerVars, queueVars, cancelVars, callVars, pipeVars>>

Event(type, spid) == [type |-> type, spid |-> spid]
SizeCap == Event("size_cap", NoOne)
Completion == Event("completion", NoOne)
End == Event("end", NoOne)          \* the None that closes a handle's queue
Events == {Event(t, p) : t \in {"spawn", "output", "exit"}, p \in Procs \cup {Main}}
          \cup {SizeCap, Completion}

history == SubSeq(emitted, 1, remembered)
InHistory(e) == \E i \in 1 .. remembered : emitted[i] = e
InStream(e) == \E i \in DOMAIN emitted : emitted[i] = e

Init ==
    /\ emitted = <<Event("spawn", Main)>> /\ running = {} /\ outcome = "running"
    /\ stdin = [t \in Pipes |-> [parts |-> 0, eof |-> FALSE]]
    /\ reader \in {"none", "streaming"} /\ remembered = 0   \* entered or not
    /\ streamError = FALSE /\ terminal = FALSE /\ terminalEvent = FALSE
    /\ sizeCap = FALSE /\ claimed = {}
    /\ pendingEvents = [p \in Procs |-> <<>>] /\ queues = [p \in Procs |-> <<>>]
    /\ pc = [c \in Calls |-> "idle"] /\ read = [p \in Procs |-> <<>>]
    /\ cursor = [f \in Follows |-> 0] /\ response = "none"
    /\ cancelRequested = FALSE /\ canceller = NoOne /\ failing = FALSE
    /\ pipe = [t \in Pipes |-> "idle"] /\ sent = [t \in Pipes |-> 0]
    /\ eofSent = [t \in Pipes |-> FALSE]

Goes(c, step) == pc' = [pc EXCEPT ![c] = step]
MayBegin == Cardinality({c \in Calls : pc[c] # "idle"}) + Cardinality({t \in Pipes : pipe[t] # "idle"}) < Racing
StartReader == reader' = IF reader = "none" THEN "streaming" ELSE reader

-----------------------------------------------------------------------------
(* The server.                                                             *)

Emit(e) == emitted' = Append(emitted, e)
Room == Len(emitted) - remembered <= Lag

\* A process writes at most once.
Output(p) ==
    /\ p \in running \cap Talkers /\ Room /\ ~InStream(Event("output", p))
    /\ Emit(Event("output", p))
    /\ UNCHANGED <<running, outcome, stdin, readerVars, queueVars, cancelVars, callVars, pipeVars>>

Exit(p) ==
    /\ p \in running /\ Room
    /\ running' = running \ {p} /\ Emit(Event("exit", p))
    /\ UNCHANGED <<outcome, stdin, readerVars, queueVars, cancelVars, callVars, pipeVars>>

CapsOutput ==
    /\ outcome = "running" /\ ~InStream(SizeCap) /\ Room
    /\ Emit(SizeCap)
    /\ UNCHANGED <<running, outcome, stdin, readerVars, queueVars, cancelVars, callVars, pipeVars>>

\* The main process exits, on SIGTERM or not; other processes die unreported.
OperationEnds ==
    /\ outcome = "running" /\ outcome' = "ended"
    /\ running' = {} /\ emitted' = emitted \o <<Event("exit", Main), Completion>>
    /\ UNCHANGED <<stdin, readerVars, queueVars, cancelVars, callVars, pipeVars>>

-----------------------------------------------------------------------------
(* The reader.                                                             *)

Incoming == emitted[remembered + 1]

\* pump(): the observers are told first, and their error fails the stream.
ReaderTakes ==
    /\ reader = "streaming" /\ remembered < Len(emitted)
    /\ \/ /\ remembered' = remembered + 1
          /\ reader' = IF Incoming = Completion THEN "closing" ELSE "routing"
          /\ UNCHANGED streamError
       \/ /\ reader' = "closing" /\ streamError' = TRUE
          /\ UNCHANGED remembered
    /\ UNCHANGED <<terminal, terminalEvent, serverVars, queueVars, cancelVars, callVars, pipeVars>>

\* The stream breaks, or stops before the operation's completion.
StreamStops ==
    /\ reader = "streaming" /\ reader' = "closing"
    /\ streamError' \in BOOLEAN
    /\ UNCHANGED <<remembered, terminal, terminalEvent, serverVars, queueVars, cancelVars, callVars, pipeVars>>

\* route_event(): to the handle's queue, or to a buffer that waits for it and
\* begins with the size cap if that came before.
BufferedBare(p, e) == Append(pendingEvents[p], e)                    \* mutant
Buffered(p, e) ==
    IF pendingEvents[p] = <<>> /\ sizeCap THEN <<SizeCap, e>> ELSE Append(pendingEvents[p], e)

Route(e) ==
    \/ /\ e = SizeCap /\ sizeCap' = TRUE
       /\ queues' = [p \in Procs |-> IF p \in claimed THEN Append(queues[p], e) ELSE queues[p]]
       /\ pendingEvents' = [p \in Procs |->
            IF pendingEvents[p] # <<>> THEN Append(pendingEvents[p], e) ELSE <<>>]
    \/ /\ e.spid \in claimed
       /\ queues' = [queues EXCEPT ![e.spid] = Append(@, e)]
       /\ UNCHANGED <<sizeCap, pendingEvents>>
    \/ /\ e.spid \in Procs \ claimed
       /\ pendingEvents' = [pendingEvents EXCEPT ![e.spid] = Buffered(e.spid, e)]
       /\ UNCHANGED <<sizeCap, queues>>
    \/ /\ e # SizeCap /\ e.spid \notin Procs
       /\ UNCHANGED <<sizeCap, pendingEvents, queues>>

ReaderRoutes ==
    /\ reader = "routing" /\ reader' = "streaming"
    /\ Route(emitted[remembered])
    /\ UNCHANGED <<remembered, streamError, terminal, terminalEvent, claimed,
                   serverVars, cancelVars, callVars, pipeVars>>

\* Closing the source and telling the observers can fail too.
ReaderCloses ==
    /\ reader = "closing" /\ reader' = "ending"
    /\ \E fails \in BOOLEAN : streamError' = (streamError \/ fails)
    /\ UNCHANGED <<remembered, terminal, terminalEvent, serverVars, queueVars, cancelVars, callVars, pipeVars>>

\* The thread sets terminal_event in this step; the task does in the next one.
ReaderEnds ==
    /\ reader = "ending" /\ reader' = "telling" /\ terminal' = TRUE
    /\ queues' = [p \in Procs |-> IF p \in claimed THEN Append(queues[p], End) ELSE queues[p]]
    /\ UNCHANGED <<remembered, streamError, terminalEvent, sizeCap, pendingEvents, claimed,
                   serverVars, cancelVars, callVars, pipeVars>>

ReaderTells ==
    /\ reader = "telling" /\ reader' = "finished" /\ terminalEvent' = TRUE
    /\ UNCHANGED <<remembered, streamError, terminal, serverVars, queueVars, cancelVars, callVars, pipeVars>>

-----------------------------------------------------------------------------
(* run(), and the handle it returns.                                       *)

\* run() is refused before the context is entered, which starts the reader.
RunBegins(p) ==
    /\ pc[p] = "idle" /\ MayBegin /\ reader # "none"
    /\ Goes(p, "creating")
    /\ UNCHANGED <<read, cursor, response, serverVars, readerVars, queueVars, cancelVars, pipeVars>>

ServerCreates(p) ==
    /\ pc[p] = "creating" /\ outcome = "running"
    /\ running' = running \cup {p} /\ Emit(Event("spawn", p))
    /\ Goes(p, "created")
    /\ UNCHANGED <<read, cursor, response, outcome, stdin, readerVars, queueVars, cancelVars, pipeVars>>

\* The request fails, or its answer is lost.
CreateFails(p) ==
    /\ pc[p] \in {"creating", "created"} /\ Goes(p, "failed")
    /\ UNCHANGED <<read, cursor, response, serverVars, readerVars, queueVars, cancelVars, pipeVars>>

\* claim_queue(): take what waited for this handle, or the size cap if nothing
\* did; after the end of the stream the queue is closed and not registered.
LeftOpen(items) == items                                             \* mutant
ClosedIfTerminal(items) == IF terminal THEN Append(items, End) ELSE items
ClaimQueue(p) ==
    /\ pc[p] = "created" /\ Goes(p, "reading")
    /\ LET waited == IF pendingEvents[p] = <<>> /\ sizeCap THEN <<SizeCap>> ELSE pendingEvents[p]
       IN queues' = [queues EXCEPT ![p] = ClosedIfTerminal(waited)]
    /\ claimed' = IF terminal THEN claimed ELSE claimed \cup {p}
    /\ pendingEvents' = [pendingEvents EXCEPT ![p] = <<>>]
    /\ UNCHANGED <<sizeCap, read, cursor, response, serverVars, readerVars, cancelVars, pipeVars>>

\* wait() and iterate() of a handle: collect events up to the exit; at the end
\* of the queue raise the stream's error, or find the events incomplete.  A
\* timeout, or an iterator that is left, changes nothing: the handle keeps what
\* it collected, and the next wait() goes on from there.
QuietEnd == "incomplete"                                             \* mutant
AtEnd == IF streamError THEN "broken" ELSE "incomplete"
HandleReads(p) ==
    /\ pc[p] = "reading" /\ queues[p] # <<>>
    /\ queues' = [queues EXCEPT ![p] = Tail(@)]
    /\ LET item == Head(queues[p]) IN
         /\ read' = IF item = End THEN read ELSE [read EXCEPT ![p] = Append(@, item)]
         /\ Goes(p, CASE item = End -> AtEnd
                      [] item.type = "exit" -> "done"
                      [] OTHER -> "reading")
    /\ UNCHANGED <<sizeCap, pendingEvents, claimed, cursor, response,
                   serverVars, readerVars, cancelVars, pipeVars>>

\* SubprocessResult, of what a handle collected.
Collected(items) ==
    [spawned   |-> \E i \in DOMAIN items : items[i].type = "spawn",
     output    |-> \E i \in DOMAIN items : items[i].type = "output",
     truncated |-> \E i \in DOMAIN items : items[i] = SizeCap]

-----------------------------------------------------------------------------
(* events(): a cursor of its own over the history.                         *)

UnreadOrNext(f) == cursor[f] <= remembered                           \* mutant
Unread(f) == cursor[f] < remembered

FollowBegins(f) ==
    /\ pc[f] = "idle" /\ MayBegin /\ Goes(f, "following") /\ StartReader
    /\ UNCHANGED <<remembered, streamError, terminal, terminalEvent, read, cursor, response,
                   serverVars, queueVars, cancelVars, pipeVars>>

Follow(f) ==
    /\ pc[f] = "following"
    /\ \/ /\ Unread(f)
          /\ cursor' = [cursor EXCEPT ![f] = @ + 1] /\ UNCHANGED pc
       \/ /\ cursor[f] = remembered /\ terminalEvent
          /\ Goes(f, IF streamError THEN "broken" ELSE "done") /\ UNCHANGED cursor
    /\ UNCHANGED <<read, response, serverVars, readerVars, queueVars, cancelVars, pipeVars>>

FollowTimesOut(f) ==
    /\ pc[f] = "following" /\ Goes(f, "left")
    /\ UNCHANGED <<read, cursor, response, serverVars, readerVars, queueVars, cancelVars, pipeVars>>

-----------------------------------------------------------------------------
(* cancel(), from a wait, a shutdown or the writer of the main process.    *)

Cancels(c) == IF c = Main THEN pipe[Main] = "stopping" ELSE pc[c] = "cancelling"
Cancellers == {c \in Waits \cup Shutdowns \cup (Pipes \cap {Main}) : Cancels(c)}

\* A wait raises its own error, whatever cancel() did; shutdown() joins.
AfterCancel(c) ==
    IF c = Main THEN pipe' = [pipe EXCEPT ![Main] = "raised"] /\ UNCHANGED pc
                ELSE Goes(c, IF c \in Waits THEN "raised" ELSE "joining") /\ UNCHANGED pipe

CancelAgain(c) ==
    /\ c \in Cancellers /\ canceller = NoOne /\ cancelRequested
    /\ AfterCancel(c)
    /\ UNCHANGED <<read, cursor, response, sent, eofSent, serverVars, readerVars, queueVars, cancelVars>>

\* cancel_lock is held during the request, which may not reach the server.
CancelAsks(c) ==
    /\ c \in Cancellers /\ canceller = NoOne /\ ~cancelRequested
    /\ canceller' = c
    /\ \/ UNCHANGED serverVars
       \/ /\ outcome = "running" /\ outcome' = "cancelled"
          /\ running' = {} /\ Emit(Completion) /\ UNCHANGED stdin
    /\ UNCHANGED <<cancelRequested, failing, readerVars, queueVars, callVars, pipeVars>>

CancelAnswers(c) ==
    /\ canceller = c /\ canceller' = NoOne
    /\ \/ outcome # "running" /\ cancelRequested' = TRUE /\ UNCHANGED failing
       \/ failing' = (failing \/ c \in Shutdowns) /\ UNCHANGED cancelRequested
    /\ AfterCancel(c)
    /\ UNCHANGED <<read, cursor, response, sent, eofSent, serverVars, readerVars, queueVars>>

-----------------------------------------------------------------------------
(* wait()                                                                  *)

WaitBegins(w) ==
    /\ pc[w] = "idle" /\ MayBegin /\ Goes(w, "waiting") /\ StartReader
    /\ UNCHANGED <<remembered, streamError, terminal, terminalEvent, read, cursor, response,
                   serverVars, queueVars, cancelVars, pipeVars>>

\* A timeout or a cancelled caller, or status() fails.
WaitFails(w) ==
    /\ pc[w] = "waiting" /\ Goes(w, "cancelling")
    /\ UNCHANGED <<read, cursor, response, serverVars, readerVars, queueVars, cancelVars, pipeVars>>

\* _completed_result(): the response is asked for once and kept, whatever it
\* says; only a success is returned.
Responses == IF outcome = "ended" THEN {"success", "failed"} ELSE {outcome}
WaitCompletes(w) ==
    /\ pc[w] = "waiting" /\ terminalEvent
    /\ IF response = "none" /\ ~streamError THEN response' \in Responses ELSE UNCHANGED response
    /\ Goes(w, IF ~streamError /\ response' = "success" THEN "done" ELSE "cancelling")
    /\ UNCHANGED <<read, cursor, serverVars, readerVars, queueVars, cancelVars, pipeVars>>

-----------------------------------------------------------------------------
(* shutdown()                                                              *)

Joins(s, step) == Goes(s, step) /\ UNCHANGED <<read, cursor, response>>

ShutdownBegins(s) ==
    /\ pc[s] = "idle" /\ MayBegin
    /\ Joins(s, CASE streamError -> "cancelling"
                  [] ~streamError /\ (terminal \/ cancelRequested) -> "joining"
                  [] ~streamError /\ ~terminal /\ ~cancelRequested ->
                       IF reader = "none" THEN "cancelling" ELSE "signalling")
    /\ UNCHANGED <<serverVars, readerVars, queueVars, cancelVars, pipeVars>>

\* SIGTERM to the main process; whether it obeys is up to it.
ShutdownSignals(s) ==
    /\ pc[s] = "signalling"
    /\ \/ Joins(s, "ending") /\ UNCHANGED failing
       \/ Joins(s, IF terminal THEN "joining" ELSE "cancelling") /\ failing' = TRUE
    /\ UNCHANGED <<cancelRequested, canceller, serverVars, readerVars, queueVars, pipeVars>>

\* The stream has ended, or shutdown_timeout is over: cancel unless terminal.
ShutdownDecides(s) ==
    /\ pc[s] = "ending"
    /\ Joins(s, IF terminal THEN "joining" ELSE "cancelling")
    /\ UNCHANGED <<serverVars, readerVars, queueVars, cancelVars, pipeVars>>

Joined(s) ==
    /\ pc[s] = "joining" /\ reader \in {"none", "finished", "dead"}
    /\ Joins(s, IF streamError \/ failing THEN "raised" ELSE "done")
    /\ UNCHANGED <<serverVars, readerVars, queueVars, cancelVars, pipeVars>>

\* The reader does not end in time.  A thread is left behind; a task is
\* cancelled: its stream fails, or its own clean-up is cut off.
JoinTimesOut(s) ==
    /\ pc[s] = "joining" /\ reader \notin {"none", "finished", "dead"}
    /\ \/ /\ Joins(s, IF streamError \/ failing THEN "raised" ELSE "done")
          /\ UNCHANGED <<reader, streamError>>
       \/ /\ reader \in {"streaming", "routing"} /\ reader' = "closing" /\ streamError' = TRUE
          /\ UNCHANGED callVars
       \/ /\ reader \in {"closing", "ending", "telling"} /\ reader' = "dead"
          /\ UNCHANGED <<streamError, callVars>>
    /\ UNCHANGED <<remembered, terminal, terminalEvent, serverVars, queueVars, cancelVars, pipeVars>>

-----------------------------------------------------------------------------
(* pipe_stdin(): forwards the parts of a source, tests before each request *)
(* whether the process has ended, and stops the process if it fails.       *)

PipeGoes(t, step) == pipe' = [pipe EXCEPT ![t] = step]
Spawned(t) == InHistory(Event("spawn", t))
ProcessEnded(t) == InHistory(Event("exit", t)) \/ InHistory(Completion) \/ terminalEvent

PipeBegins(t) ==
    /\ pipe[t] = "idle" /\ MayBegin /\ (t = Main \/ t \in claimed)
    /\ PipeGoes(t, "waiting") /\ StartReader
    /\ UNCHANGED <<remembered, streamError, terminal, terminalEvent, sent, eofSent,
                   serverVars, queueVars, cancelVars, callVars>>

PipeSpawned(t) ==
    /\ pipe[t] = "waiting" /\ Spawned(t) /\ PipeGoes(t, "testing")
    /\ UNCHANGED <<sent, eofSent, serverVars, readerVars, queueVars, cancelVars, callVars>>

\* _process_ended(), asked while it waits, before it reads, sends or closes.
Untested == {"waiting", "testing", "part", "last"}
PipeTests(t) ==
    /\ pipe[t] \in Untested /\ (pipe[t] = "waiting" => streamError \/ ProcessEnded(t))
    /\ PipeGoes(t, CASE streamError -> "stopping"
                     [] ~streamError /\ ProcessEnded(t) -> "exited"
                     [] OTHER -> CASE pipe[t] = "testing" -> "source"
                                   [] pipe[t] = "part" -> "sending"
                                   [] pipe[t] = "last" -> "closing")
    /\ UNCHANGED <<sent, eofSent, serverVars, readerVars, queueVars, cancelVars, callVars>>

\* The source gives a part or is exhausted; an asyncio writer also stops to
\* read once the process has ended.  Without close= no EOF is sent.
PipeReads(t) ==
    /\ pipe[t] = "source"
    /\ \/ sent[t] < Chunks /\ PipeGoes(t, "part")
       \/ \E step \in {"last", "done"} : PipeGoes(t, step)
       \/ ProcessEnded(t) /\ PipeGoes(t, "testing")
    /\ UNCHANGED <<sent, eofSent, serverVars, readerVars, queueVars, cancelVars, callVars>>

Alive(t) == IF t = Main THEN outcome = "running" ELSE t \in running

PipeSends(t) ==
    /\ Alive(t)
    /\ \/ /\ pipe[t] = "sending" /\ PipeGoes(t, "acking")
          /\ stdin' = [stdin EXCEPT ![t].parts = @ + 1]
       \/ /\ pipe[t] = "closing" /\ PipeGoes(t, "closed")
          /\ stdin' = [stdin EXCEPT ![t].eof = TRUE]
    /\ UNCHANGED <<emitted, running, outcome, sent, eofSent, readerVars, queueVars, cancelVars, callVars>>

PipeAcked(t) ==
    /\ \/ /\ pipe[t] = "acking" /\ PipeGoes(t, "testing")
          /\ sent' = [sent EXCEPT ![t] = @ + 1] /\ UNCHANGED eofSent
       \/ /\ pipe[t] = "closed" /\ PipeGoes(t, "done")
          /\ eofSent' = [eofSent EXCEPT ![t] = TRUE] /\ UNCHANGED sent
    /\ UNCHANGED <<serverVars, readerVars, queueVars, cancelVars, callVars>>

SendsAgain(t) == IF pipe[t] = "acking" THEN "sending" ELSE "stopping"  \* mutant
OnError(t) == "stopping"

\* The source raises, a request fails or its answer is lost, or the caller is
\* cancelled.
PipeFails(t) ==
    /\ pipe[t] \in {"waiting", "source", "sending", "acking", "closing", "closed"}
    /\ PipeGoes(t, OnError(t))
    /\ UNCHANGED <<sent, eofSent, serverVars, readerVars, queueVars, cancelVars, callVars>>

\* SIGKILL, which may not reach the server; the main process is cancelled.
PipeKills(t) ==
    /\ t # Main /\ pipe[t] = "stopping" /\ PipeGoes(t, "raised")
    /\ \/ UNCHANGED serverVars
       \/ /\ t \in running /\ running' = running \ {t} /\ Emit(Event("exit", t))
          /\ UNCHANGED <<outcome, stdin>>
    /\ UNCHANGED <<sent, eofSent, readerVars, queueVars, cancelVars, callVars>>

-----------------------------------------------------------------------------
Resting == {"idle", "failed", "left", "done", "raised", "broken", "incomplete",
            "exited"}
\* The only states the system may stay in: a reader that was cancelled while it
\* closed its stream (JoinTimesOut) leaves those behind who wait for its end.
AllRest ==
    /\ \/ reader = "dead"
       \/ (\A c \in Calls : pc[c] \in Resting) /\ (\A t \in Pipes : pipe[t] \in Resting)
    /\ UNCHANGED vars

HandleRuns(p) == ServerCreates(p) \/ CreateFails(p) \/ ClaimQueue(p) \/ HandleReads(p)
CancelRuns(c) == CancelAgain(c) \/ CancelAsks(c) \/ CancelAnswers(c)
ShutdownRuns(s) == ShutdownSignals(s) \/ ShutdownDecides(s) \/ Joined(s) \/ JoinTimesOut(s)
PipeRuns(t) ==
    PipeSpawned(t) \/ PipeTests(t) \/ PipeReads(t) \/ PipeSends(t) \/ PipeAcked(t) \/ PipeKills(t)
ReaderRuns == ReaderTakes \/ ReaderRoutes \/ ReaderCloses \/ ReaderEnds \/ ReaderTells

Server == CapsOutput \/ OperationEnds \/ \E p \in Procs : Output(p) \/ Exit(p)

Next ==
    \/ Server \/ ReaderRuns \/ StreamStops \/ AllRest
    \/ \E p \in Procs : RunBegins(p) \/ HandleRuns(p)
    \/ \E f \in Follows : FollowBegins(f) \/ Follow(f) \/ FollowTimesOut(f)
    \/ \E w \in Waits : WaitBegins(w) \/ WaitFails(w) \/ WaitCompletes(w)
    \/ \E s \in Shutdowns : ShutdownBegins(s) \/ ShutdownRuns(s)
    \/ \E c \in Waits \cup Shutdowns \cup {Main} : CancelRuns(c)
    \/ \E t \in Pipes : PipeBegins(t) \/ PipeRuns(t) \/ PipeFails(t)

Spec == Init /\ [][Next]_vars

-----------------------------------------------------------------------------
\* The reader's flags, queues and counters have their types.
TypeOK ==
    /\ emitted \in Seq(Events) /\ running \subseteq Procs
    /\ outcome \in {"running", "ended", "cancelled"}
    /\ stdin \in [Pipes -> [parts : 0 .. Chunks, eof : BOOLEAN]]
    /\ reader \in {"none", "streaming", "routing", "closing", "ending", "telling", "finished", "dead"}
    /\ remembered \in 0 .. Len(emitted)
    /\ {streamError, terminal, terminalEvent, sizeCap, cancelRequested, failing} \subseteq BOOLEAN
    /\ pendingEvents \in [Procs -> Seq(Events)] /\ queues \in [Procs -> Seq(Events \cup {End})]
    /\ claimed \subseteq Procs /\ canceller \in Cancellers \cup {NoOne}
    /\ read \in [Procs -> Seq(Events)] /\ cursor \in [Follows -> 0 .. remembered]
    /\ response \in {"none", "running", "success", "failed", "cancelled"}
    /\ sent \in [Pipes -> 0 .. Chunks] /\ eofSent \in [Pipes -> BOOLEAN]

\* A handle's result is what the server did for its process: its whole output
\* up to the exit, marked truncated exactly if the operation's size cap came
\* first, whichever of run()'s answer and the events was first (claim_queue).
CapBefore(p) ==
    \E j \in DOMAIN emitted :
        emitted[j] = Event("exit", p) /\ \E i \in 1 .. j - 1 : emitted[i] = SizeCap
ResultIsWhole ==
    \A p \in Procs : pc[p] = "done" =>
        Collected(read[p]) =
            [spawned   |-> InStream(Event("spawn", p)),
             output    |-> InStream(Event("output", p)),
             truncated |-> CapBefore(p)]

\* pipe_stdin() that returns says what the process received: no part is
\* counted that was not accepted, none is sent again after a lost answer, and
\* EOF is reported exactly if it was delivered (StdinResult).
StdinAccounted ==
    \A t \in Pipes : pipe[t] \in {"done", "exited"} =>
        stdin[t] = [parts |-> sent[t], eof |-> eofSent[t]]

\* Handles and subscriptions are readers of one log: each event once, in order,
\* to the end, and no failure that looks like the end (customization.md).
Readers == Procs \cup Follows
Concerned(r, e) == r \in Procs => e.spid = r \/ e = SizeCap
LastFor(r, e) == r \in Procs /\ e.type = "exit"
Fate(r) ==
    CASE pc[r] \in {"done", "incomplete"} -> "whole"
      [] pc[r] = "broken" -> "broken"
      [] pc[r] \in {"failed", "left"} -> "left"
      [] OTHER -> "no"
Logs == INSTANCE EventLogs WITH
    Concerns <- Concerned, Last <- LastFor,
    log <- history, open <- ~terminal, failed <- streamError,
    read <- [r \in Readers |-> IF r \in Procs THEN read[r] ELSE SubSeq(emitted, 1, cursor[r])],
    over <- [r \in Readers |-> Fate(r)]
ImplementsEventLogs == Logs!Spec

\* Nobody waits for what will not come: at the end of the stream the queue of
\* every handle is closed, also of one that claims it later (claim_queue: "doesn't
\* hang forever"), so a handle that reads finds its end.
EndReachesHandles ==
    \A p \in Procs : terminal /\ pc[p] = "reading" =>
        queues[p] # <<>> /\ queues[p][Len(queues[p])] = End

\* "On context exit, the SDK signals the main process, waits for shutdown, and
\* attempts cancellation if it does not stop" (operation.md:105): so a shutdown
\* that raises, because no event confirmed the end, has attempted it.
ShutdownStops ==
    \A s \in Shutdowns : pc[s] = "raised" =>
        outcome # "running" \/ cancelRequested \/ failing
=============================================================================
