------------------------ MODULE OperationLogsProofs ------------------------
(***************************************************************************)
(* OperationEvents implements EventLogs: handles and subscriptions are     *)
(* readers of one log, who are given each event that concerns them once    *)
(* and in order, whichever queue or buffer it went through.                *)
(***************************************************************************)
EXTENDS OperationEventsProofs, FiniteSetTheorems

-----------------------------------------------------------------------------
(* The inductive invariant, beyond that of OperationEventsProofs.          *)

\* How many of the first n events of a stream s concern a reader, and whether e
\* is the k-th of them among the first m.
Counted(r, s, n) == Cardinality({i \in 1 .. n : Concerned(r, s[i])})
Nth(r, e, k, s, m) == \E i \in 1 .. m : s[i] = e /\ Concerned(r, e) /\ Counted(r, s, i) = k

\* The server tells of the size cap once, and no event follows an error.
OnceInv ==
    /\ \A i, j \in DOMAIN emitted : emitted[i] = SizeCap /\ emitted[j] = SizeCap => i = j
    /\ Routes => ~streamError

\* A handle's queue goes on where it has read to, and what waits for its claim
\* starts at the first event.  Without an error nothing that was routed is missing.
InPlace(p, n, q, s, m) == \A k \in DOMAIN q : q[k] # End => Nth(p, q[k], n + k, s, m)
EndIsLast(q, ended) == \A k \in DOMAIN q : q[k] = End => k = Len(q) /\ ended
EventsIn(q) == IF q # <<>> /\ q[Len(q)] = End THEN Len(q) - 1 ELSE Len(q)
Delivered(p, n, q, w, reads, ended, failed, s, m) ==
    /\ InPlace(p, n, q, s, m) /\ EndIsLast(q, ended)
    /\ ~reads => InPlace(p, 0, w, s, m)
    /\ ~failed => Counted(p, s, m) = IF reads THEN n + EventsIn(q) ELSE Len(w)
DeliveryInv ==
    \A p \in Procs : Delivered(p, Len(read[p]), queues[p], Waited(p), Reads(p), terminal,
                               streamError, emitted, Routed)

-----------------------------------------------------------------------------
(* Counting events.                                                        *)

\* A sequence with one more item is another one.
LEMMA AppendIsMore ==
    ASSUME NEW S, NEW s \in Seq(S), NEW e \in S
    PROVE  Append(s, e) # s
<1>1. Len(Append(s, e)) = Len(s) + 1 /\ Len(s) \in Nat
  OBVIOUS
<1>2. \A n \in Nat : n + 1 # n
  OBVIOUS
<1> QED BY <1>1, <1>2

\* Two items.
LEMMA AppendOne ==
    ASSUME NEW a, NEW b
    PROVE  Append(<<a>>, b) = <<a, b>> /\ <<a, b>> # <<>>
<1>1. <<a>> \in Seq({a, b}) /\ Len(<<a>>) = 1 /\ <<a>>[1] = a
  OBVIOUS
<1>2. /\ Append(<<a>>, b) \in Seq({a, b}) /\ Len(Append(<<a>>, b)) = 2
      /\ Append(<<a>>, b)[1] = a /\ Append(<<a>>, b)[2] = b
  BY <1>1
<1>3. <<a, b>> \in Seq({a, b}) /\ Len(<<a, b>>) = 2 /\ <<a, b>>[1] = a /\ <<a, b>>[2] = b
  OBVIOUS
<1>4. ASSUME NEW s \in Seq({a, b}), NEW t \in Seq({a, b}), Len(s) = Len(t), \A i \in 1 .. Len(s) : s[i] = t[i]
      PROVE  s = t
  BY <1>4
<1>5. \A i \in 1 .. 2 : i = 1 \/ i = 2
  OBVIOUS
<1>6. Append(<<a>>, b) = <<a, b>>
  BY <1>2, <1>3, <1>4, <1>5
<1> QED BY <1>3, <1>6

\* How the number of events that concern a reader grows with the stream.
LEMMA CountNext ==
    ASSUME NEW r, NEW s, NEW n \in Nat
    PROVE  /\ Counted(r, s, n) \in Nat /\ Counted(r, s, 0) = 0
           /\ Counted(r, s, n + 1) = IF Concerned(r, s[n + 1]) THEN Counted(r, s, n) + 1 ELSE Counted(r, s, n)
<1> DEFINE S(m) == {i \in 1 .. m : Concerned(r, s[i])}
<1>1. S(0) = {}
  OBVIOUS
<1>2. IsFiniteSet(S(n))
  <2>1. IsFiniteSet(1 .. n)
    BY FS_Interval
  <2>2. S(n) \in SUBSET (1 .. n)
    OBVIOUS
  <2> QED BY <2>1, <2>2, FS_Subset
<1>3. S(n + 1) = IF Concerned(r, s[n + 1]) THEN S(n) \cup {n + 1} ELSE S(n)
  OBVIOUS
<1>4. n + 1 \notin S(n)
  OBVIOUS
<1> HIDE DEF S
<1>5. Cardinality(S(0)) = 0 /\ Cardinality(S(n)) \in Nat
  BY <1>1, <1>2, FS_EmptySet, FS_CardinalityType
<1>6. Cardinality(S(n) \cup {n + 1}) = Cardinality(S(n)) + 1
  BY <1>2, <1>4, FS_AddElement
<1> QED BY <1>3, <1>5, <1>6 DEF Counted, S

\* A subscription is concerned with everything.
LEMMA CountAll ==
    ASSUME NEW r, r \notin Procs, NEW s, NEW n \in Nat
    PROVE  Counted(r, s, n) = n
<1>1. {i \in 1 .. n : Concerned(r, s[i])} = 1 .. n
  BY DEF Concerned
<1>2. Cardinality(1 .. n) = n
  BY FS_Interval
<1> QED BY <1>1, <1>2 DEF Counted

\* Two streams that begin alike are counted alike.
LEMMA CountStays ==
    ASSUME NEW r, NEW s, NEW t, NEW n \in Nat, \A i \in 1 .. n : t[i] = s[i]
    PROVE  Counted(r, t, n) = Counted(r, s, n)
<1>1. {i \in 1 .. n : Concerned(r, t[i])} = {i \in 1 .. n : Concerned(r, s[i])}
  OBVIOUS
<1> QED BY <1>1 DEF Counted

\* The k-th event of a reader stays the k-th while the stream grows.
LEMMA NthStays ==
    ASSUME NEW r, NEW e, NEW k, NEW s, NEW m \in Nat, Nth(r, e, k, s, m),
           NEW t, NEW n \in Nat, m <= n, \A i \in 1 .. m : t[i] = s[i]
    PROVE  Nth(r, e, k, t, n)
<1>1. PICK i \in 1 .. m : s[i] = e /\ Concerned(r, e) /\ Counted(r, s, i) = k
  BY DEF Nth
<1>2. i \in 1 .. n /\ i \in Nat /\ t[i] = s[i] /\ \A j \in 1 .. i : t[j] = s[j]
  BY <1>1
<1>3. Counted(r, t, i) = Counted(r, s, i)
  BY <1>2, CountStays
<1> QED BY <1>1, <1>2, <1>3 DEF Nth

\* A queue stays in place while the stream grows.
LEMMA InPlaceStays ==
    ASSUME NEW p, NEW k, NEW q, NEW s, NEW m \in Nat, InPlace(p, k, q, s, m),
           NEW t, NEW n \in Nat, m <= n, \A i \in 1 .. m : t[i] = s[i]
    PROVE  InPlace(p, k, q, t, n)
BY NthStays DEF InPlace

\* A queue stays in place when the next event of its reader joins it.
LEMMA InPlaceAppend ==
    ASSUME NEW p, NEW n \in Nat, NEW S, NEW q \in Seq(S), NEW e \in S, NEW s, NEW m, InPlace(p, n, q, s, m),
           e # End => Nth(p, e, n + Len(q) + 1, s, m)
    PROVE  InPlace(p, n, Append(q, e), s, m)
<1> DEFINE t == Append(q, e)
<1>1. /\ DOMAIN t = 1 .. Len(q) + 1 /\ t[Len(q) + 1] = e /\ Len(q) \in Nat /\ DOMAIN q = 1 .. Len(q)
      /\ \A i \in 1 .. Len(q) : t[i] = q[i]
  OBVIOUS
<1> HIDE DEF t
<1>2. ASSUME NEW k \in DOMAIN t, t[k] # End PROVE Nth(p, t[k], n + k, s, m)
  <2>1. CASE k \in 1 .. Len(q)
    BY <1>1, <1>2, <2>1 DEF InPlace
  <2>2. CASE k = Len(q) + 1
    <3>1. n + k = n + Len(q) + 1 /\ t[k] = e
      BY <1>1, <2>2
    <3> QED BY <1>2, <3>1
  <2> QED BY <1>1, <1>2, <2>1, <2>2
<1> QED BY <1>2 DEF InPlace, t

\* A queue stays in place when its reader takes the first item.
LEMMA InPlaceTail ==
    ASSUME NEW p, NEW n \in Nat, NEW S, NEW q \in Seq(S), q # <<>>, NEW s, NEW m, InPlace(p, n, q, s, m)
    PROVE  InPlace(p, n + 1, Tail(q), s, m)
<1> DEFINE t == Tail(q)
<1>1. /\ DOMAIN q = 1 .. Len(q) /\ DOMAIN t = 1 .. Len(q) - 1 /\ Len(q) \in Nat
      /\ \A i \in 1 .. Len(q) - 1 : t[i] = q[i + 1]
  OBVIOUS
<1> HIDE DEF t
<1>2. ASSUME NEW k \in DOMAIN t, t[k] # End PROVE Nth(p, t[k], (n + 1) + k, s, m)
  <2>1. k + 1 \in DOMAIN q /\ t[k] = q[k + 1] /\ (n + 1) + k = n + (k + 1)
    BY <1>1
  <2> QED BY <1>2, <2>1 DEF InPlace
<1> QED BY <1>2 DEF InPlace, t

\* The end of a queue is not counted.
LEMMA EventsInFacts ==
    ASSUME NEW S, End \in S, NEW q \in Seq(S), NEW e \in S
    PROVE  /\ EventsIn(q) \in Nat
           /\ EventsIn(Append(q, e)) = IF e = End THEN Len(q) ELSE Len(q) + 1
           /\ (\A k \in DOMAIN q : q[k] # End) => EventsIn(q) = Len(q)
           /\ q # <<>> => EventsIn(Tail(q)) = IF Len(q) = 1 THEN 0 ELSE EventsIn(q) - 1
<1>1. /\ Len(q) \in Nat /\ DOMAIN q = 1 .. Len(q) /\ (q = <<>> <=> Len(q) = 0)
      /\ Append(q, e) # <<>> /\ Len(Append(q, e)) = Len(q) + 1 /\ Append(q, e)[Len(q) + 1] = e
  OBVIOUS
<1>2. ASSUME q # <<>>
      PROVE  /\ Len(Tail(q)) = Len(q) - 1 /\ Len(q) > 0 /\ (Tail(q) = <<>> <=> Len(q) = 1)
             /\ Len(q) # 1 => Tail(q)[Len(q) - 1] = q[Len(q)]
  <2> DEFINE t == Tail(q)
  <2>1. /\ t \in Seq(S) /\ Len(t) = Len(q) - 1 /\ Len(q) > 0
        /\ \A i \in 1 .. Len(q) - 1 : t[i] = q[i + 1]
    BY <1>2
  <2>2. t = <<>> <=> Len(t) = 0
    BY <2>1
  <2> HIDE DEF t
  <2>3. Len(q) # 1 => t[Len(q) - 1] = q[Len(q)]
    BY <1>1, <2>1
  <2> QED BY <1>1, <2>1, <2>2, <2>3 DEF t
<1>3. EventsIn(q) \in Nat /\ ((\A k \in DOMAIN q : q[k] # End) => EventsIn(q) = Len(q))
  <2>1. CASE q = <<>>
    BY <1>1, <2>1 DEF EventsIn
  <2>2. CASE q # <<>>
    <3>1. Len(q) - 1 \in Nat /\ Len(q) \in DOMAIN q
      BY <1>1, <2>2
    <3>2. EventsIn(q) = IF q[Len(q)] = End THEN Len(q) - 1 ELSE Len(q)
      BY <2>2 DEF EventsIn
    <3> QED BY <1>1, <3>1, <3>2
  <2> QED BY <2>1, <2>2
<1>4. EventsIn(Append(q, e)) = IF e = End THEN Len(q) ELSE Len(q) + 1
  BY <1>1 DEF EventsIn
<1>5. ASSUME q # <<>> PROVE EventsIn(Tail(q)) = IF Len(q) = 1 THEN 0 ELSE EventsIn(q) - 1
  BY <1>1, <1>2, <1>5 DEF EventsIn
<1> QED BY <1>3, <1>4, <1>5

\* Events that concern a process, and the completion of the operation, which does not.
LEMMA ConcernFacts ==
    ASSUME NEW p \in Procs
    PROVE  /\ \A e : Concerned(p, e) <=> Wants(p, e)
           /\ ~Concerned(p, Completion)
  BY EventFacts DEF Concerned, Wants

-----------------------------------------------------------------------------
(* What the reader has routed.                                             *)

\* The reader routes the events of the stream, one after the other.
LEMMA RoutedMoves ==
    ASSUME TypeServer, TypeReader, ReaderInv, OnceInv, [Next]_vars
    PROVE  /\ Routed \in 0 .. Len(emitted) /\ Routed' \in 0 .. Len(emitted') /\ Routed <= Routed'
           /\ ReaderRoutes => Routed' = Routed + 1 /\ remembered = Routed + 1
           /\ ~ReaderRoutes /\ ~streamError' =>
                Routed' = Routed \/ (Routed' = Routed + 1 /\ Routed < Len(emitted) /\ emitted[Routed + 1] = Completion)
           /\ streamError => streamError'
           /\ Routes' => ~streamError'
<1>1. /\ Len(emitted) \in Nat /\ Len(emitted') \in Nat /\ Len(emitted) <= Len(emitted')
      /\ remembered \in Nat /\ remembered <= Len(emitted) /\ (reader = "routing" => remembered > 0)
      /\ streamError \in BOOLEAN /\ (Routes => ~streamError)
  BY StreamGrows DEF TypeServer, TypeReader, ReaderInv, OnceInv
<1> DEFINE Goal == /\ Routed \in 0 .. Len(emitted) /\ Routed' \in 0 .. Len(emitted') /\ Routed <= Routed'
                   /\ ReaderRoutes => Routed' = Routed + 1 /\ remembered = Routed + 1
                   /\ ~ReaderRoutes /\ ~streamError' =>
                        Routed' = Routed \/ (Routed' = Routed + 1 /\ Routed < Len(emitted) /\ emitted[Routed + 1] = Completion)
                   /\ streamError => streamError'
                   /\ Routes' => ~streamError'
<1>2. CASE ReaderRoutes
  <2>1. reader = "routing" /\ reader' = "streaming" /\ UNCHANGED <<remembered, streamError>>
    BY <1>2 DEF ReaderRoutes
  <2> QED BY <1>1, <1>2, <2>1 DEF Routed, Routes
<1>3. CASE ReaderTakes
  <2>1. reader = "streaming" /\ remembered < Len(emitted) /\ ~ReaderRoutes /\ ~streamError
    BY <1>1, <1>3 DEF ReaderTakes, ReaderRoutes, Routes
  <2>2. CASE /\ remembered' = remembered + 1 /\ UNCHANGED streamError
             /\ reader' = IF Incoming = Completion THEN "closing" ELSE "routing"
    BY <1>1, <2>1, <2>2 DEF Routed, Routes, Incoming
  <2>3. CASE reader' = "closing" /\ streamError' = TRUE /\ UNCHANGED remembered
    BY <1>1, <2>1, <2>3 DEF Routed, Routes
  <2> QED BY <1>3, <2>2, <2>3 DEF ReaderTakes
<1>4. CASE ReaderCloses \/ ReaderEnds \/ ReaderTells \/ StreamStops
  <2>1. /\ reader \in {"streaming", "closing", "ending", "telling"} /\ ~ReaderRoutes
        /\ reader' \in {"closing", "ending", "telling", "finished"} /\ remembered' = remembered
    BY <1>4 DEF ReaderCloses, ReaderEnds, ReaderTells, StreamStops, ReaderRoutes
  <2>2. streamError => streamError'
    BY <1>1, <1>4 DEF ReaderCloses, ReaderEnds, ReaderTells, StreamStops, Routes
  <2> QED BY <1>1, <2>1, <2>2 DEF Routed, Routes
<1>5. ASSUME NEW s, JoinTimesOut(s), ~ReaderRoutes PROVE Goal
  <2>1. /\ remembered' = remembered
        /\ \/ UNCHANGED <<reader, streamError>>
           \/ reader' = "closing" /\ streamError' = TRUE
           \/ reader \in {"closing", "ending", "telling"} /\ reader' = "dead" /\ UNCHANGED streamError
    BY <1>5 DEF JoinTimesOut
  <2>2. CASE UNCHANGED <<reader, streamError>>
    BY <1>1, <1>5, <2>1, <2>2 DEF Routed, Routes
  <2>3. CASE reader' = "closing" /\ streamError' = TRUE
    BY <1>1, <1>5, <2>1, <2>3 DEF Routed, Routes
  <2>4. CASE reader \in {"closing", "ending", "telling"} /\ reader' = "dead" /\ UNCHANGED streamError
    BY <1>1, <1>5, <2>1, <2>4 DEF Routed, Routes
  <2> QED BY <2>1, <2>2, <2>3, <2>4
<1>6. CASE ~ReaderRoutes /\ (StartReader \/ UNCHANGED reader) /\ UNCHANGED <<remembered, streamError>>
  BY <1>1, <1>6 DEF Routed, Routes, StartReader
<1> QED BY <1>2, <1>3, <1>4, <1>5, <1>6, ReaderSteps DEF ReaderRuns

\* The size cap is emitted once, and a reader that met an error routes no more.
LEMMA OnceKeeps ==
    ASSUME TypeServer, TypeReader, ReaderInv, OnceInv, [Next]_vars
    PROVE  OnceInv'
<1>1. /\ DOMAIN emitted = 1 .. Len(emitted) /\ DOMAIN emitted' = 1 .. Len(emitted') /\ Len(emitted) \in Nat
      /\ \A i \in DOMAIN emitted : i \in DOMAIN emitted' /\ emitted'[i] = emitted[i]
  BY StreamGrows DEF TypeServer
<1>2. \/ \A i \in DOMAIN emitted' : emitted'[i] = SizeCap => i \in DOMAIN emitted
      \/ ~InStream(SizeCap) /\ \E n : \A i \in DOMAIN emitted' : emitted'[i] = SizeCap => i = n
  <2> DEFINE Old == \A i \in DOMAIN emitted' : emitted'[i] = SizeCap => i \in DOMAIN emitted
  <2>1. ASSUME NEW e \in Events, e # SizeCap, Emit(e) PROVE Old
    BY <2>1 DEF Emit, TypeServer
  <2>2. ASSUME NEW p \in Procs, Output(p) \/ Exit(p) \/ ServerCreates(p) PROVE Old
    <3>1. \E t \in {"output", "exit", "spawn"} : Emit(Event(t, p))
      BY <2>2 DEF Output, Exit, ServerCreates
    <3> QED BY <2>1, <3>1, EventFacts
  <2>3. CASE CapsOutput
    <3>1. ~InStream(SizeCap) /\ emitted' = Append(emitted, SizeCap)
      BY <2>3 DEF CapsOutput, Emit
    <3>2. \A i \in DOMAIN emitted' : emitted'[i] = SizeCap => i = Len(emitted) + 1
      BY <1>1, <3>1 DEF InStream, TypeServer
    <3> QED BY <3>1, <3>2
  <2>4. CASE OperationEnds
    <3>1. /\ <<Event("exit", Main), Completion>> \in Seq(Events) /\ Completion # SizeCap
          /\ Event("exit", Main) # SizeCap
      BY EventFacts
    <3>2. emitted' = emitted \o <<Event("exit", Main), Completion>>
      BY <2>4 DEF OperationEnds
    <3> QED BY <3>1, <3>2 DEF TypeServer
  <2>5. ASSUME NEW c, CancelAsks(c) PROVE Old
    <3>1. UNCHANGED emitted \/ Emit(Completion)
      BY <2>5 DEF CancelAsks, serverVars
    <3> QED BY <1>1, <2>1, <3>1, EventFacts
  <2>6. ASSUME NEW t \in Pipes, PipeKills(t) PROVE Old
    <3>1. UNCHANGED emitted \/ (t \in Procs /\ Emit(Event("exit", t)))
      BY <2>6 DEF PipeKills, serverVars, TypeServer
    <3> QED BY <1>1, <2>1, <3>1, EventFacts
  <2>7. CASE UNCHANGED <<emitted, running, outcome>>
    BY <2>7
  <2> QED BY <2>2, <2>3, <2>4, <2>5, <2>6, <2>7, ServerSteps
<1>3. \A i, j \in DOMAIN emitted' : emitted'[i] = SizeCap /\ emitted'[j] = SizeCap => i = j
  BY <1>1, <1>2 DEF OnceInv
<1>4. Routes' => ~streamError'
  BY RoutedMoves
<1> QED BY <1>3, <1>4 DEF OnceInv


\* What is routed now is the next event that concerns p, or none of its concern.
LEMMA CountRouted ==
    ASSUME NEW r, NEW s, NEW m \in Nat, NEW e, e = s[m + 1]
    PROVE  /\ Counted(r, s, m) \in Nat
           /\ Concerned(r, e) => /\ Counted(r, s, m + 1) = Counted(r, s, m) + 1
                                 /\ Nth(r, e, Counted(r, s, m) + 1, s, m + 1)
           /\ ~Concerned(r, e) => Counted(r, s, m + 1) = Counted(r, s, m)
<1>1. /\ Counted(r, s, m) \in Nat
      /\ Counted(r, s, m + 1) = IF Concerned(r, e) THEN Counted(r, s, m) + 1 ELSE Counted(r, s, m)
  BY CountNext
<1>2. m + 1 \in 1 .. m + 1
  OBVIOUS
<1> QED BY <1>1, <1>2 DEF Nth

\* A step that routes nothing leaves the count of what was routed alone.
LEMMA CountUnrouted ==
    ASSUME TypeServer, TypeReader, ReaderInv, OnceInv, [Next]_vars, ~ReaderRoutes, NEW p \in Procs
    PROVE  ~streamError' => Counted(p, emitted', Routed') = Counted(p, emitted, Routed) /\ ~streamError
<1> SUFFICES ASSUME ~streamError', NEW n, NEW m, NEW s, NEW t, n = Routed, m = Routed', s = emitted, t = emitted'
             PROVE  Counted(p, t, m) = Counted(p, s, n) /\ ~streamError
  OBVIOUS
<1>1. /\ n \in 0 .. Len(s) /\ (m = n \/ (m = n + 1 /\ n < Len(s) /\ s[n + 1] = Completion)) /\ ~streamError
  BY RoutedMoves
<1>2. Len(s) \in Nat /\ \A i \in 1 .. Len(s) : t[i] = s[i]
  BY StreamGrows DEF TypeServer
<1>3. n \in Nat /\ Counted(p, t, n) = Counted(p, s, n)
  BY <1>1, <1>2, CountStays
<1>4. ASSUME m = n + 1, n < Len(s), s[n + 1] = Completion PROVE Counted(p, t, m) = Counted(p, s, n)
  <2>1. t[n + 1] = Completion /\ ~Concerned(p, Completion)
    BY <1>1, <1>2, <1>4, ConcernFacts
  <2>2. Counted(p, t, n + 1) = Counted(p, t, n)
    BY <1>3, <2>1, CountNext
  <2> QED BY <1>3, <1>4, <2>2
<1> QED BY <1>1, <1>3, <1>4

\* What a handle has read, then its queue, then its buffer, is what was routed for
\* it, each event once and in order.
LEMMA DeliveryKeeps ==
    ASSUME TypeServer, TypeReader, TypeQueues, TypeCalls, ReaderInv, HandleInv, CapInv, OnceInv, DeliveryInv,
           [Next]_vars
    PROVE  DeliveryInv'
<1> SUFFICES ASSUME NEW p \in Procs,
                    NEW n0, n0 = Len(read[p]), NEW n, n = Len(read'[p]),
                    NEW q0, q0 = queues[p], NEW q, q = queues'[p],
                    NEW w0, w0 = Waited(p), NEW w, w = Waited(p)',
                    NEW s0, s0 = emitted, NEW s, s = emitted',
                    NEW m0, m0 = Routed, NEW m, m = Routed'
             PROVE  Delivered(p, n, q, w, Reads(p)', terminal', streamError', s, m)
  BY DEF DeliveryInv
<1>1. /\ InPlace(p, n0, q0, s0, m0) /\ EndIsLast(q0, terminal)
      /\ ~Reads(p) => InPlace(p, 0, w0, s0, m0)
      /\ ~streamError => Counted(p, s0, m0) = IF Reads(p) THEN n0 + EventsIn(q0) ELSE Len(w0)
  BY DEF DeliveryInv, Delivered
<1>2. /\ q0 \in Seq(Events \cup {End}) /\ n0 \in Nat /\ w0 \in Seq(Events)
      /\ pendingEvents[p] \in Seq(Events) /\ End \notin Events /\ sizeCap \in BOOLEAN
  <2>1. read[p] \in Seq(Events) /\ pendingEvents[p] \in Seq(Events)
    BY DEF TypeQueues
  <2>2. <<SizeCap>> \in Seq(Events)
    BY EventFacts
  <2> QED BY <2>1, <2>2, EventFacts DEF TypeQueues, Waited
<1>3. /\ p \in claimed => Reads(p)
      /\ ~Reads(p) => p \notin claimed /\ n0 = 0 /\ q0 = <<>>
      /\ Reads(p) => pendingEvents[p] = <<>> /\ (terminal \/ p \in claimed)
  BY DEF HandleInv
<1>4. /\ m0 \in Nat /\ m \in Nat /\ m0 <= m /\ m0 <= Len(s0) /\ \A i \in 1 .. m0 : s[i] = s0[i]
  <2>1. m0 \in 0 .. Len(s0) /\ m \in 0 .. Len(s) /\ m0 <= m
    BY RoutedMoves
  <2>2. Len(s0) \in Nat /\ Len(s) \in Nat /\ \A i \in 1 .. Len(s0) : s[i] = s0[i]
    BY StreamGrows DEF TypeServer
  <2> QED BY <2>1, <2>2
<1>5. /\ InPlace(p, n0, q0, s, m)
      /\ ~Reads(p) => InPlace(p, 0, w0, s, m)
  BY <1>1, <1>4, InPlaceStays
<1>6. ~ReaderRoutes /\ ~streamError' => Counted(p, s, m) = Counted(p, s0, m0) /\ ~streamError
  BY CountUnrouted
<1>7. CASE ReaderRoutes
  <2> SUFFICES ASSUME NEW e, e = emitted[remembered]
               PROVE  Delivered(p, n, q, w, Reads(p)', terminal', streamError', s, m)
    OBVIOUS
  <2>1. /\ UNCHANGED <<claimed, read, pc, terminal>> /\ ~terminal
        /\ IF e = SizeCap THEN sizeCap' = TRUE ELSE UNCHANGED sizeCap
        /\ Queued(p, e) \/ Kept(p, e) \/ PassedBy(p, e)
    BY <1>3, <1>7, RoutesOne
  <2>2. e \in Events /\ Routes /\ ~streamError /\ ~streamError' /\ e # End
    BY <1>2, <1>7, Routing DEF ReaderRoutes, Routes, OnceInv
  <2>3. m = m0 + 1 /\ remembered = m0 + 1 /\ s = s0 /\ e = s[m0 + 1]
    BY <1>7, RoutedMoves DEF ReaderRoutes, serverVars
  <2>4. /\ Counted(p, s0, m0) \in Nat
        /\ Concerned(p, e) => Counted(p, s, m) = Counted(p, s0, m0) + 1 /\ Nth(p, e, Counted(p, s0, m0) + 1, s, m)
        /\ ~Concerned(p, e) => Counted(p, s, m) = Counted(p, s0, m0)
    BY <1>4, <2>3, CountRouted
  <2>5. e = SizeCap => ~sizeCap
    <3>1. m0 + 1 \in DOMAIN s0 /\ DOMAIN s0 = 1 .. Len(s0)
      BY <1>7, <2>3, Routing DEF TypeServer
    <3>2. ASSUME e = SizeCap, NEW i \in 1 .. m0, s0[i] = SizeCap PROVE FALSE
      <4>1. i \in DOMAIN s0 /\ i # m0 + 1 /\ s0[m0 + 1] = SizeCap
        BY <1>4, <2>3, <3>1, <3>2
      <4> QED BY <3>1, <3>2, <4>1 DEF OnceInv
    <3>3. e = SizeCap => SizeCap \notin Upto(s0, m0)
      BY <3>2 DEF Upto
    <3> QED BY <2>2, <3>3 DEF CapInv
  <2>6. Concerned(p, e) <=> Wants(p, e)
    BY ConcernFacts
  <2>7. n = n0 /\ (Reads(p)' <=> Reads(p)) /\ \A k \in DOMAIN q0 : q0[k] # End
    BY <1>1, <2>1 DEF EndIsLast, Reads
  <2>8. EventsIn(q0) = Len(q0) /\ Len(q0) \in Nat
    BY <1>2, <2>7, EventsInFacts
  <2>9. CASE Queued(p, e)
    <3>1. Reads(p) /\ q = Append(q0, e) /\ Concerned(p, e) /\ e \in Events \cup {End}
      BY <1>3, <2>2, <2>6, <2>9 DEF Queued
    <3>2. EventsIn(q) = Len(q0) + 1
      BY <1>2, <2>2, <3>1, EventsInFacts
    <3>3. Counted(p, s0, m0) = n0 + Len(q0)
      BY <1>1, <2>2, <2>8, <3>1
    <3>4. Nth(p, e, n0 + Len(q0) + 1, s, m) /\ Counted(p, s, m) = n0 + (Len(q0) + 1)
      <4>1. \A a, b \in Nat : a + b + 1 = a + (b + 1)
        OBVIOUS
      <4> QED BY <1>2, <2>8, <2>4, <3>1, <3>3, <4>1
    <3>5. InPlace(p, n, q, s, m)
      BY <1>2, <1>5, <2>7, <3>1, <3>4, InPlaceAppend
    <3>6. EndIsLast(q, terminal')
      BY <1>2, <2>2, <2>7, <3>1 DEF EndIsLast
    <3> QED BY <2>7, <3>1, <3>2, <3>4, <3>5, <3>6 DEF Delivered
  <2>10. CASE Kept(p, e)
    <3>1. p \notin claimed /\ q = q0 /\ ~Reads(p) /\ Concerned(p, e)
      BY <1>3, <2>1, <2>6, <2>10 DEF Kept, Wants
    <3>2. w = Append(w0, e)
      <4>1. CASE pendingEvents[p] # <<>> \/ ~sizeCap
        <5>1. pendingEvents'[p] = Append(pendingEvents[p], e) /\ w0 = pendingEvents[p]
          BY <2>10, <4>1 DEF Kept, Buffered, Waited
        <5>2. Append(pendingEvents[p], e) # <<>>
          BY <1>2, <2>2
        <5> QED BY <5>1, <5>2 DEF Waited
      <4>2. CASE pendingEvents[p] = <<>> /\ sizeCap
        <5>1. pendingEvents'[p] = <<SizeCap, e>> /\ w0 = <<SizeCap>>
          BY <2>5, <2>10, <4>2 DEF Kept, Buffered, Waited
        <5>2. Append(<<SizeCap>>, e) = <<SizeCap, e>> /\ <<SizeCap, e>> # <<>>
          BY AppendOne
        <5>3. w = <<SizeCap, e>>
          BY <5>1, <5>2 DEF Waited
        <5> QED BY <5>1, <5>2, <5>3
      <4> QED BY <1>2, <4>1, <4>2
    <3>3. Counted(p, s0, m0) = Len(w0) /\ Len(w0) \in Nat /\ Len(w) = Len(w0) + 1
      BY <1>1, <1>2, <2>2, <3>1, <3>2
    <3>4. InPlace(p, 0, w, s, m)
      <4>1. Nth(p, e, 0 + Len(w0) + 1, s, m)
        BY <2>4, <3>1, <3>3
      <4> QED BY <1>2, <1>5, <2>2, <3>1, <3>2, <4>1, InPlaceAppend
    <3>5. EndIsLast(q, terminal')
      BY <2>7, <3>1 DEF EndIsLast
    <3> QED BY <1>5, <2>4, <2>7, <3>1, <3>3, <3>4, <3>5 DEF Delivered
  <2>11. CASE PassedBy(p, e)
    <3>1. q = q0 /\ pendingEvents'[p] = pendingEvents[p] /\ e.spid # p /\ EndIsLast(q, terminal')
      BY <2>7, <2>11 DEF PassedBy, EndIsLast
    <3>2. CASE e # SizeCap
      <4>1. ~Concerned(p, e) /\ w = w0
        BY <2>1, <2>6, <3>1, <3>2 DEF Wants, Waited
      <4> QED BY <1>1, <1>5, <2>2, <2>4, <2>7, <3>1, <4>1 DEF Delivered
    <3>3. CASE e = SizeCap
      <4>1. ~Reads(p) /\ w0 = <<>> /\ w = <<SizeCap>> /\ Concerned(p, e)
        BY <1>3, <2>1, <2>5, <2>6, <2>11, <3>1, <3>3 DEF PassedBy, Wants, Waited
      <4>2. Counted(p, s0, m0) = 0 /\ Len(w) = 1 /\ DOMAIN w = {1} /\ w[1] = e
        BY <1>1, <2>2, <3>3, <4>1
      <4>3. Nth(p, e, 0 + 1, s, m) /\ Counted(p, s, m) = 1
        BY <2>4, <4>1, <4>2
      <4>4. InPlace(p, 0, w, s, m)
        BY <4>2, <4>3 DEF InPlace
      <4> QED BY <1>5, <2>7, <3>1, <4>1, <4>2, <4>3, <4>4 DEF Delivered
    <3> QED BY <3>2, <3>3
  <2> QED BY <2>1, <2>9, <2>10, <2>11
<1>8. CASE ReaderEnds
  <2>1. /\ UNCHANGED <<sizeCap, pendingEvents, claimed, read, pc>> /\ ~terminal /\ terminal' = TRUE
        /\ q = IF p \in claimed THEN Append(q0, End) ELSE q0
        /\ ~ReaderRoutes
    BY <1>8 DEF ReaderEnds, callVars, ReaderInv, ReaderRoutes
  <2>2. n = n0 /\ w = w0 /\ (Reads(p)' <=> Reads(p)) /\ \A k \in DOMAIN q0 : q0[k] # End
    BY <1>1, <2>1 DEF Reads, Waited, EndIsLast
  <2>3. End \in Events \cup {End} /\ Append(q0, End) \in Seq(Events \cup {End})
    BY <1>2
  <2>4. InPlace(p, n, Append(q0, End), s, m)
    BY <1>2, <1>5, <2>2, <2>3, InPlaceAppend
  <2>5. EventsIn(Append(q0, End)) = EventsIn(q0)
    BY <1>2, <2>2, <2>3, EventsInFacts
  <2>6. EndIsLast(Append(q0, End), TRUE) /\ EndIsLast(q0, TRUE)
    BY <1>2, <2>2 DEF EndIsLast
  <2>7. ~streamError' => Counted(p, s, m) = IF Reads(p) THEN n + EventsIn(q) ELSE Len(w)
    BY <1>1, <1>6, <2>1, <2>2, <2>5
  <2> QED BY <1>5, <2>1, <2>2, <2>4, <2>6, <2>7 DEF Delivered
<1>9. ASSUME NEW o \in Procs, ClaimQueue(o), ~ReaderRoutes
      PROVE  Delivered(p, n, q, w, Reads(p)', terminal', streamError', s, m)
  <2>1. UNCHANGED <<terminal, sizeCap, read>> /\ n = n0
    BY <1>9, ClaimsOne
  <2>2. CASE o = p
    <3>1. Reads(p)' /\ q = IF terminal THEN Append(w0, End) ELSE w0
      BY <1>9, <2>2, ClaimsOne DEF Reads
    <3>2. ~Reads(p) /\ n0 = 0
      BY <1>3, <1>9, <2>2 DEF ClaimQueue, Reads
    <3>3. /\ w0 \in Seq(Events \cup {End}) /\ (\A k \in DOMAIN w0 : w0[k] # End)
          /\ Len(w0) \in Nat /\ End \in Events \cup {End}
      BY <1>2
    <3>4. EventsIn(w0) = Len(w0) /\ EventsIn(Append(w0, End)) = Len(w0)
      BY <3>3, EventsInFacts
    <3>5. InPlace(p, 0, w0, s, m) /\ InPlace(p, 0, Append(w0, End), s, m)
      BY <1>5, <3>2, <3>3, InPlaceAppend
    <3>6. EndIsLast(Append(w0, End), TRUE) /\ EndIsLast(w0, terminal')
      BY <3>3 DEF EndIsLast
    <3>7. ~streamError' => Counted(p, s, m) = 0 + Len(w0)
      BY <1>1, <1>6, <1>9, <3>2, <3>3
    <3> QED BY <2>1, <3>1, <3>2, <3>4, <3>5, <3>6, <3>7 DEF Delivered
  <2>3. CASE o # p
    <3>1. q = q0 /\ w = w0 /\ pc'[p] = pc[p]
      BY <1>9, <2>1, <2>3, ClaimsOne DEF Waited
    <3>2. Reads(p)' <=> Reads(p)
      BY <3>1 DEF Reads
    <3> QED BY <1>1, <1>5, <1>6, <1>9, <2>1, <3>1, <3>2 DEF Delivered
  <2> QED BY <2>2, <2>3
<1>10. ASSUME NEW o \in Procs, HandleReads(o), ~ReaderRoutes
       PROVE  Delivered(p, n, q, w, Reads(p)', terminal', streamError', s, m)
  <2>1. UNCHANGED <<terminal, sizeCap, claimed, pendingEvents>> /\ w = w0
    BY <1>10, ReadsOne DEF Waited
  <2>2. CASE o = p
    <3> SUFFICES ASSUME NEW item, item = Head(q0)
                 PROVE  Delivered(p, n, q, w, Reads(p)', terminal', streamError', s, m)
      OBVIOUS
    <3>1. /\ q0 # <<>> /\ q = Tail(q0) /\ Reads(p) /\ Reads(p)'
          /\ \/ item = End /\ read'[p] = read[p]
             \/ item \in Events /\ read'[p] = Append(read[p], item)
      <4>1. pc[p] = "reading" /\ (pc'[p] \in {"reading", "done", "broken", "incomplete"})
        BY <1>10, <2>2, ReadsOne
      <4> QED BY <1>10, <2>2, <4>1, ReadsOne DEF Reads
    <3>2. /\ Len(q0) \in Nat \ {0} /\ DOMAIN q0 = 1 .. Len(q0) /\ item = q0[1] /\ DOMAIN q = 1 .. Len(q0) - 1
          /\ (\A i \in 1 .. Len(q0) - 1 : q[i] = q0[i + 1]) /\ Len(q) = Len(q0) - 1
      BY <1>2, <3>1
    <3>3. EndIsLast(q, terminal')
      <4> SUFFICES ASSUME NEW k \in DOMAIN q, q[k] = End PROVE k = Len(q) /\ terminal
        BY <2>1 DEF EndIsLast
      <4>1. k + 1 \in DOMAIN q0 /\ q0[k + 1] = End
        BY <3>2
      <4>2. k + 1 = Len(q0) /\ terminal
        BY <1>1, <4>1 DEF EndIsLast
      <4> QED BY <3>2, <4>2
    <3>4. EventsIn(q) = IF Len(q0) = 1 THEN 0 ELSE EventsIn(q0) - 1
      BY <1>2, <3>1, EventsInFacts
    <3>5. EventsIn(q0) \in Nat
      BY <1>2, EventsInFacts
    <3>6. CASE item = End
      <4>1. Len(q0) = 1 /\ n = n0
        <5>1. 1 \in DOMAIN q0 /\ q0[1] = End
          BY <3>2, <3>6
        <5> QED BY <1>1, <1>2, <3>1, <3>6, <5>1 DEF EndIsLast
      <4>2. EventsIn(q0) = 0 /\ EventsIn(q) = 0
        BY <3>1, <3>2, <3>4, <3>6, <4>1 DEF EventsIn
      <4>3. InPlace(p, n, q, s, m)
        BY <3>2, <4>1 DEF InPlace
      <4> QED BY <1>1, <1>6, <1>10, <3>1, <3>3, <4>1, <4>2, <4>3 DEF Delivered
    <3>7. CASE item # End
      <4>1. n = n0 + 1
        <5>1. read[p] \in Seq(Events) /\ item \in Events /\ read'[p] = Append(read[p], item)
          BY <3>1, <3>7 DEF TypeQueues
        <5>2. Len(Append(read[p], item)) = Len(read[p]) + 1
          BY <5>1
        <5> QED BY <5>1, <5>2
      <4>2. InPlace(p, n, q, s, m)
        BY <1>2, <1>5, <3>1, <4>1, InPlaceTail
      <4>3. n + EventsIn(q) = n0 + EventsIn(q0)
        <5>1. CASE Len(q0) = 1
          <6>1. EventsIn(q0) = 1 /\ EventsIn(q) = 0
            BY <3>1, <3>2, <3>4, <3>7, <5>1 DEF EventsIn
          <6> QED BY <1>2, <4>1, <6>1
        <5>2. CASE Len(q0) # 1
          <6>1. EventsIn(q) = EventsIn(q0) - 1
            BY <3>4, <5>2
          <6>2. \A a, b \in Nat : (a + 1) + (b - 1) = a + b
            OBVIOUS
          <6> QED BY <1>2, <3>5, <4>1, <6>1, <6>2
        <5> QED BY <5>1, <5>2
      <4> QED BY <1>1, <1>6, <1>10, <3>1, <3>3, <4>2, <4>3 DEF Delivered
    <3> QED BY <3>6, <3>7
  <2>3. CASE o # p
    <3>1. q = q0 /\ n = n0 /\ pc'[p] = pc[p]
      BY <1>10, <2>3, ReadsOne
    <3>2. Reads(p)' <=> Reads(p)
      BY <3>1 DEF Reads
    <3> QED BY <1>1, <1>5, <1>6, <1>10, <2>1, <3>1, <3>2 DEF Delivered
  <2> QED BY <2>2, <2>3
<1>11. CASE /\ UNCHANGED <<queueVars, read>> /\ ~ReaderEnds /\ ~ReaderRoutes
            /\ \A o \in Procs : ~ClaimQueue(o) /\ ~HandleReads(o)
  <2>1. UNCHANGED terminal /\ q = q0 /\ n = n0 /\ w = w0
    BY <1>11, TerminalSteps DEF queueVars, Waited
  <2>2. Reads(p)' <=> Reads(p)
    BY <1>11, HandleMoves DEF Reads
  <2> QED BY <1>1, <1>5, <1>6, <1>11, <2>1, <2>2 DEF Delivered
<1> QED BY <1>7, <1>8, <1>9, <1>10, <1>11, QueueSteps

-----------------------------------------------------------------------------
(* The invariant holds.                                                    *)

LogInv == IInv /\ OnceInv /\ DeliveryInv

\* Nothing has been read when the operation starts.
LEMMA InitLogInv == Init => LogInv
<1> SUFFICES ASSUME Init PROVE LogInv
  OBVIOUS
<1>1. IInv
  BY InitIInv
<1>2. OnceInv
  <2>1. emitted = <<Event("spawn", Main)>> /\ Event("spawn", Main) # SizeCap
    BY EventFacts DEF Init
  <2>2. \A i \in DOMAIN emitted : emitted[i] # SizeCap
    BY <2>1
  <2> QED BY <2>2 DEF Init, OnceInv
<1>3. ASSUME NEW p \in Procs
      PROVE  Delivered(p, Len(read[p]), queues[p], Waited(p), Reads(p), terminal, streamError, emitted, Routed)
  <2>1. /\ read[p] = <<>> /\ queues[p] = <<>> /\ pendingEvents[p] = <<>> /\ sizeCap = FALSE /\ pc[p] = "idle"
        /\ Routed = 0
    BY DEF Init, Calls, Routed
  <2>2. Waited(p) = <<>> /\ ~Reads(p) /\ Counted(p, emitted, 0) = 0 /\ Len(<<>>) = 0
    BY <2>1, CountNext DEF Waited, Reads
  <2>3. \A n, s, m : InPlace(p, n, <<>>, s, m) /\ EndIsLast(<<>>, terminal)
    BY DEF InPlace, EndIsLast
  <2> QED BY <2>1, <2>2, <2>3 DEF Delivered
<1> QED BY <1>1, <1>2, <1>3 DEF LogInv, DeliveryInv

\* Every step keeps the invariant.
LEMMA NextLogInv == LogInv /\ [Next]_vars => LogInv'
<1> SUFFICES ASSUME LogInv, [Next]_vars PROVE LogInv'
  OBVIOUS
<1>1. IInv'
  BY NextIInv DEF LogInv
<1>2. OnceInv'
  BY OnceKeeps DEF LogInv, IInv, TypeInv
<1>3. DeliveryInv'
  BY DeliveryKeeps DEF LogInv, IInv, TypeInv
<1> QED BY <1>1, <1>2, <1>3 DEF LogInv

\* Each handle has read, or has in its queue and buffer, exactly the events
\* routed for it, each once and in their order.
THEOREM LogInductive == Spec => []LogInv
  BY InitLogInv, NextLogInv, PTL DEF Spec

-----------------------------------------------------------------------------
(* What a step does to the log and to its readers.                         *)

Given == [r \in Readers |-> IF r \in Procs THEN read[r] ELSE SubSeq(emitted, 1, cursor[r])]
Fates == [r \in Readers |-> Fate(r)]
Settled == {"done", "incomplete", "broken", "failed", "left"}
FateOf(step) ==
    CASE step \in {"done", "incomplete"} -> "whole"
      [] step = "broken" -> "broken"
      [] step \in {"failed", "left"} -> "left"
      [] OTHER -> "no"

\* What the step of a reader says of how it ended.
LEMMA FateFacts ==
    /\ \A r : Fate(r) = FateOf(pc[r])
    /\ FateOf("done") = "whole" /\ FateOf("incomplete") = "whole" /\ FateOf("broken") = "broken"
    /\ FateOf("failed") = "left" /\ FateOf("left") = "left"
    /\ \A step : step \notin Settled => FateOf(step) = "no"
<1>1. \A r : Fate(r) = FateOf(pc[r])
  BY DEF Fate, FateOf
<1>2. FateOf("done") = "whole" /\ FateOf("incomplete") = "whole"
  BY DEF FateOf
<1>3. FateOf("broken") = "broken"
  BY DEF FateOf
<1>4. FateOf("failed") = "left" /\ FateOf("left") = "left"
  BY DEF FateOf
<1>5. ASSUME NEW step, step \notin Settled PROVE FateOf(step) = "no"
  <2>1. step \notin {"done", "incomplete"} /\ step # "broken" /\ step \notin {"failed", "left"}
    BY <1>5 DEF Settled
  <2> QED BY <2>1 DEF FateOf
<1> QED BY <1>1, <1>2, <1>3, <1>4, <1>5

\* A call that is not a reader, or does not settle, moves nobody's fate.
LEMMA FateStays ==
    ASSUME TypeCalls, NEW c, NEW step, Goes(c, step),
           c \notin Readers \/ (pc[c] \notin Settled /\ step \notin Settled),
           NEW r \in Readers
    PROVE  Fate(r)' = Fate(r)
<1>1. r \in Calls
  BY DEF Readers, Calls
<1>2. pc'[r] = pc[r] \/ (r = c /\ pc'[r] = step)
  BY <1>1 DEF Goes, TypeCalls
<1>3. Fate(r) = FateOf(pc[r]) /\ Fate(r)' = FateOf(pc'[r])
  BY DEF Fate, FateOf
<1> QED BY <1>2, <1>3, FateFacts

Quiet ==
    /\ UNCHANGED <<remembered, terminal, read, cursor>>
    /\ streamError' = streamError \/ (streamError' = TRUE /\ ~terminal /\ streamError = FALSE)
    /\ \A r \in Readers : Fate(r)' = Fate(r)

\* A step that changes what the abstract logs show.
LEMMA LogSteps ==
    ASSUME TypeReader, TypeCalls, ReaderInv, OnceInv, [Next]_vars
    PROVE  \/ ReaderTakes \/ ReaderEnds
           \/ \E p \in Procs : HandleReads(p) \/ CreateFails(p)
           \/ \E f \in Follows : Follow(f) \/ FollowTimesOut(f)
           \/ Quiet
<1> DEFINE Same == UNCHANGED <<remembered, terminal, streamError, read, cursor>>
<1>1. ASSUME Same, UNCHANGED pc PROVE Quiet
  <2>1. \A r \in Readers : Fate(r)' = Fate(r)
    BY <1>1 DEF Fate
  <2> QED BY <1>1, <2>1 DEF Quiet
<1>2. ASSUME Same, NEW c, NEW step, Goes(c, step),
             c \notin Readers \/ (pc[c] \notin Settled /\ step \notin Settled)
      PROVE  Quiet
  <2>1. \A r \in Readers : Fate(r)' = Fate(r)
    BY <1>2, FateStays
  <2> QED BY <1>2, <2>1 DEF Quiet
<1>3. ASSUME UNCHANGED <<remembered, terminal, callVars>>, reader \in {"streaming", "routing", "closing"},
             streamError' \in BOOLEAN, streamError => streamError'
      PROVE  Quiet
  <2>1. ~terminal /\ streamError \in BOOLEAN
    BY <1>3 DEF ReaderInv, TypeReader
  <2>2. \A r \in Readers : Fate(r)' = Fate(r)
    BY <1>3 DEF Fate, callVars
  <2> QED BY <1>3, <2>1, <2>2 DEF Quiet, callVars
<1>4. CASE Server \/ ReaderRoutes \/ ReaderTells \/ AllRest \/ UNCHANGED vars
  <2>1. Same /\ UNCHANGED pc
    BY <1>4 DEF Server, CapsOutput, OperationEnds, Output, Exit, ReaderRoutes, ReaderTells, AllRest, vars,
                callVars, readerVars
  <2> QED BY <1>1, <2>1
<1>5. CASE StreamStops \/ ReaderCloses
  <2>1. CASE StreamStops
    <3>1. ~streamError
      BY <2>1 DEF StreamStops, OnceInv, Routes
    <3> QED BY <1>3, <2>1, <3>1 DEF StreamStops
  <2>2. CASE ReaderCloses
    <3>1. \E fails \in BOOLEAN : streamError' = (streamError \/ fails)
      BY <2>2 DEF ReaderCloses
    <3>2. streamError' \in BOOLEAN /\ (streamError => streamError')
      BY <3>1 DEF TypeReader
    <3> QED BY <1>3, <2>2, <3>2 DEF ReaderCloses
  <2> QED BY <1>5, <2>1, <2>2
<1>6. ASSUME NEW p \in Procs, RunBegins(p) \/ ServerCreates(p) \/ ClaimQueue(p) PROVE Quiet
  <2>1. Same /\ \E step \in {"creating", "created", "reading"} : Goes(p, step)
    BY <1>6 DEF RunBegins, ServerCreates, ClaimQueue, readerVars
  <2>2. pc[p] \in {"idle", "creating", "created"}
    BY <1>6 DEF RunBegins, ServerCreates, ClaimQueue
  <2> QED BY <1>2, <2>1, <2>2 DEF Settled
<1>7. ASSUME NEW f \in Follows, FollowBegins(f) PROVE Quiet
  <2>1. Same /\ Goes(f, "following") /\ pc[f] = "idle"
    BY <1>7 DEF FollowBegins
  <2> QED BY <1>2, <2>1 DEF Settled
<1>8. \A c \in Waits \cup Shutdowns \cup {Main} : c \notin Readers
  BY OperationAssumption DEF Readers, Calls
<1>9. ASSUME NEW w \in Waits, WaitBegins(w) \/ WaitFails(w) \/ WaitCompletes(w) PROVE Quiet
  <2>1. Same /\ \E step : Goes(w, step)
    BY <1>9 DEF WaitBegins, WaitFails, WaitCompletes, readerVars
  <2> QED BY <1>2, <1>8, <2>1
<1>10. ASSUME NEW s \in Shutdowns, ShutdownBegins(s) \/ ShutdownRuns(s) PROVE Quiet
  <2>1. ASSUME ShutdownBegins(s) \/ ShutdownSignals(s) \/ ShutdownDecides(s) \/ Joined(s) PROVE Quiet
    <3>1. Same /\ \E step : Goes(s, step)
      BY <2>1 DEF ShutdownBegins, ShutdownSignals, ShutdownDecides, Joined, Joins, readerVars
    <3> QED BY <1>2, <1>8, <3>1
  <2>2. ASSUME JoinTimesOut(s) PROVE Quiet
    <3>1. UNCHANGED <<remembered, terminal>>
      BY <2>2 DEF JoinTimesOut
    <3>2. CASE Joins(s, IF streamError \/ failing THEN "raised" ELSE "done") /\ UNCHANGED <<reader, streamError>>
      <4>1. Same /\ \E step : Goes(s, step)
        BY <3>1, <3>2 DEF Joins
      <4> QED BY <1>2, <1>8, <4>1
    <3>3. CASE reader \in {"streaming", "routing"} /\ streamError' = TRUE /\ UNCHANGED callVars
      BY <1>3, <3>1, <3>3
    <3>4. CASE UNCHANGED <<streamError, callVars>>
      BY <1>1, <3>1, <3>4 DEF callVars
    <3> QED BY <2>2, <3>2, <3>3, <3>4 DEF JoinTimesOut
  <2> QED BY <1>10, <2>1, <2>2 DEF ShutdownRuns
<1>11. ASSUME NEW c \in Waits \cup Shutdowns \cup {Main}, CancelRuns(c) PROVE Quiet
  <2>1. Same /\ (UNCHANGED pc \/ \E step : Goes(c, step))
    BY <1>11 DEF CancelRuns, CancelAgain, CancelAsks, CancelAnswers, AfterCancel, readerVars, callVars
  <2> QED BY <1>1, <1>2, <1>8, <2>1
<1>12. ASSUME NEW t \in Pipes, PipeBegins(t) \/ PipeRuns(t) \/ PipeFails(t) PROVE Quiet
  <2>1. Same /\ UNCHANGED pc
    BY <1>12 DEF PipeBegins, PipeRuns, PipeSpawned, PipeTests, PipeReads, PipeSends, PipeAcked, PipeKills,
                 PipeFails, readerVars, callVars
  <2> QED BY <1>1, <2>1
<1> QED BY <1>4, <1>5, <1>6, <1>7, <1>9, <1>10, <1>11, <1>12 DEF Next, HandleRuns, ReaderRuns

-----------------------------------------------------------------------------
(* Each step is a step of EventLogs.                                       *)

\* The beginning of a sequence.
LEMMA SubSeqFacts ==
    ASSUME NEW S, NEW s \in Seq(S), NEW n \in 0 .. Len(s)
    PROVE  /\ SubSeq(s, 1, n) \in Seq(S) /\ Len(SubSeq(s, 1, n)) = n
           /\ \A i \in 1 .. n : SubSeq(s, 1, n)[i] = s[i]
           /\ n < Len(s) => SubSeq(s, 1, n + 1) = Append(SubSeq(s, 1, n), s[n + 1])
           /\ \A t \in Seq(S) : Len(s) <= Len(t) /\ (\A i \in 1 .. n : t[i] = s[i]) =>
                SubSeq(t, 1, n) = SubSeq(s, 1, n)
<1>1. /\ SubSeq(s, 1, n) \in Seq(S) /\ Len(SubSeq(s, 1, n)) = n /\ Len(s) \in Nat
      /\ \A i \in 1 .. n : SubSeq(s, 1, n)[i] = s[i]
  OBVIOUS
<1>2. ASSUME NEW a \in Seq(S), NEW b \in Seq(S), Len(a) = Len(b), \A i \in 1 .. Len(a) : a[i] = b[i]
      PROVE  a = b
  BY <1>2
<1>3. ASSUME n < Len(s) PROVE SubSeq(s, 1, n + 1) = Append(SubSeq(s, 1, n), s[n + 1])
  <2> DEFINE a == SubSeq(s, 1, n + 1)
             b == Append(SubSeq(s, 1, n), s[n + 1])
  <2>1. a \in Seq(S) /\ Len(a) = n + 1 /\ \A i \in 1 .. n + 1 : a[i] = s[i]
    BY <1>3
  <2>2. b \in Seq(S) /\ Len(b) = n + 1 /\ \A i \in 1 .. n + 1 : b[i] = s[i]
    <3>1. s[n + 1] \in S
      BY <1>1, <1>3
    <3> QED BY <1>1, <3>1
  <2> HIDE DEF a, b
  <2>3. a = b
    BY <1>2, <2>1, <2>2
  <2> QED BY <2>3 DEF a, b
<1>4. ASSUME NEW t \in Seq(S), Len(s) <= Len(t), \A i \in 1 .. n : t[i] = s[i]
      PROVE  SubSeq(t, 1, n) = SubSeq(s, 1, n)
  <2>1. SubSeq(t, 1, n) \in Seq(S) /\ Len(SubSeq(t, 1, n)) = n /\ \A i \in 1 .. n : SubSeq(t, 1, n)[i] = t[i]
    BY <1>1, <1>4
  <2> QED BY <1>1, <1>2, <1>4, <2>1
<1> QED BY <1>1, <1>3, <1>4

\* What was remembered, and what a subscription has read, is not rewritten.
LEMMA HistoryStays ==
    ASSUME TypeServer, TypeReader, TypeCalls, [Next]_vars
    PROVE  /\ remembered' = remembered => history' = history
           /\ UNCHANGED <<read, cursor>> => Given' = Given
<1>1. /\ emitted \in Seq(Events) /\ emitted' \in Seq(Events) /\ Len(emitted) <= Len(emitted')
      /\ \A i \in 1 .. Len(emitted) : emitted'[i] = emitted[i]
  BY StreamGrows DEF TypeServer
<1>2. ASSUME NEW n \in 0 .. Len(emitted) PROVE SubSeq(emitted', 1, n) = SubSeq(emitted, 1, n)
  <2>1. \A i \in 1 .. n : emitted'[i] = emitted[i]
    BY <1>1
  <2> QED BY <1>1, <2>1, SubSeqFacts
<1>3. remembered' = remembered => history' = history
  BY <1>2 DEF history, TypeReader
<1>4. ASSUME UNCHANGED <<read, cursor>> PROVE Given' = Given
  <2>1. \A r \in Readers : r \notin Procs => cursor[r] \in 0 .. Len(emitted)
    BY <1>1 DEF Readers, TypeCalls, TypeReader
  <2>2. \A r \in Readers :
          (IF r \in Procs THEN read'[r] ELSE SubSeq(emitted', 1, cursor'[r]))
            = IF r \in Procs THEN read[r] ELSE SubSeq(emitted, 1, cursor[r])
    BY <1>2, <1>4, <2>1
  <2> QED BY <2>2 DEF Given
<1> QED BY <1>3, <1>4

\* Readers end only by a step of theirs.
LEMMA FatesStay ==
    ASSUME \A r \in Readers : Fate(r)' = Fate(r)
    PROVE  Fates' = Fates
BY DEF Fates

\* The abstract logs count as the model does.
LEMMA SameCount == \A S : Logs!Cardinality(S) = Cardinality(S)
BY DEF Logs!Cardinality, Cardinality

\* A reader is given the next event that concerns it.
LEMMA GivesNext ==
    ASSUME TypeServer, TypeReader, NEW r \in Readers, NEW i \in 1 .. remembered,
           Concerned(r, emitted[i]), Given[r] \in Seq(Events),
           Counted(r, emitted, i) = Len(Given[r]) + 1, Fate(r) = "no",
           Given' = [Given EXCEPT ![r] = Append(@, emitted[i])],
           Fates' = [Fates EXCEPT ![r] = IF LastFor(r, emitted[i]) THEN "whole" ELSE "no"],
           UNCHANGED <<history, terminal, streamError>>
    PROVE  Logs!Read(r)
<1>1. /\ emitted \in Seq(Events) /\ remembered \in 0 .. Len(emitted) /\ history \in Seq(Events)
      /\ Len(history) = remembered /\ \A j \in 1 .. remembered : history[j] = emitted[j]
  BY SubSeqFacts DEF TypeServer, TypeReader, history
<1>2. i \in DOMAIN history /\ history[i] = emitted[i] /\ emitted[i] \in Events
  BY <1>1
<1>3. Counted(r, history, i) = Counted(r, emitted, i)
  <2>1. i \in Nat /\ \A j \in 1 .. i : history[j] = emitted[j]
    BY <1>1
  <2> QED BY <2>1, CountStays
<1>4. Logs!IsNext(r, i)
  <2>1. Concerned(r, history[i]) /\ Counted(r, history, i) = Len(Given[r]) + 1
    BY <1>2, <1>3
  <2> QED BY <2>1, SameCount DEF Logs!IsNext, Logs!Count, Counted, Given
<1>5. Given'[r] # Given[r]
  <2>1. Given'[r] = Append(Given[r], emitted[i])
    BY DEF Given
  <2>2. Append(Given[r], emitted[i]) # Given[r]
    BY <1>2, AppendIsMore
  <2> QED BY <2>1, <2>2
<1>6. Fates[r] = "no"
  BY DEF Fates
<1>7. /\ Given' = [Given EXCEPT ![r] = Append(Given[r], history[i])]
      /\ Fates' = [Fates EXCEPT ![r] = IF LastFor(r, history[i]) THEN "whole" ELSE "no"]
  BY <1>2
<1>8. UNCHANGED <<history, ~terminal, streamError>>
  OBVIOUS
<1> HIDE DEF history
<1> QED BY <1>2, <1>4, <1>5, <1>6, <1>7, <1>8 DEF Logs!Read, Given, Fates

\* A reader ends as the log did, or leaves it.
LEMMA EndsOrLeaves ==
    ASSUME NEW r \in Readers, Fate(r) = "no", UNCHANGED <<history, terminal, streamError, Given>>,
           \/ Fates' = [Fates EXCEPT ![r] = "left"]
           \/ /\ terminal
              /\ \/ /\ ~streamError /\ Len(Given[r]) = Counted(r, history, Len(history))
                    /\ Fates' = [Fates EXCEPT ![r] = "whole"]
                 \/ streamError /\ Fates' = [Fates EXCEPT ![r] = "broken"]
    PROVE  Logs!Ends(r) \/ Logs!Leaves(r)
<1>1. Fates[r] = "no" /\ \A v : [Fates EXCEPT ![r] = v][r] = v
  BY DEF Fates
<1>2. CASE Fates' = [Fates EXCEPT ![r] = "left"]
  BY <1>1, <1>2 DEF Logs!Leaves, Fates, Given
<1>3. CASE terminal /\ ~streamError /\ Len(Given[r]) = Counted(r, history, Len(history))
             /\ Fates' = [Fates EXCEPT ![r] = "whole"]
  BY <1>1, <1>3, SameCount DEF Logs!Ends, Logs!Count, Counted, Fates, Given
<1>4. CASE terminal /\ streamError /\ Fates' = [Fates EXCEPT ![r] = "broken"]
  BY <1>1, <1>4 DEF Logs!Ends, Fates, Given
<1> QED BY <1>2, <1>3, <1>4

\* A step that moves one call moves the fate of that reader only.
LEMMA OneFate ==
    ASSUME TypeCalls, NEW r \in Readers, NEW step, Goes(r, step)
    PROVE  Fates' = [Fates EXCEPT ![r] = FateOf(step)]
<1>1. Readers \subseteq Calls
  BY DEF Readers, Calls
<1>2. \A x \in Readers : pc'[x] = IF x = r THEN step ELSE pc[x]
  BY <1>1 DEF Goes, TypeCalls
<1>3. \A x \in Readers : Fate(x) = FateOf(pc[x]) /\ Fate(x)' = FateOf(pc'[x])
  BY DEF Fate, FateOf
<1>4. \A x \in Readers : Fate(x)' = IF x = r THEN FateOf(step) ELSE Fate(x)
  BY <1>2, <1>3
<1> QED BY <1>4 DEF Fates

\* At the end of the stream everything was routed.
LEMMA CountedHistory ==
    ASSUME TypeServer, TypeReader, NEW r
    PROVE  /\ Len(history) = remembered
           /\ Counted(r, history, Len(history)) = Counted(r, emitted, remembered)
<1>1. /\ remembered \in Nat /\ Len(history) = remembered
      /\ \A j \in 1 .. remembered : history[j] = emitted[j]
  BY SubSeqFacts DEF TypeServer, TypeReader, history
<1> QED BY <1>1, CountStays

\* A handle that reads its queue reads the next event, or the end.
LEMMA HandleReadsNext ==
    ASSUME LogInv, [Next]_vars, NEW p \in Procs, HandleReads(p)
    PROVE  Logs!Read(p) \/ Logs!Ends(p) \/ Logs!Leaves(p)
<1> SUFFICES ASSUME NEW item, item = Head(queues[p])
             PROVE  Logs!Read(p) \/ Logs!Ends(p) \/ Logs!Leaves(p)
  OBVIOUS
<1>1. TypeServer /\ TypeReader /\ TypeQueues /\ TypeCalls /\ ReaderInv /\ HandleInv /\ OnceInv /\ DeliveryInv
  BY DEF LogInv, IInv, TypeInv
<1>2. /\ UNCHANGED <<emitted, remembered, terminal, streamError, cursor>> /\ pc[p] = "reading"
      /\ queues[p] # <<>> /\ queues[p] \in Seq(Events \cup {End})
      /\ Goes(p, CASE item = End -> AtEnd [] item.type = "exit" -> "done" [] OTHER -> "reading")
      /\ read' = IF item = End THEN read ELSE [read EXCEPT ![p] = Append(@, item)]
  BY <1>1 DEF HandleReads, serverVars, readerVars, TypeQueues
<1>3. UNCHANGED history /\ p \in Readers /\ Fate(p) = "no" /\ Given[p] = read[p]
  BY <1>2, FateFacts DEF history, Readers, Given, Settled
<1>4. /\ 1 \in DOMAIN queues[p] /\ queues[p][1] = item /\ Len(queues[p]) \in Nat \ {0}
      /\ item # End => item \in Events
  BY <1>2
<1>5. /\ InPlace(p, Len(read[p]), queues[p], emitted, Routed) /\ EndIsLast(queues[p], terminal)
      /\ ~streamError => Counted(p, emitted, Routed) = Len(read[p]) + EventsIn(queues[p])
  BY <1>1, <1>2 DEF DeliveryInv, Delivered, Reads
<1>6. CASE item = End
  <2>1. terminal /\ Len(queues[p]) = 1
    BY <1>4, <1>5, <1>6 DEF EndIsLast
  <2>2. EventsIn(queues[p]) = 0 /\ Len(read[p]) \in Nat
    BY <1>1, <1>2, <1>4, <1>6, <2>1 DEF EventsIn, TypeQueues
  <2>3. Routed = remembered
    BY <1>1, <2>1 DEF ReaderInv, Routed
  <2>4. ~streamError => Len(Given[p]) = Counted(p, history, Len(history))
    BY <1>1, <1>3, <1>5, <2>2, <2>3, CountedHistory
  <2>5. Goes(p, AtEnd) /\ Given' = Given
    <3>1. (CASE item = End -> AtEnd [] item.type = "exit" -> "done" [] OTHER -> "reading") = AtEnd
      <4>1. End.type # "exit"
        BY DEF End, Event
      <4> QED BY <1>6, <4>1
    <3>2. Given' = Given
      BY <1>1, <1>2, <1>6, HistoryStays
    <3> QED BY <1>2, <3>1, <3>2
  <2>6. Fates' = [Fates EXCEPT ![p] = IF streamError THEN "broken" ELSE "whole"]
    <3>1. FateOf(AtEnd) = IF streamError THEN "broken" ELSE "whole"
      BY FateFacts DEF AtEnd
    <3> QED BY <1>1, <1>3, <2>5, <3>1, OneFate
  <2>7. streamError \in BOOLEAN
    BY <1>1 DEF TypeReader
  <2> QED BY <1>2, <1>3, <2>1, <2>4, <2>5, <2>6, <2>7, EndsOrLeaves
<1>7. CASE item # End
  <2>1. Nth(p, item, Len(read[p]) + 1, emitted, Routed)
    BY <1>4, <1>5, <1>7 DEF InPlace
  <2>2. PICK i \in 1 .. Routed : /\ emitted[i] = item /\ Concerned(p, item)
                                /\ Counted(p, emitted, i) = Len(read[p]) + 1
    BY <2>1 DEF Nth
  <2>3. i \in 1 .. remembered
    BY <1>1, <2>2 DEF Routed, TypeReader, TypeServer, ReaderInv
  <2>4. Given' = [Given EXCEPT ![p] = Append(@, item)]
    <3>1. \A r \in Readers : r \in Procs => read'[r] = IF r = p THEN Append(read[p], item) ELSE read[r]
      BY <1>1, <1>2, <1>7 DEF TypeQueues
    <3> QED BY <1>2, <1>3, <3>1 DEF Given
  <2>5. Goes(p, IF item.type = "exit" THEN "done" ELSE "reading")
    BY <1>2, <1>7
  <2>6. FateOf(IF item.type = "exit" THEN "done" ELSE "reading") = IF LastFor(p, item) THEN "whole" ELSE "no"
    BY FateFacts DEF Settled, LastFor
  <2>7. Fates' = [Fates EXCEPT ![p] = IF LastFor(p, item) THEN "whole" ELSE "no"]
    BY <1>1, <1>3, <2>5, <2>6, OneFate
  <2>8. Given[p] \in Seq(Events)
    BY <1>1, <1>3 DEF TypeQueues
  <2>9. Logs!Read(p)
    BY <1>1, <1>2, <1>3, <2>2, <2>3, <2>4, <2>7, <2>8, GivesNext
  <2> QED BY <2>9
<1> QED BY <1>6, <1>7

\* A subscription is given the next event, or the end.
LEMMA FollowNext ==
    ASSUME LogInv, [Next]_vars, NEW f \in Follows, Follow(f)
    PROVE  Logs!Read(f) \/ Logs!Ends(f) \/ Logs!Leaves(f)
<1>1. TypeServer /\ TypeReader /\ TypeCalls /\ ReaderInv
  BY DEF LogInv, IInv, TypeInv
<1>2. UNCHANGED <<emitted, remembered, terminal, streamError, read>> /\ pc[f] = "following"
  BY DEF Follow, serverVars, readerVars
<1>3. /\ UNCHANGED history /\ f \in Readers /\ f \notin Procs /\ Fate(f) = "no"
      /\ Given[f] = SubSeq(emitted, 1, cursor[f])
  BY <1>2, FateFacts, OperationAssumption DEF history, Readers, Given, Settled
<1>4. /\ cursor[f] \in 0 .. remembered /\ remembered \in 0 .. Len(emitted) /\ Len(emitted) \in Nat
      /\ cursor[f] \in 0 .. Len(emitted)
      /\ \A g \in Follows : cursor[g] \in 0 .. Len(emitted)
  BY <1>1 DEF TypeCalls, TypeReader, TypeServer
<1>5. Given[f] \in Seq(Events) /\ Len(Given[f]) = cursor[f]
  BY <1>1, <1>3, <1>4, SubSeqFacts DEF TypeServer
<1>6. CASE Unread(f) /\ cursor' = [cursor EXCEPT ![f] = @ + 1] /\ UNCHANGED pc
  <2>1. cursor[f] + 1 \in 1 .. remembered /\ cursor[f] + 1 \in Nat /\ cursor[f] < Len(emitted)
    BY <1>4, <1>6 DEF Unread
  <2>2. Concerned(f, emitted[cursor[f] + 1]) /\ Counted(f, emitted, cursor[f] + 1) = Len(Given[f]) + 1
    BY <1>3, <1>5, <2>1, CountAll DEF Concerned
  <2>3. Given' = [Given EXCEPT ![f] = Append(@, emitted[cursor[f] + 1])]
    <3>1. SubSeq(emitted, 1, cursor[f] + 1) = Append(SubSeq(emitted, 1, cursor[f]), emitted[cursor[f] + 1])
      BY <1>1, <1>4, <2>1, SubSeqFacts DEF TypeServer
    <3>2. \A r \in Readers : r \notin Procs => cursor'[r] = IF r = f THEN cursor[f] + 1 ELSE cursor[r]
      BY <1>1, <1>6 DEF TypeCalls, Readers
    <3> QED BY <1>2, <1>3, <3>1, <3>2 DEF Given
  <2>4. ~LastFor(f, emitted[cursor[f] + 1])
    BY <1>3 DEF LastFor
  <2>5. Fates' = Fates /\ Fates = [Fates EXCEPT ![f] = "no"]
    BY <1>3, <1>6 DEF Fates, Fate
  <2>6. Logs!Read(f)
    BY <1>1, <1>2, <1>3, <1>5, <2>1, <2>2, <2>3, <2>4, <2>5, GivesNext
  <2> QED BY <2>6
<1>7. CASE /\ cursor[f] = remembered /\ terminalEvent
           /\ Goes(f, IF streamError THEN "broken" ELSE "done") /\ UNCHANGED cursor
  <2>1. terminal /\ Given' = Given
    BY <1>1, <1>2, <1>7, HistoryStays DEF ReaderInv
  <2>2. Len(Given[f]) = Counted(f, history, Len(history))
    BY <1>1, <1>3, <1>4, <1>5, <1>7, CountedHistory, CountAll
  <2>3. Fates' = [Fates EXCEPT ![f] = IF streamError THEN "broken" ELSE "whole"]
    <3>1. FateOf(IF streamError THEN "broken" ELSE "done") = IF streamError THEN "broken" ELSE "whole"
      BY FateFacts
    <3> QED BY <1>1, <1>3, <1>7, <3>1, OneFate
  <2>4. streamError \in BOOLEAN
    BY <1>1 DEF TypeReader
  <2> QED BY <1>2, <1>3, <2>1, <2>2, <2>3, <2>4, EndsOrLeaves
<1> QED BY <1>6, <1>7 DEF Follow

\* A call that fails or times out leaves its log.
LEMMA LeavesNext ==
    ASSUME LogInv, [Next]_vars, NEW r \in Readers,
           (r \in Procs /\ CreateFails(r)) \/ (r \in Follows /\ FollowTimesOut(r))
    PROVE  Logs!Ends(r) \/ Logs!Leaves(r)
<1>1. TypeServer /\ TypeReader /\ TypeCalls
  BY DEF LogInv, IInv, TypeInv
<1>2. /\ UNCHANGED <<remembered, terminal, streamError, read, cursor>> /\ pc[r] \notin Settled
      /\ Goes(r, "failed") \/ Goes(r, "left")
  BY DEF CreateFails, FollowTimesOut, readerVars, Settled
<1>3. UNCHANGED <<history, Given>>
  BY <1>1, <1>2, HistoryStays
<1>4. Fates' = [Fates EXCEPT ![r] = "left"] /\ Fate(r) = "no"
  BY <1>1, <1>2, OneFate, FateFacts
<1> QED BY <1>2, <1>3, <1>4, EndsOrLeaves

\* What the reader takes is published; a stream that breaks fails the log.
LEMMA ReaderTakesNext ==
    ASSUME LogInv, [Next]_vars, ReaderTakes
    PROVE  Logs!Publish \/ Logs!Fail
<1>1. TypeServer /\ TypeReader /\ TypeCalls /\ ReaderInv /\ OnceInv
  BY DEF LogInv, IInv, TypeInv
<1>2. UNCHANGED <<emitted, terminal, pc, read, cursor>> /\ reader = "streaming" /\ remembered < Len(emitted)
  BY DEF ReaderTakes, serverVars, callVars
<1>3. ~terminal /\ ~streamError
  BY <1>1, <1>2 DEF ReaderInv, OnceInv, Routes
<1>4. Given' = Given /\ Fates' = Fates
  BY <1>1, <1>2, HistoryStays DEF Fates, Fate
<1>5. CASE remembered' = remembered + 1 /\ UNCHANGED streamError
  <2>1. remembered \in 0 .. Len(emitted) /\ Len(emitted) \in Nat /\ Incoming \in Events
    BY <1>1, <1>2 DEF TypeServer, TypeReader, Incoming
  <2>2. history' = Append(history, Incoming) /\ history \in Seq(Events)
    BY <1>1, <1>2, <1>5, <2>1, SubSeqFacts DEF history, Incoming, TypeServer
  <2>3. history' # history
    BY <2>1, <2>2, AppendIsMore
  <2>4. UNCHANGED <<~terminal, streamError>>
    BY <1>2, <1>5
  <2> HIDE DEF history
  <2> QED BY <1>3, <1>4, <2>1, <2>2, <2>3, <2>4 DEF Logs!Publish, Given, Fates
<1>6. CASE streamError' = TRUE /\ UNCHANGED remembered
  <2>1. UNCHANGED history
    BY <1>1, <1>6, HistoryStays
  <2> QED BY <1>2, <1>3, <1>4, <1>6, <2>1 DEF Logs!Fail, Given, Fates
<1> QED BY <1>5, <1>6 DEF ReaderTakes

\* Every step is a step of the abstract logs, or changes nothing they show.
LEMMA LogsNext == LogInv /\ [Next]_vars => [Logs!Next]_(Logs!vars)
<1> SUFFICES ASSUME LogInv, [Next]_vars PROVE Logs!Next \/ UNCHANGED Logs!vars
  OBVIOUS
<1>1. TypeServer /\ TypeReader /\ TypeCalls /\ ReaderInv /\ OnceInv
  BY DEF LogInv, IInv, TypeInv
<1>2. CASE ReaderTakes
  BY <1>2, ReaderTakesNext DEF Logs!Next
<1>3. CASE ReaderEnds
  <2>1. /\ UNCHANGED <<remembered, streamError, pc, read, cursor>> /\ terminal' = TRUE /\ ~terminal
    BY <1>1, <1>3 DEF ReaderEnds, callVars, ReaderInv
  <2>2. UNCHANGED <<history, Given, Fates>>
    BY <1>1, <2>1, HistoryStays DEF Fates, Fate
  <2>3. Logs!Close
    BY <2>1, <2>2 DEF Logs!Close, Given, Fates
  <2> QED BY <2>3 DEF Logs!Next
<1>4. ASSUME NEW p \in Procs, HandleReads(p) \/ CreateFails(p) PROVE Logs!Next
  <2>1. p \in Readers
    BY DEF Readers
  <2>2. Logs!Read(p) \/ Logs!Ends(p) \/ Logs!Leaves(p)
    BY <1>4, <2>1, HandleReadsNext, LeavesNext
  <2> QED BY <2>1, <2>2 DEF Logs!Next
<1>5. ASSUME NEW f \in Follows, Follow(f) \/ FollowTimesOut(f) PROVE Logs!Next
  <2>1. f \in Readers
    BY DEF Readers
  <2>2. Logs!Read(f) \/ Logs!Ends(f) \/ Logs!Leaves(f)
    BY <1>5, <2>1, FollowNext, LeavesNext
  <2> QED BY <2>1, <2>2 DEF Logs!Next
<1>6. CASE Quiet
  <2>1. UNCHANGED <<history, terminal, Given, Fates>>
    BY <1>1, <1>6, HistoryStays, FatesStay DEF Quiet
  <2>2. CASE streamError' = streamError
    BY <2>1, <2>2 DEF Logs!vars, Given, Fates
  <2>3. CASE streamError' = TRUE /\ ~terminal /\ streamError = FALSE
    <3>1. Logs!Fail
      BY <2>1, <2>3 DEF Logs!Fail, Given, Fates
    <3> QED BY <3>1 DEF Logs!Next
  <2> QED BY <1>6, <2>2, <2>3 DEF Quiet
<1> QED BY <1>1, <1>2, <1>3, <1>4, <1>5, <1>6, LogSteps

\* An operation starts with an empty log.
LEMMA LogsInit == Init => Logs!Init
<1> SUFFICES ASSUME Init PROVE Logs!Init
  OBVIOUS
<1>1. /\ remembered = 0 /\ terminal = FALSE /\ streamError = FALSE /\ emitted = <<Event("spawn", Main)>>
      /\ \A p \in Procs : read[p] = <<>>
      /\ \A f \in Follows : cursor[f] = 0
      /\ \A r \in Readers : pc[r] = "idle"
  BY DEF Init, Readers, Calls
<1>2. history = <<>> /\ SubSeq(emitted, 1, 0) = <<>>
  BY <1>1 DEF history
<1>3. Given = [r \in Readers |-> <<>>]
  BY <1>1, <1>2 DEF Given, Readers
<1>4. \A r \in Readers : Fate(r) = "no"
  BY <1>1, FateFacts DEF Settled
<1>5. Fates = [r \in Readers |-> "no"]
  BY <1>4 DEF Fates
<1> QED BY <1>1, <1>2, <1>3, <1>5 DEF Logs!Init, Given, Fates

\* Handles and subscriptions are readers of one log: each is given the events
\* that concern it once and in order, whatever queue, buffer or cursor they went
\* through, ends only after the last of them, and never takes a failed stream for
\* the end (customization.md).
THEOREM ImplementsLogs == Spec => ImplementsEventLogs
<1>1. Spec => Logs!Spec
  BY LogInductive, LogsInit, LogsNext, PTL DEF Spec, Logs!Spec
<1> QED BY <1>1 DEF ImplementsEventLogs

=============================================================================
