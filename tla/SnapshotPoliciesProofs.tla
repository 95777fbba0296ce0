------------------------ MODULE SnapshotPoliciesProofs ------------------------
(***************************************************************************)
(* Proofs about the snapshot policies: when they ask for a snapshot, that  *)
(* an idle VM has its timer, and that the composite decides with the first *)
(* of its children.                                                        *)
(***************************************************************************)
EXTENDS SnapshotPolicies, TLAPS

-----------------------------------------------------------------------------
(* The inductive invariant.                                                *)

Told == {"reset", "close", "command_started", "inspection_started", "finished",
         "vm_starting"}
CallType == {Call(p, event) : p \in Policies, event \in Told} \cup {Call("composite", "watch")}
            \cup {Call(d, "start_deferred") : d \in Durations} \cup {SetSeconds(s) : s \in Seconds}
TypeInv == TypeOK /\ calls \in Seq(CallType)

\* A timer that holds the last generation of its policy is due when what it
\* times is over, and what it times goes on.
Due(left, due, age) == IF age < due THEN left = due - age ELSE left = 0
OneOnTime(p, ts, gen, act, idle, secs, age) ==
    \A t \in ts :
        t.policy = p =>
          /\ t.generation <= gen /\ (t.state = "fired" => t.left = 0)
          /\ t.generation = gen =>
               IF p = "idle" THEN act = 0 /\ idle # NotStarted /\ Due(t.left, IdleSeconds, idle)
               ELSE age # NotStarted /\ Due(t.left, secs, age)
TimerInv ==
    /\ OneOnTime("idle", timers, generation["idle"], active, idleFor, 0, 0)
    /\ \A d \in Durations :
         OneOnTime(d, timers, generation[d], active, idleFor, seconds[d], startedAge[d])

\* An idle VM is known to have no activity, and has a timer.
IdleInv ==
    /\ idleFor # NotStarted => active = 0
    /\ idleFor # NotStarted /\ future["idle"] = "pending" =>
         \E t \in timers : t.policy = "idle" /\ t.generation = generation["idle"]

\* A reset goes to the composite first, which watches nothing until all
\* children have been reset; the rest of the time it has decided with them.
Kids == {"idle", "count", "lifetime", "deadline"}
IsReset(c) == c.to = "composite" /\ c.event = "reset"
InShape(cs, ph) ==
    \A i \in DOMAIN cs :
        /\ cs[i].event = "close" => ph = "closed" /\ \A j \in DOMAIN cs : cs[j].event # "watch"
        /\ cs[i].event = "reset" => \E j \in DOMAIN cs : j > i /\ cs[j].event = "watch"
        /\ cs[i].event = "watch" => \A j \in DOMAIN cs : j > i => cs[j].event \notin {"watch", "reset"}
        /\ IsReset(cs[i]) => i = 1
ShapeInv == InShape(calls, phase)
Resets(cs) ==
    /\ \E i \in DOMAIN cs : cs[i].event = "watch"
    /\ ~IsReset(cs[1])
Resetting == Resets(calls)
AgreeIn(f) ==
    /\ f["composite"] \in {"pending", "done"}
    /\ f["composite"] = "done" <=> \E p \in Kids : f[p] = "done"
WatchInv ==
    IF Resetting THEN watched = {} /\ future["composite"] = "pending"
    ELSE watched = Kids /\ (phase # "closed" => AgreeIn(future))

IInv == TypeInv /\ TimerInv /\ IdleInv /\ ShapeInv /\ WatchInv

-----------------------------------------------------------------------------
(* Types.                                                                  *)

States == {"pending", "done", "cancelled"}
TypeSession ==
    /\ phase \in {"cold", "starting", "configuring", "running", "closed"}
    /\ running \in Nat /\ cycles \in Nat /\ activities \in Nat /\ calls \in Seq(CallType)
TypePolicies ==
    /\ active \in Nat /\ commandsStarted \in Nat
    /\ future \in [Policies -> States] /\ watched \subseteq Policies
    /\ seconds \in [Durations -> Seconds]
    /\ startedAge \in [Durations -> {NotStarted} \cup 0 .. Horizon]
    /\ generation \in [Timed -> Nat] /\ timers \subseteq TimerType
    /\ idleFor \in {NotStarted} \cup 0 .. Horizon

\* The types of the session's side and of the policies' side.
LEMMA TypesSplit == TypeInv <=> TypeSession /\ TypePolicies
BY DEF TypeInv, TypeOK, TypeSession, TypePolicies, States

\* The seconds that policies count, and who the policies are.
LEMMA ConstantFacts ==
    /\ IdleSeconds \in Nat /\ IdleSeconds > 0 /\ IdleSeconds < Horizon /\ Horizon \in Nat /\ Limit \in Nat
    /\ \A s \in Seconds : s \in Nat /\ s > 0 /\ s < Horizon
    /\ Timed = {"idle", "lifetime", "deadline"} /\ Durations = {"lifetime", "deadline"}
    /\ Policies = {"idle", "lifetime", "deadline", "count", "composite"}
    /\ NotStarted \notin Nat
BY PolicyAssumption DEF Timed, Durations, Policies, NotStarted

\* The calls a notification makes, and what each is.
LEMMA CallFacts ==
    /\ \A p \in Policies, event \in Told : /\ Call(p, event) \in CallType /\ Call(p, event).to = p
                                           /\ Call(p, event).event = event
    /\ Call("deadline", "start_deferred") \in CallType
    /\ Call("deadline", "start_deferred").event = "start_deferred"
    /\ Call("composite", "watch") \in CallType
    /\ \A s \in Seconds : SetSeconds(s) \in CallType /\ SetSeconds(s).event = "set_duration"
    /\ \A c \in CallType : /\ c.to \in Policies
                           /\ c.event \in Told \cup {"watch", "start_deferred", "set_duration"}
                           /\ c.event = "watch" => c.to = "composite"
                           /\ c.event \in {"start_deferred", "set_duration"} => c.to \in Durations
                           /\ c.event = "set_duration" => c.seconds \in Seconds
<1>1. \A p, event : /\ Call(p, event).to = p /\ Call(p, event).event = event
  BY DEF Call
<1>2. \A s \in Seconds : /\ SetSeconds(s) \in CallType /\ SetSeconds(s).to = "deadline"
                         /\ SetSeconds(s).event = "set_duration" /\ SetSeconds(s).seconds = s
  BY DEF CallType, SetSeconds
<1>3. /\ "set_duration" \notin Told /\ "start_deferred" \notin Told /\ "watch" \notin Told
      /\ "composite" \in Policies /\ "deadline" \in Durations /\ Durations \subseteq Policies
  BY DEF Told, Durations, Policies, Timed
<1>4. ASSUME NEW c \in CallType
      PROVE  /\ c.to \in Policies /\ c.event \in Told \cup {"watch", "start_deferred", "set_duration"}
             /\ c.event = "watch" => c.to = "composite"
             /\ c.event \in {"start_deferred", "set_duration"} => c.to \in Durations
             /\ c.event = "set_duration" => c.seconds \in Seconds
  <2>1. CASE \E p \in Policies, event \in Told : c = Call(p, event)
    BY <1>1, <1>3, <2>1
  <2>2. CASE \E s \in Seconds : c = SetSeconds(s)
    BY <1>2, <1>3, <2>2
  <2>3. CASE \E d \in Durations : c = Call(d, "start_deferred")
    BY <1>1, <1>3, <2>3
  <2>4. CASE c = Call("composite", "watch")
    BY <1>1, <1>3, <2>4
  <2> QED BY <2>1, <2>2, <2>3, <2>4 DEF CallType
<1>5. /\ \A p \in Policies, event \in Told : Call(p, event) \in CallType
      /\ Call("deadline", "start_deferred") \in CallType /\ Call("composite", "watch") \in CallType
  BY <1>3 DEF CallType
<1> QED BY <1>1, <1>2, <1>4, <1>5

\* What a concatenation holds.
LEMMA CatFacts ==
    ASSUME NEW S, NEW s \in Seq(S), NEW t \in Seq(S)
    PROVE  /\ s \o t \in Seq(S) /\ Len(s \o t) = Len(s) + Len(t) /\ DOMAIN (s \o t) = 1 .. Len(s) + Len(t)
           /\ \A i \in 1 .. Len(s) : (s \o t)[i] = s[i]
           /\ \A i \in 1 .. Len(t) : (s \o t)[Len(s) + i] = t[i]
           /\ \A i \in DOMAIN (s \o t) :
                i \in 1 .. Len(s) \/ \E j \in 1 .. Len(t) : i = Len(s) + j
<1>1. /\ s \o t \in Seq(S) /\ Len(s \o t) = Len(s) + Len(t) /\ Len(s) \in Nat /\ Len(t) \in Nat
      /\ DOMAIN (s \o t) = 1 .. Len(s) + Len(t)
      /\ \A i \in 1 .. Len(s) : (s \o t)[i] = s[i]
      /\ \A i \in 1 .. Len(t) : (s \o t)[Len(s) + i] = t[i]
  OBVIOUS
<1>2. ASSUME NEW i \in 1 .. Len(s) + Len(t), i \notin 1 .. Len(s)
      PROVE  \E j \in 1 .. Len(t) : i = Len(s) + j
  <2>1. i - Len(s) \in 1 .. Len(t) /\ i = Len(s) + (i - Len(s))
    BY <1>1, <1>2
  <2> QED BY <2>1
<1> QED BY <1>1, <1>2

\* A sequence of three parts.
LEMMA CatThree ==
    ASSUME NEW S, NEW a \in Seq(S), NEW b \in Seq(S), NEW c \in Seq(S)
    PROVE  /\ a \o b \o c \in Seq(S) /\ Len(a \o b \o c) = Len(a) + Len(b) + Len(c)
           /\ \A i \in 1 .. Len(a) : (a \o b \o c)[i] = a[i]
           /\ \A i \in 1 .. Len(b) : (a \o b \o c)[Len(a) + i] = b[i]
           /\ \A i \in 1 .. Len(c) : (a \o b \o c)[Len(a) + Len(b) + i] = c[i]
<1>1. /\ Len(a) \in Nat /\ Len(b) \in Nat /\ Len(c) \in Nat
      /\ \A i \in 1 .. Len(a) : i \in 1 .. Len(a) + Len(b)
      /\ \A i \in 1 .. Len(b) : Len(a) + i \in 1 .. Len(a) + Len(b)
  OBVIOUS
<1>2. SUFFICES ASSUME NEW d, d = a \o b,
                      d \in Seq(S), Len(d) = Len(a) + Len(b),
                      \A i \in 1 .. Len(a) : d[i] = a[i],
                      \A i \in 1 .. Len(b) : d[Len(a) + i] = b[i]
               PROVE  /\ d \o c \in Seq(S) /\ Len(d \o c) = Len(a) + Len(b) + Len(c)
                      /\ \A i \in 1 .. Len(a) : (d \o c)[i] = a[i]
                      /\ \A i \in 1 .. Len(b) : (d \o c)[Len(a) + i] = b[i]
                      /\ \A i \in 1 .. Len(c) : (d \o c)[Len(a) + Len(b) + i] = c[i]
  BY CatFacts
<1>3. /\ d \o c \in Seq(S) /\ Len(d \o c) = Len(d) + Len(c)
      /\ \A i \in 1 .. Len(d) : (d \o c)[i] = d[i]
      /\ \A i \in 1 .. Len(c) : (d \o c)[Len(d) + i] = c[i]
  <2>1. d \in Seq(S)
    BY <1>2
  <2> QED BY ONLY <2>1, c \in Seq(S), CatFacts
<1>4. ASSUME NEW i \in 1 .. Len(a) PROVE (d \o c)[i] = a[i]
  BY <1>1, <1>2, <1>3
<1>5. ASSUME NEW i \in 1 .. Len(b) PROVE (d \o c)[Len(a) + i] = b[i]
  BY <1>1, <1>2, <1>3
<1> QED BY <1>2, <1>3, <1>4, <1>5

\* The steps of each notification.
LEMMA NotifyFacts ==
    /\ /\ Notify("reset") \in Seq(CallType) /\ Len(Notify("reset")) = 6
       /\ Notify("reset")[1] = Call("composite", "reset") /\ Notify("reset")[6] = Call("composite", "watch")
       /\ \A i \in 2 .. 5 : \E p \in Kids : Notify("reset")[i] = Call(p, "reset")
    /\ /\ Notify("close") \in Seq(CallType)
       /\ \A i \in DOMAIN Notify("close") : Notify("close")[i].event = "close"
    /\ \A event \in {"command_started", "inspection_started", "finished", "vm_starting"} :
         /\ Notify(event) \in Seq(CallType)
         /\ \A i \in DOMAIN Notify(event) : Notify(event)[i].event = event
<1>1. Heeding("reset") = Children /\ Heeding("close") = Children
  BY DEF Heeding
<1>2. /\ Heeding("command_started") = <<"idle", "count">>
      /\ Heeding("inspection_started") = <<"idle">> /\ Heeding("finished") = <<"idle">>
      /\ Heeding("vm_starting") = <<"lifetime", "deadline">>
  BY DEF Heeding
<1> DEFINE Calls(event) == [i \in DOMAIN Heeding(event) |-> Call(Heeding(event)[i], event)]
<1>3. ASSUME NEW event \in Told, Heeding(event) \in Seq(Kids)
      PROVE  /\ Calls(event) \in Seq(CallType) /\ Len(Calls(event)) = Len(Heeding(event))
             /\ \A i \in DOMAIN Calls(event) :
                  Calls(event)[i].event = event /\ \E p \in Kids : Calls(event)[i] = Call(p, event)
  <2>1. Kids \subseteq Policies
    BY DEF Kids, Policies, Timed, Durations
  <2>2. DOMAIN Heeding(event) = 1 .. Len(Heeding(event)) /\ Len(Heeding(event)) \in Nat
    BY <1>3
  <2>3. \A i \in DOMAIN Heeding(event) : /\ Heeding(event)[i] \in Kids
                                         /\ Call(Heeding(event)[i], event) \in CallType
                                         /\ Call(Heeding(event)[i], event).event = event
    BY <1>3, <2>1, CallFacts
  <2> QED BY <2>2, <2>3
<1>4. /\ Children \in Seq(Kids) /\ <<"idle", "count">> \in Seq(Kids) /\ <<"idle">> \in Seq(Kids)
      /\ <<"lifetime", "deadline">> \in Seq(Kids) /\ Len(Children) = 4
  BY DEF Kids, Children
<1> DEFINE First == <<Call("composite", "reset")>>
           Last == <<Call("composite", "watch")>>
           Closes == <<Call("composite", "close")>>
<1>5. /\ First \in Seq(CallType) /\ Len(First) = 1 /\ First[1] = Call("composite", "reset")
      /\ Last \in Seq(CallType) /\ Len(Last) = 1 /\ Last[1] = Call("composite", "watch")
      /\ Closes \in Seq(CallType) /\ Len(Closes) = 1 /\ Closes[1].event = "close"
      /\ {"reset", "close", "command_started", "inspection_started", "finished", "vm_starting"} \subseteq Told
  <2>1. /\ Call("composite", "reset") \in CallType /\ Call("composite", "watch") \in CallType
        /\ Call("composite", "close") \in CallType /\ Call("composite", "close").event = "close"
    BY CallFacts DEF Policies, Told
  <2> QED BY <2>1 DEF Told
<1>6. /\ Notify("reset") = First \o Calls("reset") \o Last
      /\ Notify("close") = Closes \o Calls("close") \o <<>>
      /\ \A event \in {"command_started", "inspection_started", "finished", "vm_starting"} :
           Notify(event) = <<>> \o Calls(event) \o <<>>
  BY DEF Notify
<1> HIDE DEF Calls, First, Last, Closes
<1>7. /\ Notify("reset") \in Seq(CallType) /\ Len(Notify("reset")) = 6
      /\ Notify("reset")[1] = Call("composite", "reset") /\ Notify("reset")[6] = Call("composite", "watch")
      /\ \A i \in 2 .. 5 : \E p \in Kids : Notify("reset")[i] = Call(p, "reset")
  <2>1. /\ Calls("reset") \in Seq(CallType) /\ Len(Calls("reset")) = 4
        /\ \A i \in 1 .. 4 : \E p \in Kids : Calls("reset")[i] = Call(p, "reset")
    BY <1>1, <1>3, <1>4, <1>5
  <2>2. /\ Notify("reset") \in Seq(CallType) /\ Len(Notify("reset")) = 6
        /\ Notify("reset")[1] = First[1] /\ Notify("reset")[6] = Last[1]
        /\ \A i \in 2 .. 5 : Notify("reset")[i] = Calls("reset")[i - 1]
    <3>1. First \in Seq(CallType) /\ Calls("reset") \in Seq(CallType) /\ Last \in Seq(CallType)
      BY <1>5, <2>1
    <3>2. /\ First \o Calls("reset") \o Last \in Seq(CallType)
          /\ Len(First \o Calls("reset") \o Last) = Len(First) + Len(Calls("reset")) + Len(Last)
          /\ \A i \in 1 .. Len(First) : (First \o Calls("reset") \o Last)[i] = First[i]
          /\ \A i \in 1 .. Len(Calls("reset")) :
               (First \o Calls("reset") \o Last)[Len(First) + i] = Calls("reset")[i]
          /\ \A i \in 1 .. Len(Last) :
               (First \o Calls("reset") \o Last)[Len(First) + Len(Calls("reset")) + i] = Last[i]
      BY ONLY <3>1, CatThree
    <3>3. Notify("reset") = First \o Calls("reset") \o Last
      BY <1>6
    <3>4. /\ Notify("reset") \in Seq(CallType)
          /\ Len(Notify("reset")) = Len(First) + Len(Calls("reset")) + Len(Last)
          /\ \A i \in 1 .. Len(First) : Notify("reset")[i] = First[i]
          /\ \A i \in 1 .. Len(Calls("reset")) : Notify("reset")[Len(First) + i] = Calls("reset")[i]
          /\ \A i \in 1 .. Len(Last) : Notify("reset")[Len(First) + Len(Calls("reset")) + i] = Last[i]
      BY ONLY <3>3, <3>2, Zenon
    <3>5. Len(First) = 1 /\ Len(Calls("reset")) = 4 /\ Len(Last) = 1
      BY <1>5, <2>1, Zenon
    <3>6. /\ 1 \in 1 .. Len(First) /\ 1 \in 1 .. Len(Last) /\ Len(First) + Len(Calls("reset")) + 1 = 6
          /\ Len(First) + Len(Calls("reset")) + Len(Last) = 6
      <4>1. 1 \in 1 .. 1 /\ 1 + 4 + 1 = 6
        OBVIOUS
      <4> QED BY ONLY <4>1, <3>5, Zenon
    <3>7. ASSUME NEW i \in 2 .. 5 PROVE Notify("reset")[i] = Calls("reset")[i - 1]
      <4>1. i - 1 \in 1 .. Len(Calls("reset")) /\ Len(First) + (i - 1) = i
        BY ONLY <3>5, i \in 2 .. 5
      <4> QED BY <3>4, <4>1, Zenon
    <3>8. /\ Notify("reset")[1] = First[1] /\ Notify("reset")[6] = Last[1]
          /\ Len(Notify("reset")) = 6
      BY <3>4, <3>6, Zenon
    <3> QED BY <3>4, <3>7, <3>8
  <2>3. \A i \in 2 .. 5 : i - 1 \in 1 .. 4
    OBVIOUS
  <2> QED BY <1>5, <2>1, <2>2, <2>3
<1>8. /\ Notify("close") \in Seq(CallType)
      /\ \A i \in DOMAIN Notify("close") : Notify("close")[i].event = "close"
  <2>1. Calls("close") \in Seq(CallType) /\ \A i \in DOMAIN Calls("close") : Calls("close")[i].event = "close"
    BY <1>1, <1>3, <1>4, <1>5
  <2>2. Closes \o Calls("close") \o <<>> = Closes \o Calls("close")
    BY <1>5, <2>1
  <2>3. /\ Closes \o Calls("close") \in Seq(CallType)
        /\ \A i \in DOMAIN (Closes \o Calls("close")) :
             \/ (Closes \o Calls("close"))[i] = Closes[1]
             \/ \E j \in DOMAIN Calls("close") : (Closes \o Calls("close"))[i] = Calls("close")[j]
    <3> DEFINE s == Closes
               t == Calls("close")
    <3>1. s \in Seq(CallType) /\ t \in Seq(CallType) /\ Len(s) = 1 /\ DOMAIN t = 1 .. Len(t)
      BY <1>5, <2>1
    <3> HIDE DEF s, t
    <3>2. /\ s \o t \in Seq(CallType)
          /\ \A i \in DOMAIN (s \o t) : (s \o t)[i] = s[1] \/ \E j \in DOMAIN t : (s \o t)[i] = t[j]
      BY <3>1, CatFacts
    <3> QED BY <3>2 DEF s, t
  <2>4. Notify("close") = Closes \o Calls("close")
    BY <1>6, <2>2
  <2>5. \A i \in DOMAIN (Closes \o Calls("close")) : (Closes \o Calls("close"))[i].event = "close"
    <3> SUFFICES ASSUME NEW i \in DOMAIN (Closes \o Calls("close"))
                 PROVE  (Closes \o Calls("close"))[i].event = "close"
      OBVIOUS
    <3>1. CASE (Closes \o Calls("close"))[i] = Closes[1]
      BY <1>5, <3>1
    <3>2. CASE \E j \in DOMAIN Calls("close") : (Closes \o Calls("close"))[i] = Calls("close")[j]
      BY <2>1, <3>2
    <3> QED BY <2>3, <3>1, <3>2
  <2> QED BY <2>3, <2>4, <2>5
<1>9. ASSUME NEW event \in {"command_started", "inspection_started", "finished", "vm_starting"}
      PROVE  /\ Notify(event) \in Seq(CallType)
             /\ \A i \in DOMAIN Notify(event) : Notify(event)[i].event = event
  <2>1. Calls(event) \in Seq(CallType) /\ \A i \in DOMAIN Calls(event) : Calls(event)[i].event = event
    <3>1. event \in Told /\ Heeding(event) \in Seq(Kids)
      BY <1>2, <1>4, <1>5
    <3> QED BY <1>3, <3>1
  <2>2. <<>> \o Calls(event) \o <<>> = Calls(event)
    BY <2>1
  <2> QED BY <1>6, <2>1, <2>2
<1> QED BY <1>7, <1>8, <1>9

\* What StartVm still has to do.
Starts == Notify("reset") \o <<Call("deadline", "start_deferred")>> \o Notify("vm_starting")

\* What _start notifies: a reset of the composite first, of each child, and the
\* watch after the last of them.
LEMMA StartsFacts ==
    /\ Starts \in Seq(CallType) /\ Len(Starts) >= 6
    /\ Starts[1] = Call("composite", "reset") /\ Starts[6] = Call("composite", "watch")
    /\ \A i \in 2 .. 5 : \E p \in Kids : Starts[i] = Call(p, "reset")
    /\ \A i \in DOMAIN Starts : i > 6 => Starts[i].event \in {"start_deferred", "vm_starting"}
<1> DEFINE a == Notify("reset")
           b == <<Call("deadline", "start_deferred")>>
           c == Notify("vm_starting")
<1>1. /\ a \in Seq(CallType) /\ b \in Seq(CallType) /\ c \in Seq(CallType)
  BY NotifyFacts, CallFacts
<1>2. /\ Len(a) = 6 /\ Len(b) = 1 /\ b[1].event = "start_deferred"
      /\ \A i \in 1 .. Len(c) : c[i].event = "vm_starting"
  BY NotifyFacts, CallFacts
<1>3. Starts = a \o b \o c
  BY DEF Starts
<1>4. /\ \A i \in 2 .. 5 : \E p \in Kids : a[i] = Call(p, "reset")
      /\ a[1] = Call("composite", "reset") /\ a[6] = Call("composite", "watch")
  BY NotifyFacts
<1> HIDE DEF a, b, c
<1>5. /\ a \o b \o c \in Seq(CallType) /\ Len(a \o b \o c) = Len(a) + Len(b) + Len(c)
      /\ \A i \in 1 .. Len(a) : (a \o b \o c)[i] = a[i]
      /\ \A i \in 1 .. Len(b) : (a \o b \o c)[Len(a) + i] = b[i]
      /\ \A i \in 1 .. Len(c) : (a \o b \o c)[Len(a) + Len(b) + i] = c[i]
  BY ONLY <1>1, CatThree, SMTT(60)
<1>6. /\ Starts \in Seq(CallType) /\ Len(Starts) = Len(a) + Len(b) + Len(c)
      /\ \A i \in 1 .. Len(a) : Starts[i] = a[i]
      /\ \A i \in 1 .. Len(b) : Starts[Len(a) + i] = b[i]
      /\ \A i \in 1 .. Len(c) : Starts[Len(a) + Len(b) + i] = c[i]
  BY ONLY <1>5, <1>3, Zenon
<1>7. Len(c) \in Nat /\ DOMAIN Starts = 1 .. Len(Starts)
  BY <1>1, <1>6
<1> SUFFICES ASSUME NEW k, k = Len(a), NEW l, l = Len(b), NEW m, m = Len(c), NEW n, n = Len(Starts),
                    k = 6, l = 1, m \in Nat, n = k + l + m
             PROVE  /\ Starts \in Seq(CallType) /\ n >= 6
                    /\ Starts[1] = a[1] /\ Starts[6] = a[6]
                    /\ \A i \in 2 .. 5 : Starts[i] = a[i]
                    /\ \A i \in 1 .. n : i > 6 => Starts[i].event \in {"start_deferred", "vm_starting"}
  BY <1>2, <1>4, <1>6, <1>7
<1>8. /\ \A i \in 1 .. k : Starts[i] = a[i]
      /\ \A i \in 1 .. l : Starts[k + i] = b[i]
      /\ \A i \in 1 .. m : Starts[k + l + i] = c[i]
      /\ \A i \in 1 .. m : c[i].event = "vm_starting"
      /\ \A i \in 1 .. 6 : i \in 1 .. k
  BY <1>2, <1>6
<1>9. ASSUME NEW i \in 1 .. n, i > 6 PROVE Starts[i].event \in {"start_deferred", "vm_starting"}
  <2>1. CASE i = 7
    <3>1. 1 \in 1 .. l /\ i = k + 1
      BY <2>1
    <3> QED BY <1>8, <1>2, <3>1
  <2>2. CASE i # 7
    <3>1. i - 7 \in 1 .. m /\ i = k + l + (i - 7)
      BY <1>9, <2>2
    <3>2. PICK j \in 1 .. m : i = k + l + j
      BY <3>1
    <3>3. Starts[i] = c[j] /\ c[j].event = "vm_starting"
      BY <1>8, <3>2
    <3> QED BY <3>3
  <2> QED BY <2>1, <2>2
<1>10. n >= 6 /\ 1 \in 1 .. 6 /\ 6 \in 1 .. 6 /\ \A i \in 2 .. 5 : i \in 1 .. 6
  OBVIOUS
<1> QED BY <1>6, <1>8, <1>9, <1>10

\* New notifications are in shape, and none is a reset that has begun.
LEMMA NewShapes ==
    ASSUME NEW ph
    PROVE  /\ InShape(Notify("reset"), ph) /\ ~Resets(Notify("reset"))
           /\ InShape(Starts, ph) /\ ~Resets(Starts)
           /\ InShape(Notify("close"), "closed") /\ ~Resets(Notify("close"))
           /\ \A event \in {"command_started", "inspection_started", "finished", "vm_starting"} :
                InShape(Notify(event), ph) /\ ~Resets(Notify(event))
           /\ \A s \in Seconds : InShape(<<SetSeconds(s)>>, ph) /\ ~Resets(<<SetSeconds(s)>>)
           /\ InShape(<<>>, ph) /\ ~Resets(<<>>)
<1>1. ASSUME NEW cs \in Seq(CallType), Len(cs) >= 6,
             cs[1] = Call("composite", "reset"), cs[6] = Call("composite", "watch"),
             \A i \in 2 .. 5 : \E p \in Kids : cs[i] = Call(p, "reset"),
             \A i \in DOMAIN cs : i > 6 => cs[i].event \in {"start_deferred", "vm_starting"}
      PROVE  InShape(cs, ph) /\ ~Resets(cs)
  <2>1. /\ DOMAIN cs = 1 .. Len(cs) /\ Len(cs) \in Nat /\ 6 \in DOMAIN cs /\ 1 \in DOMAIN cs
        /\ \A i \in DOMAIN cs : i = 1 \/ i \in 2 .. 5 \/ i = 6 \/ i > 6
    BY <1>1
  <2>2. /\ cs[1].event = "reset" /\ cs[1].to = "composite" /\ cs[6].event = "watch"
        /\ \A i \in 2 .. 5 : cs[i].event = "reset" /\ cs[i].to # "composite"
    BY <1>1 DEF Call, Kids
  <2>3. ASSUME NEW i \in DOMAIN cs
        PROVE  /\ cs[i].event = "close" => ph = "closed" /\ \A j \in DOMAIN cs : cs[j].event # "watch"
               /\ cs[i].event = "reset" => \E j \in DOMAIN cs : j > i /\ cs[j].event = "watch"
               /\ cs[i].event = "watch" => \A j \in DOMAIN cs : j > i => cs[j].event \notin {"watch", "reset"}
               /\ IsReset(cs[i]) => i = 1
    <3>1. CASE i = 1
      BY <2>1, <2>2, <3>1
    <3>2. CASE i \in 2 .. 5
      <4>1. 6 > i
        BY <3>2
      <4> QED BY <2>1, <2>2, <3>2, <4>1 DEF IsReset
    <3>3. CASE i = 6
      BY <1>1, <2>2, <3>3 DEF IsReset
    <3>4. CASE i > 6
      BY <1>1, <3>4 DEF IsReset
    <3> QED BY <2>1, <3>1, <3>2, <3>3, <3>4
  <2> QED BY <2>2, <2>3 DEF InShape, Resets, IsReset
<1>2. ASSUME NEW cs, \A i \in DOMAIN cs : cs[i].event \notin {"watch", "reset", "close"}
      PROVE  InShape(cs, ph) /\ ~Resets(cs)
  BY <1>2 DEF InShape, Resets, IsReset
<1>3. InShape(Notify("reset"), ph) /\ ~Resets(Notify("reset"))
  <2>1. /\ Notify("reset") \in Seq(CallType) /\ Len(Notify("reset")) = 6
        /\ Notify("reset")[1] = Call("composite", "reset") /\ Notify("reset")[6] = Call("composite", "watch")
        /\ \A i \in 2 .. 5 : \E p \in Kids : Notify("reset")[i] = Call(p, "reset")
    BY NotifyFacts
  <2>2. Len(Notify("reset")) >= 6 /\ DOMAIN Notify("reset") = 1 .. 6
    BY <2>1
  <2>3. \A i \in DOMAIN Notify("reset") : ~(i > 6)
    BY ONLY <2>2
  <2> QED BY ONLY <1>1, <2>1, <2>2, <2>3
<1>4. InShape(Starts, ph) /\ ~Resets(Starts)
  BY <1>1, StartsFacts
<1>5. InShape(Notify("close"), "closed") /\ ~Resets(Notify("close"))
  <2>1. \A i \in DOMAIN Notify("close") : Notify("close")[i].event = "close"
    BY NotifyFacts
  <2> QED BY ONLY <2>1 DEF InShape, Resets, IsReset
<1>6. ASSUME NEW event \in {"command_started", "inspection_started", "finished", "vm_starting"}
      PROVE  InShape(Notify(event), ph) /\ ~Resets(Notify(event))
  <2>1. \A i \in DOMAIN Notify(event) : Notify(event)[i].event \notin {"watch", "reset", "close"}
    BY NotifyFacts
  <2> QED BY <1>2, <2>1
<1>7. ASSUME NEW s \in Seconds PROVE InShape(<<SetSeconds(s)>>, ph) /\ ~Resets(<<SetSeconds(s)>>)
  <2>1. \A i \in DOMAIN <<SetSeconds(s)>> : <<SetSeconds(s)>>[i].event \notin {"watch", "reset", "close"}
    <3>1. SetSeconds(s).event = "set_duration"
      BY CallFacts
    <3> QED BY <3>1
  <2> QED BY <1>2, <2>1
<1>8. InShape(<<>>, ph) /\ ~Resets(<<>>)
  BY DEF InShape, Resets
<1> QED BY <1>3, <1>4, <1>5, <1>6, <1>7, <1>8

\* One call is made.
LEMMA TailShape ==
    ASSUME NEW ph, NEW cs \in Seq(CallType), cs # <<>>, InShape(cs, ph)
    PROVE  /\ Tail(cs) \in Seq(CallType) /\ InShape(Tail(cs), ph) /\ Head(cs) \in CallType
           /\ Head(cs).event = "close" => ph = "closed" /\ ~Resets(cs)
           /\ Head(cs).event = "watch" => Resets(cs) /\ ~Resets(Tail(cs))
           /\ IsReset(Head(cs)) => ~Resets(cs) /\ Resets(Tail(cs))
           /\ Head(cs).event = "reset" /\ ~IsReset(Head(cs)) => Resets(cs)
           /\ Head(cs).event # "watch" /\ ~IsReset(Head(cs)) => (Resets(Tail(cs)) <=> Resets(cs))
<1> DEFINE ts == Tail(cs)
<1>1. /\ ts \in Seq(CallType) /\ Len(cs) \in Nat /\ Len(cs) > 0 /\ Len(ts) = Len(cs) - 1
      /\ DOMAIN cs = 1 .. Len(cs) /\ DOMAIN ts = 1 .. Len(ts)
      /\ \A i \in 1 .. Len(ts) : ts[i] = cs[i + 1]
      /\ Head(cs) = cs[1] /\ cs[1] \in CallType
  OBVIOUS
<1> HIDE DEF ts
<1>2. \A i \in DOMAIN ts : i + 1 \in DOMAIN cs /\ ts[i] = cs[i + 1] /\ i + 1 > 1 /\ i \in Nat
  BY <1>1
<1>3. \A j \in DOMAIN cs : j = 1 \/ (j > 1 /\ j - 1 \in DOMAIN ts /\ cs[j] = ts[j - 1])
  <2>1. ASSUME NEW j \in DOMAIN cs, j # 1 PROVE j > 1 /\ j - 1 \in DOMAIN ts /\ cs[j] = ts[j - 1]
    <3>1. j > 1 /\ j - 1 \in 1 .. Len(ts) /\ (j - 1) + 1 = j
      BY <1>1, <2>1
    <3> QED BY <1>1, <3>1
  <2> QED BY <2>1
<1>4. InShape(ts, ph)
  <2> SUFFICES ASSUME NEW i \in DOMAIN ts
               PROVE  /\ ts[i].event = "close" => ph = "closed" /\ \A j \in DOMAIN ts : ts[j].event # "watch"
                      /\ ts[i].event = "reset" => \E j \in DOMAIN ts : j > i /\ ts[j].event = "watch"
                      /\ ts[i].event = "watch" =>
                           \A j \in DOMAIN ts : j > i => ts[j].event \notin {"watch", "reset"}
                      /\ IsReset(ts[i]) => i = 1
    BY DEF InShape
  <2>1. /\ i + 1 \in DOMAIN cs /\ ts[i] = cs[i + 1] /\ i \in Nat /\ i + 1 > 1 /\ i + 1 # 1
    BY <1>2
  <2>2. /\ cs[i + 1].event = "close" => ph = "closed" /\ \A j \in DOMAIN cs : cs[j].event # "watch"
        /\ cs[i + 1].event = "reset" => \E j \in DOMAIN cs : j > i + 1 /\ cs[j].event = "watch"
        /\ cs[i + 1].event = "watch" =>
             \A j \in DOMAIN cs : j > i + 1 => cs[j].event \notin {"watch", "reset"}
        /\ ~IsReset(cs[i + 1])
    BY <2>1 DEF InShape
  <2>3. ASSUME ts[i].event = "reset" PROVE \E j \in DOMAIN ts : j > i /\ ts[j].event = "watch"
    <3>1. PICK j \in DOMAIN cs : j > i + 1 /\ cs[j].event = "watch"
      BY <2>1, <2>2, <2>3
    <3>2. j \in Nat /\ j # 1
      BY <1>1, <2>1, <3>1
    <3>3. j - 1 \in DOMAIN ts /\ cs[j] = ts[j - 1] /\ j - 1 > i
      BY <1>3, <2>1, <3>1, <3>2
    <3> QED BY <3>1, <3>3
  <2>4. ASSUME ts[i].event = "watch", NEW j \in DOMAIN ts, j > i
        PROVE  ts[j].event \notin {"watch", "reset"}
    <3>1. j + 1 \in DOMAIN cs /\ ts[j] = cs[j + 1] /\ j + 1 > i + 1
      BY <1>2, <2>1, <2>4
    <3> QED BY <2>1, <2>2, <2>4, <3>1
  <2>5. ASSUME ts[i].event = "close" PROVE ph = "closed" /\ \A j \in DOMAIN ts : ts[j].event # "watch"
    <3>1. ph = "closed" /\ \A j \in DOMAIN cs : cs[j].event # "watch"
      BY <2>1, <2>2, <2>5
    <3> QED BY <1>2, <3>1
  <2> QED BY <2>1, <2>2, <2>3, <2>4, <2>5
<1>5. Head(cs).event = "close" => ph = "closed" /\ ~Resets(cs)
  BY <1>1 DEF InShape, Resets
<1>6. ASSUME Head(cs).event = "watch" PROVE Resets(cs) /\ ~Resets(ts)
  <2>1. 1 \in DOMAIN cs /\ cs[1].event = "watch"
    BY <1>1, <1>6
  <2>2. \A j \in DOMAIN ts : ts[j].event # "watch"
    <3>1. \A j \in DOMAIN cs : j > 1 => cs[j].event # "watch"
      BY <2>1 DEF InShape
    <3> QED BY <1>2, <3>1
  <2> QED BY <2>1, <2>2 DEF Resets, IsReset
<1>7. ASSUME Head(cs).event = "reset" PROVE \E i \in DOMAIN ts : ts[i].event = "watch"
  <2>1. 1 \in DOMAIN cs /\ cs[1].event = "reset"
    BY <1>1, <1>7
  <2>2. PICK j \in DOMAIN cs : j > 1 /\ cs[j].event = "watch"
    BY <2>1 DEF InShape
  <2> QED BY <1>1, <1>3, <2>2
<1>8. ts # <<>> => ~IsReset(ts[1])
  <2>1. ASSUME ts # <<>> PROVE 1 \in DOMAIN ts
    BY <1>1, <2>1
  <2>2. ASSUME 1 \in DOMAIN ts PROVE ~IsReset(ts[1])
    <3>1. ts[1] = cs[1 + 1] /\ 1 + 1 \in DOMAIN cs /\ 1 + 1 # 1
      BY <1>2, <2>2
    <3> QED BY <3>1 DEF InShape
  <2> QED BY <2>1, <2>2
<1>9. (\E i \in DOMAIN ts : ts[i].event = "watch") => Resets(ts)
  <2>1. ASSUME NEW i \in DOMAIN ts PROVE ts # <<>>
    BY <1>1, <2>1
  <2> QED BY <1>8, <2>1 DEF Resets
<1>10. (\E i \in DOMAIN ts : ts[i].event = "watch") => \E i \in DOMAIN cs : cs[i].event = "watch"
  BY <1>2
<1>11. IsReset(Head(cs)) => ~Resets(cs) /\ Resets(ts)
  BY <1>1, <1>7, <1>9 DEF Resets, IsReset
<1>12. Head(cs).event = "reset" /\ ~IsReset(Head(cs)) => Resets(cs)
  BY <1>1, <1>7, <1>10 DEF Resets
<1>13. Head(cs).event # "watch" /\ ~IsReset(Head(cs)) => (Resets(ts) <=> Resets(cs))
  <2>1. ASSUME Head(cs).event # "watch", Resets(cs) PROVE \E i \in DOMAIN ts : ts[i].event = "watch"
    <3>1. PICK i \in DOMAIN cs : cs[i].event = "watch"
      BY <2>1 DEF Resets
    <3> QED BY <1>1, <1>3, <2>1, <3>1
  <2> QED BY <1>1, <1>9, <1>10, <2>1 DEF Resets
<1> QED BY <1>1, <1>4, <1>5, <1>6, <1>11, <1>12, <1>13 DEF ts

-----------------------------------------------------------------------------
(* Futures.                                                                *)

\* What completing, cancelling or renewing a future does to it.
LEMMA FutureFacts ==
    ASSUME TypePolicies, NEW p \in Policies
    PROVE  /\ \A how \in States :
                /\ Completed(p, how) \in [Policies -> States]
                /\ \A q \in Policies : q # p /\ q # "composite" => Completed(p, how)[q] = future[q]
                /\ \A q \in Policies : Completed(p, how)[q] = "pending" => future[q] = "pending" \/ how = "pending"
                /\ Completed(p, how)[p] = (IF future[p] = "pending" THEN how ELSE future[p])
                /\ p # "composite" =>
                     Completed(p, how)["composite"] =
                       IF future[p] = "pending" /\ future["composite"] = "pending" /\ p \in watched
                       THEN how ELSE future["composite"]
           /\ \A event \in Told \cup {"start_deferred", "set_duration"} :
                /\ BaseNotify(p, event) \in [Policies -> States]
                /\ \A q \in Policies : q # p /\ q # "composite" => BaseNotify(p, event)[q] = future[q]
                /\ BaseNotify(p, event)[p] = "done" => future[p] = "done"
                /\ event \notin {"reset", "close"} => BaseNotify(p, event) = future
                /\ event = "reset" => BaseNotify(p, event)[p] = "pending"
                /\ event = "close" => BaseNotify(p, event)[p] # "pending"
                /\ p # "composite" /\ p \notin watched =>
                     BaseNotify(p, event)["composite"] = future["composite"]
<1>1. /\ future \in [Policies -> States] /\ "composite" \in Policies
      /\ "pending" \in States /\ "cancelled" \in States /\ "done" \in States
  BY ConstantFacts DEF TypePolicies, States
<1>2. ASSUME NEW how \in States
      PROVE  /\ Completed(p, how) \in [Policies -> States]
             /\ \A q \in Policies : q # p /\ q # "composite" => Completed(p, how)[q] = future[q]
             /\ \A q \in Policies : Completed(p, how)[q] = "pending" => future[q] = "pending" \/ how = "pending"
             /\ Completed(p, how)[p] = (IF future[p] = "pending" THEN how ELSE future[p])
             /\ p # "composite" =>
                  Completed(p, how)["composite"] =
                    IF future[p] = "pending" /\ future["composite"] = "pending" /\ p \in watched
                    THEN how ELSE future["composite"]
  BY <1>1 DEF Completed
<1>3. ASSUME NEW event \in Told \cup {"start_deferred", "set_duration"}
      PROVE  /\ BaseNotify(p, event) \in [Policies -> States]
             /\ \A q \in Policies : q # p /\ q # "composite" => BaseNotify(p, event)[q] = future[q]
             /\ BaseNotify(p, event)[p] = "done" => future[p] = "done"
             /\ event \notin {"reset", "close"} => BaseNotify(p, event) = future
             /\ event = "reset" => BaseNotify(p, event)[p] = "pending"
             /\ event = "close" => BaseNotify(p, event)[p] # "pending"
             /\ p # "composite" /\ p \notin watched =>
                  BaseNotify(p, event)["composite"] = future["composite"]
  <2> DEFINE f == Completed(p, "cancelled")
  <2>1. /\ f \in [Policies -> States]
        /\ \A q \in Policies : q # p /\ q # "composite" => f[q] = future[q]
        /\ f[p] = (IF future[p] = "pending" THEN "cancelled" ELSE future[p])
        /\ p # "composite" /\ p \notin watched => f["composite"] = future["composite"]
    BY <1>1, <1>2
  <2> HIDE DEF f
  <2>2. CASE event = "reset"
    <3>1. BaseNotify(p, event) = [f EXCEPT ![p] = "pending"]
      BY <2>2 DEF BaseNotify, f
    <3> QED BY <1>1, <2>1, <2>2, <3>1
  <2>3. CASE event = "close"
    <3>1. BaseNotify(p, event) = f
      BY <2>3 DEF BaseNotify, f
    <3> QED BY <1>1, <2>1, <2>3, <3>1
  <2>4. CASE event \notin {"reset", "close"}
    <3>1. BaseNotify(p, event) = future
      BY <2>4 DEF BaseNotify
    <3> QED BY <1>1, <2>4, <3>1
  <2> QED BY <2>2, <2>3, <2>4
<1> QED BY <1>2, <1>3

\* A child that asks for a snapshot takes the composite with it if it watches.
LEMMA AskingAgrees ==
    ASSUME TypePolicies, NEW p \in Kids
    PROVE  /\ watched = Kids /\ AgreeIn(future) => AgreeIn(Completed(p, "done"))
           /\ watched = {} => Completed(p, "done")["composite"] = future["composite"]
<1> DEFINE f == Completed(p, "done")
<1>1. /\ p \in Policies /\ p # "composite" /\ Kids \subseteq Policies /\ "composite" \notin Kids /\ "done" \in States
      /\ future["composite"] \in States
  BY ConstantFacts DEF Kids, States, TypePolicies
<1>2. /\ \A q \in Kids : q # p => f[q] = future[q]
      /\ f[p] = (IF future[p] = "pending" THEN "done" ELSE future[p])
      /\ f["composite"] = IF future[p] = "pending" /\ future["composite"] = "pending" /\ p \in watched
                          THEN "done" ELSE future["composite"]
  BY <1>1, FutureFacts
<1> HIDE DEF f
<1>3. ASSUME watched = Kids, AgreeIn(future) PROVE AgreeIn(f)
  <2>1. CASE future[p] # "pending"
    <3>1. f["composite"] = future["composite"] /\ \A q \in Kids : f[q] = future[q]
      BY <1>2, <2>1
    <3> QED BY <1>3, <3>1 DEF AgreeIn
  <2>2. CASE future[p] = "pending"
    <3>1. f["composite"] = "done" /\ f[p] = "done"
      BY <1>2, <1>3, <2>2 DEF AgreeIn
    <3> QED BY <3>1 DEF AgreeIn
  <2> QED BY <2>1, <2>2
<1>4. ASSUME watched = {} PROVE f["composite"] = future["composite"]
  BY <1>2, <1>4
<1> QED BY <1>3, <1>4 DEF f

-----------------------------------------------------------------------------
(* Timers.                                                                 *)

\* A new timer, one that fired and one whose time passed are timers.
LEMMA TimerFacts ==
    /\ \A p \in Timed, g \in Nat, left \in 0 .. Horizon :
         /\ NewTimer(p, g, left) \in TimerType /\ NewTimer(p, g, left).policy = p
         /\ NewTimer(p, g, left).generation = g /\ NewTimer(p, g, left).left = left
         /\ NewTimer(p, g, left).state = "armed"
    /\ \A t \in TimerType :
         /\ t.policy \in Timed /\ t.generation \in Nat /\ t.left \in 0 .. Horizon
         /\ [t EXCEPT !.state = "fired"] \in TimerType
         /\ [t EXCEPT !.state = "fired"].policy = t.policy
         /\ [t EXCEPT !.state = "fired"].generation = t.generation
         /\ [t EXCEPT !.state = "fired"].left = t.left
         /\ \A left \in 0 .. Horizon :
              /\ [t EXCEPT !.left = left] \in TimerType
              /\ [t EXCEPT !.left = left].policy = t.policy
              /\ [t EXCEPT !.left = left].generation = t.generation
              /\ [t EXCEPT !.left = left].left = left
              /\ [t EXCEPT !.left = left].state = t.state
    /\ \A p : /\ Uncancelled(p) \subseteq timers
              /\ \A t \in timers : t.policy # p => t \in Uncancelled(p)
  BY DEF NewTimer, TimerType, Uncancelled

\* A timer that was cancelled by a new generation is late for ever.
LEMMA NewGeneration ==
    ASSUME NEW p, NEW ts, NEW us, NEW gen \in Nat, NEW act, NEW idle, NEW secs, NEW age,
           NEW act0, NEW idle0, NEW secs0, NEW age0, ts \subseteq TimerType,
           OneOnTime(p, ts, gen, act0, idle0, secs0, age0),
           \A t \in us : \/ t \in ts
                         \/ t.policy = p => /\ t.generation = gen + 1 /\ t.state = "armed"
                                            /\ p # "idle" /\ age # NotStarted /\ Due(t.left, secs, age)
    PROVE  OneOnTime(p, us, gen + 1, act, idle, secs, age)
<1> SUFFICES ASSUME NEW t \in us, t.policy = p
             PROVE  /\ t.generation <= gen + 1 /\ (t.state = "fired" => t.left = 0)
                    /\ t.generation = gen + 1 =>
                         IF p = "idle" THEN act = 0 /\ idle # NotStarted /\ Due(t.left, IdleSeconds, idle)
                         ELSE age # NotStarted /\ Due(t.left, secs, age)
  BY DEF OneOnTime
<1>1. CASE t \in ts
  <2>1. t.generation \in Nat /\ t.generation <= gen /\ (t.state = "fired" => t.left = 0)
    BY <1>1, TimerFacts DEF OneOnTime
  <2>2. t.generation <= gen + 1 /\ t.generation # gen + 1
    BY <2>1
  <2> QED BY <2>1, <2>2
<1>2. CASE t \notin ts
  BY <1>2
<1> QED BY <1>1, <1>2

\* The timers of a policy that a step does not touch stay on time.
LEMMA OldGeneration ==
    ASSUME NEW p, NEW ts, NEW us, NEW gen, NEW act, NEW idle, NEW secs, NEW age,
           OneOnTime(p, ts, gen, act, idle, secs, age),
           \A t \in us : t \in ts \/ t.policy # p
    PROVE  OneOnTime(p, us, gen, act, idle, secs, age)
BY DEF OneOnTime

-----------------------------------------------------------------------------
(* The calls that reach a child.                                           *)

\* A child that is told of an event changes its own future only, in one of
\* three ways, and asks for a snapshot only when its condition holds.
MayAsk(p) == \/ p = "count"
             \/ p \in Durations /\ startedAge[p] # NotStarted /\ startedAge[p] >= seconds'[p]
Effect(p, event) ==
    /\ TypePolicies' /\ TimerInv' /\ IdleInv' /\ watched' = watched
    /\ future' \in {future, Completed(p, "done"), BaseNotify(p, event)}
    /\ future[p] = "pending" /\ future'[p] = "done" => MayAsk(p)

\* What leaves the timers, and the policies that own one, alone.
LEMMA SameTimers ==
    ASSUME TypePolicies, TimerInv, UNCHANGED <<active, durationVars, timerVars, idleFor>>
    PROVE  TimerInv'
BY DEF TimerInv, durationVars, timerVars

\* A policy changes its own future and the composite's.
LEMMA OthersNotDisturbed ==
    ASSUME TypePolicies, NEW p \in Policies, NEW event \in Told \cup {"start_deferred", "set_duration"}
    PROVE  /\ Completed(p, "done") \in [Policies -> States] /\ BaseNotify(p, event) \in [Policies -> States]
           /\ \A q \in Policies : q # p /\ q # "composite" =>
                Completed(p, "done")[q] = future[q] /\ BaseNotify(p, event)[q] = future[q]
<1>1. "done" \in States
  BY DEF States
<1>2. /\ Completed(p, "done") \in [Policies -> States]
      /\ \A q \in Policies : q # p /\ q # "composite" => Completed(p, "done")[q] = future[q]
  BY <1>1, FutureFacts
<1>3. /\ BaseNotify(p, event) \in [Policies -> States]
      /\ \A q \in Policies : q # p /\ q # "composite" => BaseNotify(p, event)[q] = future[q]
  BY FutureFacts
<1> QED BY <1>2, <1>3

\* What a policy that asks does to its future.
LEMMA AskFacts ==
    ASSUME TypePolicies, NEW p \in Policies
    PROVE  /\ Completed(p, "done") \in [Policies -> States]
           /\ \A q \in Policies : q # p /\ q # "composite" => Completed(p, "done")[q] = future[q]
           /\ Completed(p, "done")[p] = (IF future[p] = "pending" THEN "done" ELSE future[p])
<1>1. "done" \in States
  BY DEF States
<1> QED BY <1>1, FutureFacts

\* What the count policy does when it is told an event.
LEMMA CountEffect ==
    ASSUME TypePolicies, TimerInv, IdleInv, NEW event \in Told, CountNotify(event)
    PROVE  Effect("count", event)
<1>1. /\ "count" \in Policies /\ "idle" \in Policies /\ "done" \in States /\ event \in Told \cup {"start_deferred", "set_duration"}
  BY ConstantFacts DEF States
<1>2. /\ Completed("count", "done") \in [Policies -> States]
      /\ BaseNotify("count", event) \in [Policies -> States]
      /\ Completed("count", "done")["idle"] = future["idle"]
      /\ BaseNotify("count", event)["idle"] = future["idle"]
  BY <1>1, OthersNotDisturbed
<1>3. future' \in {Completed("count", "done"), BaseNotify("count", event)}
  BY DEF CountNotify
<1>4. /\ UNCHANGED <<active, durationVars, timerVars, idleFor>> /\ watched' = watched
      /\ commandsStarted' \in Nat
  BY DEF CountNotify, TypePolicies
<1>5. TypePolicies'
  BY <1>2, <1>3, <1>4 DEF TypePolicies, durationVars, timerVars
<1>6. TimerInv'
  BY <1>4, SameTimers
<1>7. IdleInv'
  BY <1>2, <1>3, <1>4 DEF IdleInv, timerVars
<1> QED BY <1>3, <1>4, <1>5, <1>6, <1>7 DEF Effect, MayAsk

\* What the idle policy does when it is told an event.
LEMMA IdleEffect ==
    ASSUME TypePolicies, TimerInv, IdleInv, NEW event \in Told, IdleNotify(event)
    PROVE  Effect("idle", event)
<1> DEFINE f == BaseNotify("idle", event)
<1>1. /\ "idle" \in Policies /\ "idle" \in Timed /\ "idle" \notin Durations
      /\ event \in Told \cup {"start_deferred", "set_duration"}
      /\ IdleSeconds \in 0 .. Horizon /\ IdleSeconds > 0 /\ IdleSeconds \in Nat /\ Horizon \in Nat /\ 0 # NotStarted
  BY ConstantFacts
<1>2. /\ f \in [Policies -> States] /\ (f["idle"] = "done" => future["idle"] = "done")
      /\ event \notin {"reset", "close"} => f = future
  BY <1>1, FutureFacts
<1>3. /\ future' = f /\ watched' = watched /\ UNCHANGED <<commandsStarted, durationVars>>
  BY DEF IdleNotify
<1>4. /\ active \in Nat /\ generation \in [Timed -> Nat] /\ timers \subseteq TimerType
  BY DEF TypePolicies
<1>5. CASE event \notin {"finished"}
  <2>1. /\ IdleCancelsTimer /\ active' \in Nat /\ idleFor' = NotStarted
    BY <1>4, <1>5 DEF IdleNotify
  <2>2. /\ generation' = [generation EXCEPT !["idle"] = @ + 1] /\ timers' \subseteq timers
    BY <2>1, TimerFacts DEF IdleCancelsTimer
  <2>3. generation' \in [Timed -> Nat] /\ generation'["idle"] = generation["idle"] + 1
        /\ (\A d \in Durations : generation'[d] = generation[d]) /\ generation["idle"] \in Nat
    BY <1>1, <1>4, <2>2, ConstantFacts
  <2>4. TypePolicies'
    BY <1>2, <1>3, <1>4, <2>1, <2>2, <2>3 DEF TypePolicies, durationVars
  <2>5. OneOnTime("idle", timers', generation["idle"] + 1, active', idleFor', 0, 0)
    BY <1>4, <2>2, <2>3, NewGeneration DEF TimerInv
  <2>6. ASSUME NEW d \in Durations
        PROVE  OneOnTime(d, timers', generation'[d], active', idleFor', seconds'[d], startedAge'[d])
    <3>1. OneOnTime(d, timers, generation[d], active, idleFor, seconds[d], startedAge[d])
      BY DEF TimerInv
    <3>2. OneOnTime(d, timers', generation'[d], active', idleFor', seconds[d], startedAge[d])
      BY <1>1, <2>2, <2>3, <3>1 DEF OneOnTime
    <3> QED BY <1>3, <3>2 DEF durationVars
  <2>7. TimerInv'
    BY <2>3, <2>5, <2>6 DEF TimerInv
  <2>8. IdleInv'
    BY <2>1 DEF IdleInv
  <2> QED BY <1>2, <1>3, <2>4, <2>7, <2>8 DEF Effect
<1>6. CASE event = "finished"
  <2>1. /\ active > 0 /\ active' = active - 1 /\ idleFor' = (IF active' = 0 THEN 0 ELSE NotStarted)
        /\ timers' = (IF ArmsIdle
                      THEN timers \cup {NewTimer("idle", generation["idle"], IdleSeconds)} ELSE timers)
        /\ generation' = generation /\ future' = future
    BY <1>2, <1>3, <1>6 DEF IdleNotify
  <2> DEFINE n == NewTimer("idle", generation["idle"], IdleSeconds)
  <2>2. /\ n \in TimerType /\ n.policy = "idle" /\ n.generation = generation["idle"]
        /\ n.left = IdleSeconds /\ n.state = "armed" /\ generation["idle"] \in Nat
    BY <1>1, <1>4, TimerFacts
  <2> HIDE DEF n
  <2>3. active' \in Nat /\ idleFor' \in {NotStarted} \cup 0 .. Horizon
    BY <1>1, <1>4, <2>1
  <2>4. timers' \subseteq timers \cup {n} /\ (n \in timers' => ArmsIdle \/ n \in timers)
    BY <2>1 DEF n
  <2>5. TypePolicies'
    BY <1>2, <1>3, <1>4, <2>1, <2>2, <2>3, <2>4 DEF TypePolicies, durationVars
  <2>6. ASSUME NEW t \in timers', t.policy = "idle"
        PROVE  /\ t.generation <= generation["idle"] /\ (t.state = "fired" => t.left = 0)
               /\ t.generation = generation["idle"] =>
                    active' = 0 /\ idleFor' # NotStarted /\ Due(t.left, IdleSeconds, idleFor')
    <3>1. CASE t \in timers
      <4>1. /\ t.generation <= generation["idle"] /\ (t.state = "fired" => t.left = 0)
            /\ t.generation = generation["idle"] => active = 0
        BY <2>6, <3>1 DEF TimerInv, OneOnTime
      <4> QED BY <1>4, <2>1, <4>1
    <3>2. CASE t \notin timers
      <4>1. t = n /\ ArmsIdle
        BY <2>4, <3>2
      <4>2. active' = 0 /\ idleFor' = 0
        BY <2>1, <4>1 DEF ArmsIdle
      <4>3. Due(IdleSeconds, IdleSeconds, 0)
        BY <1>1 DEF Due
      <4> QED BY <1>1, <2>2, <4>1, <4>2, <4>3
    <3> QED BY <3>1, <3>2
  <2>7. OneOnTime("idle", timers', generation'["idle"], active', idleFor', 0, 0)
    BY <2>1, <2>6 DEF OneOnTime
  <2>8. ASSUME NEW d \in Durations
        PROVE  OneOnTime(d, timers', generation'[d], active', idleFor', seconds'[d], startedAge'[d])
    <3>1. OneOnTime(d, timers, generation[d], active, idleFor, seconds[d], startedAge[d])
      BY DEF TimerInv
    <3>2. OneOnTime(d, timers', generation[d], active', idleFor', seconds[d], startedAge[d])
      BY <1>1, <2>2, <2>4, <3>1 DEF OneOnTime
    <3> QED BY <1>3, <2>1, <3>2 DEF durationVars
  <2>9. TimerInv'
    BY <2>7, <2>8 DEF TimerInv
  <2>10. IdleInv'
    <3>1. idleFor' # NotStarted => active' = 0
      BY <2>1
    <3>2. ASSUME idleFor' # NotStarted, future'["idle"] = "pending"
          PROVE  n \in timers'
      BY <2>1, <3>1, <3>2 DEF ArmsIdle, n
    <3> QED BY <2>1, <2>2, <3>1, <3>2 DEF IdleInv
  <2> QED BY <1>2, <1>3, <2>1, <2>5, <2>9, <2>10 DEF Effect
<1> QED BY <1>5, <1>6

\* schedule_timer, once its caller has set the lifetime and the start.
LEMMA ScheduleEffect ==
    ASSUME TypePolicies, TimerInv, IdleInv, NEW d \in Durations, NEW base, ScheduleTimer(d, base),
           base \in [Policies -> States], base["idle"] = future["idle"],
           seconds' \in [Durations -> Seconds],
           startedAge' \in [Durations -> {NotStarted} \cup 0 .. Horizon],
           \A c \in Durations : c # d => seconds'[c] = seconds[c] /\ startedAge'[c] = startedAge[c],
           UNCHANGED <<watched, countVars, idleFor>>
    PROVE  /\ TypePolicies' /\ TimerInv' /\ IdleInv'
           /\ \/ future' = base
              \/ /\ future' = Completed(d, "done")
                 /\ startedAge'[d] # NotStarted /\ startedAge'[d] >= seconds'[d]
<1>1. /\ d \in Timed /\ d \in Policies /\ d # "idle" /\ d # "composite" /\ "done" \in States /\ "idle" \in Policies
      /\ "idle" \in Timed /\ "idle" \notin Durations
  BY ConstantFacts DEF States
<1>2. /\ generation \in [Timed -> Nat] /\ timers \subseteq TimerType /\ generation[d] \in Nat
  BY <1>1 DEF TypePolicies
<1>3. /\ generation' = [generation EXCEPT ![d] = generation[d] + 1]
      /\ generation'[d] = generation[d] + 1 /\ generation' \in [Timed -> Nat]
      /\ \A p \in Timed : p # d => generation'[p] = generation[p]
  BY <1>1, <1>2 DEF ScheduleTimer, Bumped
<1>4. /\ seconds'[d] \in Nat /\ seconds'[d] < Horizon /\ Horizon \in Nat
      /\ startedAge'[d] # NotStarted => startedAge'[d] \in Nat
  BY ConstantFacts
<1> DEFINE n == NewTimer(d, generation'[d], seconds'[d] - startedAge'[d])
<1>5. ASSUME Runs(d, base), ~NothingLeft(d)
      PROVE  /\ n \in TimerType /\ n.policy = d /\ n.generation = generation[d] + 1 /\ n.state = "armed"
             /\ startedAge'[d] # NotStarted /\ Due(n.left, seconds'[d], startedAge'[d])
  <2>1. startedAge'[d] # NotStarted /\ startedAge'[d] \in Nat /\ startedAge'[d] < seconds'[d]
    BY <1>4, <1>5 DEF Runs, NothingLeft
  <2>2. seconds'[d] - startedAge'[d] \in 0 .. Horizon
    BY <1>4, <2>1
  <2>3. /\ n \in TimerType /\ n.policy = d /\ n.generation = generation[d] + 1 /\ n.state = "armed"
        /\ n.left = seconds'[d] - startedAge'[d]
    BY <1>1, <1>2, <1>3, <2>2, TimerFacts
  <2> QED BY <2>1, <2>3 DEF Due
<1>6. timers' = Uncancelled(d) \cup (IF Runs(d, base) /\ ~NothingLeft(d) THEN {n} ELSE {})
  BY DEF ScheduleTimer
<1>7. ASSUME NEW t \in timers'
      PROVE  t \in timers \/ (t = n /\ Runs(d, base) /\ ~NothingLeft(d))
  BY <1>6, <1>7, TimerFacts
<1>8. \A t \in timers : t.policy # d => t \in timers'
  BY <1>6, TimerFacts
<1> HIDE DEF n
<1>9. timers' \subseteq TimerType
  BY <1>2, <1>5, <1>7
<1>10. /\ Completed(d, "done") \in [Policies -> States]
       /\ Completed(d, "done")["idle"] = future["idle"]
  <2>1. /\ Completed(d, "done") \in [Policies -> States]
        /\ \A q \in Policies : q # d /\ q # "composite" => Completed(d, "done")[q] = future[q]
    BY <1>1, FutureFacts
  <2> QED BY <1>1, <2>1
<1>11. future' = (IF Runs(d, base) /\ NothingLeft(d) THEN Completed(d, "done") ELSE base)
  BY DEF ScheduleTimer
<1>12. TypePolicies'
  BY <1>3, <1>9, <1>10, <1>11 DEF TypePolicies, countVars
<1>13. OneOnTime(d, timers', generation'[d], active', idleFor', seconds'[d], startedAge'[d])
  <2>1. OneOnTime(d, timers, generation[d], active, idleFor, seconds[d], startedAge[d])
    BY DEF TimerInv
  <2>2. \A t \in timers' : \/ t \in timers
                           \/ t.policy = d => /\ t.generation = generation[d] + 1 /\ t.state = "armed"
                                              /\ d # "idle" /\ startedAge'[d] # NotStarted
                                              /\ Due(t.left, seconds'[d], startedAge'[d])
    BY <1>1, <1>5, <1>7
  <2>3. OneOnTime(d, timers', generation[d] + 1, active', idleFor', seconds'[d], startedAge'[d])
    BY ONLY <1>2, <2>1, <2>2, NewGeneration
  <2> QED BY <1>3, <2>3
<1>14. ASSUME NEW c \in Durations
       PROVE  OneOnTime(c, timers', generation'[c], active', idleFor', seconds'[c], startedAge'[c])
  <2>1. CASE c = d
    BY <1>13, <2>1
  <2>2. CASE c # d
    <3>1. OneOnTime(c, timers, generation[c], active, idleFor, seconds[c], startedAge[c])
      BY DEF TimerInv
    <3>2. \A t \in timers' : t \in timers \/ t.policy # c
      BY <1>5, <1>7, <2>2
    <3>3. OneOnTime(c, timers', generation[c], active, idleFor, seconds[c], startedAge[c])
      BY ONLY <3>1, <3>2, OldGeneration
    <3>4. c \in Timed /\ active' = active /\ idleFor' = idleFor
      BY ConstantFacts DEF countVars
    <3> QED BY <1>3, <2>2, <3>3, <3>4
  <2> QED BY <2>1, <2>2
<1>15. OneOnTime("idle", timers', generation'["idle"], active', idleFor', 0, 0)
  <2>1. OneOnTime("idle", timers, generation["idle"], active, idleFor, 0, 0)
    BY DEF TimerInv
  <2>2. \A t \in timers' : t \in timers \/ t.policy # "idle"
    BY <1>1, <1>5, <1>7
  <2>3. OneOnTime("idle", timers', generation["idle"], active, idleFor, 0, 0)
    BY ONLY <2>1, <2>2, OldGeneration
  <2> QED BY <1>1, <1>3, <2>3 DEF countVars
<1>16. TimerInv'
  BY <1>14, <1>15 DEF TimerInv
<1>17. IdleInv'
  <2>1. future'["idle"] = future["idle"] /\ active' = active /\ idleFor' = idleFor
        /\ generation'["idle"] = generation["idle"]
    BY <1>1, <1>3, <1>10, <1>11 DEF countVars
  <2>2. \A t \in timers : t.policy = "idle" => t \in timers'
    BY <1>1, <1>8
  <2> QED BY <2>1, <2>2 DEF IdleInv
<1>18. \/ future' = base
       \/ /\ future' = Completed(d, "done")
          /\ startedAge'[d] # NotStarted /\ startedAge'[d] >= seconds'[d]
  <2>1. CASE Runs(d, base) /\ NothingLeft(d)
    BY <1>4, <1>11, <2>1 DEF Runs, NothingLeft
  <2>2. CASE ~(Runs(d, base) /\ NothingLeft(d))
    BY <1>11, <2>2
  <2> QED BY <2>1, <2>2
<1> QED BY <1>12, <1>16, <1>17, <1>18

\* What a duration policy does when its deferred start is due.
LEMMA StartDeferredEffect ==
    ASSUME TypePolicies, TimerInv, IdleInv, NEW d \in Durations, StartDeferred(d)
    PROVE  Effect(d, "start_deferred")
<1>1. d \in Timed /\ d \in Policies /\ d # "idle" /\ "idle" \notin Durations /\ Horizon \in Nat
  BY ConstantFacts
<1>2. /\ startedAge' = [startedAge EXCEPT ![d] = IF MayStart(d) THEN 0 ELSE @]
      /\ UNCHANGED <<future, watched, countVars, seconds, timerVars, idleFor>>
  BY DEF StartDeferred
<1>3. /\ startedAge' \in [Durations -> {NotStarted} \cup 0 .. Horizon]
      /\ \A c \in Durations : startedAge'[c] = startedAge[c] \/ startedAge[c] = NotStarted
  BY <1>1, <1>2 DEF TypePolicies, MayStart
<1>4. TypePolicies'
  BY <1>2, <1>3 DEF TypePolicies, countVars, timerVars
<1>5. ASSUME NEW c \in Durations
      PROVE  OneOnTime(c, timers', generation'[c], active', idleFor', seconds'[c], startedAge'[c])
  <2>1. OneOnTime(c, timers, generation[c], active, idleFor, seconds[c], startedAge[c])
    BY DEF TimerInv
  <2>2. startedAge'[c] = startedAge[c] \/ startedAge[c] = NotStarted
    BY <1>3
  <2>3. OneOnTime(c, timers, generation[c], active, idleFor, seconds[c], startedAge'[c])
    <3>1. c # "idle"
      BY <1>1
    <3> QED BY ONLY <2>1, <2>2, <3>1 DEF OneOnTime
  <2> QED BY <1>2, <2>3 DEF countVars, timerVars
<1>6. TimerInv'
  BY <1>2, <1>5 DEF TimerInv, countVars, timerVars
<1>7. IdleInv'
  BY <1>2 DEF IdleInv, countVars, timerVars
<1> QED BY <1>2, <1>4, <1>6, <1>7 DEF Effect

\* What a duration policy does when it is told an event.
LEMMA DurationEffect ==
    ASSUME TypePolicies, TimerInv, IdleInv, NEW d \in Durations, NEW event \in Told, DurationNotify(d, event)
    PROVE  Effect(d, event)
<1>1. /\ d \in Timed /\ d \in Policies /\ d # "idle" /\ d # "composite" /\ "idle" \in Policies
      /\ Horizon \in Nat /\ event \in Told \cup {"start_deferred", "set_duration"}
      /\ \A s \in Seconds : s \in Nat /\ s > 0
  BY ConstantFacts
<1>2. /\ BaseNotify(d, event) \in [Policies -> States] /\ BaseNotify(d, event)["idle"] = future["idle"]
      /\ BaseNotify(d, event)[d] = "done" => future[d] = "done"
      /\ event \notin {"reset", "close"} => BaseNotify(d, event) = future
  <2>1. /\ BaseNotify(d, event) \in [Policies -> States]
        /\ \A q \in Policies : q # d /\ q # "composite" => BaseNotify(d, event)[q] = future[q]
        /\ BaseNotify(d, event)[d] = "done" => future[d] = "done"
        /\ event \notin {"reset", "close"} => BaseNotify(d, event) = future
    BY <1>1, FutureFacts
  <2> QED BY <1>1, <2>1
<1>3. /\ seconds' = seconds /\ UNCHANGED <<watched, countVars, idleFor>>
      /\ startedAge \in [Durations -> {NotStarted} \cup 0 .. Horizon]
      /\ seconds \in [Durations -> Seconds] /\ future \in [Policies -> States]
  BY DEF DurationNotify, TypePolicies
<1>4. CASE event \in {"reset", "close"}
  <2>1. /\ startedAge' = [startedAge EXCEPT ![d] = NotStarted]
        /\ ScheduleTimer(d, BaseNotify(d, event))
    BY <1>4 DEF DurationNotify
  <2>2. /\ startedAge' \in [Durations -> {NotStarted} \cup 0 .. Horizon] /\ startedAge'[d] = NotStarted
        /\ \A c \in Durations : c # d => seconds'[c] = seconds[c] /\ startedAge'[c] = startedAge[c]
        /\ seconds' \in [Durations -> Seconds]
    BY <1>3, <2>1
  <2>3. /\ TypePolicies' /\ TimerInv' /\ IdleInv'
        /\ \/ future' = BaseNotify(d, event)
           \/ startedAge'[d] # NotStarted
    BY <1>2, <1>3, <2>1, <2>2, ScheduleEffect
  <2> QED BY <1>2, <1>3, <2>2, <2>3 DEF Effect
<1>5. CASE event = "vm_starting"
  <2>1. BaseNotify(d, event) = future
    BY <1>2, <1>5
  <2>2. CASE MayStart(d)
    <3>1. /\ startedAge' = [startedAge EXCEPT ![d] = 0] /\ ScheduleTimer(d, future)
      BY <1>5, <2>2 DEF DurationNotify
    <3>2. /\ startedAge' \in [Durations -> {NotStarted} \cup 0 .. Horizon] /\ startedAge'[d] = 0
          /\ \A c \in Durations : c # d => seconds'[c] = seconds[c] /\ startedAge'[c] = startedAge[c]
          /\ seconds' \in [Durations -> Seconds]
      BY <1>1, <1>3, <3>1
    <3>3. /\ TypePolicies' /\ TimerInv' /\ IdleInv'
          /\ \/ future' = future
             \/ startedAge'[d] # NotStarted /\ startedAge'[d] >= seconds'[d]
      BY <1>2, <1>3, <2>1, <3>1, <3>2, ScheduleEffect
    <3>4. ~(startedAge'[d] >= seconds'[d])
      BY <1>1, <3>2
    <3> QED BY <1>3, <3>3, <3>4 DEF Effect
  <2>3. CASE ~MayStart(d)
    <3>1. /\ startedAge' = [startedAge EXCEPT ![d] = startedAge[d]] /\ UNCHANGED <<timerVars, future>>
      BY <1>5, <2>3 DEF DurationNotify
    <3>2. startedAge' = startedAge
      BY <1>3, <3>1
    <3>3. TypePolicies' /\ IdleInv'
      BY <1>3, <3>1, <3>2 DEF TypePolicies, IdleInv, countVars, timerVars
    <3>4. TimerInv'
      <4>1. UNCHANGED <<active, durationVars, timerVars, idleFor>>
        BY <1>3, <3>1, <3>2 DEF countVars, durationVars
      <4> QED BY <4>1, SameTimers
    <3> QED BY <1>3, <3>1, <3>3, <3>4 DEF Effect
  <2> QED BY <2>2, <2>3
<1> QED BY <1>4, <1>5 DEF DurationNotify

\* What a duration policy does when its duration is set.
LEMMA SetDurationEffect ==
    ASSUME TypePolicies, TimerInv, IdleInv, NEW d \in Durations, NEW s \in Seconds, SetDuration(d, s)
    PROVE  Effect(d, "set_duration")
<1>1. d \in Policies /\ "idle" \in Policies
  BY ConstantFacts
<1>2. /\ seconds' = [seconds EXCEPT ![d] = s] /\ startedAge' = startedAge
      /\ ScheduleTimer(d, future) /\ UNCHANGED <<watched, countVars, idleFor>>
  BY DEF SetDuration
<1>3. /\ seconds' \in [Durations -> Seconds] /\ future \in [Policies -> States]
      /\ startedAge' \in [Durations -> {NotStarted} \cup 0 .. Horizon]
      /\ \A c \in Durations : c # d => seconds'[c] = seconds[c] /\ startedAge'[c] = startedAge[c]
  BY <1>2 DEF TypePolicies
<1>4. /\ TypePolicies' /\ TimerInv' /\ IdleInv'
      /\ \/ future' = future
         \/ /\ future' = Completed(d, "done")
            /\ startedAge'[d] # NotStarted /\ startedAge'[d] >= seconds'[d]
  BY <1>2, <1>3, ScheduleEffect
<1> QED BY <1>2, <1>4 DEF Effect, MayAsk

-----------------------------------------------------------------------------
(* The composite and its children.                                         *)

\* The children of the composite are the other four policies.
LEMMA KidFacts ==
    /\ Kids \subseteq Policies /\ "composite" \notin Kids /\ Watch = Kids /\ Durations \subseteq Kids
    /\ "idle" \in Kids /\ "count" \in Kids /\ "composite" \in Policies
    /\ \A p \in Policies : p \in Kids \/ p = "composite"
    /\ \A p \in Kids : p = "idle" \/ p = "count" \/ p \in Durations
    /\ Kids = {Children[i] : i \in DOMAIN Children}
<1>1. Children = <<"idle", "count", "lifetime", "deadline">> /\ DOMAIN Children = 1 .. 4
  BY DEF Children
<1>2. Kids = {Children[i] : i \in DOMAIN Children}
  BY <1>1 DEF Kids
<1> QED BY <1>2, ConstantFacts DEF Kids, Watch

\* A child's answer to a call leaves the composite as the invariant wants it.
LEMMA KidWatch ==
    ASSUME TypeInv, ShapeInv, WatchInv, calls # <<>>, calls' = Tail(calls), phase' = phase,
           NEW p \in Kids, Head(calls).to = p, Head(calls).event # "watch", Effect(p, Head(calls).event)
    PROVE  WatchInv'
<1> DEFINE event == Head(calls).event
<1>1. /\ calls \in Seq(CallType) /\ TypePolicies /\ p \in Policies /\ p # "composite"
  BY KidFacts, TypesSplit DEF TypeInv
<1>2. /\ Head(calls) \in CallType
      /\ event = "close" => phase = "closed"
      /\ event = "reset" => Resets(calls)
      /\ Resets(calls') <=> Resets(calls)
  BY <1>1, TailShape DEF ShapeInv, IsReset
<1>3. event \in Told \cup {"start_deferred", "set_duration"}
  BY <1>2, CallFacts
<1> HIDE DEF event
<1>4. /\ watched' = watched /\ future' \in {future, Completed(p, "done"), BaseNotify(p, event)}
  BY DEF Effect, event
<1>5. CASE Resetting
  <2>1. watched = {} /\ future["composite"] = "pending"
    BY <1>5 DEF WatchInv
  <2>2. Completed(p, "done")["composite"] = future["composite"]
    BY <1>1, <2>1, AskingAgrees
  <2>3. BaseNotify(p, event)["composite"] = future["composite"]
    BY <1>1, <1>3, <2>1, FutureFacts
  <2> QED BY <1>2, <1>4, <1>5, <2>1, <2>2, <2>3 DEF WatchInv, Resetting
<1>6. CASE ~Resetting
  <2>1. watched = Kids /\ (phase # "closed" => AgreeIn(future))
    BY <1>6 DEF WatchInv
  <2>2. ASSUME phase # "closed" PROVE AgreeIn(future')
    <3>1. event \notin {"reset", "close"}
      BY <1>2, <1>6, <2>2 DEF Resetting
    <3>2. BaseNotify(p, event) = future
      BY <3>1 DEF BaseNotify
    <3>3. AgreeIn(Completed(p, "done"))
      BY <1>1, <2>1, <2>2, AskingAgrees
    <3> QED BY <1>4, <2>1, <2>2, <3>2, <3>3
  <2> QED BY <1>2, <1>4, <1>6, <2>1, <2>2 DEF WatchInv, Resetting
<1> QED BY <1>5, <1>6

\* What every step does to the children's futures.
MayAskNow == \A q \in Kids : future[q] = "pending" /\ future'[q] = "done" => MayAsk(q)

\* The composite keeps the invariant when it is reset, closed or watches.
LEMMA CompositeStep ==
    ASSUME IInv, calls # <<>>, calls' = Tail(calls), phase' = phase,
           NEW event, event = Head(calls).event, Head(calls).to = "composite",
           \/ event # "watch" /\ CompositeNotify(event)
           \/ event = "watch" /\ WatchChildren
    PROVE  TypePolicies' /\ TimerInv' /\ IdleInv' /\ WatchInv' /\ MayAskNow
<1>1. /\ calls \in Seq(CallType) /\ TypePolicies /\ TimerInv /\ IdleInv /\ WatchInv /\ InShape(calls, phase)
  BY TypesSplit DEF IInv, TypeInv, ShapeInv
<1>2. /\ Head(calls) \in CallType
      /\ event = "close" => phase = "closed" /\ ~Resets(calls)
      /\ event = "watch" => Resets(calls) /\ ~Resets(calls')
      /\ event = "reset" => ~Resets(calls) /\ Resets(calls')
      /\ event \notin {"watch", "reset"} => (Resets(calls') <=> Resets(calls))
  BY <1>1, TailShape DEF IsReset
<1>3. UNCHANGED <<countVars, durationVars, timerVars, idleFor>>
  BY DEF CompositeNotify, WatchChildren
<1>4. TimerInv'
  <2>1. UNCHANGED <<active, durationVars, timerVars, idleFor>>
    BY <1>3 DEF countVars
  <2> QED BY <1>1, <2>1, SameTimers
<1>5. \A how \in States, f \in [Policies -> States] : [f EXCEPT !["composite"] = how] \in [Policies -> States]
  OBVIOUS
<1>6. ASSUME future' \in [Policies -> States], watched' \subseteq Policies, \A q \in Kids : future'[q] = future[q]
      PROVE  TypePolicies' /\ IdleInv' /\ MayAskNow
  <2>1. TypePolicies'
    BY <1>1, <1>3, <1>6 DEF TypePolicies, countVars, durationVars, timerVars
  <2>2. IdleInv'
    BY <1>1, <1>3, <1>6, KidFacts DEF IdleInv, countVars, timerVars
  <2> QED BY <1>6, <2>1, <2>2 DEF MayAskNow
<1>7. CASE event # "watch" /\ CompositeNotify(event)
  <2>1. event \in Told \cup {"start_deferred", "set_duration"}
    BY <1>2, <1>7, CallFacts
  <2>2. /\ future' = BaseNotify("composite", event)
        /\ watched' = IF event = "reset" THEN {} ELSE watched
    BY <1>7 DEF CompositeNotify
  <2>3. ASSUME NEW p \in Policies, p = "composite"
        PROVE  /\ BaseNotify(p, event) \in [Policies -> States]
               /\ \A q \in Policies : q # p /\ q # "composite" => BaseNotify(p, event)[q] = future[q]
               /\ event \notin {"reset", "close"} => BaseNotify(p, event) = future
               /\ event = "reset" => BaseNotify(p, event)[p] = "pending"
    BY <1>1, <2>1, FutureFacts
  <2>4. /\ future' \in [Policies -> States]
        /\ \A q \in Kids : future'[q] = future[q]
        /\ event \notin {"reset", "close"} => future' = future
        /\ event = "reset" => future'["composite"] = "pending"
    BY <2>2, <2>3, KidFacts
  <2>5. watched' \subseteq Policies
    BY <1>1, <2>2 DEF TypePolicies
  <2>6. WatchInv'
    <3>1. CASE event = "reset"
      BY <1>2, <2>2, <2>4, <3>1 DEF WatchInv, Resetting
    <3>2. CASE event = "close"
      BY <1>1, <1>2, <2>2, <3>2 DEF WatchInv, Resetting
    <3>3. CASE event \notin {"reset", "close"}
      BY <1>1, <1>2, <1>7, <2>2, <2>4, <3>3 DEF WatchInv, Resetting
    <3> QED BY <3>1, <3>2, <3>3
  <2> QED BY <1>4, <1>6, <2>4, <2>5, <2>6
<1>8. CASE event = "watch" /\ WatchChildren
  <2>1. /\ watched' = Kids /\ watched = {} /\ future["composite"] = "pending" /\ ~Resets(calls')
    BY <1>1, <1>2, <1>8, KidFacts DEF WatchInv, Resetting, WatchChildren
  <2>2. future' = IF \E p \in Kids : future[p] = "done"
                  THEN [future EXCEPT !["composite"] = "done"] ELSE future
    BY <1>8, <2>1, KidFacts DEF WatchChildren
  <2>3. future \in [Policies -> States] /\ "done" \in States
    BY <1>1 DEF TypePolicies, States
  <2>4. /\ future' \in [Policies -> States] /\ \A q \in Kids : future'[q] = future[q]
        /\ future'["composite"] = IF \E p \in Kids : future[p] = "done" THEN "done" ELSE "pending"
    BY <2>1, <2>2, <2>3, KidFacts
  <2>5. AgreeIn(future')
    BY <2>4 DEF AgreeIn
  <2>6. WatchInv'
    BY <2>1, <2>5 DEF WatchInv, Resetting
  <2> QED BY <1>4, <1>6, <2>1, <2>4, <2>6, KidFacts
<1> QED BY <1>7, <1>8

\* The next step of a notification keeps the invariant.
LEMMA CallStep ==
    ASSUME IInv, NextCall
    PROVE  IInv' /\ MayAskNow
<1> DEFINE c == Head(calls)
<1>1. /\ calls \in Seq(CallType) /\ TypeSession /\ TypePolicies
      /\ TimerInv /\ IdleInv /\ WatchInv /\ ShapeInv /\ InShape(calls, phase) /\ TypeInv
  BY TypesSplit DEF IInv, TypeInv, ShapeInv
<1>2. calls # <<>> /\ calls' = Tail(calls) /\ UNCHANGED <<phase, running, cycles, activities>>
  BY DEF NextCall
<1>3. c \in CallType /\ calls' \in Seq(CallType) /\ InShape(calls', phase)
  BY <1>1, <1>2, TailShape
<1>4. TypeSession' /\ ShapeInv'
  BY <1>1, <1>2, <1>3 DEF TypeSession, ShapeInv
<1>5. /\ c.to \in Policies
      /\ c.event \in Told \cup {"watch", "start_deferred", "set_duration"}
      /\ c.event = "watch" => c.to = "composite"
      /\ c.event \in {"start_deferred", "set_duration"} => c.to \in Durations
      /\ c.event = "set_duration" => c.seconds \in Seconds
  BY <1>3, CallFacts
<1>6. "composite" \notin Kids /\ "composite" \notin Durations /\ Durations \subseteq Kids
      /\ "idle" \notin Durations /\ "count" \notin Durations /\ "watch" \notin Told
  BY KidFacts, ConstantFacts DEF Told
<1> HIDE DEF c
<1>7. TypePolicies' /\ TimerInv' /\ IdleInv' /\ WatchInv' /\ MayAskNow
  <2>1. CASE \/ c.to = "composite" /\ c.event # "watch" /\ CompositeNotify(c.event)
             \/ c.event = "watch" /\ WatchChildren
    <3>1. c.to = "composite"
      BY <1>5, <2>1
    <3> QED BY <1>2, <2>1, <3>1, CompositeStep DEF c
  <2>2. ASSUME NEW p \in Kids, c.to = p, c.event # "watch", Effect(p, c.event)
        PROVE  TypePolicies' /\ TimerInv' /\ IdleInv' /\ WatchInv' /\ MayAskNow
    <3>1. TypePolicies' /\ TimerInv' /\ IdleInv'
      BY <2>2 DEF Effect
    <3>2. WatchInv'
      BY <1>1, <1>2, <2>2, KidWatch DEF c
    <3>3. MayAskNow
      <4> SUFFICES ASSUME NEW q \in Kids, future[q] = "pending", future'[q] = "done"
                   PROVE  MayAsk(q)
        BY DEF MayAskNow
      <4>1. CASE q = p
        BY <2>2, <4>1 DEF Effect
      <4>2. CASE q # p
        <5>1. p \in Policies /\ q \in Policies /\ q # "composite" /\ "done" \in States
              /\ c.event \in Told \cup {"start_deferred", "set_duration"}
          BY <1>5, <2>2, KidFacts DEF States
        <5>2. Completed(p, "done")[q] = future[q] /\ BaseNotify(p, c.event)[q] = future[q]
          BY <1>1, <4>2, <5>1, OthersNotDisturbed
        <5>3. future' \in {future, Completed(p, "done"), BaseNotify(p, c.event)}
          BY <2>2 DEF Effect
        <5>4. future'[q] = future[q]
          BY <5>2, <5>3
        <5> QED BY <5>4
      <4> QED BY <4>1, <4>2
    <3> QED BY <3>1, <3>2, <3>3
  <2>3. CASE c.to = "idle" /\ IdleNotify(c.event)
    <3>1. c.event \in Told
      BY <1>5, <1>6, <2>3
    <3>2. Effect("idle", c.event)
      BY <1>1, <2>3, <3>1, IdleEffect
    <3> QED BY <1>6, <2>2, <2>3, <3>1, <3>2, KidFacts
  <2>4. CASE c.to = "count" /\ CountNotify(c.event)
    <3>1. c.event \in Told
      BY <1>5, <1>6, <2>4
    <3>2. Effect("count", c.event)
      BY <1>1, <2>4, <3>1, CountEffect
    <3> QED BY <1>6, <2>2, <2>4, <3>1, <3>2, KidFacts
  <2>5. CASE c.event = "start_deferred" /\ StartDeferred(c.to)
    <3>1. c.to \in Durations
      BY <1>5, <2>5
    <3>2. Effect(c.to, c.event)
      BY <1>1, <2>5, <3>1, StartDeferredEffect
    <3> QED BY <1>6, <2>2, <2>5, <3>1, <3>2
  <2>6. CASE c.event = "set_duration" /\ SetDuration(c.to, c.seconds)
    <3>1. c.to \in Durations /\ c.seconds \in Seconds
      BY <1>5, <2>6
    <3>2. Effect(c.to, c.event)
      BY <1>1, <2>6, <3>1, SetDurationEffect
    <3> QED BY <1>6, <2>2, <2>6, <3>1, <3>2
  <2>7. CASE c.to \in Durations /\ c.event \notin {"start_deferred", "set_duration"} /\ DurationNotify(c.to, c.event)
    <3>1. c.event \in Told
      BY <1>5, <1>6, <2>7
    <3>2. Effect(c.to, c.event)
      BY <1>1, <2>7, <3>1, DurationEffect
    <3> QED BY <1>6, <2>2, <2>7, <3>1, <3>2
  <2> QED BY <2>1, <2>3, <2>4, <2>5, <2>6, <2>7 DEF NextCall, c
<1>8. TypeInv'
  BY <1>4, <1>7 DEF TypeInv, TypeOK, TypeSession, TypePolicies, States
<1> QED BY <1>4, <1>7, <1>8 DEF IInv

-----------------------------------------------------------------------------
(* The other steps.                                                        *)

\* The policies start without a timer and without an activity.
LEMMA InitKept ==
    ASSUME Init
    PROVE  IInv
<1>1. /\ phase = "cold" /\ calls = <<>> /\ running = 0 /\ cycles = 0 /\ activities = 0
      /\ future = [p \in Policies |-> "pending"] /\ watched = Kids
      /\ active = 0 /\ commandsStarted = 0
      /\ seconds \in [Durations -> Seconds]
      /\ startedAge = [d \in Durations |-> NotStarted]
      /\ generation = [p \in Timed |-> 0] /\ timers = {} /\ idleFor = NotStarted
  BY KidFacts DEF Init
<1>2. TypeInv
  <2>1. TypeSession
    <3>1. <<>> \in Seq(CallType)
      OBVIOUS
    <3> QED BY <1>1, <3>1 DEF TypeSession
  <2>2. TypePolicies
    BY <1>1, KidFacts DEF TypePolicies, States
  <2> QED BY <2>1, <2>2, TypesSplit
<1>3. TimerInv /\ IdleInv
  BY <1>1 DEF TimerInv, OneOnTime, IdleInv
<1>4. ShapeInv /\ ~Resetting
  BY <1>1, NewShapes DEF ShapeInv, Resetting
<1>5. WatchInv
  <2>1. \A p \in Policies : future[p] = "pending"
    BY <1>1
  <2>2. AgreeIn(future)
    BY <2>1, KidFacts DEF AgreeIn
  <2> QED BY <1>1, <1>4, <2>2 DEF WatchInv
<1> QED BY <1>2, <1>3, <1>4, <1>5 DEF IInv

policyVars == <<future, watched, countVars, durationVars, timerVars, idleFor>>

\* The session takes its next step when it has made all its calls.
SessionStep ==
    \/ StartVm \/ VmStarted \/ CheckDeadline \/ Finish \/ Save \/ Close
    \/ \E event \in {"command_started", "inspection_started"} : Admit(event)

\* A session begins a notification only after the last one.
LEMMA SessionStepFacts ==
    ASSUME IInv, SessionStep
    PROVE  /\ calls = <<>> /\ UNCHANGED policyVars /\ (phase' # "closed" => phase # "closed")
           /\ TypeSession' /\ InShape(calls', phase') /\ ~Resets(calls')
<1>1. TypeSession
  BY TypesSplit DEF IInv
<1>2. ASSUME NEW ph
      PROVE  /\ InShape(Notify("reset"), ph) /\ ~Resets(Notify("reset"))
             /\ InShape(Starts, ph) /\ ~Resets(Starts)
             /\ InShape(Notify("close"), "closed") /\ ~Resets(Notify("close"))
             /\ \A event \in {"command_started", "inspection_started", "finished", "vm_starting"} :
                  InShape(Notify(event), ph) /\ ~Resets(Notify(event))
             /\ \A s \in Seconds : InShape(<<SetSeconds(s)>>, ph) /\ ~Resets(<<SetSeconds(s)>>)
             /\ InShape(<<>>, ph) /\ ~Resets(<<>>)
  BY NewShapes
<1>3. /\ Notify("reset") \in Seq(CallType) /\ Starts \in Seq(CallType) /\ Notify("close") \in Seq(CallType)
      /\ \A event \in {"command_started", "inspection_started", "finished", "vm_starting"} :
           Notify(event) \in Seq(CallType)
      /\ \A s \in Seconds : <<SetSeconds(s)>> \in Seq(CallType)
  <2>1. \A s \in Seconds : SetSeconds(s) \in CallType
    BY CallFacts
  <2>2. \A s \in Seconds : <<SetSeconds(s)>> \in Seq(CallType)
    BY <2>1
  <2> QED BY <2>2, NotifyFacts, StartsFacts
<1>4. CASE StartVm
  <2>1. calls' = Starts
    BY <1>4 DEF StartVm, Starts
  <2>2. TypeSession'
    <3>1. phase' = "starting" /\ cycles' = cycles + 1 /\ UNCHANGED <<running, activities>>
      BY <1>4 DEF StartVm
    <3> QED BY <1>1, <1>3, <2>1, <3>1 DEF TypeSession
  <2> QED BY <1>2, <1>4, <2>1, <2>2 DEF StartVm, policyVars
<1>5. CASE VmStarted
  <2>1. PICK s \in Seconds : calls' = <<SetSeconds(s)>>
    BY <1>5 DEF VmStarted
  <2>2. TypeSession'
    BY <1>1, <1>3, <1>5, <2>1 DEF TypeSession, VmStarted
  <2> QED BY <1>2, <1>5, <2>1, <2>2 DEF VmStarted, policyVars
<1>6. CASE CheckDeadline
  <2>1. CASE future["deadline"] = "pending"
    <3>1. TypeSession'
      BY <1>1, <1>6, <2>1 DEF TypeSession, CheckDeadline
    <3> QED BY <1>2, <1>6, <2>1, <3>1 DEF CheckDeadline, policyVars
  <2>2. CASE future["deadline"] # "pending"
    <3>1. TypeSession'
      BY <1>1, <1>3, <1>6, <2>2 DEF TypeSession, CheckDeadline
    <3> QED BY <1>2, <1>6, <2>2, <3>1 DEF CheckDeadline, policyVars
  <2> QED BY <2>1, <2>2
<1>7. CASE \E event \in {"command_started", "inspection_started"} : Admit(event)
  <2>1. PICK event \in {"command_started", "inspection_started"} : Admit(event)
    BY <1>7
  <2>2. TypeSession'
    BY <1>1, <1>3, <2>1 DEF TypeSession, Admit
  <2> QED BY <1>2, <2>1, <2>2 DEF Admit, policyVars
<1>8. CASE Finish
  <2>1. running' \in Nat
    BY <1>1, <1>8 DEF TypeSession, Finish
  <2>2. TypeSession'
    BY <1>1, <1>3, <1>8, <2>1 DEF TypeSession, Finish
  <2> QED BY <1>2, <1>8, <2>2 DEF Finish, policyVars
<1>9. CASE Save
  <2>1. TypeSession'
    BY <1>1, <1>3, <1>9 DEF TypeSession, Save
  <2> QED BY <1>2, <1>9, <2>1 DEF Save, policyVars
<1>10. CASE Close
  <2>1. TypeSession'
    BY <1>1, <1>3, <1>10 DEF TypeSession, Close
  <2> QED BY <1>2, <1>10, <2>1 DEF Close, policyVars
<1> QED BY <1>4, <1>5, <1>6, <1>7, <1>8, <1>9, <1>10 DEF SessionStep

\* What the session notifies keeps the invariant.
LEMMA SessionStepKept ==
    ASSUME IInv, SessionStep
    PROVE  IInv' /\ MayAskNow
<1>1. /\ calls = <<>> /\ UNCHANGED policyVars /\ (phase' # "closed" => phase # "closed")
      /\ TypeSession' /\ InShape(calls', phase') /\ ~Resets(calls')
  BY SessionStepFacts
<1>2. TypePolicies /\ TimerInv /\ IdleInv /\ WatchInv
  BY TypesSplit DEF IInv
<1>3. TypePolicies' /\ TimerInv' /\ IdleInv'
  BY <1>1, <1>2 DEF policyVars, countVars, durationVars, timerVars, TypePolicies, TimerInv, IdleInv
<1>4. TypeInv'
  BY <1>1, <1>3 DEF TypeInv, TypeOK, TypeSession, TypePolicies, States
<1>5. ~Resetting
  BY <1>1 DEF Resetting, Resets
<1>6. WatchInv' /\ ShapeInv'
  BY <1>1, <1>2, <1>5 DEF WatchInv, ShapeInv, Resetting, policyVars
<1>7. MayAskNow
  BY <1>1 DEF MayAskNow, policyVars
<1> QED BY <1>3, <1>4, <1>6, <1>7 DEF IInv

\* A step of a timer or of the clock leaves the session alone.
LEMMA QuietStep ==
    ASSUME IInv, UNCHANGED <<sessionVars, watched>>, TypePolicies', TimerInv', IdleInv',
           \/ future' = future
           \/ \E p \in Kids : future' = Completed(p, "done")
    PROVE  IInv'
<1>1. /\ TypeSession /\ TypePolicies /\ WatchInv /\ ShapeInv
  BY TypesSplit DEF IInv
<1>2. TypeSession' /\ ShapeInv' /\ (Resetting' <=> Resetting) /\ phase' = phase
  BY <1>1 DEF sessionVars, TypeSession, ShapeInv, Resetting
<1>3. TypeInv'
  BY <1>2 DEF TypeInv, TypeOK, TypeSession, TypePolicies, States
<1>4. WatchInv'
  <2>1. CASE future' = future
    BY <1>1, <1>2, <2>1 DEF WatchInv
  <2>2. CASE \E p \in Kids : future' = Completed(p, "done")
    <3>1. PICK p \in Kids : future' = Completed(p, "done")
      BY <2>2
    <3>2. /\ watched = Kids /\ AgreeIn(future) => AgreeIn(future')
          /\ watched = {} => future'["composite"] = future["composite"]
      BY <1>1, <3>1, AskingAgrees
    <3> QED BY <1>1, <1>2, <3>2 DEF WatchInv
  <2> QED BY <2>1, <2>2
<1> QED BY <1>2, <1>3, <1>4 DEF IInv

\* A timer that fires keeps the invariant: its callback still waits.
LEMMA FiresKept ==
    ASSUME IInv, NEW t \in timers, Fires(t)
    PROVE  IInv' /\ MayAskNow
<1> DEFINE u == [t EXCEPT !.state = "fired"]
<1>1. /\ TypePolicies /\ TimerInv /\ IdleInv /\ timers \subseteq TimerType
  BY TypesSplit DEF IInv, TypePolicies
<1>2. /\ t.left = 0 /\ timers' = (timers \ {t}) \cup {u}
      /\ UNCHANGED <<sessionVars, future, watched, countVars, durationVars, generation, idleFor>>
  BY DEF Fires
<1>3. u \in TimerType /\ u.policy = t.policy /\ u.generation = t.generation /\ u.left = t.left
  BY <1>1, TimerFacts
<1> HIDE DEF u
<1>4. TypePolicies'
  BY <1>1, <1>2, <1>3 DEF TypePolicies, countVars, durationVars
<1>5. ASSUME NEW p, NEW gen, NEW act, NEW idle, NEW secs, NEW age, OneOnTime(p, timers, gen, act, idle, secs, age)
      PROVE  OneOnTime(p, timers', gen, act, idle, secs, age)
  BY <1>2, <1>3, <1>5 DEF OneOnTime
<1>6. TimerInv'
  BY <1>1, <1>2, <1>5 DEF TimerInv, countVars, durationVars
<1>7. IdleInv'
  BY <1>1, <1>2, <1>3 DEF IdleInv, countVars
<1>8. MayAskNow
  BY <1>2 DEF MayAskNow
<1> QED BY <1>2, <1>4, <1>6, <1>7, <1>8, QuietStep

\* A callback asks only when its generation is the last one, and is on time.
MayExpire(p) ==
    \/ p = "idle" /\ idleFor >= IdleSeconds
    \/ p \in Durations /\ MayAsk(p)

\* A callback keeps the invariant, and asks only for what its timer timed.
LEMMA ExpiresKept ==
    ASSUME IInv, NEW t \in timers, Expires(t)
    PROVE  /\ IInv'
           /\ \A q \in Kids : future[q] = "pending" /\ future'[q] = "done" => MayExpire(q)
<1>1. /\ TypePolicies /\ TimerInv /\ IdleInv /\ timers \subseteq TimerType
      /\ future \in [Policies -> States] /\ idleFor \in {NotStarted} \cup 0 .. Horizon
      /\ seconds \in [Durations -> Seconds] /\ startedAge \in [Durations -> {NotStarted} \cup 0 .. Horizon]
  BY TypesSplit DEF IInv, TypePolicies
<1>2. /\ t.state = "fired" /\ timers' = timers \ {t}
      /\ UNCHANGED <<sessionVars, watched, countVars, durationVars, generation, idleFor>>
      /\ future' = (IF Valid(t) THEN Completed(t.policy, "done") ELSE future)
  BY DEF Expires
<1>3. /\ t.policy \in Timed /\ t.policy \in Policies /\ t.policy \in Kids /\ "idle" \in Policies
      /\ "idle" \notin Durations /\ t.policy \in {"idle"} \cup Durations /\ "done" \in States
  <2>1. t.policy \in Timed
    BY <1>1, TimerFacts
  <2> QED BY <2>1, ConstantFacts, KidFacts DEF States
<1>4. /\ Completed(t.policy, "done") \in [Policies -> States]
      /\ \A q \in Policies : q # t.policy /\ q # "composite" => Completed(t.policy, "done")[q] = future[q]
      /\ Completed(t.policy, "done")[t.policy] = (IF future[t.policy] = "pending" THEN "done" ELSE future[t.policy])
  BY <1>1, <1>3, AskFacts
<1>5. TypePolicies'
  BY <1>1, <1>2, <1>4 DEF TypePolicies, countVars, durationVars
<1>6. ASSUME NEW p, NEW gen, NEW act, NEW idle, NEW secs, NEW age, OneOnTime(p, timers, gen, act, idle, secs, age)
      PROVE  OneOnTime(p, timers', gen, act, idle, secs, age)
  BY <1>2, <1>6 DEF OneOnTime
<1>7. TimerInv'
  BY <1>1, <1>2, <1>6 DEF TimerInv, countVars, durationVars
<1>8. IdleInv'
  <2>1. idleFor' # NotStarted => active' = 0
    BY <1>1, <1>2 DEF IdleInv, countVars
  <2>2. ASSUME idleFor' # NotStarted, future'["idle"] = "pending"
        PROVE  \E u \in timers' : u.policy = "idle" /\ u.generation = generation'["idle"]
    <3>1. active = 0 /\ idleFor # NotStarted
      BY <1>2, <2>1, <2>2 DEF countVars
    <3>2. future["idle"] = "pending"
      BY <1>2, <1>3, <1>4, <2>2
    <3>3. PICK u \in timers : u.policy = "idle" /\ u.generation = generation["idle"]
      BY <1>1, <3>1, <3>2 DEF IdleInv
    <3>4. u # t
      <4> SUFFICES ASSUME u = t PROVE FALSE
        OBVIOUS
      <4>1. Valid(t) /\ t.policy = "idle"
        BY <3>1, <3>3 DEF Valid
      <4> QED BY <1>2, <1>4, <2>2, <3>2, <4>1
    <3> QED BY <1>2, <3>3, <3>4
  <2> QED BY <2>1, <2>2 DEF IdleInv
<1>9. ASSUME NEW q \in Kids, future[q] = "pending", future'[q] = "done" PROVE MayExpire(q)
  <2>1. q \in Policies /\ q # "composite"
    BY KidFacts
  <2>2. q = t.policy /\ t.generation = generation[t.policy]
    BY <1>2, <1>4, <1>9, <2>1 DEF Valid
  <2>3. CASE q = "idle"
    <3>1. t.left = 0 /\ idleFor # NotStarted /\ Due(t.left, IdleSeconds, idleFor)
      BY <1>1, <1>2, <2>2, <2>3 DEF TimerInv, OneOnTime
    <3>2. idleFor \in Nat /\ IdleSeconds \in Nat
      BY <1>1, <3>1, ConstantFacts
    <3>3. idleFor >= IdleSeconds
      BY <3>1, <3>2 DEF Due
    <3> QED BY <2>3, <3>3 DEF MayExpire
  <2>4. CASE q \in Durations
    <3>1. t.left = 0 /\ startedAge[q] # NotStarted /\ Due(t.left, seconds[q], startedAge[q])
      <4>1. OneOnTime(q, timers, generation[q], active, idleFor, seconds[q], startedAge[q])
        BY <1>1, <2>4 DEF TimerInv
      <4>2. q # "idle"
        BY <1>3, <2>4
      <4> QED BY <1>2, <2>2, <4>1, <4>2 DEF OneOnTime
    <3>2. startedAge[q] \in Nat /\ seconds[q] \in Nat /\ seconds'[q] = seconds[q]
      BY <1>1, <1>2, <2>4, <3>1, ConstantFacts DEF durationVars
    <3>3. startedAge[q] >= seconds'[q]
      BY <3>1, <3>2 DEF Due
    <3> QED BY <2>4, <3>1, <3>3 DEF MayExpire, MayAsk
  <2> QED BY <1>3, <2>2, <2>3, <2>4
<1>10. IInv'
  BY <1>2, <1>3, <1>5, <1>7, <1>8, QuietStep
<1> QED BY <1>9, <1>10

\* A second that passes keeps the invariant.
LEMMA TickKept ==
    ASSUME IInv, Tick
    PROVE  IInv' /\ MayAskNow
<1> DEFINE Ticked(t) == [t EXCEPT !.left = IF t.left > 0 THEN t.left - 1 ELSE 0]
<1>1. /\ TypePolicies /\ TimerInv /\ IdleInv /\ timers \subseteq TimerType
      /\ idleFor \in {NotStarted} \cup 0 .. Horizon /\ seconds \in [Durations -> Seconds]
      /\ startedAge \in [Durations -> {NotStarted} \cup 0 .. Horizon]
  BY TypesSplit DEF IInv, TypePolicies
<1>2. /\ timers' = {Ticked(t) : t \in timers}
      /\ startedAge' = [d \in Durations |-> Older(startedAge[d])] /\ idleFor' = Older(idleFor)
      /\ UNCHANGED <<sessionVars, future, watched, countVars, seconds, generation>>
  BY DEF Tick
<1>3. Horizon \in Nat /\ NotStarted \notin Nat /\ IdleSeconds \in Nat /\ IdleSeconds < Horizon
      /\ \A s \in Seconds : s \in Nat /\ s < Horizon
  BY ConstantFacts
<1>4. ASSUME NEW t \in timers
      PROVE  /\ Ticked(t) \in TimerType /\ Ticked(t).policy = t.policy
             /\ Ticked(t).generation = t.generation /\ Ticked(t).state = t.state
             /\ Ticked(t).left = IF t.left > 0 THEN t.left - 1 ELSE 0
             /\ t.left \in Nat
  <2>1. t \in TimerType /\ t.left \in 0 .. Horizon
    BY <1>1, TimerFacts
  <2>2. PICK left \in 0 .. Horizon : left = IF t.left > 0 THEN t.left - 1 ELSE 0
    BY <1>3, <2>1
  <2>3. Ticked(t) = [t EXCEPT !.left = left]
    BY <2>2
  <2> HIDE DEF Ticked
  <2>4. /\ Ticked(t) \in TimerType /\ Ticked(t).policy = t.policy /\ Ticked(t).generation = t.generation
        /\ Ticked(t).left = left /\ Ticked(t).state = t.state
    BY <2>1, <2>3 DEF TimerType
  <2> QED BY <2>1, <2>2, <2>4
<1> HIDE DEF Ticked
<1>5. ASSUME NEW age \in {NotStarted} \cup 0 .. Horizon
      PROVE  /\ Older(age) \in {NotStarted} \cup 0 .. Horizon /\ (Older(age) = NotStarted <=> age = NotStarted)
             /\ age # NotStarted => age \in Nat /\ Older(age) = IF age = Horizon THEN age ELSE age + 1
  BY <1>3 DEF Older
<1>6. TypePolicies'
  <2>1. timers' \subseteq TimerType
    BY <1>2, <1>4
  <2>2. startedAge' \in [Durations -> {NotStarted} \cup 0 .. Horizon] /\ idleFor' \in {NotStarted} \cup 0 .. Horizon
    BY <1>1, <1>2, <1>5
  <2> QED BY <1>1, <1>2, <2>1, <2>2 DEF TypePolicies, countVars
<1>7. ASSUME NEW t \in timers, NEW due \in Nat, due < Horizon, NEW age \in {NotStarted} \cup 0 .. Horizon,
             age # NotStarted, Due(t.left, due, age)
      PROVE  Due(Ticked(t).left, due, Older(age))
  <2>1. /\ age \in Nat /\ Older(age) = (IF age = Horizon THEN age ELSE age + 1) /\ t.left \in Nat
        /\ Ticked(t).left = IF t.left > 0 THEN t.left - 1 ELSE 0
    BY <1>4, <1>5, <1>7
  <2> HIDE DEF Ticked
  <2>2. CASE age < due
    <3>1. t.left = due - age
      BY <1>7, <2>2 DEF Due
    <3>2. Older(age) = age + 1 /\ Ticked(t).left = due - (age + 1)
      BY <1>3, <1>7, <2>1, <2>2, <3>1
    <3>3. ~(age + 1 < due) => due - (age + 1) = 0
      BY <2>1, <2>2
    <3> QED BY <3>2, <3>3 DEF Due
  <2>3. CASE ~(age < due)
    <3>1. t.left = 0
      BY <1>7, <2>3 DEF Due
    <3>2. Ticked(t).left = 0 /\ ~(Older(age) < due)
      BY <1>3, <1>7, <2>1, <2>3, <3>1
    <3> QED BY <3>2 DEF Due
  <2> QED BY <2>2, <2>3
<1>8. OneOnTime("idle", timers', generation'["idle"], active', idleFor', 0, 0)
  <2> SUFFICES ASSUME NEW t \in timers, t.policy = "idle"
               PROVE  /\ t.generation <= generation["idle"] /\ (t.state = "fired" => Ticked(t).left = 0)
                      /\ t.generation = generation["idle"] =>
                           active = 0 /\ idleFor' # NotStarted /\ Due(Ticked(t).left, IdleSeconds, idleFor')
    BY <1>2, <1>4 DEF OneOnTime, countVars
  <2>1. /\ t.generation <= generation["idle"] /\ (t.state = "fired" => t.left = 0)
        /\ t.generation = generation["idle"] =>
             active = 0 /\ idleFor # NotStarted /\ Due(t.left, IdleSeconds, idleFor)
    BY <1>1 DEF TimerInv, OneOnTime
  <2>2. t.left = 0 => Ticked(t).left = 0
    BY <1>4
  <2> QED BY <1>1, <1>2, <1>3, <1>5, <1>7, <2>1, <2>2
<1>9. ASSUME NEW d \in Durations
      PROVE  OneOnTime(d, timers', generation'[d], active', idleFor', seconds'[d], startedAge'[d])
  <2>1. d # "idle" /\ startedAge'[d] = Older(startedAge[d]) /\ seconds[d] \in Seconds
    BY <1>1, <1>2, ConstantFacts
  <2> SUFFICES ASSUME NEW t \in timers, t.policy = d
               PROVE  /\ t.generation <= generation[d] /\ (t.state = "fired" => Ticked(t).left = 0)
                      /\ t.generation = generation[d] =>
                           startedAge'[d] # NotStarted /\ Due(Ticked(t).left, seconds[d], startedAge'[d])
    BY <1>2, <1>4, <2>1 DEF OneOnTime, countVars
  <2>2. /\ t.generation <= generation[d] /\ (t.state = "fired" => t.left = 0)
        /\ t.generation = generation[d] =>
             startedAge[d] # NotStarted /\ Due(t.left, seconds[d], startedAge[d])
    <3>1. OneOnTime(d, timers, generation[d], active, idleFor, seconds[d], startedAge[d])
      BY <1>1 DEF TimerInv
    <3> QED BY <2>1, <3>1 DEF OneOnTime
  <2>3. t.left = 0 => Ticked(t).left = 0
    BY <1>4
  <2>4. startedAge[d] \in {NotStarted} \cup 0 .. Horizon
    BY <1>1
  <2> QED BY <1>3, <1>5, <1>7, <2>1, <2>2, <2>3, <2>4
<1>10. TimerInv'
  BY <1>8, <1>9 DEF TimerInv
<1>11. IdleInv'
  <2>1. idleFor' # NotStarted => idleFor # NotStarted
    BY <1>1, <1>2, <1>5
  <2>2. \A t \in timers : \E u \in timers' : u.policy = t.policy /\ u.generation = t.generation
    BY <1>2, <1>4
  <2>3. active' = active /\ future' = future /\ generation' = generation
    BY <1>2 DEF countVars
  <2> QED BY <1>1, <2>1, <2>2, <2>3 DEF IdleInv
<1>12. MayAskNow
  BY <1>2 DEF MayAskNow
<1> QED BY <1>2, <1>6, <1>10, <1>11, <1>12, QuietStep

-----------------------------------------------------------------------------
(* The theorems.                                                           *)

\* Every step keeps the invariant, and a future becomes "done" only where the
\* policy it belongs to may ask.
AsksRightly == \A q \in Kids : future[q] = "pending" /\ future'[q] = "done" => MayExpire(q) \/ MayAsk(q)
\* Every step keeps the invariant, and asks only when it is right to.
LEMMA StepKept ==
    ASSUME IInv, [Next]_vars
    PROVE  /\ IInv' /\ AsksRightly
<1>1. CASE SessionStep
  BY <1>1, SessionStepKept DEF MayAskNow, AsksRightly
<1>2. CASE NextCall
  BY <1>2, CallStep DEF MayAskNow, AsksRightly
<1>3. CASE TimerStep
  <2>1. PICK t \in timers : Fires(t) \/ Expires(t)
    BY <1>3 DEF TimerStep
  <2> QED BY <2>1, FiresKept, ExpiresKept DEF MayAskNow, AsksRightly
<1>4. CASE Tick
  BY <1>4, TickKept DEF MayAskNow, AsksRightly
<1>5. CASE UNCHANGED vars
  <2>1. /\ UNCHANGED <<sessionVars, watched, future>>
        /\ UNCHANGED <<phase, calls, countVars, durationVars, timerVars, idleFor>>
    BY <1>5 DEF vars, sessionVars
  <2>2. TypePolicies /\ TimerInv /\ IdleInv
    BY TypesSplit DEF IInv
  <2>3. TypePolicies' /\ TimerInv' /\ IdleInv'
    BY <2>1, <2>2 DEF countVars, durationVars, timerVars, TypePolicies, TimerInv, IdleInv
  <2>4. IInv'
    BY <2>1, <2>3, QuietStep
  <2> QED BY <2>1, <2>4 DEF AsksRightly
<1> QED BY <1>1, <1>2, <1>3, <1>4, <1>5 DEF Next, SessionStep, Ended

\* The invariant holds in every state, for all bounds and lifetimes.
THEOREM PoliciesInductive == Spec => []IInv
<1>1. Init => IInv
  BY InitKept
<1>2. IInv /\ [Next]_vars => IInv'
  BY StepKept
<1> QED BY <1>1, <1>2, PTL DEF Spec

\* Every variable keeps its type.
THEOREM PoliciesTyped == Spec => []TypeOK
<1>1. IInv => TypeOK
  BY DEF IInv, TypeInv
<1> QED BY <1>1, PoliciesInductive, PTL

\* Between two notifications the composite of an open session has decided
\* exactly when one of its children has (snapshot_policy.py:249-266).
THEOREM FirstDecides == Spec => []FirstDecisionWins
<1>1. IInv => FirstDecisionWins
  <2> SUFFICES ASSUME IInv, calls = <<>>, phase # "closed"
               PROVE  future["composite"] = "done" <=> \E i \in DOMAIN Children : future[Children[i]] = "done"
    BY DEF FirstDecisionWins
  <2>1. ~Resetting
    BY DEF Resetting, Resets
  <2>2. AgreeIn(future)
    BY <2>1 DEF IInv, WatchInv
  <2>3. (\E p \in Kids : future[p] = "done") <=> \E i \in DOMAIN Children : future[Children[i]] = "done"
    BY KidFacts
  <2> QED BY <2>2, <2>3 DEF AgreeIn
<1> QED BY <1>1, PoliciesInductive, PTL

\* A VM whose last activity has ended has the timer that asks for its snapshot
\* when its idle seconds are over (snapshot_policy.py:137-146).
THEOREM IdleIsAlwaysTimed == Spec => []IdleIsTimed
<1>1. IInv => IdleIsTimed
  <2> SUFFICES ASSUME IInv, future["idle"] = "pending", idleFor # NotStarted
               PROVE  \E t \in timers : /\ t.policy = "idle" /\ Valid(t)
                                        /\ IF idleFor < IdleSeconds THEN t.left = IdleSeconds - idleFor
                                           ELSE t.left = 0
    BY DEF IdleIsTimed
  <2>1. active = 0
    BY DEF IInv, IdleInv
  <2>2. PICK t \in timers : t.policy = "idle" /\ t.generation = generation["idle"]
    BY DEF IInv, IdleInv
  <2>3. Due(t.left, IdleSeconds, idleFor)
    BY <2>2 DEF IInv, TimerInv, OneOnTime
  <2> QED BY <2>1, <2>2, <2>3 DEF Due, Valid
<1> QED BY <1>1, PoliciesInductive, PTL

\* The idle policy asks only after its seconds without an activity, whatever
\* late callback gets its lock (snapshot_policy.py:125-129).
THEOREM IdleAsks == Spec => IdleAsksWhenIdle
<1>1. IInv /\ [Next]_vars => [future["idle"] = "pending" /\ future'["idle"] = "done" => idleFor >= IdleSeconds]_vars
  <2> SUFFICES ASSUME IInv, [Next]_vars, future["idle"] = "pending", future'["idle"] = "done"
               PROVE  idleFor >= IdleSeconds
    OBVIOUS
  <2>1. AsksRightly
    BY StepKept
  <2>2. "idle" \in Kids /\ "idle" \notin Durations
    BY KidFacts, ConstantFacts
  <2>3. ~MayAsk("idle")
    BY <2>2 DEF MayAsk
  <2>4. MayExpire("idle")
    BY <2>1, <2>2, <2>3 DEF AsksRightly
  <2> QED BY <2>2, <2>4 DEF MayExpire
<1> QED BY <1>1, PoliciesInductive, PTL DEF Spec, IdleAsksWhenIdle

\* A duration policy asks only when the VM of this cycle has lived for the
\* seconds that hold now (snapshot_policy.py:189-206).
THEOREM LifetimesAreLived == Spec => LifetimeIsOver
<1>1. IInv /\ [Next]_vars =>
        [\A d \in Durations : future[d] = "pending" /\ future'[d] = "done"
           => startedAge[d] # NotStarted /\ startedAge[d] >= seconds'[d]]_vars
  <2> SUFFICES ASSUME IInv, [Next]_vars, NEW d \in Durations, future[d] = "pending", future'[d] = "done"
               PROVE  startedAge[d] # NotStarted /\ startedAge[d] >= seconds'[d]
    OBVIOUS
  <2>1. AsksRightly
    BY StepKept
  <2>2. d \in Kids /\ d # "idle" /\ d # "count"
    BY KidFacts, ConstantFacts
  <2>3. MayExpire(d) \/ MayAsk(d)
    BY <2>1, <2>2 DEF AsksRightly
  <2> QED BY <2>2, <2>3 DEF MayExpire, MayAsk
<1> QED BY <1>1, PoliciesInductive, PTL DEF Spec, LifetimeIsOver

=============================================================================
