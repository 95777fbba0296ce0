-------------------------- MODULE DockerBuildProofs --------------------------
(***************************************************************************)
(* Proofs about the builder: whatever other builds record, and whatever is *)
(* edited, pushed or lost meanwhile, a build has what its Dockerfile says, *)
(* and a tag names all of it; a build that repeats another one starts no   *)
(* operation.                                                              *)
(***************************************************************************)
EXTENDS DockerBuild, TLAPS, WellFoundedInduction

-----------------------------------------------------------------------------
(* The inductive invariant.  Its parts are about values, not variables, so *)
(* that what holds of one build holds while others add nodes (N) and       *)
(* images (I).                                                             *)

ContextFields == {"tip", "parentHash", "pending", "stages", "alias", "env", "workdir", "user", "args"}
LayerFields == {"kind", "hash", "command", "image", "found", "exit"}
MeaningFields == {"content", "pending", "stages", "alias", "env", "workdir", "user", "args"}

ImageIn(t, N) == IF t = 0 THEN 0 ELSE N[t].image
Has(c, N, I) == IF c.tip = 0 THEN <<>> ELSE I[N[c.tip].image]
ChainIn(c, contribution, N) ==
    <<c.parentHash, ImageIn(c.tip, N), Settings(c), contribution, c.pending>>

\* What a layer does to an image is in its hash.
Doing(h, I) ==
    IF h[4][1] = "COPY" THEN Did(Unpacked(I[h[4][2]], h[4][3]), NoSettings, h[5])
    ELSE Did(h[4], h[3], h[5])

NodeOK(n, N, I) ==
    /\ N[n].parent \in 0 .. n - 1 /\ N[n].image \in DOMAIN I
    /\ N[n].kind \in {"use", "run"} /\ (N[n].kind = "use" <=> N[n].parent = 0)
    /\ N[n].exit \in {"zero", "nonzero", "signal"} /\ N[n].copyComplete \in BOOLEAN
    /\ N[n].copyComplete => N[n].exit = "signal"
    /\ N[n].kind = "use" => N[n].hash = FromHash(N[n].image)
    /\ N[n].kind = "run" =>
         LET h == N[n].hash IN
         /\ h[2] \in DOMAIN I
         /\ I[N[n].image] = Append(I[h[2]], Effect(N[n].exit, Doing(h, I)))
         /\ h[4][1] = "COPY" => h[4][2] \in DOMAIN I /\ h[4][3] \in Dirs

Store(N, I) ==
    /\ Sequence(N) /\ Sequence(I)
    /\ \A i \in DOMAIN I : Sequence(I[i]) /\ I[i] # <<>>
    /\ \A n \in DOMAIN N : NodeOK(n, N, I)

\* A build's context is what the directives so far mean.
SameStages(stages, meant, I) ==
    /\ Sequence(stages) /\ Sequence(meant) /\ Len(stages) = Len(meant)
    /\ \A i \in 1 .. Len(meant) :
         /\ stages[i].name = meant[i].name /\ stages[i].image \in DOMAIN I
         /\ I[stages[i].image] = meant[i].content
Agrees(c, m, I) ==
    /\ DOMAIN m = MeaningFields
    /\ c.alias = m.alias /\ c.env = m.env /\ c.workdir = m.workdir
    /\ c.user = m.user /\ c.args = m.args
    /\ SameStages(c.stages, m.stages, I)
Exactly(c, m, N, I) == Has(c, N, I) = m.content /\ c.pending = m.pending
FlushedIn(c, m, user, N, I) ==
    c.tip # 0 /\ c.pending = <<>> /\ m.content # <<>> /\ Has(c, N, I) = Flushed(m, user)

Copying(f, g, a) == Named(Meaning(f, g, a - 1).stages, f[a].ref, g[a])
\* What is reached before directive a, with k paths of a COPY --from done.
Reached(f, g, a, k) ==
    IF k = 0 THEN Meaning(f, g, a - 1)
    ELSE Copied(Meaning(f, g, a - 1), Copying(f, g, a), f[a].paths, k)
Ends(f, a) == a > Len(f) \/ f[a].keyword = "FROM"
Closing(f, a, m) == IF a > Len(f) THEN m.user ELSE None

\* The sources of COPY --from, once they are resolved.
Sourced(f, a, k, s, g, I) ==
    k > 0 => /\ a <= Len(f) /\ f[a].keyword = "COPY_FROM" /\ k <= Len(f[a].paths)
             /\ s \in DOMAIN I /\ I[s] = Copying(f, g, a)

\* No image before the first FROM, and nothing to attach to it.
Begun(f, a, c) ==
    c.tip = 0 => c.pending = <<>> /\ \A i \in 1 .. a - 1 : f[i].keyword = "ARG"

AtDirective(f, a, k, s, c, g, N, I) ==
    LET m == Reached(f, g, a, k) IN
    /\ Len(g) = IF k = 0 THEN a - 1 ELSE a
    /\ Agrees(c, m, I)
    /\ \/ Exactly(c, m, N, I)
       \/ k = 0 /\ Ends(f, a) /\ FlushedIn(c, m, Closing(f, a, m), N, I)

\* A layer that takes an image: the context is already that of the new stage.
Using(f, a, k, l, c, g, I) ==
    /\ a <= Len(f) /\ f[a].keyword = "FROM" /\ k = 0 /\ Len(g) = a
    /\ l.image \in DOMAIN I /\ l.hash = FromHash(l.image)
    /\ c.pending = <<>>
    /\ LET m == Meaning(f, g, a) IN
         Agrees(c, m, I) /\ m.pending = <<>> /\ I[l.image] = m.content

\* A layer that runs: a RUN, files that a stage or the Dockerfile ends with, or
\* a path of a COPY --from.
PathAt(f, a, k) == a <= Len(f) /\ f[a].keyword = "COPY_FROM" /\ k > 0
Contribution(f, a, k, s) ==
    IF a <= Len(f) /\ f[a].keyword = "RUN" THEN f[a].command
    ELSE IF PathAt(f, a, k) THEN <<"COPY", s, f[a].paths[k]>> ELSE Closer
CommandOf(f, a, k, s, I) ==
    IF PathAt(f, a, k) THEN Unpacked(I[s], f[a].paths[k]) ELSE Contribution(f, a, k, s)
ActingAs(f, a, c) == IF a <= Len(f) /\ f[a].keyword = "FROM" THEN AsRoot(c) ELSE c
Running(f, a, k, s, l, c, g, N, I) ==
    /\ c.tip # 0
    /\ IF k > 0 THEN Len(g) = a
       ELSE IF Ends(f, a) THEN Len(g) = a - 1 /\ c.pending # <<>>
       ELSE Len(g) = a /\ f[a].keyword = "RUN"
    /\ LET m == Reached(f, g, a, IF k = 0 THEN 0 ELSE k - 1) IN
         Agrees(c, m, I) /\ Exactly(c, m, N, I)
    /\ l.hash = ChainIn(ActingAs(f, a, c), Contribution(f, a, k, s), N)
    /\ l.command = CommandOf(f, a, k, s, I)

OfFile(f, a, k) == PathAt(f, a, k) /\ f[a].paths[k] \notin Dirs
Unpacking(f, a, k) == PathAt(f, a, k) /\ f[a].paths[k] \in Dirs
Matches(node, hash) == node.hash = hash /\ (node.exit = "zero" \/ node.copyComplete)

InLayer(f, a, p, k, s, l, c, g, N, I) ==
    /\ l.kind \in {"use", "run"}
    /\ l.kind = "use" => p \in {"look", "check", "miss"} /\ Using(f, a, k, l, c, g, I)
    /\ l.kind = "run" =>
         /\ Running(f, a, k, s, l, c, g, N, I)
         /\ OfFile(f, a, k) => p \in {"look", "miss"}
    /\ p = "check" =>
         /\ l.found \in DOMAIN N /\ Matches(N[l.found], l.hash) /\ N[l.found].kind = l.kind
         /\ l.kind = "run" => N[l.found].parent = c.tip
    /\ p = "ended" =>
         /\ l.image \in DOMAIN I
         /\ I[l.image] = Append(Has(c, N, I), Effect(l.exit, Doing(l.hash, I)))
         /\ l.exit \in IF Unpacking(f, a, k) THEN {"signal"} ELSE {"zero", "nonzero"}

Mid == {"look", "check", "miss", "running", "ended"}
Started(f, a, p, k, s, l, c, g, N, I) ==
    /\ f \in Dockerfiles /\ a \in 1 .. Len(f) + 1 /\ k \in Nat
    /\ Sequence(g) /\ Begun(f, a, c) /\ Sourced(f, a, k, s, g, I)
    /\ p = "done" => a = Len(f) + 1 /\ c.pending = <<>>
    /\ p \in {"ready", "done"} => l.kind = None /\ AtDirective(f, a, k, s, c, g, N, I)
    /\ p \in Mid => InLayer(f, a, p, k, s, l, c, g, N, I)

Unstarted(k, l, c, g) == k = 0 /\ l = NoLayer /\ c = NewContext /\ g = <<>>

BuildOK(f, a, p, k, s, l, c, g, N, I) ==
    /\ DOMAIN c = ContextFields /\ DOMAIN l = LayerFields /\ c.tip \in 0 .. Len(N)
    /\ p \in {"idle", "ready", "done", "failed"} \cup Mid
    /\ p \in {"idle", "failed"} => Unstarted(k, l, c, g)
    /\ p \notin {"idle", "failed"} => Started(f, a, p, k, s, l, c, g, N, I)

Maps ==
    /\ DOMAIN file = Builds /\ DOMAIN at = Builds /\ DOMAIN pc = Builds /\ DOMAIN part = Builds
    /\ DOMAIN source = Builds /\ DOMAIN layer = Builds /\ DOMAIN context = Builds
    /\ DOMAIN inputs = Builds /\ DOMAIN ran = Builds
OutsideOK ==
    /\ DOMAIN tagged = Range(Bases) /\ \A r \in Range(Bases) : tagged[r] \in DOMAIN images
    /\ gone \subseteq DOMAIN images /\ tag \in 0 .. Len(images)
Held(b) ==
    BuildOK(file[b], at[b], pc[b], part[b], source[b], layer[b], context[b], inputs[b], nodes, images)
IInv ==
    /\ Maps /\ OutsideOK /\ Store(nodes, images)
    /\ \A b \in Builds : Held(b)
    /\ TagIsWhole

-----------------------------------------------------------------------------
(* Sequences, and the least and the greatest of some numbers.              *)

LEMMA SequenceLen ==
    ASSUME NEW s, Sequence(s)
    PROVE  Len(s) \in Nat /\ DOMAIN s = 1 .. Len(s)
BY DEF Sequence

\* Len counts, and Append adds one element at the end.
LEMMA Appended ==
    ASSUME NEW s, Sequence(s), NEW e
    PROVE  LET t == Append(s, e) IN
           /\ Sequence(t) /\ Len(t) = Len(s) + 1 /\ t # <<>> /\ t[Len(s) + 1] = e
           /\ Len(s) \in Nat /\ DOMAIN s = 1 .. Len(s) /\ DOMAIN t = 1 .. Len(s) + 1
           /\ \A i \in 1 .. Len(s) : t[i] = s[i]
<1> DEFINE S == Range(s) \cup {e}
           t == Append(s, e)
<1>1. s \in Seq(S)
  <2>1. \A i \in 1 .. Len(s) : s[i] \in S
    BY DEF Sequence, Range
  <2> QED BY <2>1 DEF Sequence
<1>2. /\ t \in Seq(S) /\ Len(t) = Len(s) + 1 /\ t[Len(s) + 1] = e
      /\ \A i \in 1 .. Len(s) : t[i] = s[i]
  BY <1>1
<1>3. DOMAIN t = 1 .. Len(s) + 1 /\ Len(s) \in Nat /\ DOMAIN s = 1 .. Len(s)
  BY <1>1, <1>2
<1>4. Sequence(t)
  <2>1. \A i \in 1 .. Len(t) : t[i] \in Range(t)
    BY <1>2, <1>3 DEF Range
  <2> HIDE DEF t
  <2> QED BY <1>2, <2>1 DEF Sequence
<1>5. t # <<>>
  <2> HIDE DEF t
  <2> QED BY <1>2, <1>3
<1> QED BY <1>2, <1>3, <1>4, <1>5

LEMMA EmptySequence == Sequence(<<>>) /\ Len(<<>>) = 0
BY DEF Sequence

LEMMA Nonempty ==
    ASSUME NEW s, Sequence(s)
    PROVE  s # <<>> <=> Len(s) > 0
BY DEF Sequence

\* A set of numbers that is not empty has a least one.
LEMMA LeastNumber ==
    ASSUME NEW T, T \subseteq Nat, T # {}
    PROVE  \E n \in T : \A k \in T : n <= k
<1> DEFINE Before == {p \in Nat \X Nat : p[1] < p[2]}
<1>1. Before = OpToRel(<, Nat)
  BY Zenon DEF OpToRel
<1>2. IsWellFoundedOn(Before, Nat)
  BY <1>1, NatLessThanWellFounded, Zenon
<1> HIDE DEF Before
<1>3. \E x \in T : \A y \in T : <<y, x>> \notin Before
  BY <1>2, WFMin
<1>4. \A x, y \in Nat : <<y, x>> \in Before <=> y < x
  BY DEF Before
<1>5. PICK x \in T : \A y \in T : <<y, x>> \notin Before
  BY <1>3
<1>6. \A y \in T : x <= y
  <2> SUFFICES ASSUME NEW y \in T PROVE x <= y
    OBVIOUS
  <2>1. x \in Nat /\ y \in Nat /\ <<y, x>> \notin Before
    BY <1>5
  <2>2. ~(y < x)
    BY <1>4, <2>1
  <2> QED BY <2>1, <2>2
<1> QED BY <1>6

\* A bounded one has a greatest.
LEMMA GreatestNumber ==
    ASSUME NEW L \in Nat, NEW T, T \subseteq 1 .. L, T # {}
    PROVE  \E n \in T : \A k \in T : k <= n
<1> DEFINE Bounds == {k \in Nat : \A n \in T : n <= k}
<1>1. L \in Bounds /\ Bounds \subseteq Nat
  OBVIOUS
<1>2. PICK k \in Bounds : \A j \in Bounds : k <= j
  BY <1>1, LeastNumber, Zenon
<1>3. k \in T
  <2> SUFFICES ASSUME k \notin T PROVE FALSE
    OBVIOUS
  <2>1. PICK n \in T : TRUE
    OBVIOUS
  <2>2. k \in Nat /\ n \in Nat /\ n >= 1 /\ n <= k
    BY <1>2, <2>1
  <2>3. \A i \in T : i <= k - 1
    BY <1>2, <2>2
  <2>4. k - 1 \in Bounds
    BY <2>2, <2>3
  <2> QED BY <1>2, <2>2, <2>4
<1> QED BY <1>2, <1>3

\* The node that is taken is one of the candidates.
LEMMA NewestIsOne ==
    ASSUME NEW L \in Nat, NEW T, T \subseteq 1 .. L, T # {}
    PROVE  Newest(T) \in T
BY GreatestNumber DEF Newest

\* The last stage of a name is a stage of that name.
LEMMA LastNamedIsOne ==
    ASSUME NEW stages, Sequence(stages), NEW ref
    PROVE  \/ LastNamed(stages, ref) = 0 /\ \A i \in DOMAIN stages : stages[i].name # ref
           \/ LastNamed(stages, ref) \in 1 .. Len(stages) /\ stages[LastNamed(stages, ref)].name = ref
<1> DEFINE T == {i \in DOMAIN stages : stages[i].name = ref}
<1>1. Len(stages) \in Nat /\ T \subseteq 1 .. Len(stages)
  BY SequenceLen
<1>2. CASE T = {}
  BY <1>2 DEF LastNamed
<1>3. CASE T # {}
  <2>1. \E n \in T : \A k \in T : k <= n
    BY <1>1, <1>3, GreatestNumber
  <2>2. LastNamed(stages, ref) = CHOOSE n \in T : \A k \in T : k <= n
    BY <1>3 DEF LastNamed
  <2>3. LastNamed(stages, ref) \in T
    BY <2>1, <2>2, Zenon
  <2> QED BY <1>1, <2>3
<1> QED BY <1>2, <1>3

\* Stages that have the same names have the same last one.
LEMMA SameLastNamed ==
    ASSUME NEW s, NEW t, NEW ref, Sequence(s), Sequence(t), Len(s) = Len(t),
           \A i \in 1 .. Len(t) : s[i].name = t[i].name
    PROVE  LastNamed(s, ref) = LastNamed(t, ref)
<1>1. DOMAIN s = DOMAIN t /\ DOMAIN t = 1 .. Len(t)
  BY SequenceLen
<1> DEFINE S == {i \in DOMAIN s : s[i].name = ref}
           T == {i \in DOMAIN t : t[i].name = ref}
<1>2. S = T
  BY <1>1
<1>3. LastNamed(s, ref) = IF S = {} THEN 0 ELSE CHOOSE i \in S : \A j \in S : j <= i
  BY DEF LastNamed
<1>4. LastNamed(t, ref) = IF T = {} THEN 0 ELSE CHOOSE i \in T : \A j \in T : j <= i
  BY DEF LastNamed
<1> HIDE DEF S, T
<1> QED BY <1>2, <1>3, <1>4

-----------------------------------------------------------------------------
(* What a Dockerfile means is computed directive by directive.             *)

Computes(m, d, given, n) ==
    m = [i \in 0 .. n |-> IF i = 0 THEN Nothing ELSE Meant(m[i - 1], d[i], given[i])]

LEMMA MeaningExists ==
    ASSUME NEW d, NEW given, NEW n \in Nat
    PROVE  \E m : Computes(m, d, given, n)
<1> DEFINE Bad == {k \in Nat : ~\E m : Computes(m, d, given, k)}
<1>1. SUFFICES ASSUME Bad # {} PROVE FALSE
  OBVIOUS
<1>2. PICK k \in Bad : \A j \in Bad : k <= j
  BY <1>1, LeastNumber
<1>3. CASE k = 0
  <2> DEFINE m == [i \in 0 .. 0 |-> Nothing]
  <2>1. Computes(m, d, given, 0)
    BY DEF Computes
  <2> QED BY <1>2, <1>3, <2>1
<1>4. CASE k # 0
  <2>1. k - 1 \in Nat /\ k - 1 \notin Bad
    BY <1>2, <1>4
  <2>2. PICK p : Computes(p, d, given, k - 1)
    BY <2>1
  <2> DEFINE m == [i \in 0 .. k |-> IF i = k THEN Meant(p[k - 1], d[k], given[k]) ELSE p[i]]
  <2>3. DOMAIN p = 0 .. k - 1 /\ \A i \in 0 .. k - 1 :
          p[i] = IF i = 0 THEN Nothing ELSE Meant(p[i - 1], d[i], given[i])
    BY <2>2 DEF Computes
  <2>4. \A i \in 0 .. k : i # k => i \in 0 .. k - 1 /\ (i # 0 => i - 1 \in 0 .. k - 1)
    BY <2>1
  <2>5. k - 1 \in 0 .. k /\ k - 1 # k
    BY <2>1
  <2>6. ASSUME NEW i \in 0 .. k
        PROVE  m[i] = IF i = 0 THEN Nothing ELSE Meant(m[i - 1], d[i], given[i])
    <3>1. CASE i = k
      <4>1. m[i] = Meant(p[k - 1], d[k], given[k])
        BY <3>1
      <4>2. m[k - 1] = p[k - 1]
        BY <2>5
      <4> QED BY <1>4, <3>1, <4>1, <4>2
    <3>2. CASE i # k
      <4>1. m[i] = p[i]
        BY <3>2
      <4>2. i \in 0 .. k - 1
        BY <2>4, <3>2
      <4>3. ASSUME i # 0 PROVE m[i - 1] = p[i - 1]
        <5>1. i - 1 \in 0 .. k /\ i - 1 # k
          BY <2>1, <4>2, <4>3
        <5> QED BY <5>1
      <4> HIDE DEF m
      <4> QED BY <2>3, <4>1, <4>2, <4>3
    <3> QED BY <3>1, <3>2
  <2>7. m = [i \in 0 .. k |-> IF i = 0 THEN Nothing ELSE Meant(m[i - 1], d[i], given[i])]
    <3>1. DOMAIN m = 0 .. k /\ m = [i \in DOMAIN m |-> m[i]]
      OBVIOUS
    <3> HIDE DEF m
    <3> QED BY <2>6, <3>1
  <2>8. Computes(m, d, given, k)
    BY <2>7 DEF Computes
  <2> QED BY <1>2, <2>8
<1> QED BY <1>3, <1>4

LEMMA MeaningAgrees ==
    ASSUME NEW d, NEW g, NEW h, NEW n \in Nat, NEW k \in Nat, n <= k, NEW m, NEW p,
           Computes(m, d, g, n), Computes(p, d, h, k), \A i \in 1 .. n : g[i] = h[i]
    PROVE  \A i \in 0 .. n : m[i] = p[i]
<1> DEFINE Bad == {i \in 0 .. n : m[i] # p[i]}
<1>1. SUFFICES ASSUME Bad # {} PROVE FALSE
  OBVIOUS
<1>2. Bad \subseteq Nat
  OBVIOUS
<1>3. PICK i \in Bad : \A j \in Bad : i <= j
  BY <1>1, <1>2, LeastNumber
<1>4. \A j \in 0 .. n : m[j] = IF j = 0 THEN Nothing ELSE Meant(m[j - 1], d[j], g[j])
  BY DEF Computes
<1>5. \A j \in 0 .. k : p[j] = IF j = 0 THEN Nothing ELSE Meant(p[j - 1], d[j], h[j])
  BY DEF Computes
<1>6. i \in 0 .. n /\ i \in 0 .. k /\ m[i] # p[i]
  BY <1>3
<1>7. CASE i = 0
  BY <1>4, <1>5, <1>6, <1>7
<1>8. CASE i # 0
  <2>1. i - 1 \in 0 .. n /\ i - 1 \notin Bad /\ i \in 1 .. n
    BY <1>3, <1>6, <1>8
  <2>2. m[i - 1] = p[i - 1] /\ g[i] = h[i]
    BY <2>1
  <2> QED BY <1>4, <1>5, <1>6, <1>8, <2>2
<1> QED BY <1>7, <1>8

LEMMA MeaningIsComputed ==
    ASSUME NEW d, NEW given, NEW n \in Nat
    PROVE  \E m : Computes(m, d, given, n) /\ Meaning(d, given, n) = m[n]
<1> DEFINE m == CHOOSE q : Computes(q, d, given, n)
<1>1. Computes(m, d, given, n)
  BY MeaningExists, Zenon
<1>2. Meaning(d, given, n) = m[n]
  BY DEF Meaning, Computes
<1> QED BY <1>1, <1>2

\* Nothing comes first, and each directive changes what the ones before mean.
LEMMA MeaningNext ==
    ASSUME NEW d, NEW given
    PROVE  /\ Meaning(d, given, 0) = Nothing
           /\ \A n \in Nat :
                Meaning(d, given, n + 1) = Meant(Meaning(d, given, n), d[n + 1], given[n + 1])
<1>1. Meaning(d, given, 0) = Nothing
  BY MeaningIsComputed DEF Computes
<1>2. ASSUME NEW n \in Nat
      PROVE  Meaning(d, given, n + 1) = Meant(Meaning(d, given, n), d[n + 1], given[n + 1])
  <2>1. PICK m : Computes(m, d, given, n) /\ Meaning(d, given, n) = m[n]
    BY MeaningIsComputed
  <2>2. PICK p : Computes(p, d, given, n + 1) /\ Meaning(d, given, n + 1) = p[n + 1]
    BY MeaningIsComputed
  <2>3. \A i \in 0 .. n : m[i] = p[i]
    <3> DEFINE k == n + 1
    <3>1. k \in Nat /\ n <= k
      OBVIOUS
    <3>2. Computes(p, d, given, k)
      BY <2>2
    <3> HIDE DEF k
    <3> QED BY <2>1, <3>1, <3>2, MeaningAgrees
  <2>4. m[n] = p[n]
    BY <2>3
  <2>5. p[n + 1] = Meant(p[n], d[n + 1], given[n + 1])
    BY <2>2 DEF Computes
  <2> QED BY <2>1, <2>2, <2>4, <2>5
<1> QED BY <1>1, <1>2

\* It depends on nothing that is given later.
LEMMA MeaningPrefix ==
    ASSUME NEW d, NEW g, NEW h, NEW n \in Nat, \A i \in 1 .. n : g[i] = h[i]
    PROVE  Meaning(d, g, n) = Meaning(d, h, n)
<1>1. PICK m : Computes(m, d, g, n) /\ Meaning(d, g, n) = m[n]
  BY MeaningIsComputed
<1>2. PICK p : Computes(p, d, h, n) /\ Meaning(d, h, n) = p[n]
  BY MeaningIsComputed
<1>3. \A i \in 0 .. n : m[i] = p[i]
  BY <1>1, <1>2, MeaningAgrees
<1> QED BY <1>1, <1>2, <1>3

LEMMA MeaningAppend ==
    ASSUME NEW d, NEW g, Sequence(g), NEW x, NEW n \in Nat, n <= Len(g)
    PROVE  Meaning(d, Append(g, x), n) = Meaning(d, g, n)
<1>1. \A i \in 1 .. n : Append(g, x)[i] = g[i]
  BY Appended
<1> QED BY <1>1, MeaningPrefix

\* The same for the paths of a COPY --from.
Unfolds(q, m, content, paths, n) ==
    q = [i \in 0 .. n |-> IF i = 0 THEN m ELSE CopiedFrom(q[i - 1], content, paths[i])]

LEMMA CopiedExists ==
    ASSUME NEW m, NEW content, NEW paths, NEW n \in Nat
    PROVE  \E q : Unfolds(q, m, content, paths, n)
<1> DEFINE Bad == {k \in Nat : ~\E q : Unfolds(q, m, content, paths, k)}
<1>1. SUFFICES ASSUME Bad # {} PROVE FALSE
  OBVIOUS
<1>2. PICK k \in Bad : \A j \in Bad : k <= j
  BY <1>1, LeastNumber
<1>3. CASE k = 0
  <2> DEFINE q == [i \in 0 .. 0 |-> m]
  <2>1. Unfolds(q, m, content, paths, 0)
    BY DEF Unfolds
  <2> QED BY <1>2, <1>3, <2>1
<1>4. CASE k # 0
  <2>1. k - 1 \in Nat /\ k - 1 \notin Bad
    BY <1>2, <1>4
  <2>2. PICK p : Unfolds(p, m, content, paths, k - 1)
    BY <2>1
  <2> DEFINE q == [i \in 0 .. k |-> IF i = k THEN CopiedFrom(p[k - 1], content, paths[k]) ELSE p[i]]
  <2>3. DOMAIN p = 0 .. k - 1 /\ \A i \in 0 .. k - 1 :
          p[i] = IF i = 0 THEN m ELSE CopiedFrom(p[i - 1], content, paths[i])
    BY <2>2 DEF Unfolds
  <2>4. \A i \in 0 .. k : i # k => i \in 0 .. k - 1 /\ (i # 0 => i - 1 \in 0 .. k - 1)
    BY <2>1
  <2>5. k - 1 \in 0 .. k /\ k - 1 # k
    BY <2>1
  <2>6. ASSUME NEW i \in 0 .. k
        PROVE  q[i] = IF i = 0 THEN m ELSE CopiedFrom(q[i - 1], content, paths[i])
    <3>1. CASE i = k
      <4>1. q[i] = CopiedFrom(p[k - 1], content, paths[k])
        BY <3>1
      <4>2. q[k - 1] = p[k - 1]
        BY <2>5
      <4> QED BY <1>4, <3>1, <4>1, <4>2
    <3>2. CASE i # k
      <4>1. q[i] = p[i]
        BY <3>2
      <4>2. i \in 0 .. k - 1
        BY <2>4, <3>2
      <4>3. ASSUME i # 0 PROVE q[i - 1] = p[i - 1]
        <5>1. i - 1 \in 0 .. k /\ i - 1 # k
          BY <2>1, <4>2, <4>3
        <5> QED BY <5>1
      <4> HIDE DEF q
      <4> QED BY <2>3, <4>1, <4>2, <4>3
    <3> QED BY <3>1, <3>2
  <2>7. q = [i \in 0 .. k |-> IF i = 0 THEN m ELSE CopiedFrom(q[i - 1], content, paths[i])]
    <3>1. DOMAIN q = 0 .. k /\ q = [i \in DOMAIN q |-> q[i]]
      OBVIOUS
    <3> HIDE DEF q
    <3> QED BY <2>6, <3>1
  <2>8. Unfolds(q, m, content, paths, k)
    BY <2>7 DEF Unfolds
  <2> QED BY <1>2, <2>8
<1> QED BY <1>3, <1>4

LEMMA CopiedAgrees ==
    ASSUME NEW m, NEW content, NEW paths, NEW n \in Nat, NEW k \in Nat, n <= k, NEW q, NEW p,
           Unfolds(q, m, content, paths, n), Unfolds(p, m, content, paths, k)
    PROVE  \A i \in 0 .. n : q[i] = p[i]
<1> DEFINE Bad == {i \in 0 .. n : q[i] # p[i]}
<1>1. SUFFICES ASSUME Bad # {} PROVE FALSE
  OBVIOUS
<1>2. Bad \subseteq Nat
  OBVIOUS
<1>3. PICK i \in Bad : \A j \in Bad : i <= j
  BY <1>1, <1>2, LeastNumber
<1>4. \A j \in 0 .. n : q[j] = IF j = 0 THEN m ELSE CopiedFrom(q[j - 1], content, paths[j])
  BY DEF Unfolds
<1>5. \A j \in 0 .. k : p[j] = IF j = 0 THEN m ELSE CopiedFrom(p[j - 1], content, paths[j])
  BY DEF Unfolds
<1>6. i \in 0 .. n /\ i \in 0 .. k /\ q[i] # p[i]
  BY <1>3
<1>7. CASE i = 0
  BY <1>4, <1>5, <1>6, <1>7
<1>8. CASE i # 0
  <2>1. i - 1 \in 0 .. n /\ i - 1 \notin Bad
    BY <1>3, <1>6, <1>8
  <2>2. q[i - 1] = p[i - 1]
    BY <2>1
  <2> QED BY <1>4, <1>5, <1>6, <1>8, <2>2
<1> QED BY <1>7, <1>8

LEMMA CopiedIsUnfolded ==
    ASSUME NEW m, NEW content, NEW paths, NEW n \in Nat
    PROVE  \E q : Unfolds(q, m, content, paths, n) /\ Copied(m, content, paths, n) = q[n]
<1> DEFINE q == CHOOSE r : Unfolds(r, m, content, paths, n)
<1>1. Unfolds(q, m, content, paths, n)
  BY CopiedExists, Zenon
<1>2. Copied(m, content, paths, n) = q[n]
  BY DEF Copied, Unfolds
<1> QED BY <1>1, <1>2

LEMMA CopiedNext ==
    ASSUME NEW m, NEW content, NEW paths
    PROVE  /\ Copied(m, content, paths, 0) = m
           /\ \A n \in Nat :
                Copied(m, content, paths, n + 1)
                  = CopiedFrom(Copied(m, content, paths, n), content, paths[n + 1])
<1>1. Copied(m, content, paths, 0) = m
  BY CopiedIsUnfolded DEF Unfolds
<1>2. ASSUME NEW n \in Nat
      PROVE  Copied(m, content, paths, n + 1)
               = CopiedFrom(Copied(m, content, paths, n), content, paths[n + 1])
  <2>1. PICK q : Unfolds(q, m, content, paths, n) /\ Copied(m, content, paths, n) = q[n]
    BY CopiedIsUnfolded
  <2>2. PICK p : Unfolds(p, m, content, paths, n + 1) /\ Copied(m, content, paths, n + 1) = p[n + 1]
    BY CopiedIsUnfolded
  <2>3. \A i \in 0 .. n : q[i] = p[i]
    <3>1. n + 1 \in Nat /\ n <= n + 1
      OBVIOUS
    <3> QED BY <2>1, <2>2, <3>1, CopiedAgrees
  <2>4. q[n] = p[n]
    BY <2>3
  <2>5. p[n + 1] = CopiedFrom(p[n], content, paths[n + 1])
    BY <2>2 DEF Unfolds
  <2> QED BY <2>1, <2>2, <2>4, <2>5
<1> QED BY <1>1, <1>2

LEMMA CopiedStep ==
    ASSUME NEW m, NEW content, NEW paths, NEW k \in Nat \ {0}
    PROVE  Copied(m, content, paths, k) = CopiedFrom(Copied(m, content, paths, k - 1), content, paths[k])
<1>1. k - 1 \in Nat /\ (k - 1) + 1 = k
  OBVIOUS
<1>2. \A n \in Nat :
        Copied(m, content, paths, n + 1) = CopiedFrom(Copied(m, content, paths, n), content, paths[n + 1])
  BY CopiedNext
<1> QED BY <1>1, <1>2

-----------------------------------------------------------------------------
(* What holds of a build holds while nodes and images are added.           *)

Grown(s, t) == Len(s) <= Len(t) /\ \A i \in 1 .. Len(s) : t[i] = s[i]

LEMMA GrownIn ==
    ASSUME NEW s, NEW t, Sequence(s), Sequence(t), Grown(s, t)
    PROVE  /\ Len(s) \in Nat /\ DOMAIN s = 1 .. Len(s)
           /\ \A i \in DOMAIN s : i \in DOMAIN t /\ t[i] = s[i]
BY SequenceLen DEF Grown

LEMMA AppendGrows ==
    ASSUME NEW s, Sequence(s), NEW e
    PROVE  Sequence(Append(s, e)) /\ Grown(s, Append(s, e))
BY Appended DEF Grown

LEMMA SameGrows ==
    ASSUME NEW s, Sequence(s)
    PROVE  Grown(s, s)
BY SequenceLen DEF Grown

\* A hash says the same while images are added.
Sound(h, I) == h[4][1] = "COPY" => h[4][2] \in DOMAIN I

LEMMA DoingStays ==
    ASSUME NEW h, NEW I, NEW J, Sequence(I), Sequence(J), Grown(I, J), Sound(h, I)
    PROVE  Doing(h, J) = Doing(h, I) /\ Sound(h, J)
BY GrownIn DEF Doing, Sound

LEMMA StoreImage ==
    ASSUME NEW N, NEW I, Store(N, I), NEW x, Sequence(x), x # <<>>
    PROVE  Store(N, Append(I, x)) /\ Grown(I, Append(I, x))
<1> DEFINE J == Append(I, x)
<1>1. Sequence(N) /\ Sequence(I) /\ Sequence(J) /\ Grown(I, J)
  BY AppendGrows DEF Store
<1>2. \A i \in DOMAIN J : Sequence(J[i]) /\ J[i] # <<>>
  <2>1. \A i \in DOMAIN J : (i \in DOMAIN I /\ J[i] = I[i]) \/ J[i] = x
    BY <1>1, Appended
  <2> HIDE DEF J
  <2> QED BY <2>1 DEF Store
<1>3. ASSUME NEW n \in DOMAIN N PROVE NodeOK(n, N, J)
  <2> HIDE DEF J
  <2>1. NodeOK(n, N, I)
    BY DEF Store
  <2>2. \A i \in DOMAIN I : i \in DOMAIN J /\ J[i] = I[i]
    BY <1>1, GrownIn
  <2>3. ASSUME N[n].kind = "run" PROVE Doing(N[n].hash, J) = Doing(N[n].hash, I)
    BY <1>1, <2>1, <2>3, DoingStays DEF NodeOK, Sound
  <2> QED BY <2>1, <2>2, <2>3 DEF NodeOK
<1> HIDE DEF J
<1>4. Store(N, J)
  BY <1>1, <1>2, <1>3 DEF Store
<1> QED BY <1>1, <1>4 DEF J

LEMMA StoreNode ==
    ASSUME NEW N, NEW I, Store(N, I), NEW node, NodeOK(Len(N) + 1, Append(N, node), I)
    PROVE  Store(Append(N, node), I) /\ Grown(N, Append(N, node))
<1> DEFINE M == Append(N, node)
<1>1. Sequence(N) /\ Sequence(I) /\ Sequence(M) /\ Grown(N, M)
  BY AppendGrows DEF Store
<1>2. ASSUME NEW n \in DOMAIN M PROVE NodeOK(n, M, I)
  <2>1. CASE n \in DOMAIN N
    <3>1. M[n] = N[n]
      BY <1>1, <2>1, GrownIn
    <3>2. NodeOK(n, N, I)
      BY <2>1 DEF Store
    <3> HIDE DEF M
    <3> QED BY <3>1, <3>2 DEF NodeOK
  <2>2. CASE n \notin DOMAIN N
    <3>1. n = Len(N) + 1
      BY <1>1, <2>2, Appended
    <3> QED BY <3>1
  <2> QED BY <2>1, <2>2
<1> HIDE DEF M
<1>3. Store(M, I)
  BY <1>1, <1>2 DEF Store
<1> QED BY <1>1, <1>3 DEF M

LEMMA AgreesStays ==
    ASSUME NEW c, NEW m, NEW I, NEW J, Sequence(I), Sequence(J), Grown(I, J), Agrees(c, m, I)
    PROVE  Agrees(c, m, J)
<1>1. \A i \in DOMAIN I : i \in DOMAIN J /\ J[i] = I[i]
  BY GrownIn
<1> QED BY <1>1 DEF Agrees, SameStages

\* What the parser has let pass.
LEMMA ParsedFile ==
    ASSUME NEW f, f \in Dockerfiles
    PROVE  /\ Sequence(f) /\ Len(f) \in Nat /\ DOMAIN f = 1 .. Len(f)
           /\ \A i \in 1 .. Len(f) :
                /\ f[i].keyword = "RUN" => f[i].command[1] = "RUN"
                /\ f[i].keyword = "COPY_FROM" =>
                     /\ Sequence(f[i].paths) /\ Len(f[i].paths) \in Nat \ {0}
                     /\ DOMAIN f[i].paths = 1 .. Len(f[i].paths)
<1>1. Parsed(f)
  BY DockerAssumption
<1>2. Sequence(f) /\ Len(f) \in Nat /\ DOMAIN f = 1 .. Len(f)
  <2>1. Sequence(f)
    BY <1>1 DEF Parsed
  <2> QED BY <2>1, SequenceLen
<1>3. ASSUME NEW i \in 1 .. Len(f), f[i].keyword = "COPY_FROM"
      PROVE  /\ Sequence(f[i].paths) /\ Len(f[i].paths) \in Nat \ {0}
             /\ DOMAIN f[i].paths = 1 .. Len(f[i].paths)
  <2>1. Sequence(f[i].paths) /\ f[i].paths # <<>>
    BY <1>1, <1>2, <1>3 DEF Parsed
  <2> QED BY <2>1, SequenceLen, Nonempty
<1> QED BY <1>1, <1>2, <1>3 DEF Parsed

\* After the ARGs that may come first there is a FROM.
LEMMA FromComesFirst ==
    ASSUME NEW f, f \in Dockerfiles, NEW a \in 1 .. Len(f) + 1,
           \A i \in 1 .. a - 1 : f[i].keyword = "ARG"
    PROVE  a <= Len(f) /\ f[a].keyword \in {"ARG", "FROM"}
<1>1. Parsed(f) /\ Len(f) \in Nat /\ DOMAIN f = 1 .. Len(f)
  BY DockerAssumption, ParsedFile
<1>2. PICK k \in 1 .. Len(f) : f[k].keyword = "FROM" /\ \A i \in 1 .. k - 1 : f[i].keyword = "ARG"
  BY <1>1 DEF Parsed
<1>3. ~(k <= a - 1)
  BY <1>1, <1>2
<1> QED BY <1>1, <1>2, <1>3

\* The hash a build runs a layer with.
HashSays(f, a, k, s, h, c, N, I) ==
    /\ h[2] = ImageIn(c.tip, N) /\ h[5] = c.pending
    /\ h[3] = Settings(ActingAs(f, a, c)) /\ h[4] = Contribution(f, a, k, s)
    /\ IF PathAt(f, a, k)
       THEN h[4][1] = "COPY" /\ h[4][2] = s /\ h[4][3] = f[a].paths[k]
       ELSE h[4][1] # "COPY"
    /\ Sound(h, I)

LEMMA RunningHash ==
    ASSUME NEW f, f \in Dockerfiles, NEW a, a \in 1 .. Len(f) + 1, NEW k, k \in Nat, NEW s,
           NEW l, NEW c, DOMAIN c = ContextFields, NEW g, NEW N, NEW I,
           Sourced(f, a, k, s, g, I), Running(f, a, k, s, l, c, g, N, I)
    PROVE  HashSays(f, a, k, s, l.hash, c, N, I)
<1> DEFINE x == ActingAs(f, a, c)
           d == Contribution(f, a, k, s)
<1>1. x.tip = c.tip /\ x.pending = c.pending /\ x.parentHash = c.parentHash
  BY DEF ActingAs, AsRoot, ContextFields
<1>2. l.hash = <<x.parentHash, ImageIn(x.tip, N), Settings(x), d, x.pending>>
  BY DEF Running, ChainIn
<1> HIDE DEF x, d
<1>3. /\ l.hash[2] = ImageIn(c.tip, N) /\ l.hash[3] = Settings(x) /\ l.hash[4] = d
      /\ l.hash[5] = c.pending
  BY <1>1, <1>2
<1>4. CASE PathAt(f, a, k)
  <2>1. d = <<"COPY", s, f[a].paths[k]>>
    BY <1>4 DEF d, Contribution, PathAt
  <2>2. s \in DOMAIN I
    BY <1>4 DEF Sourced, PathAt
  <2> QED BY <1>3, <1>4, <2>1, <2>2 DEF HashSays, Sound, d, x
<1>5. CASE ~PathAt(f, a, k)
  <2>1. d[1] = "RUN"
    <3>1. CASE a <= Len(f) /\ f[a].keyword = "RUN"
      <4>1. a \in 1 .. Len(f) /\ d = f[a].command
        BY <3>1 DEF d, Contribution
      <4>2. f[a].command[1] = "RUN"
        BY <3>1, <4>1, ParsedFile
      <4> QED BY <4>1, <4>2
    <3>2. CASE ~(a <= Len(f) /\ f[a].keyword = "RUN")
      BY <1>5, <3>2 DEF d, Contribution, Closer
    <3> QED BY <3>1, <3>2
  <2> QED BY <1>3, <1>5, <2>1 DEF HashSays, Sound, d, x
<1> QED BY <1>4, <1>5

\* What a build has, once more nodes (M for N) and images (J for I) are there.
LEMMA HasStays ==
    ASSUME NEW N, NEW I, NEW M, NEW J, Store(N, I), Store(M, J), Grown(N, M), Grown(I, J),
           NEW c, c.tip \in 0 .. Len(N)
    PROVE  /\ c.tip \in 0 .. Len(M) /\ ImageIn(c.tip, M) = ImageIn(c.tip, N)
           /\ Has(c, M, J) = Has(c, N, I)
           /\ \A contribution : ChainIn(c, contribution, M) = ChainIn(c, contribution, N)
<1>1. /\ \A n \in DOMAIN N : n \in DOMAIN M /\ M[n] = N[n]
      /\ \A i \in DOMAIN I : i \in DOMAIN J /\ J[i] = I[i]
      /\ DOMAIN N = 1 .. Len(N) /\ DOMAIN M = 1 .. Len(M) /\ Len(N) \in Nat /\ Len(M) \in Nat
      /\ Len(N) <= Len(M)
  BY GrownIn, SequenceLen DEF Store, Grown
<1>2. c.tip # 0 => c.tip \in DOMAIN N /\ N[c.tip].image \in DOMAIN I
  BY <1>1 DEF Store, NodeOK
<1>3. ImageIn(c.tip, M) = ImageIn(c.tip, N)
  BY <1>1, <1>2 DEF ImageIn
<1> QED BY <1>1, <1>2, <1>3 DEF Has, ChainIn

LEMMA AtDirectiveStays ==
    ASSUME NEW N, NEW I, NEW M, NEW J, Store(N, I), Store(M, J), Grown(N, M), Grown(I, J),
           NEW f, NEW a, NEW k, NEW s, NEW c, c.tip \in 0 .. Len(N), NEW g,
           AtDirective(f, a, k, s, c, g, N, I)
    PROVE  AtDirective(f, a, k, s, c, g, M, J)
<1>1. Sequence(I) /\ Sequence(J) /\ Has(c, M, J) = Has(c, N, I)
  BY HasStays DEF Store
<1> DEFINE m == Reached(f, g, a, k)
<1>2. Agrees(c, m, J)
  BY <1>1, AgreesStays DEF AtDirective
<1> HIDE DEF m
<1>3. /\ Len(g) = IF k = 0 THEN a - 1 ELSE a
      /\ \/ Exactly(c, m, N, I)
         \/ k = 0 /\ Ends(f, a) /\ FlushedIn(c, m, Closing(f, a, m), N, I)
  BY DEF AtDirective, m
<1>4. \/ Exactly(c, m, M, J)
      \/ k = 0 /\ Ends(f, a) /\ FlushedIn(c, m, Closing(f, a, m), M, J)
  BY <1>1, <1>3 DEF Exactly, FlushedIn
<1> QED BY <1>2, <1>3, <1>4 DEF AtDirective, m

LEMMA UsingStays ==
    ASSUME NEW I, NEW J, Sequence(I), Sequence(J), Grown(I, J),
           NEW f, NEW a, NEW k, NEW l, NEW c, NEW g, Using(f, a, k, l, c, g, I)
    PROVE  Using(f, a, k, l, c, g, J)
<1>1. \A i \in DOMAIN I : i \in DOMAIN J /\ J[i] = I[i]
  BY GrownIn
<1> DEFINE m == Meaning(f, g, a)
<1>2. Agrees(c, m, J)
  BY AgreesStays DEF Using
<1> QED BY <1>1, <1>2 DEF Using

LEMMA RunningStays ==
    ASSUME NEW N, NEW I, NEW M, NEW J, Store(N, I), Store(M, J), Grown(N, M), Grown(I, J),
           NEW f, NEW a, NEW k, k \in Nat, NEW s, NEW l, NEW c, DOMAIN c = ContextFields,
           c.tip \in 0 .. Len(N), NEW g, Sourced(f, a, k, s, g, I),
           Running(f, a, k, s, l, c, g, N, I)
    PROVE  Running(f, a, k, s, l, c, g, M, J)
<1>1. Sequence(I) /\ Sequence(J) /\ Has(c, M, J) = Has(c, N, I)
  BY HasStays DEF Store
<1> DEFINE m == Reached(f, g, a, IF k = 0 THEN 0 ELSE k - 1)
           x == ActingAs(f, a, c)
<1>2. Agrees(c, m, J)
  BY <1>1, AgreesStays DEF Running
<1>3. Exactly(c, m, M, J)
  BY <1>1 DEF Running, Exactly
<1>4. x.tip = c.tip
  BY DEF ActingAs, AsRoot, ContextFields
<1> HIDE DEF x, m
<1>5. ChainIn(x, Contribution(f, a, k, s), M) = ChainIn(x, Contribution(f, a, k, s), N)
  BY <1>4, HasStays
<1>6. CommandOf(f, a, k, s, J) = CommandOf(f, a, k, s, I)
  <2>1. PathAt(f, a, k) => s \in DOMAIN I
    BY DEF PathAt, Sourced
  <2> QED BY <1>1, <2>1, GrownIn DEF CommandOf
<1> QED BY <1>2, <1>3, <1>5, <1>6 DEF Running, m, x

LEMMA InLayerStays ==
    ASSUME NEW N, NEW I, NEW M, NEW J, Store(N, I), Store(M, J), Grown(N, M), Grown(I, J),
           NEW f, f \in Dockerfiles, NEW a, a \in 1 .. Len(f) + 1, NEW p, NEW k, k \in Nat,
           NEW s, NEW l, NEW c, DOMAIN c = ContextFields,
           c.tip \in 0 .. Len(N), NEW g, Sourced(f, a, k, s, g, I),
           InLayer(f, a, p, k, s, l, c, g, N, I)
    PROVE  InLayer(f, a, p, k, s, l, c, g, M, J)
<1>1. Sequence(I) /\ Sequence(J) /\ Has(c, M, J) = Has(c, N, I)
  BY HasStays DEF Store
<1>2. /\ \A n \in DOMAIN N : n \in DOMAIN M /\ M[n] = N[n]
      /\ \A i \in DOMAIN I : i \in DOMAIN J /\ J[i] = I[i]
  BY GrownIn DEF Store
<1>3. l.kind = "use" => p \in {"look", "check", "miss"} /\ Using(f, a, k, l, c, g, J)
  BY <1>1, UsingStays DEF InLayer
<1>4. l.kind = "run" =>
        /\ Running(f, a, k, s, l, c, g, M, J)
        /\ OfFile(f, a, k) => p \in {"look", "miss"}
  BY RunningStays DEF InLayer
<1>5. p = "check" =>
        /\ l.found \in DOMAIN M /\ Matches(M[l.found], l.hash) /\ M[l.found].kind = l.kind
        /\ l.kind = "run" => M[l.found].parent = c.tip
  BY <1>2 DEF InLayer
<1>6. ASSUME p = "ended"
      PROVE  /\ l.image \in DOMAIN J
             /\ J[l.image] = Append(Has(c, M, J), Effect(l.exit, Doing(l.hash, J)))
             /\ l.exit \in IF Unpacking(f, a, k) THEN {"signal"} ELSE {"zero", "nonzero"}
  <2>1. l.kind = "run" /\ Running(f, a, k, s, l, c, g, N, I)
    BY <1>6 DEF InLayer
  <2>2. HashSays(f, a, k, s, l.hash, c, N, I)
    BY <2>1, RunningHash
  <2>3. Doing(l.hash, J) = Doing(l.hash, I)
    BY <1>1, <2>2, DoingStays DEF HashSays
  <2> QED BY <1>1, <1>2, <1>6, <2>3 DEF InLayer
<1>7. l.kind \in {"use", "run"}
  BY DEF InLayer
<1> QED BY <1>3, <1>4, <1>5, <1>6, <1>7 DEF InLayer

LEMMA BuildStays ==
    ASSUME NEW N, NEW I, NEW M, NEW J, Store(N, I), Store(M, J), Grown(N, M), Grown(I, J),
           NEW f, NEW a, NEW p, NEW k, NEW s, NEW l, NEW c, NEW g,
           BuildOK(f, a, p, k, s, l, c, g, N, I)
    PROVE  BuildOK(f, a, p, k, s, l, c, g, M, J)
<1>1. /\ DOMAIN c = ContextFields /\ DOMAIN l = LayerFields /\ c.tip \in 0 .. Len(N)
      /\ p \in {"idle", "ready", "done", "failed"} \cup Mid
      /\ p \in {"idle", "failed"} => Unstarted(k, l, c, g)
      /\ p \notin {"idle", "failed"} => Started(f, a, p, k, s, l, c, g, N, I)
  BY DEF BuildOK
<1>2. c.tip \in 0 .. Len(M)
  BY <1>1, HasStays
<1>3. ASSUME p \notin {"idle", "failed"}
      PROVE  Started(f, a, p, k, s, l, c, g, M, J)
  <2>1. /\ f \in Dockerfiles /\ a \in 1 .. Len(f) + 1 /\ k \in Nat
        /\ Sequence(g) /\ Begun(f, a, c) /\ Sourced(f, a, k, s, g, I)
        /\ p = "done" => a = Len(f) + 1 /\ c.pending = <<>>
        /\ p \in {"ready", "done"} => l.kind = None /\ AtDirective(f, a, k, s, c, g, N, I)
        /\ p \in Mid => InLayer(f, a, p, k, s, l, c, g, N, I)
    BY <1>1, <1>3 DEF Started
  <2>2. p \in {"ready", "done"} => AtDirective(f, a, k, s, c, g, M, J)
    BY <1>1, <2>1, AtDirectiveStays
  <2>3. p \in Mid => InLayer(f, a, p, k, s, l, c, g, M, J)
    BY <1>1, <2>1, InLayerStays
  <2>4. Sourced(f, a, k, s, g, J)
    BY <2>1, GrownIn DEF Sourced, Store
  <2> QED BY <2>1, <2>2, <2>3, <2>4 DEF Started
<1> QED BY <1>1, <1>2, <1>3 DEF BuildOK

-----------------------------------------------------------------------------
(* What a directive adds to the meaning, it adds to the context.           *)

LEMMA MeaningGiven ==
    ASSUME NEW f, NEW g, Sequence(g), NEW a \in Nat \ {0}, Len(g) = a - 1, NEW x
    PROVE  /\ Sequence(Append(g, x)) /\ Len(Append(g, x)) = a /\ Append(g, x)[a] = x
           /\ Meaning(f, Append(g, x), a - 1) = Meaning(f, g, a - 1)
           /\ Meaning(f, Append(g, x), a) = Meant(Meaning(f, g, a - 1), f[a], x)
<1>1. Sequence(Append(g, x)) /\ Len(Append(g, x)) = a /\ Append(g, x)[a] = x
  BY Appended
<1>2. a - 1 \in Nat /\ a - 1 <= Len(g)
  BY SequenceLen
<1>3. Meaning(f, Append(g, x), a - 1) = Meaning(f, g, a - 1)
  BY <1>2, MeaningAppend
<1>4. Meaning(f, Append(g, x), (a - 1) + 1)
        = Meant(Meaning(f, Append(g, x), a - 1), f[(a - 1) + 1], Append(g, x)[(a - 1) + 1])
  BY <1>2, MeaningNext
<1>5. (a - 1) + 1 = a
  OBVIOUS
<1> QED BY <1>1, <1>3, <1>4, <1>5

\* The files an image is given are attached, by a layer of its own if need be.
LEMMA HasImage ==
    ASSUME NEW N, NEW I, Store(N, I), NEW c, c.tip \in 0 .. Len(N)
    PROVE  /\ c.tip # 0 => ImageIn(c.tip, N) \in DOMAIN I /\ Has(c, N, I) = I[ImageIn(c.tip, N)]
           /\ c.tip = 0 <=> ImageIn(c.tip, N) = 0
           /\ c.tip = 0 <=> Has(c, N, I) = <<>>
           /\ Sequence(Has(c, N, I))
<1>1. DOMAIN N = 1 .. Len(N) /\ Len(N) \in Nat /\ DOMAIN I = 1 .. Len(I) /\ Len(I) \in Nat
  BY SequenceLen DEF Store
<1>2. CASE c.tip = 0
  BY <1>2, EmptySequence DEF ImageIn, Has
<1>3. CASE c.tip # 0
  <2>1. c.tip \in DOMAIN N /\ N[c.tip].image \in DOMAIN I
    BY <1>1, <1>3 DEF Store, NodeOK
  <2>2. I[N[c.tip].image] # <<>> /\ Sequence(I[N[c.tip].image]) /\ N[c.tip].image # 0
    BY <1>1, <2>1 DEF Store
  <2> QED BY <1>3, <2>1, <2>2 DEF ImageIn, Has
<1> QED BY <1>2, <1>3

\* A build that is between two directives.
LEMMA Ready ==
    ASSUME NEW f, NEW a, NEW k, NEW s, NEW l, NEW c, NEW g, NEW N, NEW I,
           BuildOK(f, a, "ready", k, s, l, c, g, N, I)
    PROVE  /\ DOMAIN c = ContextFields /\ DOMAIN l = LayerFields /\ c.tip \in 0 .. Len(N)
           /\ f \in Dockerfiles /\ a \in 1 .. Len(f) + 1 /\ a \in Nat \ {0} /\ k \in Nat
           /\ Len(f) \in Nat /\ (a <= Len(f) \/ a = Len(f) + 1)
           /\ Sequence(g) /\ Begun(f, a, c) /\ Sourced(f, a, k, s, g, I)
           /\ l.kind = None /\ AtDirective(f, a, k, s, c, g, N, I)
<1>1. f \in Dockerfiles /\ a \in 1 .. Len(f) + 1
  BY DEF BuildOK, Started, Mid
<1>2. Len(f) \in Nat
  BY <1>1, ParsedFile
<1> QED BY <1>1, <1>2 DEF BuildOK, Started, Mid

\* One whose next directive is not a FROM has exactly what is meant so far.
LEMMA ReadyWithin ==
    ASSUME NEW f, NEW a, NEW k, NEW s, NEW l, NEW c, NEW g, NEW N, NEW I,
           BuildOK(f, a, "ready", k, s, l, c, g, N, I), a <= Len(f), f[a].keyword # "FROM"
    PROVE  /\ Agrees(c, Reached(f, g, a, k), I) /\ Exactly(c, Reached(f, g, a, k), N, I)
           /\ Len(g) = IF k = 0 THEN a - 1 ELSE a
           /\ c.tip = 0 => f[a].keyword = "ARG"
           /\ f[a].keyword # "COPY_FROM" => k = 0 /\ Reached(f, g, a, k) = Meaning(f, g, a - 1)
<1>1. AtDirective(f, a, k, s, c, g, N, I) /\ ~Ends(f, a) /\ Sourced(f, a, k, s, g, I) /\ k \in Nat
  <2>1. ~(a > Len(f))
    BY Ready
  <2> QED BY <2>1, Ready DEF Ends
<1>2. c.tip = 0 => f[a].keyword = "ARG"
  <2>1. f \in Dockerfiles /\ a \in 1 .. Len(f) + 1 /\ Begun(f, a, c)
    BY Ready
  <2> QED BY <2>1, FromComesFirst DEF Begun
<1>3. f[a].keyword # "COPY_FROM" => k = 0
  <2>1. k > 0 => f[a].keyword = "COPY_FROM"
    BY Ready DEF Sourced
  <2>2. k \in Nat
    BY Ready
  <2>3. k = 0 \/ k > 0
    BY <2>2
  <2> QED BY <2>1, <2>3
<1>4. k = 0 => Reached(f, g, a, k) = Meaning(f, g, a - 1)
  BY DEF Reached
<1> DEFINE m == Reached(f, g, a, k)
<1>5. Agrees(c, m, I) /\ Exactly(c, m, N, I) /\ Len(g) = IF k = 0 THEN a - 1 ELSE a
  BY <1>1 DEF AtDirective
<1> QED BY <1>2, <1>3, <1>4, <1>5

LEMMA ReadyPlain ==
    ASSUME NEW f, NEW a, NEW k, NEW s, NEW l, NEW c, NEW g, NEW N, NEW I,
           BuildOK(f, a, "ready", k, s, l, c, g, N, I), a <= Len(f),
           f[a].keyword \notin {"FROM", "COPY_FROM"}
    PROVE  LET m == Meaning(f, g, a - 1) IN
           /\ Agrees(c, m, I) /\ Exactly(c, m, N, I) /\ Len(g) = a - 1 /\ k = 0
           /\ c.tip = 0 => f[a].keyword = "ARG"
<1> DEFINE m == Reached(f, g, a, k)
<1>1. f[a].keyword # "FROM" /\ f[a].keyword # "COPY_FROM"
  OBVIOUS
<1>2. /\ Agrees(c, m, I) /\ Exactly(c, m, N, I)
      /\ Len(g) = IF k = 0 THEN a - 1 ELSE a
      /\ c.tip = 0 => f[a].keyword = "ARG"
      /\ k = 0 /\ m = Meaning(f, g, a - 1)
  BY <1>1, ReadyWithin
<1> QED BY <1>2

\* After a directive that leaves exactly what is meant, a build is ready.
LEMMA DirectiveDone ==
    ASSUME NEW f, f \in Dockerfiles, NEW a, a \in 1 .. Len(f), NEW s,
           NEW l, DOMAIN l = LayerFields, l.kind = None,
           NEW N, NEW I, NEW c, DOMAIN c = ContextFields, c.tip \in 0 .. Len(N),
           NEW g, Sequence(g), Len(g) = a, Begun(f, a + 1, c),
           Agrees(c, Meaning(f, g, a), I), Exactly(c, Meaning(f, g, a), N, I)
    PROVE  BuildOK(f, a + 1, "ready", 0, s, l, c, g, N, I)
<1>1. Len(f) \in Nat
  BY ParsedFile
<1>2. a + 1 \in 1 .. Len(f) + 1 /\ (a + 1) - 1 = a
  BY <1>1
<1>3. Reached(f, g, a + 1, 0) = Meaning(f, g, a)
  BY <1>2 DEF Reached
<1>4. AtDirective(f, a + 1, 0, s, c, g, N, I)
  BY <1>2, <1>3 DEF AtDirective
<1> QED BY <1>2, <1>4 DEF BuildOK, Started, Mid, Sourced

LEMMA BegunOn ==
    ASSUME NEW f, NEW a \in Nat \ {0}, NEW c, NEW d, Begun(f, a, c), d.tip = c.tip,
           c.tip = 0 => f[a].keyword = "ARG" /\ d.pending = c.pending
    PROVE  Begun(f, a + 1, d)
<1>1. \A i \in 1 .. (a + 1) - 1 : i \in 1 .. a - 1 \/ i = a
  OBVIOUS
<1> QED BY <1>1 DEF Begun

\* ENV, ARG, WORKDIR and USER.
SetContext(c, d) ==
    CASE d.keyword = "ENV" -> [c EXCEPT !.env = @ \cup {d.value}]
      [] d.keyword = "ARG" -> [c EXCEPT !.args = @ \cup {d.value}]
      [] d.keyword = "WORKDIR" -> [c EXCEPT !.workdir = d.value]
      [] d.keyword = "USER" -> [c EXCEPT !.user = d.value]

LEMMA SettingHolds ==
    ASSUME NEW f, NEW a, NEW k, NEW s, NEW l, NEW c, NEW g, NEW N, NEW I,
           BuildOK(f, a, "ready", k, s, l, c, g, N, I), a <= Len(f),
           f[a].keyword \in {"ENV", "ARG", "WORKDIR", "USER"}
    PROVE  BuildOK(f, a + 1, "ready", k, s, l, SetContext(c, f[a]), Append(g, <<>>), N, I)
<1> DEFINE m == Meaning(f, g, a - 1)
           e == SetContext(c, f[a])
           n == SetContext(m, f[a])
           h == Append(g, <<>>)
<1>1. /\ Agrees(c, m, I) /\ Exactly(c, m, N, I) /\ Len(g) = a - 1 /\ k = 0
      /\ c.tip = 0 => f[a].keyword = "ARG"
  <2>1. f[a].keyword \notin {"FROM", "COPY_FROM"}
    OBVIOUS
  <2> QED BY <2>1, ReadyPlain
<1>2. Sequence(h) /\ Len(h) = a /\ Meaning(f, h, a) = Meant(m, f[a], <<>>)
  BY <1>1, Ready, MeaningGiven
<1>3. Meant(m, f[a], <<>>) = n
  BY DEF Meant, SetContext
<1> HIDE DEF m
<1>4. /\ DOMAIN e = ContextFields /\ e.tip = c.tip /\ e.pending = c.pending /\ e.stages = c.stages
      /\ e.alias = c.alias
  BY Ready DEF SetContext, ContextFields
<1>5. DOMAIN m = MeaningFields
  BY <1>1 DEF Agrees
<1>6. /\ DOMAIN n = MeaningFields /\ n.content = m.content /\ n.pending = m.pending
      /\ n.stages = m.stages /\ n.alias = m.alias
  BY <1>5 DEF SetContext, MeaningFields
<1>7. e.env = n.env /\ e.args = n.args /\ e.workdir = n.workdir /\ e.user = n.user
  BY <1>1, <1>5, Ready DEF SetContext, Agrees, MeaningFields, ContextFields
<1> HIDE DEF e, n
<1>8. Agrees(e, n, I) /\ Exactly(e, n, N, I)
  BY <1>1, <1>4, <1>6, <1>7 DEF Agrees, Exactly, Has
<1>9. Begun(f, a + 1, e)
  BY <1>1, <1>4, Ready, BegunOn
<1>10. a \in 1 .. Len(f) /\ f \in Dockerfiles /\ DOMAIN l = LayerFields /\ l.kind = None /\ e.tip \in 0 .. Len(N)
  BY <1>4, Ready
<1> QED BY <1>1, <1>2, <1>3, <1>4, <1>8, <1>9, <1>10, DirectiveDone DEF e

\* COPY: the file is to be attached.
LEMMA CopyHolds ==
    ASSUME NEW f, NEW a, NEW k, NEW s, NEW l, NEW c, NEW g, NEW N, NEW I,
           BuildOK(f, a, "ready", k, s, l, c, g, N, I), a <= Len(f),
           f[a].keyword = "COPY", NEW x
    PROVE  BuildOK(f, a + 1, "ready", k, s, l, [c EXCEPT !.pending = Append(@, x)], Append(g, x), N, I)
<1> DEFINE m == Meaning(f, g, a - 1)
           e == [c EXCEPT !.pending = Append(@, x)]
           n == [m EXCEPT !.pending = Append(@, x)]
           h == Append(g, x)
<1>1. /\ Agrees(c, m, I) /\ Exactly(c, m, N, I) /\ Len(g) = a - 1 /\ k = 0 /\ c.tip # 0
  <2>1. f[a].keyword \notin {"FROM", "COPY_FROM"} /\ f[a].keyword # "ARG"
    OBVIOUS
  <2> QED BY <2>1, ReadyPlain
<1>2. Sequence(h) /\ Len(h) = a /\ Meaning(f, h, a) = Meant(m, f[a], x)
  BY <1>1, Ready, MeaningGiven
<1>3. Meant(m, f[a], x) = n
  BY DEF Meant
<1> HIDE DEF m
<1>4. /\ DOMAIN e = ContextFields /\ e.tip = c.tip /\ e.stages = c.stages /\ e.alias = c.alias
      /\ e.env = c.env /\ e.args = c.args /\ e.workdir = c.workdir /\ e.user = c.user
      /\ e.pending = Append(c.pending, x)
  BY Ready DEF ContextFields
<1>5. DOMAIN m = MeaningFields
  BY <1>1 DEF Agrees
<1>6. /\ DOMAIN n = MeaningFields /\ n.content = m.content /\ n.stages = m.stages /\ n.alias = m.alias
      /\ n.env = m.env /\ n.args = m.args /\ n.workdir = m.workdir /\ n.user = m.user
      /\ n.pending = Append(m.pending, x)
  BY <1>5 DEF MeaningFields
<1> HIDE DEF e, n
<1>7. Agrees(e, n, I) /\ Exactly(e, n, N, I)
  BY <1>1, <1>4, <1>6 DEF Agrees, Exactly, Has
<1>8. Begun(f, a + 1, e)
  BY <1>1, <1>4 DEF Begun
<1>9. a \in 1 .. Len(f) /\ f \in Dockerfiles /\ DOMAIN l = LayerFields /\ l.kind = None /\ e.tip \in 0 .. Len(N)
  BY <1>4, Ready
<1> QED BY <1>1, <1>2, <1>3, <1>4, <1>7, <1>8, <1>9, DirectiveDone DEF e

\* A layer that runs is looked for: a RUN,
LEMMA RunWanted ==
    ASSUME NEW f, NEW a, NEW k, NEW s, NEW l, NEW c, NEW g, NEW N, NEW I,
           BuildOK(f, a, "ready", k, s, l, c, g, N, I), a <= Len(f), f[a].keyword = "RUN"
    PROVE  BuildOK(f, a, "look", k, s,
                   Layer("run", ChainIn(c, f[a].command, N), f[a].command, 0), c, Append(g, <<>>), N, I)
<1> DEFINE m == Meaning(f, g, a - 1)
           h == Append(g, <<>>)
           r == Layer("run", ChainIn(c, f[a].command, N), f[a].command, 0)
<1>1. /\ Agrees(c, m, I) /\ Exactly(c, m, N, I) /\ Len(g) = a - 1 /\ k = 0 /\ c.tip # 0
  <2>1. f[a].keyword \notin {"FROM", "COPY_FROM"} /\ f[a].keyword # "ARG"
    OBVIOUS
  <2> QED BY <2>1, ReadyPlain
<1>2. Sequence(h) /\ Len(h) = a /\ Meaning(f, h, a - 1) = m
  BY <1>1, Ready, MeaningGiven
<1>3. Reached(f, h, a, 0) = m
  BY <1>2 DEF Reached
<1>4. /\ Contribution(f, a, k, s) = f[a].command /\ CommandOf(f, a, k, s, I) = f[a].command
      /\ ActingAs(f, a, c) = c /\ ~PathAt(f, a, k)
  BY <1>1 DEF Contribution, CommandOf, ActingAs, PathAt
<1>5. /\ DOMAIN r = LayerFields /\ r.kind = "run" /\ r.hash = ChainIn(c, f[a].command, N)
      /\ r.command = f[a].command
  BY DEF Layer, LayerFields
<1> HIDE DEF m, h, r
<1>6. ~Ends(f, a)
  BY Ready DEF Ends
<1>7. Running(f, a, k, s, r, c, h, N, I)
  BY <1>1, <1>2, <1>3, <1>4, <1>5, <1>6 DEF Running
<1>8. InLayer(f, a, "look", k, s, r, c, h, N, I)
  BY <1>5, <1>7 DEF InLayer
<1> QED BY <1>1, <1>2, <1>5, <1>8, Ready DEF BuildOK, Started, Mid, Sourced, r, h

\* or the files that a stage or the Dockerfile ends with.
LEMMA CloserWanted ==
    ASSUME NEW f, NEW a, NEW k, NEW s, NEW l, NEW c, NEW g, NEW N, NEW I,
           BuildOK(f, a, "ready", k, s, l, c, g, N, I), Ends(f, a), c.pending # <<>>
    PROVE  BuildOK(f, a, "look", k, s,
                   Layer("run", ChainIn(ActingAs(f, a, c), Closer, N), Closer, 0), c, g, N, I)
<1> DEFINE m == Reached(f, g, a, 0)
           r == Layer("run", ChainIn(ActingAs(f, a, c), Closer, N), Closer, 0)
<1>1. k = 0
  <2>1. k > 0 => a <= Len(f) /\ f[a].keyword = "COPY_FROM"
    BY Ready DEF Sourced
  <2>2. k \in Nat /\ Len(f) \in Nat /\ a \in Nat
    BY Ready
  <2>3. k = 0 \/ k > 0
    BY <2>2
  <2>4. a > Len(f) => ~(a <= Len(f))
    BY <2>2
  <2>5. ~(a <= Len(f) /\ f[a].keyword = "COPY_FROM")
    BY <2>4 DEF Ends
  <2> QED BY <2>1, <2>3, <2>5
<1>2. /\ Agrees(c, m, I) /\ Exactly(c, m, N, I) /\ Len(g) = a - 1
  BY <1>1, Ready DEF AtDirective, FlushedIn
<1>3. c.tip # 0
  BY Ready DEF Begun
<1>4. /\ Contribution(f, a, k, s) = Closer /\ CommandOf(f, a, k, s, I) = Closer /\ ~PathAt(f, a, k)
  BY <1>1, Ready DEF Contribution, CommandOf, PathAt, Ends
<1>5. /\ DOMAIN r = LayerFields /\ r.kind = "run" /\ r.hash = ChainIn(ActingAs(f, a, c), Closer, N)
      /\ r.command = Closer
  BY DEF Layer, LayerFields
<1> HIDE DEF m, r
<1>6. Running(f, a, k, s, r, c, g, N, I)
  BY <1>1, <1>2, <1>3, <1>4, <1>5 DEF Running, m
<1>7. InLayer(f, a, "look", k, s, r, c, g, N, I)
  BY <1>4, <1>5, <1>6 DEF InLayer, OfFile
<1> QED BY <1>1, <1>5, <1>7, Ready DEF BuildOK, Started, Mid, Sourced, r

\* The image a reference names is that of a stage, or a base.
IsResolved(stages, ref, image, I) ==
    LET i == LastNamed(stages, ref)
    IN IF i = 0 THEN image \in DOMAIN I ELSE image = stages[i].image

LEMMA ResolvedIs ==
    ASSUME NEW stages, NEW m, NEW I, NEW ref, NEW image, SameStages(stages, m, I),
           IsResolved(stages, ref, image, I)
    PROVE  image \in DOMAIN I /\ I[image] = Named(m, ref, I[image])
<1> DEFINE n == LastNamed(stages, ref)
<1>1. n = LastNamed(m, ref)
  BY SameLastNamed DEF SameStages
<1>2. n = 0 \/ n \in 1 .. Len(stages)
  BY LastNamedIsOne DEF SameStages
<1>3. Named(m, ref, I[image]) = IF n = 0 THEN I[image] ELSE m[n].content
  BY <1>1 DEF Named
<1> HIDE DEF n
<1>4. CASE n = 0
  BY <1>3, <1>4 DEF n, IsResolved
<1>5. CASE n # 0
  <2>1. image = stages[n].image /\ n \in 1 .. Len(m)
    BY <1>2, <1>5 DEF SameStages, n, IsResolved
  <2> QED BY <1>3, <1>5, <2>1 DEF SameStages
<1> QED BY <1>4, <1>5

\* At a FROM whose files are attached, the stage that ends has what it is to have.
LEMMA StageEnds ==
    ASSUME NEW f, NEW a, NEW k, NEW s, NEW l, NEW c, NEW g, NEW N, NEW I, Store(N, I),
           BuildOK(f, a, "ready", k, s, l, c, g, N, I), a <= Len(f), f[a].keyword = "FROM",
           c.tip # 0 => c.pending = <<>>
    PROVE  LET m == Meaning(f, g, a - 1) IN
           /\ Agrees(c, m, I) /\ Len(g) = a - 1 /\ k = 0
           /\ c.tip = 0 <=> m.content = <<>>
           /\ c.tip # 0 => /\ ImageIn(c.tip, N) \in DOMAIN I
                           /\ I[ImageIn(c.tip, N)] = Flushed(m, None)
<1> DEFINE m == Meaning(f, g, a - 1)
<1>1. k = 0
  <2>1. k > 0 => f[a].keyword = "COPY_FROM"
    BY Ready DEF Sourced
  <2>2. k \in Nat
    BY Ready
  <2>3. k = 0 \/ k > 0
    BY <2>2
  <2> QED BY <2>1, <2>3
<1>2. Reached(f, g, a, k) = m
  BY <1>1 DEF Reached
<1>3. AtDirective(f, a, k, s, c, g, N, I) /\ c.tip \in 0 .. Len(N) /\ a \in Nat /\ Len(f) \in Nat
  BY Ready
<1>4. Closing(f, a, m) = None
  <2>1. ~(a > Len(f))
    BY <1>3
  <2> QED BY <2>1 DEF Closing
<1> HIDE DEF m
<1>5. Agrees(c, m, I) /\ Len(g) = a - 1 /\ (Exactly(c, m, N, I) \/ FlushedIn(c, m, None, N, I))
  BY <1>1, <1>2, <1>3, <1>4 DEF AtDirective
<1>6. /\ c.tip # 0 => ImageIn(c.tip, N) \in DOMAIN I /\ Has(c, N, I) = I[ImageIn(c.tip, N)]
      /\ c.tip = 0 <=> Has(c, N, I) = <<>>
      /\ Sequence(Has(c, N, I))
  BY <1>3, HasImage
<1>7. CASE Exactly(c, m, N, I)
  <2>1. Has(c, N, I) = m.content /\ c.pending = m.pending
    BY <1>7 DEF Exactly
  <2>2. c.tip # 0 => Flushed(m, None) = m.content
    BY <2>1 DEF Flushed
  <2> QED BY <1>1, <1>5, <1>6, <2>1, <2>2 DEF m
<1>8. CASE FlushedIn(c, m, None, N, I)
  <2>1. Has(c, N, I) = Flushed(m, None) /\ m.content # <<>>
    BY <1>8 DEF FlushedIn
  <2>2. c.tip # 0
    BY <1>8 DEF FlushedIn
  <2> QED BY <1>1, <1>5, <1>6, <2>1, <2>2 DEF m
<1> QED BY <1>5, <1>7, <1>8

\* FROM: the stage that ends is kept, and the image that is named is taken.
LEMMA FromWanted ==
    ASSUME NEW f, NEW a, NEW k, NEW s, NEW l, NEW c, NEW g, NEW N, NEW I, Store(N, I),
           BuildOK(f, a, "ready", k, s, l, c, g, N, I), a <= Len(f), f[a].keyword = "FROM",
           c.tip # 0 => c.pending = <<>>, NEW stages, NEW image,
           stages = IF ImageIn(c.tip, N) = 0 THEN c.stages
                    ELSE Append(c.stages, [name |-> c.alias, image |-> ImageIn(c.tip, N)]),
           IsResolved(stages, f[a].ref, image, I)
    PROVE  BuildOK(f, a, "look", k, s, Layer("use", FromHash(image), <<>>, image),
                   [NewStage(c) EXCEPT !.stages = stages, !.alias = f[a].alias, !.pending = <<>>],
                   Append(g, I[image]), N, I)
<1> DEFINE m == Meaning(f, g, a - 1)
           sealed == IF m.content = <<>> THEN m.stages
                     ELSE Append(m.stages, [name |-> m.alias, content |-> Flushed(m, None)])
           x == I[image]
           h == Append(g, x)
           n == Meaning(f, h, a)
           e == [NewStage(c) EXCEPT !.stages = stages, !.alias = f[a].alias, !.pending = <<>>]
           r == Layer("use", FromHash(image), <<>>, image)
<1>1. /\ Agrees(c, m, I) /\ Len(g) = a - 1 /\ k = 0
      /\ c.tip = 0 <=> m.content = <<>>
      /\ c.tip # 0 => ImageIn(c.tip, N) \in DOMAIN I /\ I[ImageIn(c.tip, N)] = Flushed(m, None)
  BY StageEnds
<1>2. c.tip = 0 <=> ImageIn(c.tip, N) = 0
  BY Ready, HasImage
<1>3. Sequence(h) /\ Len(h) = a /\ n = Meant(m, f[a], x)
  BY <1>1, Ready, MeaningGiven
<1>4. Meant(m, f[a], x) =
        [NewStage(m) EXCEPT !.stages = sealed, !.alias = f[a].alias, !.pending = <<>>,
                            !.content = Named(sealed, f[a].ref, x)]
  BY DEF Meant
<1>5. DOMAIN m = MeaningFields /\ DOMAIN c = ContextFields
  BY <1>1, Ready DEF Agrees
<1> HIDE DEF m, n
<1>6. SameStages(stages, sealed, I)
  <2>1. /\ Sequence(c.stages) /\ Sequence(m.stages) /\ Len(c.stages) = Len(m.stages)
        /\ c.alias = m.alias
        /\ \A i \in 1 .. Len(m.stages) :
             /\ c.stages[i].name = m.stages[i].name /\ c.stages[i].image \in DOMAIN I
             /\ I[c.stages[i].image] = m.stages[i].content
    BY <1>1 DEF Agrees, SameStages
  <2>2. CASE c.tip = 0
    <3>1. stages = c.stages /\ sealed = m.stages
      BY <1>1, <1>2, <2>2
    <3> QED BY <1>1, <3>1 DEF Agrees
  <2>3. CASE c.tip # 0
    <3> DEFINE u == [name |-> c.alias, image |-> ImageIn(c.tip, N)]
               v == [name |-> m.alias, content |-> Flushed(m, None)]
    <3>1. stages = Append(c.stages, u) /\ sealed = Append(m.stages, v)
      BY <1>1, <1>2, <2>3
    <3>2. u.name = v.name /\ u.image \in DOMAIN I /\ I[u.image] = v.content
      BY <1>1, <2>1, <2>3
    <3> HIDE DEF u, v, sealed
    <3>3. /\ Sequence(stages) /\ Sequence(sealed) /\ Len(m.stages) \in Nat
          /\ Len(stages) = Len(m.stages) + 1 /\ Len(sealed) = Len(m.stages) + 1
          /\ stages[Len(m.stages) + 1] = u /\ sealed[Len(m.stages) + 1] = v
      BY <2>1, <3>1, Appended
    <3>4. \A i \in 1 .. Len(m.stages) : stages[i] = c.stages[i] /\ sealed[i] = m.stages[i]
      BY <2>1, <3>1, Appended
    <3>5. \A i \in 1 .. Len(sealed) : i \in 1 .. Len(m.stages) \/ i = Len(m.stages) + 1
      BY <3>3
    <3> QED BY <2>1, <3>2, <3>3, <3>4, <3>5 DEF SameStages
  <2> QED BY <2>2, <2>3
<1> HIDE DEF sealed
<1>7. image \in DOMAIN I /\ I[image] = Named(sealed, f[a].ref, I[image])
  BY <1>6, ResolvedIs
<1>8. /\ DOMAIN e = ContextFields /\ e.tip = c.tip /\ e.stages = stages /\ e.alias = f[a].alias
      /\ e.pending = <<>> /\ e.env = {} /\ e.workdir = "/" /\ e.user = None /\ e.args = c.args
  BY <1>5 DEF NewStage, ContextFields
<1>9. /\ DOMAIN n = MeaningFields /\ n.content = x /\ n.stages = sealed /\ n.alias = f[a].alias
      /\ n.pending = <<>> /\ n.env = {} /\ n.workdir = "/" /\ n.user = None /\ n.args = m.args
  BY <1>3, <1>4, <1>5, <1>7 DEF NewStage, MeaningFields
<1>10. c.args = m.args
  BY <1>1 DEF Agrees
<1>11. /\ DOMAIN r = LayerFields /\ r.kind = "use" /\ r.hash = FromHash(image) /\ r.image = image
  BY DEF Layer, LayerFields
<1> HIDE DEF e, r, x, h
<1>12. Agrees(e, n, I)
  BY <1>6, <1>8, <1>9, <1>10 DEF Agrees
<1>13. Using(f, a, k, r, e, h, I)
  BY <1>1, <1>3, <1>7, <1>8, <1>9, <1>11, <1>12 DEF Using, n, x
<1>14. InLayer(f, a, "look", k, s, r, e, h, N, I)
  BY <1>11, <1>13 DEF InLayer
<1>15. Begun(f, a, e)
  <2>1. Begun(f, a, c)
    BY Ready
  <2> QED BY <1>8, <2>1 DEF Begun
<1> QED BY <1>1, <1>3, <1>8, <1>11, <1>14, <1>15, Ready DEF BuildOK, Started, Mid, Sourced, r, h, x, e

\* COPY --from: the reference is resolved before the first path, and the layer of
\* the next path is looked for.
LEMMA CopyWanted ==
    ASSUME NEW f, NEW a, NEW k, NEW s, NEW l, NEW c, NEW g, NEW N, NEW I, Store(N, I),
           BuildOK(f, a, "ready", k, s, l, c, g, N, I), a <= Len(f),
           f[a].keyword = "COPY_FROM", k < Len(f[a].paths), NEW t, NEW h,
           IF k = 0
           THEN h = Append(g, I[t]) /\ IsResolved(c.stages, f[a].ref, t, I)
           ELSE t = s /\ h = g
    PROVE  LET path == f[a].paths[k + 1] IN
           BuildOK(f, a, "look", k + 1, t,
                   Layer("run", ChainIn(c, <<"COPY", t, path>>, N), Unpacked(I[t], path), 0), c, h, N, I)
<1> DEFINE path == f[a].paths[k + 1]
           m == Reached(f, g, a, k)
           r == Layer("run", ChainIn(c, <<"COPY", t, path>>, N), Unpacked(I[t], path), 0)
<1>1. /\ Agrees(c, m, I) /\ Exactly(c, m, N, I) /\ Len(g) = IF k = 0 THEN a - 1 ELSE a
      /\ c.tip # 0
  <2>1. f[a].keyword # "FROM" /\ f[a].keyword # "ARG"
    OBVIOUS
  <2> QED BY <2>1, ReadyWithin
<1>2. k \in Nat /\ k + 1 \in Nat /\ k + 1 > 0 /\ (k + 1) - 1 = k /\ k + 1 # 0 /\ a \in Nat \ {0}
  BY Ready
<1>3. /\ Sequence(h) /\ Len(h) = a /\ Reached(f, h, a, k) = m
      /\ t \in DOMAIN I /\ I[t] = Copying(f, h, a)
  <2>1. CASE k = 0
    <3>1. h = Append(g, I[t]) /\ Len(g) = a - 1 /\ m = Meaning(f, g, a - 1)
      BY <1>1, <2>1 DEF Reached
    <3>2. /\ Sequence(h) /\ Len(h) = a /\ h[a] = I[t]
          /\ Meaning(f, h, a - 1) = Meaning(f, g, a - 1)
      BY <1>2, <3>1, Ready, MeaningGiven
    <3>3. SameStages(c.stages, m.stages, I)
      BY <1>1 DEF Agrees
    <3>4. IsResolved(c.stages, f[a].ref, t, I)
      BY <2>1
    <3>5. t \in DOMAIN I /\ I[t] = Named(m.stages, f[a].ref, I[t])
      BY <3>3, <3>4, ResolvedIs
    <3>6. Copying(f, h, a) = Named(m.stages, f[a].ref, I[t])
      BY <3>1, <3>2 DEF Copying
    <3>7. Reached(f, h, a, k) = m
      BY <2>1, <3>1, <3>2 DEF Reached
    <3> QED BY <3>2, <3>5, <3>6, <3>7
  <2>2. CASE k # 0
    <3>1. k > 0
      BY <1>2, <2>2
    <3>2. t = s /\ h = g
      BY <2>2
    <3>3. s \in DOMAIN I /\ I[s] = Copying(f, g, a)
      BY <3>1, Ready DEF Sourced
    <3> QED BY <1>1, <2>2, <3>2, <3>3, Ready
  <2> QED BY <2>1, <2>2
<1>4. PathAt(f, a, k + 1)
  BY <1>2 DEF PathAt
<1>5. /\ Contribution(f, a, k + 1, t) = <<"COPY", t, path>>
      /\ CommandOf(f, a, k + 1, t, I) = Unpacked(I[t], path) /\ ActingAs(f, a, c) = c
  BY <1>4 DEF Contribution, CommandOf, ActingAs, PathAt
<1>6. /\ DOMAIN r = LayerFields /\ r.kind = "run" /\ r.hash = ChainIn(c, <<"COPY", t, path>>, N)
      /\ r.command = Unpacked(I[t], path)
  BY DEF Layer, LayerFields
<1> HIDE DEF m, r, path
<1>7. Running(f, a, k + 1, t, r, c, h, N, I)
  BY <1>1, <1>2, <1>3, <1>5, <1>6 DEF Running
<1>8. InLayer(f, a, "look", k + 1, t, r, c, h, N, I)
  BY <1>6, <1>7 DEF InLayer
<1>9. Sourced(f, a, k + 1, t, h, I)
  <2>1. f \in Dockerfiles /\ a \in 1 .. Len(f)
    BY <1>2, Ready
  <2>2. Len(f[a].paths) \in Nat
    BY <2>1, ParsedFile
  <2>3. k + 1 <= Len(f[a].paths)
    BY <1>2, <2>2
  <2> QED BY <1>3, <2>3 DEF Sourced
<1> QED BY <1>2, <1>3, <1>6, <1>8, <1>9, Ready DEF BuildOK, Started, Mid, r, path

\* After the last path it is done.
LEMMA CopyEndsHolds ==
    ASSUME NEW f, NEW a, NEW k, NEW s, NEW l, NEW c, NEW g, NEW N, NEW I,
           BuildOK(f, a, "ready", k, s, l, c, g, N, I), a <= Len(f),
           f[a].keyword = "COPY_FROM", k = Len(f[a].paths)
    PROVE  BuildOK(f, a + 1, "ready", 0, s, l, c, g, N, I)
<1> DEFINE m == Reached(f, g, a, k)
<1>1. a \in 1 .. Len(f) /\ a \in Nat \ {0} /\ k \in Nat /\ f \in Dockerfiles
  BY Ready
<1>2. k # 0
  BY <1>1, ParsedFile
<1>3. Agrees(c, m, I) /\ Exactly(c, m, N, I) /\ Len(g) = a /\ c.tip # 0
  <2>1. f[a].keyword # "FROM" /\ f[a].keyword # "ARG"
    OBVIOUS
  <2> QED BY <1>2, <2>1, ReadyWithin
<1>4. m = Copied(Meaning(f, g, a - 1), Copying(f, g, a), f[a].paths, Len(f[a].paths))
  BY <1>2 DEF Reached
<1>5. Meaning(f, g, a) = m
  <2>1. a - 1 \in Nat /\ (a - 1) + 1 = a
    BY <1>1
  <2>2. Meaning(f, g, (a - 1) + 1) = Meant(Meaning(f, g, a - 1), f[(a - 1) + 1], g[(a - 1) + 1])
    BY <2>1, MeaningNext
  <2>3. Meaning(f, g, a) = Meant(Meaning(f, g, a - 1), f[a], g[a])
    BY <2>1, <2>2
  <2> QED BY <1>4, <2>3 DEF Meant, Copying
<1> HIDE DEF m
<1>6. Begun(f, a + 1, c)
  BY <1>3 DEF Begun
<1>7. Agrees(c, Meaning(f, g, a), I) /\ Exactly(c, Meaning(f, g, a), N, I) /\ Len(g) = a
  BY <1>3, <1>5
<1>8. /\ DOMAIN c = ContextFields /\ DOMAIN l = LayerFields /\ c.tip \in 0 .. Len(N)
      /\ Sequence(g) /\ l.kind = None
  BY Ready
<1> QED BY <1>1, <1>6, <1>7, <1>8, DirectiveDone

-----------------------------------------------------------------------------
(* What a layer adds to the image, its directive adds to the meaning.      *)

LEMMA InMid ==
    ASSUME NEW f, NEW a, NEW p \in Mid, NEW k, NEW s, NEW l, NEW c, NEW g, NEW N, NEW I,
           BuildOK(f, a, p, k, s, l, c, g, N, I)
    PROVE  /\ DOMAIN c = ContextFields /\ DOMAIN l = LayerFields /\ c.tip \in 0 .. Len(N)
           /\ f \in Dockerfiles /\ a \in 1 .. Len(f) + 1 /\ a \in Nat \ {0} /\ k \in Nat
           /\ Len(f) \in Nat /\ (a <= Len(f) \/ a = Len(f) + 1)
           /\ Sequence(g) /\ Begun(f, a, c) /\ Sourced(f, a, k, s, g, I)
           /\ l.kind \in {"use", "run"} /\ InLayer(f, a, p, k, s, l, c, g, N, I)
<1>1. f \in Dockerfiles /\ a \in 1 .. Len(f) + 1
  BY DEF BuildOK, Started, Mid
<1>2. Len(f) \in Nat
  BY <1>1, ParsedFile
<1>3. InLayer(f, a, p, k, s, l, c, g, N, I)
  BY DEF BuildOK, Started, Mid
<1> QED BY <1>1, <1>2, <1>3 DEF BuildOK, Started, Mid, InLayer

LEMMA OnMid ==
    ASSUME NEW f, f \in Dockerfiles, NEW a, a \in 1 .. Len(f) + 1, NEW p \in Mid, NEW k \in Nat,
           NEW s, NEW l, NEW c, NEW g, NEW N, NEW I,
           DOMAIN c = ContextFields, DOMAIN l = LayerFields, c.tip \in 0 .. Len(N),
           Sequence(g), Begun(f, a, c), Sourced(f, a, k, s, g, I),
           InLayer(f, a, p, k, s, l, c, g, N, I)
    PROVE  BuildOK(f, a, p, k, s, l, c, g, N, I)
BY DEF BuildOK, Started, Mid

\* Nothing is found, what was found is gone, or the operation is submitted.
LEMMA LayerGoesOn ==
    ASSUME NEW f, NEW a, NEW p \in Mid, NEW k, NEW s, NEW l, NEW c, NEW g, NEW N, NEW I,
           BuildOK(f, a, p, k, s, l, c, g, N, I), NEW q \in {"miss", "running"},
           q = "running" => l.kind = "run" /\ ~OfFile(f, a, k)
    PROVE  BuildOK(f, a, q, k, s, l, c, g, N, I)
<1>1. q \in Mid
  BY DEF Mid
<1>2. InLayer(f, a, q, k, s, l, c, g, N, I)
  BY InMid DEF InLayer
<1> QED BY <1>1, <1>2, InMid, OnMid

\* No node stands for a file out of an image, and none that may be taken for a
\* command that failed.
NodeFor(l, t, N) == t \in DOMAIN N /\ N[t].kind = "run" /\ Matches(N[t], l.hash)

Does(t, l, c, N, I) == I[N[t].image] = Append(Has(c, N, I), Doing(l.hash, I))

LEMMA NodeOfRun ==
    ASSUME NEW f, NEW a, NEW p \in Mid, NEW k, NEW s, NEW l, NEW c, NEW g, NEW N, NEW I,
           Store(N, I), BuildOK(f, a, p, k, s, l, c, g, N, I), l.kind = "run",
           NEW t, NodeFor(l, t, N)
    PROVE  /\ ~OfFile(f, a, k)
           /\ Does(t, l, c, N, I)
<1>1. /\ NodeOK(t, N, I) /\ N[t].kind = "run" /\ N[t].hash = l.hash
      /\ N[t].exit = "zero" \/ N[t].copyComplete
  BY DEF Store, NodeFor, Matches
<1>2. /\ DOMAIN c = ContextFields /\ f \in Dockerfiles /\ a \in 1 .. Len(f) + 1 /\ k \in Nat
      /\ c.tip \in 0 .. Len(N) /\ Sourced(f, a, k, s, g, I) /\ InLayer(f, a, p, k, s, l, c, g, N, I)
  BY InMid
<1>3. Running(f, a, k, s, l, c, g, N, I)
  BY <1>2 DEF InLayer
<1>4. HashSays(f, a, k, s, l.hash, c, N, I)
  BY <1>2, <1>3, RunningHash
<1>5. c.tip # 0
  BY <1>3 DEF Running
<1>6. Has(c, N, I) = I[ImageIn(c.tip, N)]
  BY <1>2, <1>5, HasImage
<1>7. Effect(N[t].exit, Doing(l.hash, I)) = Doing(l.hash, I)
  BY <1>1 DEF NodeOK, Effect
<1> QED BY <1>1, <1>4, <1>6, <1>7 DEF NodeOK, OfFile, HashSays, Does

LEMMA Found ==
    ASSUME NEW f, NEW a, NEW k, NEW s, NEW l, NEW c, NEW g, NEW N, NEW I,
           Store(N, I), BuildOK(f, a, "look", k, s, l, c, g, N, I), NEW t \in DOMAIN N,
           Matches(N[t], l.hash), N[t].kind = l.kind, l.kind = "run" => N[t].parent = c.tip
    PROVE  BuildOK(f, a, "check", k, s, [l EXCEPT !.found = t], c, g, N, I)
<1> DEFINE r == [l EXCEPT !.found = t]
<1>1. "look" \in Mid /\ "check" \in Mid
  BY DEF Mid
<1>2. DOMAIN l = LayerFields /\ l.kind \in {"use", "run"} /\ InLayer(f, a, "look", k, s, l, c, g, N, I)
  BY <1>1, InMid
<1>3. /\ DOMAIN r = LayerFields /\ r.kind = l.kind /\ r.hash = l.hash /\ r.image = l.image
      /\ r.command = l.command /\ r.found = t
  BY <1>2 DEF LayerFields
<1> HIDE DEF r
<1>4. l.kind = "run" => ~OfFile(f, a, k)
  BY <1>1, NodeOfRun DEF NodeFor
<1>5. l.kind = "use" => Using(f, a, k, r, c, g, I)
  BY <1>2, <1>3 DEF InLayer, Using
<1>6. l.kind = "run" => Running(f, a, k, s, r, c, g, N, I)
  BY <1>2, <1>3 DEF InLayer, Running
<1>7. InLayer(f, a, "check", k, s, r, c, g, N, I)
  BY <1>2, <1>3, <1>4, <1>5, <1>6 DEF InLayer
<1> QED BY <1>1, <1>3, <1>7, InMid, OnMid DEF r

LEMMA FoundDid ==
    ASSUME NEW f, NEW a, NEW k, NEW s, NEW l, NEW c, NEW g, NEW N, NEW I,
           Store(N, I), BuildOK(f, a, "check", k, s, l, c, g, N, I), l.kind = "run"
    PROVE  /\ ~OfFile(f, a, k)
           /\ I[N[l.found].image] = Append(Has(c, N, I), Doing(l.hash, I))
<1>1. "check" \in Mid
  BY DEF Mid
<1>2. InLayer(f, a, "check", k, s, l, c, g, N, I)
  BY <1>1, InMid
<1>3. NodeFor(l, l.found, N)
  BY <1>2 DEF InLayer, NodeFor
<1>4. ~OfFile(f, a, k) /\ Does(l.found, l, c, N, I)
  BY <1>1, <1>3, NodeOfRun
<1> QED BY <1>4 DEF Does

NewTip(c, l, t) == [c EXCEPT !.tip = t, !.parentHash = l.hash, !.pending = <<>>]

LEMMA NewTipIs ==
    ASSUME NEW c, DOMAIN c = ContextFields, NEW l, NEW t
    PROVE  LET e == NewTip(c, l, t) IN
           /\ DOMAIN e = ContextFields /\ e.tip = t /\ e.pending = <<>> /\ e.stages = c.stages
           /\ e.alias = c.alias /\ e.env = c.env /\ e.args = c.args /\ e.workdir = c.workdir
           /\ e.user = c.user
BY DEF NewTip, ContextFields

LEMMA NoLayerIs == DOMAIN NoLayer = LayerFields /\ NoLayer.kind = None
BY DEF NoLayer, Layer, LayerFields

\* A FROM is done with the node of its image.
LEMMA UseDone ==
    ASSUME NEW f, NEW a, NEW p \in Mid, NEW k, NEW s, NEW l, NEW c, NEW g, NEW N, NEW I,
           Store(N, I), BuildOK(f, a, p, k, s, l, c, g, N, I), l.kind = "use",
           NEW t \in DOMAIN N, N[t].image = l.image
    PROVE  /\ a <= Len(f) /\ f[a].keyword = "FROM"
           /\ BuildOK(f, a + 1, "ready", k, s, NoLayer, NewTip(c, l, t), g, N, I)
<1> DEFINE m == Meaning(f, g, a)
           e == NewTip(c, l, t)
<1>1. Using(f, a, k, l, c, g, I)
  BY InMid DEF InLayer
<1>2. /\ a <= Len(f) /\ f[a].keyword = "FROM" /\ k = 0 /\ Len(g) = a
      /\ Agrees(c, m, I) /\ m.pending = <<>> /\ I[l.image] = m.content
  BY <1>1 DEF Using
<1>3. /\ DOMAIN e = ContextFields /\ e.tip = t /\ e.pending = <<>> /\ e.stages = c.stages
      /\ e.alias = c.alias /\ e.env = c.env /\ e.args = c.args /\ e.workdir = c.workdir
      /\ e.user = c.user
  <2>1. DOMAIN c = ContextFields
    BY InMid
  <2> QED BY <2>1, NewTipIs
<1> HIDE DEF m, e
<1>4. t \in 1 .. Len(N) /\ t # 0 /\ t \in 0 .. Len(N)
  BY SequenceLen DEF Store
<1>5. Agrees(e, m, I) /\ Exactly(e, m, N, I)
  BY <1>2, <1>3, <1>4 DEF Agrees, Exactly, Has
<1>6. Begun(f, a + 1, e)
  BY <1>3, <1>4 DEF Begun
<1>7. f \in Dockerfiles /\ a \in 1 .. Len(f) /\ Sequence(g)
  BY <1>2, InMid
<1> QED BY <1>2, <1>3, <1>4, <1>5, <1>6, <1>7, NoLayerIs, DirectiveDone DEF e, m

\* A layer that ran, or was found: its directive, or the files a stage or the
\* Dockerfile ends with, or a directory out of an image.
LEMMA RunDone ==
    ASSUME NEW f, NEW a, NEW p \in Mid, NEW k, NEW s, NEW l, NEW c, NEW g, NEW N, NEW I,
           Store(N, I), BuildOK(f, a, p, k, s, l, c, g, N, I), l.kind = "run", ~OfFile(f, a, k),
           NEW t \in DOMAIN N, I[N[t].image] = Append(Has(c, N, I), Doing(l.hash, I))
    PROVE  BuildOK(f, IF a <= Len(f) /\ f[a].keyword = "RUN" THEN a + 1 ELSE a,
                   "ready", k, s, NoLayer, NewTip(c, l, t), g, N, I)
<1> DEFINE m == Reached(f, g, a, IF k = 0 THEN 0 ELSE k - 1)
           e == NewTip(c, l, t)
           x == ActingAs(f, a, c)
           d == Contribution(f, a, k, s)
<1>1. /\ DOMAIN c = ContextFields /\ f \in Dockerfiles /\ a \in 1 .. Len(f) + 1 /\ a \in Nat \ {0}
      /\ k \in Nat /\ Len(f) \in Nat /\ (a <= Len(f) \/ a = Len(f) + 1) /\ Sequence(g)
      /\ Sourced(f, a, k, s, g, I)
  BY InMid
<1>2. Running(f, a, k, s, l, c, g, N, I)
  BY InMid DEF InLayer
<1>3. /\ c.tip # 0 /\ Agrees(c, m, I) /\ Exactly(c, m, N, I)
      /\ IF k > 0 THEN Len(g) = a
         ELSE IF Ends(f, a) THEN Len(g) = a - 1 /\ c.pending # <<>>
         ELSE Len(g) = a /\ f[a].keyword = "RUN"
  BY <1>2 DEF Running
<1>4. /\ l.hash[5] = c.pending /\ l.hash[3] = Settings(x) /\ l.hash[4] = d
      /\ IF PathAt(f, a, k)
         THEN l.hash[4][1] = "COPY" /\ l.hash[4][2] = s /\ l.hash[4][3] = f[a].paths[k]
         ELSE l.hash[4][1] # "COPY"
  <2>1. HashSays(f, a, k, s, l.hash, c, N, I)
    BY <1>1, <1>2, RunningHash
  <2> QED BY <2>1 DEF HashSays, x, d
<1>5. /\ DOMAIN e = ContextFields /\ e.tip = t /\ e.pending = <<>> /\ e.stages = c.stages
      /\ e.alias = c.alias /\ e.env = c.env /\ e.args = c.args /\ e.workdir = c.workdir
      /\ e.user = c.user
  BY <1>1, NewTipIs
<1>6. t \in 1 .. Len(N) /\ t # 0 /\ t \in 0 .. Len(N)
  BY SequenceLen DEF Store
<1>7. Has(e, N, I) = Append(m.content, Doing(l.hash, I)) /\ c.pending = m.pending
      /\ Has(c, N, I) = m.content
  <2> HIDE DEF m, e
  <2> QED BY <1>3, <1>5, <1>6 DEF Exactly, Has
<1>8. DOMAIN m = MeaningFields /\ SameStages(c.stages, m.stages, I) /\ Settings(c) = Settings(m)
      /\ c.alias = m.alias /\ c.env = m.env /\ c.workdir = m.workdir
      /\ c.user = m.user /\ c.args = m.args
  BY <1>3 DEF Agrees, Settings
<1>9. \A b : Begun(f, b, e)
  BY <1>5, <1>6 DEF Begun
<1> HIDE DEF e, m, x, d
<1>10. CASE k > 0
  <2> DEFINE w == Unpacked(I[s], f[a].paths[k])
             n == [m EXCEPT !.pending = <<>>, !.content = Append(@, Did(w, NoSettings, m.pending))]
  <2>1. PathAt(f, a, k) /\ k \in Nat \ {0} /\ I[s] = Copying(f, g, a) /\ a <= Len(f)
        /\ f[a].keyword = "COPY_FROM"
    BY <1>1, <1>10 DEF PathAt, Sourced
  <2>2. f[a].paths[k] \in Dirs
    BY <2>1 DEF OfFile
  <2>3. Doing(l.hash, I) = Did(w, NoSettings, m.pending)
    BY <1>4, <1>7, <2>1 DEF Doing
  <2>4. Reached(f, g, a, k) = n
    <3> DEFINE m0 == Meaning(f, g, a - 1)
               content == Copying(f, g, a)
               paths == f[a].paths
    <3>1. k - 1 \in Nat /\ (k - 1) + 1 = k /\ k # 0
      BY <2>1
    <3>2. Copied(m0, content, paths, k) = CopiedFrom(Copied(m0, content, paths, k - 1), content, paths[k])
      <4> HIDE DEF m0, content, paths
      <4> QED BY <2>1, CopiedStep
    <3>3. m = Copied(m0, content, paths, k - 1)
      <4>1. CASE k - 1 = 0
        <5>1. m = m0
          BY <3>1, <4>1 DEF m, Reached
        <5> QED BY <4>1, <5>1, CopiedNext
      <4>2. CASE k - 1 # 0
        BY <3>1, <4>2 DEF m, Reached
      <4> QED BY <4>1, <4>2
    <3>4. Reached(f, g, a, k) = CopiedFrom(m, content, paths[k])
      BY <3>1, <3>2, <3>3 DEF Reached
    <3> QED BY <2>1, <2>2, <3>4 DEF CopiedFrom
  <2>5. /\ DOMAIN n = MeaningFields /\ n.pending = <<>> /\ n.content = Append(m.content, Doing(l.hash, I))
        /\ n.stages = m.stages /\ n.alias = m.alias /\ n.env = m.env /\ n.args = m.args
        /\ n.workdir = m.workdir /\ n.user = m.user
    BY <1>8, <2>3 DEF MeaningFields
  <2> HIDE DEF n, w
  <2>6. Agrees(e, n, I) /\ Exactly(e, n, N, I)
    BY <1>5, <1>7, <1>8, <2>5 DEF Agrees, Exactly
  <2>7. AtDirective(f, a, k, s, e, g, N, I)
    BY <1>3, <1>10, <2>1, <2>4, <2>6 DEF AtDirective
  <2>8. ~(a <= Len(f) /\ f[a].keyword = "RUN")
    BY <2>1
  <2>9. BuildOK(f, a, "ready", k, s, NoLayer, e, g, N, I)
    BY <1>1, <1>5, <1>6, <1>9, <2>7, NoLayerIs DEF BuildOK, Started, Mid
  <2> QED BY <2>8, <2>9 DEF e
<1>11. CASE ~(k > 0)
  <2>1. k = 0 /\ ~PathAt(f, a, k)
    BY <1>1, <1>11 DEF PathAt
  <2>2. m = Meaning(f, g, a - 1)
    BY <2>1 DEF m, Reached
  <2>3. Doing(l.hash, I) = Did(d, Settings(x), m.pending)
    BY <1>4, <1>7, <2>1 DEF Doing
  <2>4. CASE Ends(f, a)
    <3>1. ~(a <= Len(f) /\ f[a].keyword = "RUN")
      BY <1>1, <2>4 DEF Ends
    <3>2. d = Closer
      BY <2>1, <3>1 DEF d, Contribution
    <3>3. Settings(x) = [Settings(m) EXCEPT !.user = Closing(f, a, m)]
      <4>1. CASE a <= Len(f)
        <5>1. f[a].keyword = "FROM" /\ ~(a > Len(f))
          BY <1>1, <2>4, <4>1 DEF Ends
        <5>2. Closing(f, a, m) = None /\ x = AsRoot(c)
          BY <4>1, <5>1 DEF Closing, ActingAs, x
        <5>3. x.env = c.env /\ x.workdir = c.workdir /\ x.user = None /\ x.args = c.args
          BY <1>1, <5>2 DEF AsRoot, ContextFields
        <5> QED BY <1>8, <5>2, <5>3 DEF Settings
      <4>2. CASE ~(a <= Len(f))
        <5>1. a > Len(f)
          BY <1>1, <4>2
        <5>2. Closing(f, a, m) = m.user /\ x = c
          BY <4>2, <5>1 DEF Closing, ActingAs, x
        <5> QED BY <1>8, <5>2 DEF Settings
      <4> QED BY <4>1, <4>2
    <3>4. m.pending # <<>> /\ Len(g) = a - 1
      BY <1>3, <1>7, <1>11, <2>4
    <3>5. Has(e, N, I) = Flushed(m, Closing(f, a, m))
      BY <1>7, <2>3, <3>2, <3>3, <3>4 DEF Flushed
    <3>6. m.content # <<>>
      <4>1. Has(c, N, I) # <<>>
        <5>1. c.tip # 0 /\ c.tip \in 0 .. Len(N)
          BY <1>3, InMid
        <5> QED BY <5>1, HasImage
      <4> QED BY <1>7, <4>1
    <3>7. FlushedIn(e, m, Closing(f, a, m), N, I)
      BY <1>5, <1>6, <3>5, <3>6 DEF FlushedIn
    <3>8. Agrees(e, m, I)
      BY <1>5, <1>8 DEF Agrees
    <3>9. Reached(f, g, a, k) = m
      BY <2>1, <2>2 DEF Reached
    <3>10. AtDirective(f, a, k, s, e, g, N, I)
      BY <2>1, <2>4, <3>4, <3>7, <3>8, <3>9 DEF AtDirective
    <3>11. BuildOK(f, a, "ready", k, s, NoLayer, e, g, N, I)
      BY <1>1, <1>5, <1>6, <1>9, <3>10, NoLayerIs DEF BuildOK, Started, Mid
    <3> QED BY <3>1, <3>11 DEF e
  <2>5. CASE ~Ends(f, a)
    <3> DEFINE n == [m EXCEPT !.content = Append(@, Did(f[a].command, Settings(m), m.pending)),
                              !.pending = <<>>]
    <3>1. /\ a <= Len(f) /\ f[a].keyword = "RUN" /\ Len(g) = a /\ a \in 1 .. Len(f)
      <4>1. a <= Len(f)
        BY <1>1, <2>5 DEF Ends
      <4> QED BY <1>1, <1>3, <1>11, <2>5, <4>1
    <3>2. d = f[a].command /\ x = c
      BY <3>1 DEF d, x, Contribution, ActingAs
    <3>3. Meaning(f, g, a) = n
      <4>1. a - 1 \in Nat /\ (a - 1) + 1 = a
        BY <1>1
      <4>2. Meaning(f, g, (a - 1) + 1) = Meant(Meaning(f, g, a - 1), f[(a - 1) + 1], g[(a - 1) + 1])
        BY <4>1, MeaningNext
      <4>3. Meaning(f, g, a) = Meant(m, f[a], g[a])
        BY <2>2, <4>1, <4>2
      <4> QED BY <3>1, <4>3 DEF Meant
    <3>4. /\ DOMAIN n = MeaningFields /\ n.pending = <<>> /\ n.content = Append(m.content, Doing(l.hash, I))
          /\ n.stages = m.stages /\ n.alias = m.alias /\ n.env = m.env /\ n.args = m.args
          /\ n.workdir = m.workdir /\ n.user = m.user
      BY <1>8, <2>3, <3>2 DEF MeaningFields
    <3> HIDE DEF n
    <3>5. Agrees(e, n, I) /\ Exactly(e, n, N, I)
      BY <1>5, <1>7, <1>8, <3>4 DEF Agrees, Exactly
    <3>6. Agrees(e, Meaning(f, g, a), I) /\ Exactly(e, Meaning(f, g, a), N, I)
      BY <3>3, <3>5
    <3>7. Begun(f, a + 1, e) /\ e.tip \in 0 .. Len(N)
      BY <1>5, <1>6, <1>9
    <3>8. BuildOK(f, a + 1, "ready", 0, s, NoLayer, e, g, N, I)
      BY <1>1, <1>5, <3>1, <3>6, <3>7, NoLayerIs, DirectiveDone
    <3> QED BY <2>1, <3>1, <3>8 DEF e
  <2> QED BY <2>4, <2>5
<1> QED BY <1>10, <1>11

\* A file out of an image is to be attached.
LEMMA FileAttached ==
    ASSUME NEW f, NEW a, NEW p \in Mid, NEW k, NEW s, NEW l, NEW c, NEW g, NEW N, NEW I,
           Store(N, I), BuildOK(f, a, p, k, s, l, c, g, N, I), OfFile(f, a, k)
    PROVE  BuildOK(f, a, "ready", k, s, NoLayer,
                   [c EXCEPT !.pending = Append(@, <<I[s], f[a].paths[k]>>)], g, N, I)
<1> DEFINE m == Reached(f, g, a, IF k = 0 THEN 0 ELSE k - 1)
           x == <<I[s], f[a].paths[k]>>
           e == [c EXCEPT !.pending = Append(@, x)]
           n == [m EXCEPT !.pending = Append(@, x)]
<1>1. /\ DOMAIN c = ContextFields /\ f \in Dockerfiles /\ a \in 1 .. Len(f) + 1
      /\ k \in Nat /\ Sequence(g) /\ Begun(f, a, c) /\ c.tip \in 0 .. Len(N)
      /\ Sourced(f, a, k, s, g, I) /\ InLayer(f, a, p, k, s, l, c, g, N, I)
  BY InMid
<1>2. /\ PathAt(f, a, k) /\ a <= Len(f) /\ f[a].keyword = "COPY_FROM" /\ k > 0
      /\ f[a].paths[k] \notin Dirs
  BY DEF OfFile, PathAt
<1>3. k \in Nat \ {0} /\ I[s] = Copying(f, g, a)
  BY <1>1, <1>2 DEF Sourced
<1>4. Running(f, a, k, s, l, c, g, N, I)
  <2>1. l.kind # "use"
    BY <1>1, <1>2 DEF InLayer, Using
  <2> QED BY <1>1, <2>1 DEF InLayer
<1>5. Agrees(c, m, I) /\ Exactly(c, m, N, I) /\ Len(g) = a /\ c.tip # 0
  BY <1>2, <1>4 DEF Running
<1>6. Reached(f, g, a, k) = n
  <2> DEFINE m0 == Meaning(f, g, a - 1)
             content == Copying(f, g, a)
             paths == f[a].paths
  <2>1. k - 1 \in Nat /\ (k - 1) + 1 = k /\ k # 0
    BY <1>3
  <2>2. Copied(m0, content, paths, k) = CopiedFrom(Copied(m0, content, paths, k - 1), content, paths[k])
    <3> HIDE DEF m0, content, paths
    <3> QED BY <1>3, CopiedStep
  <2>3. m = Copied(m0, content, paths, k - 1)
    <3>1. CASE k - 1 = 0
      <4>1. m = m0
        BY <2>1, <3>1 DEF m, Reached
      <4> QED BY <3>1, <4>1, CopiedNext
    <3>2. CASE k - 1 # 0
      BY <2>1, <3>2 DEF m, Reached
    <3> QED BY <3>1, <3>2
  <2> HIDE DEF m
  <2>4. Reached(f, g, a, k) = CopiedFrom(m, content, paths[k])
    BY <2>1, <2>2, <2>3 DEF Reached
  <2> QED BY <1>2, <1>3, <2>4 DEF CopiedFrom
<1> HIDE DEF m, x
<1>7. DOMAIN m = MeaningFields
  BY <1>5 DEF Agrees
<1>8. /\ DOMAIN e = ContextFields /\ e.tip = c.tip /\ e.stages = c.stages /\ e.alias = c.alias
      /\ e.env = c.env /\ e.args = c.args /\ e.workdir = c.workdir /\ e.user = c.user
      /\ e.pending = Append(c.pending, x)
  BY <1>1 DEF ContextFields
<1>9. /\ DOMAIN n = MeaningFields /\ n.content = m.content /\ n.stages = m.stages /\ n.alias = m.alias
      /\ n.env = m.env /\ n.args = m.args /\ n.workdir = m.workdir /\ n.user = m.user
      /\ n.pending = Append(m.pending, x)
  BY <1>7 DEF MeaningFields
<1> HIDE DEF e, n
<1>10. Agrees(e, n, I) /\ Exactly(e, n, N, I)
  BY <1>5, <1>8, <1>9 DEF Agrees, Exactly, Has
<1>11. AtDirective(f, a, k, s, e, g, N, I)
  BY <1>3, <1>5, <1>6, <1>10 DEF AtDirective
<1>12. Begun(f, a, e)
  BY <1>5, <1>8 DEF Begun
<1> QED BY <1>1, <1>8, <1>11, <1>12, NoLayerIs DEF BuildOK, Started, Mid, e, x

\* The process of a layer exits.
LEMMA RunEnds ==
    ASSUME NEW f, NEW a, NEW k, NEW s, NEW l, NEW c, NEW g, NEW N, NEW I,
           BuildOK(f, a, "running", k, s, l, c, g, N, I), NEW i \in DOMAIN I,
           NEW exit \in IF Unpacking(f, a, k) THEN {"signal"} ELSE {"zero", "nonzero"},
           I[i] = Append(Has(c, N, I), Effect(exit, Doing(l.hash, I)))
    PROVE  BuildOK(f, a, "ended", k, s, [l EXCEPT !.exit = exit, !.image = i], c, g, N, I)
<1> DEFINE r == [l EXCEPT !.exit = exit, !.image = i]
<1>1. "running" \in Mid /\ "ended" \in Mid
  BY DEF Mid
<1>2. DOMAIN l = LayerFields /\ InLayer(f, a, "running", k, s, l, c, g, N, I)
  BY <1>1, InMid
<1>3. /\ DOMAIN r = LayerFields /\ r.kind = l.kind /\ r.hash = l.hash /\ r.image = i
      /\ r.command = l.command /\ r.exit = exit
  BY <1>2 DEF LayerFields
<1> HIDE DEF r
<1>4. l.kind = "run" /\ ~OfFile(f, a, k) /\ Running(f, a, k, s, l, c, g, N, I)
  BY <1>2 DEF InLayer
<1>5. Running(f, a, k, s, r, c, g, N, I)
  BY <1>3, <1>4 DEF Running
<1>6. InLayer(f, a, "ended", k, s, r, c, g, N, I)
  BY <1>3, <1>4, <1>5 DEF InLayer
<1>7. BuildOK(f, a, "ended", k, s, r, c, g, N, I)
  <2>1. /\ DOMAIN c = ContextFields /\ c.tip \in 0 .. Len(N) /\ f \in Dockerfiles
        /\ a \in 1 .. Len(f) + 1 /\ k \in Nat /\ Sequence(g) /\ Begun(f, a, c)
        /\ Sourced(f, a, k, s, g, I)
    BY <1>1, InMid
  <2> QED BY <1>1, <1>3, <1>6, <2>1, OnMid
<1> QED BY <1>7 DEF r

\* What it did is in the hash it is recorded with.
LEMMA RequestIsDoing ==
    ASSUME NEW f, NEW a, NEW p \in Mid, NEW k, NEW s, NEW l, NEW c, NEW g, NEW N, NEW I,
           BuildOK(f, a, p, k, s, l, c, g, N, I), l.kind = "run", p \notin {"look", "miss"}
    PROVE  Doing(l.hash, I) = IF Unpacking(f, a, k) THEN Did(l.command, NoSettings, c.pending)
                              ELSE Did(l.command, Settings(ActingAs(f, a, c)), c.pending)
<1>1. /\ DOMAIN c = ContextFields /\ f \in Dockerfiles /\ a \in 1 .. Len(f) + 1 /\ k \in Nat
      /\ Sourced(f, a, k, s, g, I) /\ InLayer(f, a, p, k, s, l, c, g, N, I)
  BY InMid
<1>2. Running(f, a, k, s, l, c, g, N, I) /\ ~OfFile(f, a, k)
  BY <1>1 DEF InLayer
<1>3. HashSays(f, a, k, s, l.hash, c, N, I)
  BY <1>1, <1>2, RunningHash
<1>4. l.command = CommandOf(f, a, k, s, I)
  BY <1>2 DEF Running
<1>5. PathAt(f, a, k) <=> Unpacking(f, a, k)
  BY <1>2 DEF OfFile, Unpacking
<1> QED BY <1>3, <1>4, <1>5 DEF HashSays, Doing, CommandOf

\* The nodes that are recorded are sound.
LEMMA UseRecorded ==
    ASSUME NEW f, NEW a, NEW p \in Mid, NEW k, NEW s, NEW l, NEW c, NEW g, NEW N, NEW I,
           Store(N, I), BuildOK(f, a, p, k, s, l, c, g, N, I), l.kind = "use"
    PROVE  LET M == Append(N, Node(0, "use", l.hash, "zero", FALSE, l.image)) IN
           Store(M, I) /\ Grown(N, M)
<1> DEFINE node == Node(0, "use", l.hash, "zero", FALSE, l.image)
           M == Append(N, node)
           n == Len(N) + 1
<1>1. Sequence(N) /\ Len(N) \in Nat
  BY SequenceLen DEF Store
<1>2. Using(f, a, k, l, c, g, I)
  BY InMid DEF InLayer
<1>3. M[n] = node
  BY <1>1, Appended
<1>4. /\ node.parent = 0 /\ node.kind = "use" /\ node.hash = l.hash /\ node.exit = "zero"
      /\ node.copyComplete = FALSE /\ node.image = l.image
  BY DEF Node
<1>5. l.image \in DOMAIN I /\ l.hash = FromHash(l.image) /\ 0 \in 0 .. n - 1
  BY <1>1, <1>2 DEF Using
<1> HIDE DEF node, M, n
<1>6. NodeOK(n, M, I)
  BY <1>3, <1>4, <1>5 DEF NodeOK
<1>7. NodeOK(Len(N) + 1, Append(N, node), I)
  BY <1>6 DEF M, n
<1> QED BY <1>7, StoreNode DEF node

LEMMA RunRecorded ==
    ASSUME NEW f, NEW a, NEW k, NEW s, NEW l, NEW c, NEW g, NEW N, NEW I,
           Store(N, I), BuildOK(f, a, "ended", k, s, l, c, g, N, I),
           NEW complete \in BOOLEAN, complete => Unpacking(f, a, k)
    PROVE  /\ l.kind = "run" /\ ~OfFile(f, a, k)
           /\ LET M == Append(N, Node(c.tip, "run", l.hash, l.exit, complete, l.image)) IN
              Store(M, I) /\ Grown(N, M)
<1> DEFINE node == Node(c.tip, "run", l.hash, l.exit, complete, l.image)
           M == Append(N, node)
           n == Len(N) + 1
<1>1. Sequence(N) /\ Len(N) \in Nat
  BY SequenceLen DEF Store
<1>2. "ended" \in Mid
  BY DEF Mid
<1>3. /\ DOMAIN c = ContextFields /\ f \in Dockerfiles /\ a \in 1 .. Len(f) + 1 /\ k \in Nat
      /\ c.tip \in 0 .. Len(N)
      /\ Sourced(f, a, k, s, g, I) /\ InLayer(f, a, "ended", k, s, l, c, g, N, I)
  BY <1>2, InMid
<1>4. /\ l.kind = "run" /\ Running(f, a, k, s, l, c, g, N, I) /\ ~OfFile(f, a, k)
      /\ l.image \in DOMAIN I
      /\ I[l.image] = Append(Has(c, N, I), Effect(l.exit, Doing(l.hash, I)))
      /\ l.exit \in {"zero", "nonzero", "signal"} /\ (complete => l.exit = "signal")
  BY <1>3 DEF InLayer
<1>5. c.tip # 0
  BY <1>4 DEF Running
<1>6. HashSays(f, a, k, s, l.hash, c, N, I)
  BY <1>3, <1>4, RunningHash
<1>7. /\ l.hash[2] \in DOMAIN I
      /\ I[l.image] = Append(I[l.hash[2]], Effect(l.exit, Doing(l.hash, I)))
  <2>1. ImageIn(c.tip, N) \in DOMAIN I /\ Has(c, N, I) = I[ImageIn(c.tip, N)]
    BY <1>3, <1>5, HasImage
  <2> QED BY <1>4, <1>6, <2>1 DEF HashSays
<1>8. l.hash[4][1] = "COPY" => l.hash[4][2] \in DOMAIN I /\ l.hash[4][3] \in Dirs
  BY <1>4, <1>6 DEF HashSays, Sound, OfFile
<1>9. M[n] = node
  BY <1>1, Appended
<1>10. /\ node.parent = c.tip /\ node.kind = "run" /\ node.hash = l.hash /\ node.exit = l.exit
       /\ node.copyComplete = complete /\ node.image = l.image
  BY DEF Node
<1> HIDE DEF node, M
<1>11. c.tip \in 0 .. n - 1
  BY <1>1, <1>3
<1>12. NodeOK(n, M, I)
  BY <1>4, <1>5, <1>7, <1>8, <1>9, <1>10, <1>11 DEF NodeOK
<1>13. NodeOK(Len(N) + 1, Append(N, node), I)
  BY <1>12 DEF M
<1> QED BY <1>4, <1>13, StoreNode DEF node

\* A build that begins, and one that has failed.
LEMMA BeginHolds ==
    ASSUME NEW f \in Dockerfiles, NEW s, NEW N, NEW I, Store(N, I)
    PROVE  BuildOK(f, 1, "ready", 0, s, NoLayer, NewContext, <<>>, N, I)
<1> DEFINE c == NewContext
           m == Nothing
<1>1. /\ DOMAIN c = ContextFields /\ c.tip = 0 /\ c.pending = <<>> /\ c.stages = <<>>
      /\ c.alias = None /\ c.env = {} /\ c.workdir = "/" /\ c.user = None /\ c.args = {}
  BY DEF NewContext, ContextFields
<1>2. /\ DOMAIN m = MeaningFields /\ m.content = <<>> /\ m.pending = <<>> /\ m.stages = <<>>
      /\ m.alias = None /\ m.env = {} /\ m.workdir = "/" /\ m.user = None /\ m.args = {}
  BY DEF Nothing, MeaningFields
<1>3. Meaning(f, <<>>, 0) = m
  BY MeaningNext
<1> HIDE DEF c, m
<1>4. Agrees(c, m, I) /\ Exactly(c, m, N, I)
  BY <1>1, <1>2, EmptySequence DEF Agrees, SameStages, Exactly, Has
<1>5. Reached(f, <<>>, 1, 0) = m
  BY <1>3 DEF Reached
<1>6. AtDirective(f, 1, 0, s, c, <<>>, N, I)
  BY <1>4, <1>5, EmptySequence DEF AtDirective
<1>7. Len(f) \in Nat /\ Len(N) \in Nat
  BY ParsedFile, SequenceLen DEF Store
<1>8. 1 \in 1 .. Len(f) + 1 /\ 0 \in 0 .. Len(N)
  BY <1>7
<1>9. Begun(f, 1, c)
  BY <1>1 DEF Begun
<1> QED BY <1>1, <1>6, <1>8, <1>9, EmptySequence, NoLayerIs DEF BuildOK, Started, Mid, Sourced, c

LEMMA FailedHolds ==
    ASSUME NEW f, NEW a, NEW s, NEW N, NEW I, Store(N, I), NEW p \in {"idle", "failed"}
    PROVE  BuildOK(f, a, p, 0, s, NoLayer, NewContext, <<>>, N, I)
<1>1. DOMAIN NewContext = ContextFields /\ NewContext.tip = 0
  BY DEF NewContext, ContextFields
<1>2. 0 \in 0 .. Len(N)
  BY SequenceLen DEF Store
<1> QED BY <1>1, <1>2, NoLayerIs DEF BuildOK, Mid, Unstarted

\* One that is done has flushed all its files.
LEMMA DoneHolds ==
    ASSUME NEW f, NEW a, NEW k, NEW s, NEW l, NEW c, NEW g, NEW N, NEW I,
           BuildOK(f, a, "ready", k, s, l, c, g, N, I), a > Len(f), c.pending = <<>>
    PROVE  BuildOK(f, a, "done", k, s, l, c, g, N, I)
<1>1. a = Len(f) + 1
  BY Ready
<1> QED BY <1>1, Ready DEF BuildOK, Started, Mid

LEMMA DoneHas ==
    ASSUME NEW f, NEW a, NEW k, NEW s, NEW l, NEW c, NEW g, NEW N, NEW I, Store(N, I),
           BuildOK(f, a, "done", k, s, l, c, g, N, I)
    PROVE  /\ c.tip # 0 /\ k = 0 /\ a = Len(f) + 1
           /\ LET m == Meaning(f, g, Len(f)) IN Has(c, N, I) = Flushed(m, m.user)
<1>1. /\ f \in Dockerfiles /\ a = Len(f) + 1 /\ c.pending = <<>> /\ k \in Nat
      /\ a \in 1 .. Len(f) + 1
      /\ Begun(f, a, c) /\ Sourced(f, a, k, s, g, I) /\ AtDirective(f, a, k, s, c, g, N, I)
  BY DEF BuildOK, Started, Mid
<1>2. Len(f) \in Nat
  BY <1>1, ParsedFile
<1>3. k = 0
  BY <1>1, <1>2 DEF Sourced
<1>4. c.tip # 0
  BY <1>1, <1>2, FromComesFirst DEF Begun
<1> DEFINE m == Meaning(f, g, Len(f))
<1>5. Reached(f, g, a, k) = m /\ Closing(f, a, m) = m.user
  BY <1>1, <1>2, <1>3 DEF Reached, Closing
<1> HIDE DEF m
<1>6. Exactly(c, m, N, I) \/ FlushedIn(c, m, m.user, N, I)
  BY <1>1, <1>5 DEF AtDirective
<1>7. Has(c, N, I) = Flushed(m, m.user)
  BY <1>1, <1>6 DEF Exactly, FlushedIn, Flushed
<1> QED BY <1>1, <1>3, <1>4, <1>7 DEF m

-----------------------------------------------------------------------------
(* A build walks from point to point.  What comes next is a matter of its  *)
(* Dockerfile (f), what it is given (g) and the tree it finds (N, I).      *)

Between(a, k, s, c) ==
    [mid |-> FALSE, at |-> a, part |-> k, source |-> s, context |-> c, kind |-> None, hash |-> <<>>]
Awaiting(a, k, s, c, kind, hash) ==
    [mid |-> TRUE, at |-> a, part |-> k, source |-> s, context |-> c, kind |-> kind, hash |-> hash]
Standing(a, p, k, s, l, c) ==
    IF p \in Mid THEN Awaiting(a, k, s, c, l.kind, l.hash) ELSE Between(a, k, s, c)
Stand(b) == Standing(at[b], pc[b], part[b], source[b], layer[b], context[b])
Start == Between(1, 0, 0, NewContext)

\* The image that a reference names, when its content is known.
ImageFor(stages, ref, j, x, I) ==
    /\ j \in DOMAIN I /\ I[j] = x
    /\ IF LastNamed(stages, ref) = 0 THEN Len(x) = 1 ELSE j = stages[LastNamed(stages, ref)].image

StagesIn(c, N) ==
    IF ImageIn(c.tip, N) = 0 THEN c.stages
    ELSE Append(c.stages, [name |-> c.alias, image |-> ImageIn(c.tip, N)])
StageContext(c, d, N) ==
    [NewStage(c) EXCEPT !.stages = StagesIn(c, N), !.alias = d.alias, !.pending = <<>>]
Attaching(c, x) == [c EXCEPT !.pending = Append(@, x)]

At(x, f, keyword) == x.at <= Len(f) /\ f[x.at].keyword = keyword
\* A stage, or the Dockerfile, ends with files that are to be attached.
Unsealed(x, f, N) ==
    /\ Ends(f, x.at) /\ x.context.pending # <<>>
    /\ x.at <= Len(f) => ImageIn(x.context.tip, N) # 0

SetsOn(x, y, f) ==
    /\ x.at <= Len(f) /\ f[x.at].keyword \in {"ENV", "ARG", "WORKDIR", "USER"}
    /\ y = Between(x.at + 1, x.part, x.source, SetContext(x.context, f[x.at]))
CopiesOn(x, y, f, g) ==
    /\ At(x, f, "COPY") /\ x.at <= Len(g)
    /\ y = Between(x.at + 1, x.part, x.source, Attaching(x.context, g[x.at]))
RunsOn(x, y, f, N) ==
    /\ At(x, f, "RUN")
    /\ y = Awaiting(x.at, x.part, x.source, x.context, "run", ChainIn(x.context, f[x.at].command, N))
SealsOn(x, y, f, N) ==
    /\ Unsealed(x, f, N)
    /\ y = Awaiting(x.at, x.part, x.source, x.context, "run",
                    ChainIn(ActingAs(f, x.at, x.context), Closer, N))
TakesOn(x, y, f, g, N, I) ==
    /\ At(x, f, "FROM") /\ ~Unsealed(x, f, N) /\ x.at <= Len(g)
    /\ \E j \in DOMAIN I :
         /\ ImageFor(StagesIn(x.context, N), f[x.at].ref, j, g[x.at], I)
         /\ y = Awaiting(x.at, x.part, x.source, StageContext(x.context, f[x.at], N), "use", FromHash(j))
UnpacksOn(x, y, f, g, N, I) ==
    /\ At(x, f, "COPY_FROM") /\ x.part < Len(f[x.at].paths)
    /\ \E j \in DOMAIN I :
         /\ IF x.part = 0 THEN x.at <= Len(g) /\ ImageFor(x.context.stages, f[x.at].ref, j, g[x.at], I)
            ELSE j = x.source
         /\ y = Awaiting(x.at, x.part + 1, j, x.context, "run",
                         ChainIn(x.context, <<"COPY", j, f[x.at].paths[x.part + 1]>>, N))
EndsOn(x, y, f) ==
    /\ At(x, f, "COPY_FROM") /\ x.part = Len(f[x.at].paths)
    /\ y = Between(x.at + 1, 0, x.source, x.context)
GoesOn(x, y, f, g, N, I) ==
    \/ SetsOn(x, y, f) \/ CopiesOn(x, y, f, g) \/ RunsOn(x, y, f, N) \/ SealsOn(x, y, f, N)
    \/ TakesOn(x, y, f, g, N, I) \/ UnpacksOn(x, y, f, g, N, I) \/ EndsOn(x, y, f)

\* A node that has what is awaited, and where the build is with it.
Fits(node, x) ==
    /\ node.kind = x.kind /\ Matches(node, x.hash)
    /\ x.kind = "run" => node.parent = x.context.tip
Beyond(f, a, kind) ==
    IF a <= Len(f) /\ (f[a].keyword = "RUN" \/ (f[a].keyword = "FROM" /\ kind = "use")) THEN a + 1 ELSE a
IsDone(x, y, f, N, I) ==
    IF OfFile(f, x.at, x.part)
    THEN /\ x.source \in DOMAIN I
         /\ y = Between(x.at, x.part, x.source,
                        Attaching(x.context, <<I[x.source], f[x.at].paths[x.part]>>))
    ELSE \E t \in DOMAIN N :
            /\ Fits(N[t], x)
            /\ y = Between(Beyond(f, x.at, x.kind), x.part, x.source, NewTip(x.context, x, t))

Follows(x, y, f, g, N, I) ==
    /\ x.at \in Nat \ {0} /\ x.context.tip \in 0 .. Len(N)
    /\ IF x.mid THEN IsDone(x, y, f, N, I) ELSE GoesOn(x, y, f, g, N, I)
StaysOrFollows(x, y, f, g, N, I) == y = x \/ Follows(x, y, f, g, N, I)

\* The points a build has been at, up to q where it stands.
Trace(P, q, f, g, N, I) ==
    /\ Start \in P /\ q \in P
    /\ \A x \in P : x = q \/ \E y \in P : Follows(x, y, f, g, N, I)

\* A base image is known by its content.
BasesOK ==
    /\ changes \in Nat
    /\ \A i \in DOMAIN images : Len(images[i]) = 1 =>
         \E r \in Range(Bases), v \in 0 .. changes : images[i] = <<<<r, v>>>>
    /\ \A i, j \in DOMAIN images : Len(images[i]) = 1 /\ images[i] = images[j] => i = j
    /\ \A r \in Range(Bases) : Len(images[tagged[r]]) = 1

-----------------------------------------------------------------------------
(* What follows a point stays what follows it, and is the only one.        *)

LEMMA ImageForStays ==
    ASSUME NEW stages, NEW ref, NEW j, NEW x, NEW I, NEW J,
           Sequence(I), Sequence(J), Grown(I, J), ImageFor(stages, ref, j, x, I)
    PROVE  ImageFor(stages, ref, j, x, J)
BY GrownIn DEF ImageFor

LEMMA TipStays ==
    ASSUME NEW N, NEW M, Sequence(N), Sequence(M), Grown(N, M), NEW t \in 0 .. Len(N)
    PROVE  ImageIn(t, M) = ImageIn(t, N) /\ t \in 0 .. Len(M)
<1>1. Len(N) \in Nat /\ Len(M) \in Nat /\ DOMAIN N = 1 .. Len(N) /\ Len(N) <= Len(M)
  BY SequenceLen DEF Grown
<1>2. t # 0 => t \in DOMAIN N /\ M[t] = N[t]
  BY <1>1, GrownIn
<1> QED BY <1>1, <1>2 DEF ImageIn

LEMMA GoesOnStays ==
    ASSUME NEW x, NEW y, NEW f, NEW g, NEW h, NEW N, NEW M, NEW I, NEW J,
           Sequence(N), Sequence(M), Grown(N, M), Sequence(I), Sequence(J), Grown(I, J),
           Sequence(g), Sequence(h), Grown(g, h), x.at \in Nat \ {0},
           x.context.tip \in 0 .. Len(N), GoesOn(x, y, f, g, N, I)
    PROVE  GoesOn(x, y, f, h, M, J)
<1> DEFINE c == x.context
<1>1. ImageIn(c.tip, M) = ImageIn(c.tip, N)
  BY TipStays
<1>2. x.at <= Len(g) => x.at <= Len(h) /\ h[x.at] = g[x.at]
  <2>1. Len(g) \in Nat /\ Len(h) \in Nat /\ Len(g) <= Len(h)
    BY SequenceLen DEF Grown
  <2>2. x.at <= Len(g) => x.at \in 1 .. Len(g)
    BY <2>1
  <2> QED BY <2>1, <2>2 DEF Grown
<1>3. StagesIn(c, M) = StagesIn(c, N) /\ (Unsealed(x, f, M) <=> Unsealed(x, f, N))
  BY <1>1 DEF StagesIn, Unsealed
<1>4. \A e : ChainIn(c, e, M) = ChainIn(c, e, N)
  BY <1>1 DEF ChainIn
<1>5. ChainIn(ActingAs(f, x.at, c), Closer, M) = ChainIn(ActingAs(f, x.at, c), Closer, N)
  <2>1. ActingAs(f, x.at, c).tip = c.tip
    BY DEF ActingAs, AsRoot
  <2> QED BY <1>1, <2>1 DEF ChainIn
<1>6. \A d : StageContext(c, d, M) = StageContext(c, d, N)
  BY <1>3 DEF StageContext
<1>7. \A j \in DOMAIN I : j \in DOMAIN J
  BY GrownIn
<1>8. \A stages, ref, j, z : ImageFor(stages, ref, j, z, I) => ImageFor(stages, ref, j, z, J)
  BY ImageForStays
<1>9. CASE SetsOn(x, y, f)
  BY <1>9 DEF GoesOn
<1>10. CASE CopiesOn(x, y, f, g)
  BY <1>2, <1>10 DEF GoesOn, CopiesOn
<1>11. CASE RunsOn(x, y, f, N)
  BY <1>4, <1>11 DEF GoesOn, RunsOn
<1>12. CASE SealsOn(x, y, f, N)
  BY <1>3, <1>5, <1>12 DEF GoesOn, SealsOn
<1>13. CASE TakesOn(x, y, f, g, N, I)
  <2>1. PICK j \in DOMAIN I :
          /\ ImageFor(StagesIn(c, N), f[x.at].ref, j, g[x.at], I)
          /\ y = Awaiting(x.at, x.part, x.source, StageContext(c, f[x.at], N), "use", FromHash(j))
    BY <1>13 DEF TakesOn
  <2>2. /\ ImageFor(StagesIn(c, M), f[x.at].ref, j, h[x.at], J)
        /\ y = Awaiting(x.at, x.part, x.source, StageContext(c, f[x.at], M), "use", FromHash(j))
    BY <1>2, <1>3, <1>6, <1>8, <1>13, <2>1 DEF TakesOn
  <2>3. TakesOn(x, y, f, h, M, J)
    BY <1>2, <1>3, <1>7, <1>13, <2>2 DEF TakesOn
  <2> QED BY <2>3 DEF GoesOn
<1>14. CASE UnpacksOn(x, y, f, g, N, I)
  <2>1. PICK j \in DOMAIN I :
          /\ IF x.part = 0 THEN x.at <= Len(g) /\ ImageFor(c.stages, f[x.at].ref, j, g[x.at], I)
             ELSE j = x.source
          /\ y = Awaiting(x.at, x.part + 1, j, c, "run",
                          ChainIn(c, <<"COPY", j, f[x.at].paths[x.part + 1]>>, N))
    BY <1>14 DEF UnpacksOn
  <2>2. IF x.part = 0 THEN x.at <= Len(h) /\ ImageFor(c.stages, f[x.at].ref, j, h[x.at], J)
        ELSE j = x.source
    BY <1>2, <1>8, <2>1
  <2>3. y = Awaiting(x.at, x.part + 1, j, c, "run",
                     ChainIn(c, <<"COPY", j, f[x.at].paths[x.part + 1]>>, M))
    BY <1>4, <2>1
  <2>4. UnpacksOn(x, y, f, h, M, J)
    BY <1>7, <1>14, <2>2, <2>3 DEF UnpacksOn
  <2> QED BY <2>4 DEF GoesOn
<1>15. CASE EndsOn(x, y, f)
  BY <1>15 DEF GoesOn
<1> QED BY <1>9, <1>10, <1>11, <1>12, <1>13, <1>14, <1>15 DEF GoesOn

LEMMA IsDoneStays ==
    ASSUME NEW x, NEW y, NEW f, NEW N, NEW M, NEW I, NEW J,
           Sequence(N), Sequence(M), Grown(N, M), Sequence(I), Sequence(J), Grown(I, J),
           IsDone(x, y, f, N, I)
    PROVE  IsDone(x, y, f, M, J)
<1>1. CASE OfFile(f, x.at, x.part)
  <2>1. x.source \in DOMAIN I
    BY <1>1 DEF IsDone
  <2>2. x.source \in DOMAIN J /\ J[x.source] = I[x.source]
    BY <2>1, GrownIn
  <2> QED BY <1>1, <2>2 DEF IsDone
<1>2. CASE ~OfFile(f, x.at, x.part)
  <2>1. PICK t \in DOMAIN N :
          Fits(N[t], x) /\ y = Between(Beyond(f, x.at, x.kind), x.part, x.source, NewTip(x.context, x, t))
    BY <1>2 DEF IsDone
  <2>2. t \in DOMAIN M /\ M[t] = N[t]
    BY GrownIn
  <2> QED BY <1>2, <2>1, <2>2 DEF IsDone
<1> QED BY <1>1, <1>2

LEMMA FollowsStays ==
    ASSUME NEW x, NEW y, NEW f, NEW g, NEW h, NEW N, NEW M, NEW I, NEW J,
           Sequence(N), Sequence(M), Grown(N, M), Sequence(I), Sequence(J), Grown(I, J),
           Sequence(g), Sequence(h), Grown(g, h), Follows(x, y, f, g, N, I)
    PROVE  Follows(x, y, f, h, M, J)
<1>1. x.context.tip \in 0 .. Len(M)
  BY TipStays DEF Follows
<1>2. CASE x.mid
  <2>1. IsDone(x, y, f, M, J)
    BY <1>2, IsDoneStays DEF Follows
  <2> QED BY <1>1, <1>2, <2>1 DEF Follows
<1>3. CASE ~x.mid
  <2>1. GoesOn(x, y, f, h, M, J)
    BY <1>3, GoesOnStays DEF Follows
  <2> QED BY <1>1, <1>3, <2>1 DEF Follows
<1> QED BY <1>2, <1>3

\* No two nodes are taken for one another, and a base image is known by its content.
Single(N) ==
    \A m, n \in DOMAIN N :
        /\ N[m].kind = N[n].kind /\ N[m].parent = N[n].parent
        /\ Matches(N[m], N[n].hash) /\ Matches(N[n], N[m].hash)
        => m = n
KnownBases(I) == \A i, j \in DOMAIN I : Len(I[i]) = 1 /\ I[i] = I[j] => i = j

LEMMA ImageForOne ==
    ASSUME NEW stages, NEW ref, NEW i, NEW j, NEW x, NEW I, KnownBases(I),
           ImageFor(stages, ref, i, x, I), ImageFor(stages, ref, j, x, I)
    PROVE  i = j
BY DEF ImageFor, KnownBases

LEMMA GoesOnOne ==
    ASSUME NEW x, NEW y, NEW z, NEW f, NEW g, NEW N, NEW I, KnownBases(I),
           x.at \in Nat, Len(f) \in Nat, GoesOn(x, y, f, g, N, I), GoesOn(x, z, f, g, N, I)
    PROVE  y = z
<1> DEFINE Names == {"ENV", "ARG", "WORKDIR", "USER"}
<1>1. /\ SetsOn(x, z, f) => x.at <= Len(f) /\ f[x.at].keyword \in Names
      /\ CopiesOn(x, z, f, g) => x.at <= Len(f) /\ f[x.at].keyword = "COPY"
      /\ RunsOn(x, z, f, N) => x.at <= Len(f) /\ f[x.at].keyword = "RUN"
      /\ SealsOn(x, z, f, N) => Unsealed(x, f, N)
      /\ TakesOn(x, z, f, g, N, I) => x.at <= Len(f) /\ f[x.at].keyword = "FROM" /\ ~Unsealed(x, f, N)
      /\ UnpacksOn(x, z, f, g, N, I) => x.at <= Len(f) /\ f[x.at].keyword = "COPY_FROM" /\ x.part < Len(f[x.at].paths)
      /\ EndsOn(x, z, f) => x.at <= Len(f) /\ f[x.at].keyword = "COPY_FROM" /\ x.part = Len(f[x.at].paths)
  BY DEF SetsOn, CopiesOn, RunsOn, SealsOn, TakesOn, UnpacksOn, EndsOn, At
<1>2. Unsealed(x, f, N) => x.at > Len(f) \/ f[x.at].keyword = "FROM"
  BY DEF Unsealed, Ends
<1>3. ~(x.at > Len(f) /\ x.at <= Len(f))
  OBVIOUS
<1>4. \/ SetsOn(x, z, f) \/ CopiesOn(x, z, f, g) \/ RunsOn(x, z, f, N) \/ SealsOn(x, z, f, N)
      \/ TakesOn(x, z, f, g, N, I) \/ UnpacksOn(x, z, f, g, N, I) \/ EndsOn(x, z, f)
  BY DEF GoesOn
<1>5. CASE SetsOn(x, y, f)
  <2>1. x.at <= Len(f) /\ f[x.at].keyword \in Names
    BY <1>5 DEF SetsOn
  <2>2. SetsOn(x, z, f)
    BY <1>1, <1>2, <1>3, <1>4, <2>1
  <2> QED BY <1>5, <2>2 DEF SetsOn
<1>6. CASE CopiesOn(x, y, f, g)
  <2>1. x.at <= Len(f) /\ f[x.at].keyword = "COPY"
    BY <1>6 DEF CopiesOn, At
  <2>2. CopiesOn(x, z, f, g)
    BY <1>1, <1>2, <1>3, <1>4, <2>1
  <2> QED BY <1>6, <2>2 DEF CopiesOn
<1>7. CASE RunsOn(x, y, f, N)
  <2>1. x.at <= Len(f) /\ f[x.at].keyword = "RUN"
    BY <1>7 DEF RunsOn, At
  <2>2. RunsOn(x, z, f, N)
    BY <1>1, <1>2, <1>3, <1>4, <2>1
  <2> QED BY <1>7, <2>2 DEF RunsOn
<1>8. CASE SealsOn(x, y, f, N)
  <2>1. Unsealed(x, f, N)
    BY <1>8 DEF SealsOn
  <2>2. SealsOn(x, z, f, N)
    BY <1>1, <1>2, <1>3, <1>4, <2>1
  <2> QED BY <1>8, <2>2 DEF SealsOn
<1>9. CASE TakesOn(x, y, f, g, N, I)
  <2>1. x.at <= Len(f) /\ f[x.at].keyword = "FROM" /\ ~Unsealed(x, f, N)
    BY <1>9 DEF TakesOn, At
  <2>2. TakesOn(x, z, f, g, N, I)
    BY <1>1, <1>2, <1>3, <1>4, <2>1
  <2>3. PICK i \in DOMAIN I :
          /\ ImageFor(StagesIn(x.context, N), f[x.at].ref, i, g[x.at], I)
          /\ y = Awaiting(x.at, x.part, x.source, StageContext(x.context, f[x.at], N), "use", FromHash(i))
    BY <1>9 DEF TakesOn
  <2>4. PICK j \in DOMAIN I :
          /\ ImageFor(StagesIn(x.context, N), f[x.at].ref, j, g[x.at], I)
          /\ z = Awaiting(x.at, x.part, x.source, StageContext(x.context, f[x.at], N), "use", FromHash(j))
    BY <2>2 DEF TakesOn
  <2>5. i = j
    BY <2>3, <2>4, ImageForOne
  <2> QED BY <2>3, <2>4, <2>5
<1>10. CASE UnpacksOn(x, y, f, g, N, I)
  <2>1. x.at <= Len(f) /\ f[x.at].keyword = "COPY_FROM" /\ x.part < Len(f[x.at].paths)
    BY <1>10 DEF UnpacksOn, At
  <2>2. UnpacksOn(x, z, f, g, N, I)
    BY <1>1, <1>2, <1>3, <1>4, <2>1
  <2>3. PICK i \in DOMAIN I :
          /\ IF x.part = 0 THEN x.at <= Len(g) /\ ImageFor(x.context.stages, f[x.at].ref, i, g[x.at], I)
             ELSE i = x.source
          /\ y = Awaiting(x.at, x.part + 1, i, x.context, "run",
                          ChainIn(x.context, <<"COPY", i, f[x.at].paths[x.part + 1]>>, N))
    BY <1>10 DEF UnpacksOn
  <2>4. PICK j \in DOMAIN I :
          /\ IF x.part = 0 THEN x.at <= Len(g) /\ ImageFor(x.context.stages, f[x.at].ref, j, g[x.at], I)
             ELSE j = x.source
          /\ z = Awaiting(x.at, x.part + 1, j, x.context, "run",
                          ChainIn(x.context, <<"COPY", j, f[x.at].paths[x.part + 1]>>, N))
    BY <2>2 DEF UnpacksOn
  <2>5. i = j
    BY <2>3, <2>4, ImageForOne
  <2> QED BY <2>3, <2>4, <2>5
<1>11. CASE EndsOn(x, y, f)
  <2>1. x.at <= Len(f) /\ f[x.at].keyword = "COPY_FROM" /\ x.part = Len(f[x.at].paths)
    BY <1>11 DEF EndsOn, At
  <2>2. EndsOn(x, z, f)
    BY <1>1, <1>2, <1>3, <1>4, <2>1
  <2> QED BY <1>11, <2>2 DEF EndsOn
<1> QED BY <1>5, <1>6, <1>7, <1>8, <1>9, <1>10, <1>11 DEF GoesOn

LEMMA IsDoneOne ==
    ASSUME NEW x, NEW y, NEW z, NEW f, NEW N, NEW I, Store(N, I), Single(N),
           IsDone(x, y, f, N, I), IsDone(x, z, f, N, I)
    PROVE  y = z
<1>1. CASE OfFile(f, x.at, x.part)
  BY <1>1 DEF IsDone
<1>2. CASE ~OfFile(f, x.at, x.part)
  <2>1. PICK t \in DOMAIN N :
          Fits(N[t], x) /\ y = Between(Beyond(f, x.at, x.kind), x.part, x.source, NewTip(x.context, x, t))
    BY <1>2 DEF IsDone
  <2>2. PICK u \in DOMAIN N :
          Fits(N[u], x) /\ z = Between(Beyond(f, x.at, x.kind), x.part, x.source, NewTip(x.context, x, u))
    BY <1>2 DEF IsDone
  <2>3. N[t].kind = N[u].kind /\ Matches(N[t], N[u].hash) /\ Matches(N[u], N[t].hash)
    BY <2>1, <2>2 DEF Fits, Matches
  <2>4. N[t].parent = N[u].parent
    <3>1. /\ N[t].kind \in {"use", "run"} /\ (N[t].kind = "use" <=> N[t].parent = 0)
          /\ N[u].kind \in {"use", "run"} /\ (N[u].kind = "use" <=> N[u].parent = 0)
      BY DEF Store, NodeOK
    <3> QED BY <2>1, <2>2, <3>1 DEF Fits
  <2>5. t = u
    BY <2>3, <2>4 DEF Single
  <2> QED BY <2>1, <2>2, <2>5
<1> QED BY <1>1, <1>2

\* One point follows another when nothing is recorded twice.
LEMMA FollowsOne ==
    ASSUME NEW x, NEW y, NEW z, NEW f, NEW g, NEW N, NEW I, Store(N, I), Single(N), KnownBases(I),
           Len(f) \in Nat, Follows(x, y, f, g, N, I), Follows(x, z, f, g, N, I)
    PROVE  y = z
<1>1. CASE x.mid
  BY <1>1, IsDoneOne DEF Follows
<1>2. CASE ~x.mid
  BY <1>2, GoesOnOne DEF Follows
<1> QED BY <1>1, <1>2

-----------------------------------------------------------------------------
(* Traces.                                                                 *)

LEMMA TraceStays ==
    ASSUME NEW P, NEW q, NEW f, NEW g, NEW N, NEW M, NEW I, NEW J,
           Sequence(N), Sequence(M), Grown(N, M), Sequence(I), Sequence(J), Grown(I, J),
           Sequence(g), Trace(P, q, f, g, N, I)
    PROVE  Trace(P, q, f, g, M, J)
<1>1. Grown(g, g)
  BY SameGrows
<1>2. \A x, y : Follows(x, y, f, g, N, I) => Follows(x, y, f, g, M, J)
  BY <1>1, FollowsStays
<1> QED BY <1>2 DEF Trace

\* A build that steps on leaves its trace.
LEMMA TraceGrows ==
    ASSUME NEW P, NEW q, NEW r, NEW f, NEW g, NEW h, NEW N, NEW M, NEW I, NEW J,
           Sequence(N), Sequence(M), Grown(N, M), Sequence(I), Sequence(J), Grown(I, J),
           Sequence(g), Sequence(h), Grown(g, h),
           Trace(P, q, f, g, N, I), StaysOrFollows(q, r, f, h, M, J)
    PROVE  \E R : Trace(R, r, f, h, M, J)
<1>1. \A x, y : Follows(x, y, f, g, N, I) => Follows(x, y, f, h, M, J)
  BY FollowsStays
<1>2. CASE r = q
  <2>1. Trace(P, r, f, h, M, J)
    BY <1>1, <1>2 DEF Trace
  <2> QED BY <2>1
<1>3. CASE Follows(q, r, f, h, M, J)
  <2>1. Trace(P \cup {r}, r, f, h, M, J)
    BY <1>1, <1>3 DEF Trace
  <2> QED BY <2>1
<1> QED BY <1>2, <1>3 DEF StaysOrFollows

\* Who goes where another has been, and is given the same, follows it.
LEMMA TraceLeads ==
    ASSUME NEW P, NEW q, NEW x, NEW y, NEW f, NEW g, NEW h, NEW N, NEW I,
           Store(N, I), Single(N), KnownBases(I), Len(f) \in Nat,
           Sequence(g), Sequence(h), Grown(g, h),
           Trace(P, q, f, h, N, I), x \in P, x # q, Follows(x, y, f, g, N, I)
    PROVE  y \in P
<1>1. PICK z \in P : Follows(x, z, f, h, N, I)
  BY DEF Trace
<1>2. Sequence(N) /\ Sequence(I)
  BY DEF Store
<1>3. Follows(x, y, f, h, N, I)
  BY <1>2, SameGrows, FollowsStays
<1> QED BY <1>1, <1>3, FollowsOne

-----------------------------------------------------------------------------
(* Each step of a build goes to the point that follows.                    *)

LEMMA StandingIs ==
    ASSUME NEW a, NEW k, NEW s, NEW l, NEW c
    PROVE  /\ Standing(a, "ready", k, s, l, c) = Between(a, k, s, c)
           /\ Standing(a, "done", k, s, l, c) = Between(a, k, s, c)
           /\ \A p \in Mid : Standing(a, p, k, s, l, c) = Awaiting(a, k, s, c, l.kind, l.hash)
BY DEF Standing, Mid

LEMMA SettingFollows ==
    ASSUME NEW f, NEW a, NEW k, NEW s, NEW l, NEW c, NEW g, NEW h, NEW N, NEW I,
           BuildOK(f, a, "ready", k, s, l, c, g, N, I), a <= Len(f),
           f[a].keyword \in {"ENV", "ARG", "WORKDIR", "USER"}
    PROVE  Follows(Standing(a, "ready", k, s, l, c),
                   Standing(a + 1, "ready", k, s, l, SetContext(c, f[a])), f, h, N, I)
<1> DEFINE x == Between(a, k, s, c)
           y == Between(a + 1, k, s, SetContext(c, f[a]))
<1>1. x.mid = FALSE /\ x.at = a /\ x.part = k /\ x.source = s /\ x.context = c
  BY DEF Between
<1>2. a \in Nat \ {0} /\ c.tip \in 0 .. Len(N)
  BY Ready
<1> HIDE DEF x
<1>3. Follows(x, y, f, h, N, I)
  BY <1>1, <1>2 DEF Follows, GoesOn, SetsOn
<1> QED BY <1>3, StandingIs DEF x

LEMMA CopyFollows ==
    ASSUME NEW f, NEW a, NEW k, NEW s, NEW l, NEW c, NEW g, NEW N, NEW I, NEW e,
           BuildOK(f, a, "ready", k, s, l, c, g, N, I), a <= Len(f), f[a].keyword = "COPY"
    PROVE  Follows(Standing(a, "ready", k, s, l, c),
                   Standing(a + 1, "ready", k, s, l, Attaching(c, e)), f, Append(g, e), N, I)
<1> DEFINE x == Between(a, k, s, c)
           y == Between(a + 1, k, s, Attaching(c, e))
           h == Append(g, e)
<1>1. x.mid = FALSE /\ x.at = a /\ x.part = k /\ x.source = s /\ x.context = c
  BY DEF Between
<1>2. a \in Nat \ {0} /\ c.tip \in 0 .. Len(N) /\ Sequence(g)
  BY Ready
<1>3. Len(g) = a - 1
  BY ReadyPlain
<1>4. Len(h) = a /\ h[a] = e
  BY <1>2, <1>3, Appended
<1> HIDE DEF x, h
<1>5. Follows(x, y, f, h, N, I)
  BY <1>1, <1>2, <1>4 DEF Follows, GoesOn, CopiesOn, At
<1> QED BY <1>5, StandingIs DEF x, h

LEMMA RunFollows ==
    ASSUME NEW f, NEW a, NEW k, NEW s, NEW l, NEW r, NEW c, NEW g, NEW h, NEW N, NEW I,
           BuildOK(f, a, "ready", k, s, l, c, g, N, I), a <= Len(f), f[a].keyword = "RUN",
           r.kind = "run", r.hash = ChainIn(c, f[a].command, N)
    PROVE  Follows(Standing(a, "ready", k, s, l, c), Standing(a, "look", k, s, r, c), f, h, N, I)
<1> DEFINE x == Between(a, k, s, c)
           y == Awaiting(a, k, s, c, r.kind, r.hash)
<1>1. x.mid = FALSE /\ x.at = a /\ x.part = k /\ x.source = s /\ x.context = c
  BY DEF Between
<1>2. a \in Nat \ {0} /\ c.tip \in 0 .. Len(N)
  BY Ready
<1> HIDE DEF x
<1>3. Follows(x, y, f, h, N, I)
  BY <1>1, <1>2 DEF Follows, GoesOn, RunsOn, At
<1>4. "look" \in Mid
  BY DEF Mid
<1> QED BY <1>3, <1>4, StandingIs DEF x

LEMMA CloserFollows ==
    ASSUME NEW f, NEW a, NEW k, NEW s, NEW l, NEW r, NEW c, NEW g, NEW h, NEW N, NEW I,
           BuildOK(f, a, "ready", k, s, l, c, g, N, I), Ends(f, a), c.pending # <<>>,
           a <= Len(f) => ImageIn(c.tip, N) # 0,
           r.kind = "run", r.hash = ChainIn(ActingAs(f, a, c), Closer, N)
    PROVE  Follows(Standing(a, "ready", k, s, l, c), Standing(a, "look", k, s, r, c), f, h, N, I)
<1> DEFINE x == Between(a, k, s, c)
           y == Awaiting(a, k, s, c, r.kind, r.hash)
<1>1. x.mid = FALSE /\ x.at = a /\ x.part = k /\ x.source = s /\ x.context = c
  BY DEF Between
<1>2. a \in Nat \ {0} /\ c.tip \in 0 .. Len(N)
  BY Ready
<1> HIDE DEF x
<1>3. Follows(x, y, f, h, N, I)
  BY <1>1, <1>2 DEF Follows, GoesOn, SealsOn, Unsealed
<1>4. "look" \in Mid
  BY DEF Mid
<1> QED BY <1>3, <1>4, StandingIs DEF x

LEMMA FromFollows ==
    ASSUME NEW f, NEW a, NEW k, NEW s, NEW l, NEW r, NEW c, NEW g, NEW N, NEW I, NEW i,
           BuildOK(f, a, "ready", k, s, l, c, g, N, I), a <= Len(f), f[a].keyword = "FROM",
           ImageIn(c.tip, N) # 0 => c.pending = <<>>,
           ImageFor(StagesIn(c, N), f[a].ref, i, I[i], I),
           r.kind = "use", r.hash = FromHash(i)
    PROVE  Follows(Standing(a, "ready", k, s, l, c),
                   Standing(a, "look", k, s, r, StageContext(c, f[a], N)), f, Append(g, I[i]), N, I)
<1> DEFINE x == Between(a, k, s, c)
           y == Awaiting(a, k, s, StageContext(c, f[a], N), r.kind, r.hash)
           h == Append(g, I[i])
<1>1. x.mid = FALSE /\ x.at = a /\ x.part = k /\ x.source = s /\ x.context = c
  BY DEF Between
<1>2. a \in Nat \ {0} /\ c.tip \in 0 .. Len(N) /\ Sequence(g) /\ Len(f) \in Nat
  BY Ready
<1>3. Len(g) = a - 1
  <2>1. AtDirective(f, a, k, s, c, g, N, I) /\ Sourced(f, a, k, s, g, I) /\ k \in Nat
    BY Ready
  <2> QED BY <2>1 DEF AtDirective, Sourced
<1>4. Len(h) = a /\ h[a] = I[i]
  BY <1>2, <1>3, Appended
<1> HIDE DEF x, h
<1>5. i \in DOMAIN I
  BY DEF ImageFor
<1>6. ~Unsealed(x, f, N)
  BY <1>1, <1>2 DEF Unsealed
<1>7. TakesOn(x, y, f, h, N, I)
  BY <1>1, <1>2, <1>4, <1>5, <1>6 DEF TakesOn, At
<1>8. Follows(x, y, f, h, N, I)
  BY <1>1, <1>2, <1>7 DEF Follows, GoesOn
<1>9. "look" \in Mid
  BY DEF Mid
<1> QED BY <1>8, <1>9, StandingIs DEF x, h

LEMMA UnpackFollows ==
    ASSUME NEW f, NEW a, NEW k, NEW s, NEW t, NEW l, NEW r, NEW c, NEW g, NEW h, NEW N, NEW I,
           BuildOK(f, a, "ready", k, s, l, c, g, N, I), a <= Len(f), f[a].keyword = "COPY_FROM",
           k < Len(f[a].paths),
           IF k = 0 THEN h = Append(g, I[t]) /\ ImageFor(c.stages, f[a].ref, t, I[t], I) ELSE t = s,
           r.kind = "run", r.hash = ChainIn(c, <<"COPY", t, f[a].paths[k + 1]>>, N)
    PROVE  Follows(Standing(a, "ready", k, s, l, c), Standing(a, "look", k + 1, t, r, c), f, h, N, I)
<1> DEFINE x == Between(a, k, s, c)
           y == Awaiting(a, k + 1, t, c, r.kind, r.hash)
<1>1. x.mid = FALSE /\ x.at = a /\ x.part = k /\ x.source = s /\ x.context = c
  BY DEF Between
<1>2. a \in Nat \ {0} /\ c.tip \in 0 .. Len(N) /\ Sequence(g) /\ k \in Nat
  BY Ready
<1>3. k = 0 => a <= Len(h) /\ h[a] = I[t]
  <2>1. k = 0 => Len(g) = a - 1
    BY ReadyWithin
  <2> QED BY <1>2, <2>1, Appended
<1> HIDE DEF x
<1>4. t \in DOMAIN I
  <2>1. CASE k = 0
    BY <2>1 DEF ImageFor
  <2>2. CASE k # 0
    <3>1. Sourced(f, a, k, s, g, I) /\ k > 0
      BY <1>2, <2>2, Ready
    <3> QED BY <2>2, <3>1 DEF Sourced
  <2> QED BY <2>1, <2>2
<1>5. UnpacksOn(x, y, f, h, N, I)
  BY <1>1, <1>3, <1>4 DEF UnpacksOn, At
<1>6. Follows(x, y, f, h, N, I)
  BY <1>1, <1>2, <1>5 DEF Follows, GoesOn
<1>7. "look" \in Mid
  BY DEF Mid
<1> QED BY <1>6, <1>7, StandingIs DEF x

LEMMA CopyEndsFollows ==
    ASSUME NEW f, NEW a, NEW k, NEW s, NEW l, NEW c, NEW g, NEW h, NEW N, NEW I,
           BuildOK(f, a, "ready", k, s, l, c, g, N, I), a <= Len(f),
           f[a].keyword = "COPY_FROM", k = Len(f[a].paths)
    PROVE  Follows(Standing(a, "ready", k, s, l, c), Standing(a + 1, "ready", 0, s, l, c), f, h, N, I)
<1> DEFINE x == Between(a, k, s, c)
           y == Between(a + 1, 0, s, c)
<1>1. x.mid = FALSE /\ x.at = a /\ x.part = k /\ x.source = s /\ x.context = c
  BY DEF Between
<1>2. a \in Nat \ {0} /\ c.tip \in 0 .. Len(N)
  BY Ready
<1> HIDE DEF x
<1>3. Follows(x, y, f, h, N, I)
  BY <1>1, <1>2 DEF Follows, GoesOn, EndsOn, At
<1> QED BY <1>3, StandingIs DEF x

\* A layer is found or recorded as node t.
LEMMA LayerFollows ==
    ASSUME NEW f, NEW a, NEW p \in Mid, NEW k, NEW s, NEW l, NEW r, NEW c, NEW g, NEW h, NEW N, NEW I,
           BuildOK(f, a, p, k, s, l, c, g, N, I), ~OfFile(f, a, k), NEW t \in DOMAIN N,
           N[t].kind = l.kind, Matches(N[t], l.hash), l.kind = "run" => N[t].parent = c.tip
    PROVE  Follows(Standing(a, p, k, s, l, c),
                   Standing(Beyond(f, a, l.kind), "ready", k, s, r, NewTip(c, l, t)), f, h, N, I)
<1> DEFINE x == Awaiting(a, k, s, c, l.kind, l.hash)
           y == Between(Beyond(f, a, l.kind), k, s, NewTip(c, l, t))
<1>1. /\ x.mid = TRUE /\ x.at = a /\ x.part = k /\ x.source = s /\ x.context = c
      /\ x.kind = l.kind /\ x.hash = l.hash
  BY DEF Awaiting
<1>2. a \in Nat \ {0} /\ c.tip \in 0 .. Len(N)
  BY InMid
<1> HIDE DEF x
<1>3. NewTip(c, x, t) = NewTip(c, l, t)
  BY <1>1 DEF NewTip
<1>4. Fits(N[t], x)
  BY <1>1 DEF Fits
<1>5. IsDone(x, y, f, N, I)
  BY <1>1, <1>3, <1>4 DEF IsDone
<1>6. Follows(x, y, f, h, N, I)
  BY <1>1, <1>2, <1>5 DEF Follows
<1> QED BY <1>6, StandingIs DEF x

LEMMA FileFollows ==
    ASSUME NEW f, NEW a, NEW p \in Mid, NEW k, NEW s, NEW l, NEW r, NEW c, NEW g, NEW h, NEW N, NEW I,
           BuildOK(f, a, p, k, s, l, c, g, N, I), OfFile(f, a, k)
    PROVE  Follows(Standing(a, p, k, s, l, c),
                   Standing(a, "ready", k, s, r, Attaching(c, <<I[s], f[a].paths[k]>>)), f, h, N, I)
<1> DEFINE x == Awaiting(a, k, s, c, l.kind, l.hash)
           y == Between(a, k, s, Attaching(c, <<I[s], f[a].paths[k]>>))
<1>1. /\ x.mid = TRUE /\ x.at = a /\ x.part = k /\ x.source = s /\ x.context = c
  BY DEF Awaiting
<1>2. a \in Nat \ {0} /\ c.tip \in 0 .. Len(N)
  BY InMid
<1>3. s \in DOMAIN I
  <2>1. Sourced(f, a, k, s, g, I)
    BY InMid
  <2> QED BY <2>1 DEF Sourced, OfFile, PathAt
<1> HIDE DEF x
<1>4. IsDone(x, y, f, N, I)
  BY <1>1, <1>3 DEF IsDone
<1>5. Follows(x, y, f, h, N, I)
  BY <1>1, <1>2, <1>4 DEF Follows
<1> QED BY <1>5, StandingIs DEF x

-----------------------------------------------------------------------------
(* A step of one build, while the others stand where they are.             *)

Frame(b) ==
    /\ Maps'
    /\ \A o \in Builds \ {b} :
         /\ file'[o] = file[o] /\ at'[o] = at[o] /\ pc'[o] = pc[o] /\ part'[o] = part[o]
         /\ source'[o] = source[o] /\ layer'[o] = layer[o] /\ context'[o] = context[o]
         /\ inputs'[o] = inputs[o] /\ ran'[o] = ran[o]
Around(b) == Frame(b) /\ Grown(nodes, nodes') /\ Grown(images, images')
\* It stays at its point or goes to the one that follows.
Moves(b) ==
    /\ Around(b) /\ file'[b] = file[b] /\ pc'[b] \notin {"idle", "failed"}
    /\ Grown(inputs[b], inputs'[b])
    /\ StaysOrFollows(Stand(b), Stand(b)', file[b], inputs'[b], nodes', images')

\* What the others have stays, and so does what the tag names.
LEMMA OthersKeep ==
    ASSUME IInv, NEW b \in Builds, Frame(b), Held(b)', Store(nodes, images)',
           Grown(nodes, nodes'), Grown(images, images')
    PROVE  \A o \in Builds : Held(o)'
<1> SUFFICES ASSUME NEW o \in Builds PROVE Held(o)'
  OBVIOUS
<1>1. CASE o = b
  BY <1>1
<1>2. CASE o # b
  <2>1. BuildOK(file[o], at[o], pc[o], part[o], source[o], layer[o], context[o], inputs[o], nodes, images)
    BY DEF IInv, Held
  <2>2. Store(nodes, images) /\ Store(nodes', images')
    BY DEF IInv
  <2>3. BuildOK(file[o], at[o], pc[o], part[o], source[o], layer[o], context[o], inputs[o], nodes', images')
    BY <2>1, <2>2, BuildStays
  <2>4. /\ file'[o] = file[o] /\ at'[o] = at[o] /\ pc'[o] = pc[o] /\ part'[o] = part[o]
        /\ source'[o] = source[o] /\ layer'[o] = layer[o] /\ context'[o] = context[o]
        /\ inputs'[o] = inputs[o]
    BY <1>2 DEF Frame
  <2> QED BY <2>3, <2>4 DEF Held
<1> QED BY <1>1, <1>2

LEMMA TagKeeps ==
    ASSUME IInv, NEW b \in Builds, Frame(b), pc[b] # "done", tag' = tag,
           Sequence(images'), Grown(images, images')
    PROVE  TagIsWhole'
<1> SUFFICES ASSUME tag' # 0
             PROVE  \E o \in Builds :
                      /\ pc'[o] = "done"
                      /\ LET m == Meaning(file'[o], inputs'[o], Len(file'[o]))
                         IN images'[tag'] = Flushed(m, m.user)
  BY DEF TagIsWhole
<1>1. PICK o \in Builds :
        /\ pc[o] = "done"
        /\ LET m == Meaning(file[o], inputs[o], Len(file[o])) IN images[tag] = Flushed(m, m.user)
  BY DEF IInv, TagIsWhole
<1>2. o # b /\ file'[o] = file[o] /\ pc'[o] = pc[o] /\ inputs'[o] = inputs[o]
  <2>1. o # b
    BY <1>1
  <2> QED BY <2>1 DEF Frame
<1>3. images'[tag] = images[tag]
  <2>1. Sequence(images) /\ tag \in 0 .. Len(images)
    BY DEF IInv, OutsideOK, Store
  <2>2. tag \in DOMAIN images
    BY <2>1, SequenceLen
  <2> QED BY <2>1, <2>2, GrownIn
<1> QED BY <1>1, <1>2, <1>3

\* A step that records nothing and changes nothing outside.
LEMMA QuietStep ==
    ASSUME IInv, NEW b \in Builds, Frame(b), pc[b] # "done", NoChange,
           BuildOK(file'[b], at'[b], pc'[b], part'[b], source'[b], layer'[b], context'[b],
                   inputs'[b], nodes, images)
    PROVE  IInv'
<1>1. /\ nodes' = nodes /\ images' = images /\ tagged' = tagged /\ gone' = gone /\ tag' = tag
  BY DEF NoChange, outside
<1>2. Held(b)'
  BY <1>1 DEF Held
<1>3. Store(nodes, images) /\ Store(nodes, images)' /\ OutsideOK'
  BY <1>1 DEF IInv, OutsideOK
<1>4. Sequence(images') /\ Grown(nodes, nodes') /\ Grown(images, images')
  BY <1>1, <1>3, SameGrows DEF Store
<1>5. (\A o \in Builds : Held(o)') /\ TagIsWhole'
  BY <1>1, <1>2, <1>3, <1>4, OthersKeep, TagKeeps
<1> QED BY <1>3, <1>5 DEF IInv, Frame

LEMMA QuietMove ==
    ASSUME IInv, NEW b \in Builds, Frame(b), pc[b] # "done", NoChange,
           BuildOK(file'[b], at'[b], pc'[b], part'[b], source'[b], layer'[b], context'[b],
                   inputs'[b], nodes, images),
           file'[b] = file[b], pc'[b] \notin {"idle", "failed"}, Grown(inputs[b], inputs'[b]),
           StaysOrFollows(Stand(b), Stand(b)', file[b], inputs'[b], nodes, images)
    PROVE  IInv' /\ Moves(b)
<1>1. nodes' = nodes /\ images' = images
  BY DEF NoChange, outside
<1>2. Grown(nodes, nodes') /\ Grown(images, images')
  BY <1>1, SameGrows DEF IInv, Store
<1> QED BY <1>1, <1>2, QuietStep DEF Moves, Around

LEMMA GivenGrows ==
    ASSUME IInv, NEW b \in Builds, pc[b] = "ready" \/ pc[b] \in Mid
    PROVE  Grown(inputs[b], inputs[b]) /\ \A x : Grown(inputs[b], Append(inputs[b], x))
<1> DEFINE l == layer[b]
<1>1. BuildOK(file[b], at[b], pc[b], part[b], source[b], l, context[b], inputs[b], nodes, images)
  BY DEF IInv, Held
<1> HIDE DEF l
<1>2. Sequence(inputs[b])
  <2>1. CASE pc[b] = "ready"
    BY <1>1, <2>1, Ready
  <2>2. CASE pc[b] \in Mid
    BY <1>1, <2>2, InMid
  <2> QED BY <2>1, <2>2
<1> QED BY <1>2, SameGrows, AppendGrows

LEMMA NowHeld ==
    ASSUME IInv, NEW b \in Builds
    PROVE  /\ Maps /\ OutsideOK /\ Store(nodes, images)
           /\ BuildOK(file[b], at[b], pc[b], part[b], source[b], layer[b], context[b], inputs[b],
                      nodes, images)
BY DEF IInv, Held

LEMMA SetsStateKeeps ==
    ASSUME IInv, NEW b \in Builds, NEW keyword \in {"ENV", "ARG", "WORKDIR", "USER"},
           SetsState(b, keyword, SetContext(context[b], Directive(b)))
    PROVE  IInv' /\ Moves(b)
<1> DEFINE c == SetContext(context[b], Directive(b))
<1>1. Maps /\ pc[b] = "ready" /\ at[b] <= Len(file[b]) /\ file[b][at[b]].keyword = keyword
  BY DEF SetsState, IsAt, Directive, IInv
<1> HIDE DEF c
<1>2. /\ context' = [context EXCEPT ![b] = c] /\ at' = [at EXCEPT ![b] = @ + 1]
      /\ inputs' = [inputs EXCEPT ![b] = Append(@, <<>>)]
      /\ UNCHANGED <<file, pc, part, source, layer, ran>> /\ NoChange
  BY DEF SetsState, NextDirective, Given, c
<1>3. Frame(b)
  BY <1>1, <1>2 DEF Frame, Maps
<1>4. /\ file'[b] = file[b] /\ at'[b] = at[b] + 1 /\ pc'[b] = "ready" /\ part'[b] = part[b]
      /\ source'[b] = source[b] /\ layer'[b] = layer[b] /\ context'[b] = c
      /\ inputs'[b] = Append(inputs[b], <<>>)
  BY <1>1, <1>2 DEF Maps
<1>5. BuildOK(file[b], at[b], "ready", part[b], source[b], layer[b], context[b], inputs[b], nodes, images)
  BY <1>1, NowHeld
<1>6. BuildOK(file[b], at[b] + 1, "ready", part[b], source[b], layer[b], c, Append(inputs[b], <<>>),
              nodes, images)
  BY <1>1, <1>5, SettingHolds DEF c, Directive
<1>7. StaysOrFollows(Stand(b), Stand(b)', file[b], inputs'[b], nodes, images)
  <2>1. /\ Stand(b) = Standing(at[b], "ready", part[b], source[b], layer[b], context[b])
        /\ Stand(b)' = Standing(at[b] + 1, "ready", part[b], source[b], layer[b], c)
    BY <1>1, <1>4 DEF Stand
  <2> QED BY <1>1, <1>5, <2>1, SettingFollows DEF StaysOrFollows, c, Directive
<1> QED BY <1>1, <1>2, <1>3, <1>4, <1>6, <1>7, GivenGrows, QuietMove

LEMMA SetsKeep ==
    ASSUME IInv, NEW b \in Builds, SetsEnv(b) \/ SetsArg(b) \/ SetsWorkdir(b) \/ SetsUser(b)
    PROVE  IInv' /\ Moves(b)
<1> DEFINE c == SetContext(context[b], Directive(b))
<1>1. CASE SetsEnv(b)
  <2>1. Directive(b).keyword = "ENV"
    BY <1>1 DEF SetsEnv, SetsState, IsAt
  <2>2. SetsState(b, "ENV", c)
    BY <1>1, <2>1 DEF SetsEnv, SetContext
  <2> QED BY <2>2, SetsStateKeeps
<1>2. CASE SetsArg(b)
  <2>1. Directive(b).keyword = "ARG"
    BY <1>2 DEF SetsArg, SetsState, IsAt
  <2>2. SetsState(b, "ARG", c)
    BY <1>2, <2>1 DEF SetsArg, SetContext
  <2> QED BY <2>2, SetsStateKeeps
<1>3. CASE SetsWorkdir(b)
  <2>1. Directive(b).keyword = "WORKDIR"
    BY <1>3 DEF SetsWorkdir, SetsState, IsAt
  <2>2. SetsState(b, "WORKDIR", c)
    BY <1>3, <2>1 DEF SetsWorkdir, SetContext
  <2> QED BY <2>2, SetsStateKeeps
<1>4. CASE SetsUser(b)
  <2>1. Directive(b).keyword = "USER"
    BY <1>4 DEF SetsUser, SetsState, IsAt
  <2>2. SetsState(b, "USER", c)
    BY <1>4, <2>1 DEF SetsUser, SetContext
  <2> QED BY <2>2, SetsStateKeeps
<1> QED BY <1>1, <1>2, <1>3, <1>4

LEMMA BeginKeeps ==
    ASSUME IInv, NEW b \in Builds, Begin(b)
    PROVE  IInv' /\ Around(b)
<1>1. Maps /\ Store(nodes, images) /\ OutsideOK /\ pc[b] = "idle"
  BY DEF Begin, IInv
<1>2. PICK d \in Dockerfiles : file' = [file EXCEPT ![b] = d]
  BY DEF Begin
<1>3. /\ pc' = [pc EXCEPT ![b] = "ready"] /\ at' = [at EXCEPT ![b] = 1]
      /\ UNCHANGED <<outside, nodes, tag, part, source, layer, context, inputs, ran>>
  BY DEF Begin, Goes
<1>4. Frame(b)
  BY <1>1, <1>2, <1>3 DEF Frame, Maps
<1>5. part[b] = 0 /\ layer[b] = NoLayer /\ context[b] = NewContext /\ inputs[b] = <<>>
  BY <1>1, NowHeld DEF BuildOK, Unstarted
<1>6. /\ file'[b] = d /\ at'[b] = 1 /\ pc'[b] = "ready" /\ part'[b] = 0
      /\ source'[b] = source[b] /\ layer'[b] = NoLayer /\ context'[b] = NewContext
      /\ inputs'[b] = <<>>
  BY <1>1, <1>2, <1>3, <1>5 DEF Maps
<1>7. Held(b)'
  <2>1. BuildOK(d, 1, "ready", 0, source[b], NoLayer, NewContext, <<>>, nodes, images)
    BY <1>1, BeginHolds
  <2>2. nodes' = nodes /\ images' = images
    BY <1>3 DEF outside
  <2> QED BY <1>6, <2>1, <2>2 DEF Held
<1>8. /\ nodes' = nodes /\ images' = images /\ tagged' = tagged /\ gone' = gone /\ tag' = tag
  BY <1>3 DEF outside
<1>9. Store(nodes, images)' /\ OutsideOK'
  BY <1>1, <1>8 DEF OutsideOK
<1>10. Sequence(images') /\ Grown(nodes, nodes') /\ Grown(images, images')
  BY <1>1, <1>8, SameGrows DEF Store
<1>11. (\A o \in Builds : Held(o)') /\ TagIsWhole'
  BY <1>1, <1>4, <1>7, <1>8, <1>9, <1>10, OthersKeep, TagKeeps
<1> QED BY <1>4, <1>9, <1>10, <1>11 DEF IInv, Frame, Around

LEMMA StageCopyKeeps ==
    ASSUME IInv, NEW b \in Builds, StageCopy(b)
    PROVE  IInv' /\ Moves(b)
<1> DEFINE x == <<Directive(b).file, version[Directive(b).file]>>
           c == [context[b] EXCEPT !.pending = Append(@, x)]
<1>1. Maps /\ pc[b] = "ready" /\ at[b] <= Len(file[b]) /\ file[b][at[b]].keyword = "COPY"
  BY DEF StageCopy, IsAt, Directive, IInv
<1>2. /\ context' = [context EXCEPT ![b] = c] /\ at' = [at EXCEPT ![b] = @ + 1]
      /\ inputs' = [inputs EXCEPT ![b] = Append(@, x)]
      /\ UNCHANGED <<file, pc, part, source, layer, ran>> /\ NoChange
  BY DEF StageCopy, NextDirective, Given
<1> HIDE DEF x
<1>3. Frame(b)
  BY <1>1, <1>2 DEF Frame, Maps
<1>4. /\ file'[b] = file[b] /\ at'[b] = at[b] + 1 /\ pc'[b] = "ready" /\ part'[b] = part[b]
      /\ source'[b] = source[b] /\ layer'[b] = layer[b] /\ context'[b] = c
      /\ inputs'[b] = Append(inputs[b], x)
  BY <1>1, <1>2 DEF Maps
<1>5. BuildOK(file[b], at[b], "ready", part[b], source[b], layer[b], context[b], inputs[b], nodes, images)
  BY <1>1, NowHeld
<1>6. BuildOK(file[b], at[b] + 1, "ready", part[b], source[b], layer[b], c, Append(inputs[b], x),
              nodes, images)
  BY <1>1, <1>5, CopyHolds
<1>7. StaysOrFollows(Stand(b), Stand(b)', file[b], inputs'[b], nodes, images)
  <2>1. /\ Stand(b) = Standing(at[b], "ready", part[b], source[b], layer[b], context[b])
        /\ Stand(b)' = Standing(at[b] + 1, "ready", part[b], source[b], layer[b], Attaching(context[b], x))
    BY <1>1, <1>4 DEF Stand, Attaching
  <2> QED BY <1>1, <1>4, <1>5, <2>1, CopyFollows DEF StaysOrFollows
<1> HIDE DEF c
<1> QED BY <1>1, <1>2, <1>3, <1>4, <1>6, <1>7, GivenGrows, QuietMove

\* The names of the model and of the invariant for the same things.
LEMMA TipOf ==
    ASSUME NEW b \in Builds
    PROVE  /\ LastImage(b) = ImageIn(context[b].tip, nodes)
           /\ \A c, d : Chain(c, d) = ChainIn(c, d, nodes)
BY DEF LastImage, ImageOf, ImageIn, Chain, ChainIn, StateRepr, PendingRepr

LEMMA RunKeeps ==
    ASSUME IInv, NEW b \in Builds, Run(b)
    PROVE  IInv' /\ Moves(b)
<1> DEFINE d == file[b][at[b]].command
           l == Layer("run", ChainIn(context[b], d, nodes), d, 0)
<1>1. Maps /\ pc[b] = "ready" /\ at[b] <= Len(file[b]) /\ file[b][at[b]].keyword = "RUN"
  BY DEF Run, IsAt, Directive, IInv
<1>2. /\ layer' = [layer EXCEPT ![b] = l] /\ pc' = [pc EXCEPT ![b] = "look"]
      /\ inputs' = [inputs EXCEPT ![b] = Append(@, <<>>)]
      /\ UNCHANGED <<file, at, part, source, context, ran>> /\ NoChange
  BY TipOf DEF Run, Wants, Goes, Given, RunHash, Directive
<1> HIDE DEF l
<1>3. Frame(b)
  BY <1>1, <1>2 DEF Frame, Maps
<1>4. /\ file'[b] = file[b] /\ at'[b] = at[b] /\ pc'[b] = "look" /\ part'[b] = part[b]
      /\ source'[b] = source[b] /\ layer'[b] = l /\ context'[b] = context[b]
      /\ inputs'[b] = Append(inputs[b], <<>>)
  BY <1>1, <1>2 DEF Maps
<1>5. BuildOK(file[b], at[b], "ready", part[b], source[b], layer[b], context[b], inputs[b], nodes, images)
  BY <1>1, NowHeld
<1>6. BuildOK(file[b], at[b], "look", part[b], source[b], l, context[b], Append(inputs[b], <<>>),
              nodes, images)
  BY <1>1, <1>5, RunWanted DEF l
<1>7. StaysOrFollows(Stand(b), Stand(b)', file[b], inputs'[b], nodes, images)
  <2>1. /\ Stand(b) = Standing(at[b], "ready", part[b], source[b], layer[b], context[b])
        /\ Stand(b)' = Standing(at[b], "look", part[b], source[b], l, context[b])
    BY <1>1, <1>4 DEF Stand
  <2>2. l.kind = "run" /\ l.hash = ChainIn(context[b], d, nodes)
    BY DEF l, Layer
  <2> QED BY <1>1, <1>5, <2>1, <2>2, RunFollows DEF StaysOrFollows
<1> QED BY <1>1, <1>2, <1>3, <1>4, <1>6, <1>7, GivenGrows, QuietMove

\* SealStage and Finalize.
LEMMA CloserKeeps ==
    ASSUME IInv, NEW b \in Builds, SealStage(b) \/ Finalize(b)
    PROVE  IInv' /\ Moves(b)
<1> DEFINE l == Layer("run", ChainIn(ActingAs(file[b], at[b], context[b]), Closer, nodes), Closer, 0)
<1>1. Maps /\ pc[b] = "ready" /\ context[b].pending # <<>> /\ Ends(file[b], at[b])
  BY DEF SealStage, Finalize, IsAt, Directive, IInv, MustSeal, MustFlush, Ends
<1>2. ActingAs(file[b], at[b], context[b])
        = IF at[b] > Len(file[b]) THEN context[b] ELSE AsRoot(context[b])
  <2>1. Len(file[b]) \in Nat /\ at[b] \in Nat
    BY <1>1, NowHeld, Ready
  <2>2. at[b] > Len(file[b]) <=> ~(at[b] <= Len(file[b]))
    BY <2>1
  <2> QED BY <1>1, <2>2 DEF ActingAs, Ends
<1>3. /\ layer' = [layer EXCEPT ![b] = l] /\ pc' = [pc EXCEPT ![b] = "look"]
      /\ UNCHANGED <<file, at, part, source, context, inputs, ran>> /\ NoChange
  <2>1. CASE SealStage(b)
    <3>1. ~(at[b] > Len(file[b]))
      <4>1. Len(file[b]) \in Nat /\ at[b] \in Nat /\ at[b] <= Len(file[b])
        BY <1>1, <2>1, NowHeld, Ready DEF SealStage, IsAt
      <4> QED BY <4>1
    <3> QED BY <1>2, <2>1, <3>1, TipOf DEF SealStage, Wants, Goes
  <2>2. CASE Finalize(b)
    <3>1. at[b] > Len(file[b])
      BY <2>2 DEF Finalize
    <3> QED BY <1>2, <2>2, <3>1, TipOf DEF Finalize, Wants, Goes, RunHash
  <2> QED BY <2>1, <2>2
<1> HIDE DEF l
<1>4. Frame(b)
  BY <1>1, <1>3 DEF Frame, Maps
<1>5. /\ file'[b] = file[b] /\ at'[b] = at[b] /\ pc'[b] = "look" /\ part'[b] = part[b]
      /\ source'[b] = source[b] /\ layer'[b] = l /\ context'[b] = context[b]
      /\ inputs'[b] = inputs[b]
  BY <1>1, <1>3 DEF Maps
<1>6. BuildOK(file[b], at[b], "ready", part[b], source[b], layer[b], context[b], inputs[b], nodes, images)
  BY <1>1, NowHeld
<1>7. BuildOK(file[b], at[b], "look", part[b], source[b], l, context[b], inputs[b], nodes, images)
  BY <1>1, <1>6, CloserWanted DEF l
<1>8. StaysOrFollows(Stand(b), Stand(b)', file[b], inputs'[b], nodes, images)
  <2>1. /\ Stand(b) = Standing(at[b], "ready", part[b], source[b], layer[b], context[b])
        /\ Stand(b)' = Standing(at[b], "look", part[b], source[b], l, context[b])
    BY <1>1, <1>5 DEF Stand
  <2>2. l.kind = "run" /\ l.hash = ChainIn(ActingAs(file[b], at[b], context[b]), Closer, nodes)
    BY DEF l, Layer
  <2>3. at[b] <= Len(file[b]) => ImageIn(context[b].tip, nodes) # 0
    <3>1. Len(file[b]) \in Nat /\ at[b] \in Nat
      BY <1>6, Ready
    <3>2. Finalize(b) => at[b] > Len(file[b])
      BY DEF Finalize
    <3>3. SealStage(b) => LastImage(b) # 0
      BY DEF SealStage
    <3> QED BY <3>1, <3>2, <3>3, TipOf
  <2> QED BY <1>1, <1>6, <2>1, <2>2, <2>3, CloserFollows DEF StaysOrFollows
<1> QED BY <1>1, <1>3, <1>4, <1>5, <1>7, <1>8, GivenGrows, QuietMove

\* A reference that can be resolved is resolved to an image that is there.
LEMMA ResolvesTo ==
    ASSUME IInv, NEW stages, NEW ref, Sequence(stages), Resolvable(stages, ref)
    PROVE  IsResolved(stages, ref, Resolved(stages, ref), images)
<1> DEFINE n == LastNamed(stages, ref)
<1>1. CASE n = 0
  <2>1. \A i \in DOMAIN stages : stages[i].name # ref
    <3>1. \/ \A i \in DOMAIN stages : stages[i].name # ref
          \/ n \in 1 .. Len(stages)
      BY LastNamedIsOne
    <3>2. ~(n \in 1 .. Len(stages))
      BY <1>1
    <3> QED BY <3>1, <3>2
  <2>2. ref \in Range(Bases)
    BY <2>1 DEF Resolvable
  <2>3. tagged[ref] \in DOMAIN images
    BY <2>2 DEF IInv, OutsideOK
  <2> QED BY <1>1, <2>3 DEF IsResolved, Resolved
<1>2. CASE n # 0
  BY <1>2 DEF IsResolved, Resolved
<1> QED BY <1>1, <1>2

\* The content of that image tells which one it is.
LEMMA ResolvesFor ==
    ASSUME BasesOK, NEW stages, NEW ref, Sequence(stages), Resolvable(stages, ref),
           NEW i \in DOMAIN images, i = Resolved(stages, ref)
    PROVE  ImageFor(stages, ref, i, images[i], images)
<1> DEFINE n == LastNamed(stages, ref)
<1>1. CASE n = 0
  <2>1. ref \in Range(Bases)
    <3>1. \/ \A k \in DOMAIN stages : stages[k].name # ref
          \/ n \in 1 .. Len(stages)
      BY LastNamedIsOne
    <3> QED BY <1>1, <3>1 DEF Resolvable
  <2>2. i = tagged[ref]
    BY <1>1 DEF Resolved
  <2>3. Len(images[i]) = 1
    BY <2>1, <2>2 DEF BasesOK
  <2> QED BY <1>1, <2>3 DEF ImageFor
<1>2. CASE n # 0
  BY <1>2 DEF ImageFor, Resolved
<1> QED BY <1>1, <1>2

LEMMA FromKeeps ==
    ASSUME IInv, NEW b \in Builds, From(b)
    PROVE  IInv' /\ (BasesOK => Moves(b))
<1> DEFINE f == file[b]
           a == at[b]
           stages == Sealed(b)
           i == Resolved(stages, f[a].ref)
           c == [NewStage(context[b]) EXCEPT !.stages = stages, !.alias = f[a].alias, !.pending = <<>>]
           l == Layer("use", FromHash(i), <<>>, i)
           x == images[i]
<1>1. /\ Maps /\ Store(nodes, images) /\ pc[b] = "ready" /\ a <= Len(f) /\ f[a].keyword = "FROM"
      /\ Resolvable(stages, f[a].ref) /\ (LastImage(b) # 0 => context[b].pending = <<>>)
  BY DEF From, IsAt, Directive, IInv, MustSeal
<1>2. /\ context' = [context EXCEPT ![b] = c] /\ layer' = [layer EXCEPT ![b] = l]
      /\ inputs' = [inputs EXCEPT ![b] = Append(@, x)] /\ pc' = [pc EXCEPT ![b] = "look"]
      /\ UNCHANGED <<file, at, part, source, ran>> /\ NoChange
  BY <1>1 DEF From, Given, Goes, Directive, Maps
<1>3. BuildOK(f, a, "ready", part[b], source[b], layer[b], context[b], inputs[b], nodes, images)
  BY <1>1, NowHeld
<1>4. stages = IF ImageIn(context[b].tip, nodes) = 0 THEN context[b].stages
               ELSE Append(context[b].stages,
                           [name |-> context[b].alias, image |-> ImageIn(context[b].tip, nodes)])
  BY TipOf DEF Sealed
<1>5. context[b].tip # 0 => context[b].pending = <<>>
  <2>1. context[b].tip = 0 <=> ImageIn(context[b].tip, nodes) = 0
    <3>1. context[b].tip \in 0 .. Len(nodes)
      BY <1>3, Ready
    <3> QED BY <1>1, <3>1, HasImage
  <2> QED BY <1>1, <2>1, TipOf
<1>6. Sequence(stages)
  <2>1. Sequence(context[b].stages)
    BY <1>3, Ready DEF AtDirective, Agrees, SameStages
  <2>2. stages = context[b].stages \/ \E e : stages = Append(context[b].stages, e)
    BY <1>4
  <2> HIDE DEF stages
  <2> QED BY <2>1, <2>2, Appended
<1> HIDE DEF stages
<1>7. IsResolved(stages, f[a].ref, i, images)
  BY <1>1, <1>6, ResolvesTo
<1>8. BasesOK /\ i \in DOMAIN images => ImageFor(stages, f[a].ref, i, images[i], images)
  BY <1>1, <1>6, ResolvesFor
<1> HIDE DEF i
<1>9. BuildOK(f, a, "look", part[b], source[b], l, c, Append(inputs[b], x), nodes, images)
  BY <1>1, <1>3, <1>4, <1>5, <1>7, FromWanted
<1>10. l.kind = "use" /\ l.hash = FromHash(i) /\ l.image = i
  BY DEF Layer
<1>11. stages = StagesIn(context[b], nodes) /\ c = StageContext(context[b], f[a], nodes)
  BY <1>4 DEF StagesIn, StageContext
<1> HIDE DEF c, l
<1>12. ASSUME BasesOK
       PROVE  Follows(Standing(a, "ready", part[b], source[b], layer[b], context[b]),
                      Standing(a, "look", part[b], source[b], l, c), f, Append(inputs[b], x), nodes, images)
  <2>1. InLayer(f, a, "look", part[b], source[b], l, c, Append(inputs[b], x), nodes, images)
    <3>1. "look" \in Mid
      BY DEF Mid
    <3> QED BY <1>9, <3>1, InMid
  <2>2. i \in DOMAIN images
    BY <1>10, <2>1 DEF InLayer, Using
  <2>3. ImageFor(StagesIn(context[b], nodes), f[a].ref, i, images[i], images)
    BY <1>8, <1>11, <1>12, <2>2
  <2>4. ImageIn(context[b].tip, nodes) # 0 => context[b].pending = <<>>
    BY <1>1, TipOf
  <2> QED BY <1>1, <1>3, <1>10, <1>11, <2>3, <2>4, FromFollows
<1> HIDE DEF x
<1>13. Frame(b)
  BY <1>1, <1>2 DEF Frame, Maps
<1>14. /\ file'[b] = f /\ at'[b] = a /\ pc'[b] = "look" /\ part'[b] = part[b]
       /\ source'[b] = source[b] /\ layer'[b] = l /\ context'[b] = c
       /\ inputs'[b] = Append(inputs[b], x)
  BY <1>1, <1>2 DEF Maps
<1>15. BasesOK => StaysOrFollows(Stand(b), Stand(b)', file[b], inputs'[b], nodes, images)
  <2>1. /\ Stand(b) = Standing(a, "ready", part[b], source[b], layer[b], context[b])
        /\ Stand(b)' = Standing(a, "look", part[b], source[b], l, c)
    BY <1>1, <1>14 DEF Stand
  <2> QED BY <1>14, <1>12, <2>1 DEF StaysOrFollows
<1>16. IInv'
  BY <1>1, <1>2, <1>9, <1>13, <1>14, QuietStep
<1>17. BasesOK => Moves(b)
  BY <1>1, <1>2, <1>9, <1>13, <1>14, <1>15, GivenGrows, QuietMove
<1> QED BY <1>16, <1>17

LEMMA CopyFromKeeps ==
    ASSUME IInv, NEW b \in Builds, CopyFrom(b)
    PROVE  IInv' /\ (BasesOK => Moves(b))
<1> DEFINE f == file[b]
           a == at[b]
           k == part[b]
           t == source'[b]
           h == inputs'[b]
           path == f[a].paths[k + 1]
           l == Layer("run", ChainIn(context[b], <<"COPY", t, path>>, nodes), Unpacked(images[t], path), 0)
<1>1. /\ Maps /\ Store(nodes, images) /\ pc[b] = "ready" /\ a <= Len(f)
      /\ f[a].keyword = "COPY_FROM" /\ k < Len(f[a].paths)
  BY DEF CopyFrom, IsAt, Directive, IInv
<1>2. BuildOK(f, a, "ready", k, source[b], layer[b], context[b], inputs[b], nodes, images)
  BY <1>1, NowHeld
<1>3. /\ part' = [part EXCEPT ![b] = k + 1] /\ pc' = [pc EXCEPT ![b] = "look"]
      /\ UNCHANGED <<file, at, context, ran>> /\ NoChange
  BY DEF CopyFrom, Goes
<1>4. layer' = [layer EXCEPT ![b] = l]
  <2>1. part'[b] = k + 1
    BY <1>1, <1>3 DEF Maps
  <2> QED BY <2>1, TipOf DEF CopyFrom, Wants, CopyHash, Directive
<1>5. \/ /\ k = 0 /\ Resolvable(context[b].stages, f[a].ref)
         /\ source' = [source EXCEPT ![b] = Resolved(context[b].stages, f[a].ref)]
         /\ inputs' = [inputs EXCEPT ![b] = Append(@, images[t])]
      \/ k # 0 /\ source' = source /\ inputs' = inputs
  BY DEF CopyFrom, Given, Directive
<1>6. IF k = 0 THEN h = Append(inputs[b], images[t]) /\ IsResolved(context[b].stages, f[a].ref, t, images)
      ELSE t = source[b] /\ h = inputs[b]
  <2>1. CASE k = 0
    <3>1. Sequence(context[b].stages)
      BY <1>2, Ready DEF AtDirective, Agrees, SameStages
    <3>2. t = Resolved(context[b].stages, f[a].ref) /\ h = Append(inputs[b], images[t])
      BY <1>1, <1>5, <2>1 DEF Maps
    <3>3. Resolvable(context[b].stages, f[a].ref)
      BY <1>5, <2>1
    <3>4. IsResolved(context[b].stages, f[a].ref, t, images)
      BY <3>1, <3>2, <3>3, ResolvesTo
    <3> QED BY <2>1, <3>2, <3>4
  <2>2. CASE k # 0
    BY <1>5, <2>2
  <2> QED BY <2>1, <2>2
<1>7. BasesOK /\ k = 0 /\ t \in DOMAIN images => ImageFor(context[b].stages, f[a].ref, t, images[t], images)
  <2>1. Sequence(context[b].stages)
    BY <1>2, Ready DEF AtDirective, Agrees, SameStages
  <2>2. k = 0 => t = Resolved(context[b].stages, f[a].ref) /\ Resolvable(context[b].stages, f[a].ref)
    BY <1>1, <1>5 DEF Maps
  <2> HIDE DEF t
  <2> QED BY <2>1, <2>2, ResolvesFor
<1> HIDE DEF t, h
<1>8. BuildOK(f, a, "look", k + 1, t, l, context[b], h, nodes, images)
  BY <1>1, <1>2, <1>6, CopyWanted
<1>9. l.kind = "run" /\ l.hash = ChainIn(context[b], <<"COPY", t, f[a].paths[k + 1]>>, nodes)
  BY DEF Layer
<1>10. ASSUME BasesOK
       PROVE  Follows(Standing(a, "ready", k, source[b], layer[b], context[b]),
                      Standing(a, "look", k + 1, t, l, context[b]), f, h, nodes, images)
  <2>1. t \in DOMAIN images
    <3>1. Sourced(f, a, k + 1, t, h, images) /\ k \in Nat
      <4>1. "look" \in Mid
        BY DEF Mid
      <4> QED BY <1>2, <1>8, <4>1, InMid, Ready
    <3>2. k + 1 > 0
      BY <3>1
    <3> QED BY <3>1, <3>2 DEF Sourced
  <2>2. IF k = 0 THEN h = Append(inputs[b], images[t]) /\ ImageFor(context[b].stages, f[a].ref, t, images[t], images)
        ELSE t = source[b]
    BY <1>6, <1>7, <1>10, <2>1
  <2> HIDE DEF l, k
  <2> QED BY <1>1, <1>2, <1>9, <2>2, UnpackFollows
<1> HIDE DEF l
<1>11. Frame(b)
  BY <1>1, <1>3, <1>4, <1>5 DEF Frame, Maps
<1>12. /\ file'[b] = f /\ at'[b] = a /\ pc'[b] = "look" /\ part'[b] = k + 1
      /\ source'[b] = t /\ layer'[b] = l /\ context'[b] = context[b] /\ inputs'[b] = h
  BY <1>1, <1>3, <1>4 DEF Maps, t, h
<1>13. BasesOK => StaysOrFollows(Stand(b), Stand(b)', file[b], inputs'[b], nodes, images)
  <2>1. /\ Stand(b) = Standing(a, "ready", k, source[b], layer[b], context[b])
        /\ Stand(b)' = Standing(a, "look", k + 1, t, l, context[b])
    BY <1>1, <1>12 DEF Stand
  <2> QED BY <1>12, <1>10, <2>1 DEF StaysOrFollows
<1>14. Grown(inputs[b], h)
  BY <1>1, <1>6, GivenGrows
<1>15. IInv'
  BY <1>1, <1>3, <1>8, <1>11, <1>12, QuietStep
<1>16. BasesOK => Moves(b)
  BY <1>1, <1>3, <1>8, <1>11, <1>12, <1>13, <1>14, QuietMove
<1> QED BY <1>15, <1>16

LEMMA CopyEndsKeeps ==
    ASSUME IInv, NEW b \in Builds, CopyEnds(b)
    PROVE  IInv' /\ Moves(b)
<1>1. /\ Maps /\ pc[b] = "ready" /\ at[b] <= Len(file[b])
      /\ file[b][at[b]].keyword = "COPY_FROM" /\ part[b] = Len(file[b][at[b]].paths)
  BY DEF CopyEnds, IsAt, Directive, IInv
<1>2. /\ part' = [part EXCEPT ![b] = 0] /\ at' = [at EXCEPT ![b] = @ + 1]
      /\ UNCHANGED <<file, pc, source, layer, context, inputs, ran>> /\ NoChange
  BY DEF CopyEnds, NextDirective
<1>3. Frame(b)
  BY <1>1, <1>2 DEF Frame, Maps
<1>4. /\ file'[b] = file[b] /\ at'[b] = at[b] + 1 /\ pc'[b] = "ready" /\ part'[b] = 0
      /\ source'[b] = source[b] /\ layer'[b] = layer[b] /\ context'[b] = context[b]
      /\ inputs'[b] = inputs[b]
  BY <1>1, <1>2 DEF Maps
<1>5. BuildOK(file[b], at[b], "ready", part[b], source[b], layer[b], context[b], inputs[b], nodes, images)
  BY <1>1, NowHeld
<1>6. BuildOK(file[b], at[b] + 1, "ready", 0, source[b], layer[b], context[b], inputs[b], nodes, images)
  BY <1>1, <1>5, CopyEndsHolds
<1>7. StaysOrFollows(Stand(b), Stand(b)', file[b], inputs'[b], nodes, images)
  <2>1. /\ Stand(b) = Standing(at[b], "ready", part[b], source[b], layer[b], context[b])
        /\ Stand(b)' = Standing(at[b] + 1, "ready", 0, source[b], layer[b], context[b])
    BY <1>1, <1>4 DEF Stand
  <2> QED BY <1>1, <1>5, <2>1, CopyEndsFollows DEF StaysOrFollows
<1> QED BY <1>1, <1>2, <1>3, <1>4, <1>6, <1>7, GivenGrows, QuietMove

\* The tag is put on what the whole Dockerfile says.
LEMMA TagsKeeps ==
    ASSUME IInv, NEW b \in Builds, Tags(b)
    PROVE  IInv' /\ Moves(b)
<1>1. /\ Maps /\ Store(nodes, images) /\ OutsideOK /\ pc[b] = "ready" /\ at[b] > Len(file[b])
      /\ context[b].pending = <<>>
  BY DEF Tags, IInv, MustFlush
<1>2. /\ tag' = LastImage(b) /\ pc' = [pc EXCEPT ![b] = "done"]
      /\ UNCHANGED <<outside, nodes, file, at, part, source, layer, context, inputs, ran, repeats>>
  BY DEF Tags, Goes
<1>3. Frame(b)
  BY <1>1, <1>2 DEF Frame, Maps
<1>4. /\ file'[b] = file[b] /\ at'[b] = at[b] /\ pc'[b] = "done" /\ part'[b] = part[b]
      /\ source'[b] = source[b] /\ layer'[b] = layer[b] /\ context'[b] = context[b]
      /\ inputs'[b] = inputs[b]
  BY <1>1, <1>2 DEF Maps
<1>5. /\ nodes' = nodes /\ images' = images /\ tagged' = tagged /\ gone' = gone
  BY <1>2 DEF outside
<1>6. BuildOK(file[b], at[b], "done", part[b], source[b], layer[b], context[b], inputs[b], nodes, images)
  <2>1. BuildOK(file[b], at[b], "ready", part[b], source[b], layer[b], context[b], inputs[b], nodes, images)
    BY <1>1, NowHeld
  <2> QED BY <1>1, <2>1, DoneHolds
<1>7. Held(b)'
  BY <1>4, <1>5, <1>6 DEF Held
<1>8. /\ context[b].tip # 0
      /\ LET m == Meaning(file[b], inputs[b], Len(file[b])) IN Has(context[b], nodes, images) = Flushed(m, m.user)
  BY <1>1, <1>6, DoneHas
<1>9. tag' \in DOMAIN images /\ images[tag'] = Has(context[b], nodes, images)
  <2>1. context[b].tip \in 0 .. Len(nodes)
    BY <1>6 DEF BuildOK
  <2> QED BY <1>1, <1>2, <1>8, <2>1, HasImage, TipOf
<1>10. TagIsWhole'
  <2>1. /\ pc'[b] = "done"
        /\ LET m == Meaning(file'[b], inputs'[b], Len(file'[b])) IN images'[tag'] = Flushed(m, m.user)
    BY <1>4, <1>5, <1>8, <1>9
  <2> QED BY <2>1 DEF TagIsWhole
<1>11. Store(nodes, images)' /\ OutsideOK'
  <2>1. tag' \in 0 .. Len(images)
    BY <1>1, <1>9, SequenceLen DEF Store
  <2> QED BY <1>1, <1>5, <2>1 DEF OutsideOK
<1>12. Grown(nodes, nodes') /\ Grown(images, images')
  BY <1>1, <1>5, SameGrows DEF Store
<1>13. \A o \in Builds : Held(o)'
  BY <1>3, <1>7, <1>11, <1>12, OthersKeep
<1>14. StaysOrFollows(Stand(b), Stand(b)', file[b], inputs'[b], nodes', images')
  <2>1. Stand(b) = Standing(at[b], "ready", part[b], source[b], layer[b], context[b])
    BY <1>1 DEF Stand
  <2>2. Stand(b)' = Standing(at[b], "done", part[b], source[b], layer[b], context[b])
    BY <1>4 DEF Stand
  <2> QED BY <2>1, <2>2, StandingIs DEF StaysOrFollows
<1>15. Moves(b)
  BY <1>1, <1>3, <1>4, <1>12, <1>14, GivenGrows DEF Moves, Around
<1> QED BY <1>3, <1>10, <1>11, <1>13, <1>15 DEF IInv, Frame

-----------------------------------------------------------------------------
(* The steps of a layer.                                                   *)

LEMMA LooksKeeps ==
    ASSUME IInv, NEW b \in Builds, Looks(b)
    PROVE  IInv' /\ Moves(b)
<1>1. /\ Maps /\ Store(nodes, images) /\ pc[b] = "look"
  BY DEF Looks, IInv
<1>2. UNCHANGED <<file, at, part, source, context, inputs, ran>> /\ NoChange
  BY DEF Looks
<1>3. BuildOK(file[b], at[b], "look", part[b], source[b], layer[b], context[b], inputs[b], nodes, images)
  BY <1>1, NowHeld
<1>4. CASE Candidates(b) = {}
  <2>1. pc' = [pc EXCEPT ![b] = "miss"] /\ layer' = layer
    BY <1>4 DEF Looks, Goes
  <2>2. Frame(b)
    BY <1>1, <1>2, <2>1 DEF Frame, Maps
  <2>3. /\ file'[b] = file[b] /\ at'[b] = at[b] /\ pc'[b] = "miss" /\ part'[b] = part[b]
        /\ source'[b] = source[b] /\ layer'[b] = layer[b] /\ context'[b] = context[b]
        /\ inputs'[b] = inputs[b]
    BY <1>1, <1>2, <2>1 DEF Maps
  <2>4. BuildOK(file[b], at[b], "miss", part[b], source[b], layer[b], context[b], inputs[b], nodes, images)
    <3>1. "look" \in Mid /\ "miss" \in {"miss", "running"} /\ ~("miss" = "running")
      BY DEF Mid
    <3> QED BY <1>3, <3>1, LayerGoesOn
  <2>5. Stand(b)' = Stand(b)
    BY <1>1, <2>3 DEF Stand, Standing, Mid
  <2> QED BY <1>1, <1>2, <2>2, <2>3, <2>4, <2>5, GivenGrows, QuietMove DEF StaysOrFollows, Mid
<1>5. CASE Candidates(b) # {}
  <2> DEFINE t == Newest(Candidates(b))
             l == [layer[b] EXCEPT !.found = t]
  <2>1. pc' = [pc EXCEPT ![b] = "check"] /\ layer' = [layer EXCEPT ![b] = l]
    BY <1>5 DEF Looks, Goes
  <2>2. t \in Candidates(b)
    <3>1. Len(nodes) \in Nat /\ DOMAIN nodes = 1 .. Len(nodes)
      BY <1>1, SequenceLen DEF Store
    <3>2. Candidates(b) \subseteq 1 .. Len(nodes)
      BY <3>1 DEF Candidates
    <3> QED BY <1>5, <3>1, <3>2, NewestIsOne
  <2> HIDE DEF t
  <2>3. layer[b].kind \in {"use", "run"}
    <3>1. "look" \in Mid
      BY DEF Mid
    <3> QED BY <1>3, <3>1, InMid
  <2>4. /\ t \in DOMAIN nodes /\ Matches(nodes[t], layer[b].hash) /\ nodes[t].kind = layer[b].kind
        /\ layer[b].kind = "run" => nodes[t].parent = context[b].tip
    BY <2>2, <2>3 DEF Candidates, CacheMatches, Succeeded, Matches
  <2>5. BuildOK(file[b], at[b], "check", part[b], source[b], l, context[b], inputs[b], nodes, images)
    BY <1>1, <1>3, <2>4, Found
  <2>6. l.kind = layer[b].kind /\ l.hash = layer[b].hash
    OBVIOUS
  <2> HIDE DEF l
  <2>7. Frame(b)
    BY <1>1, <1>2, <2>1 DEF Frame, Maps
  <2>8. /\ file'[b] = file[b] /\ at'[b] = at[b] /\ pc'[b] = "check" /\ part'[b] = part[b]
        /\ source'[b] = source[b] /\ layer'[b] = l /\ context'[b] = context[b]
        /\ inputs'[b] = inputs[b]
    BY <1>1, <1>2, <2>1 DEF Maps
  <2>9. Stand(b)' = Stand(b)
    BY <1>1, <2>8, <2>6 DEF Stand, Standing, Mid
  <2> QED BY <1>1, <1>2, <2>5, <2>7, <2>8, <2>9, GivenGrows, QuietMove DEF StaysOrFollows, Mid
<1> QED BY <1>4, <1>5

\* What the layer leaves: the directive that follows, the layer's node as the tip.
LEMMA LayerIsDone ==
    ASSUME IInv, NEW b \in Builds, pc[b] \in Mid, LayerDone(b)
    PROVE  /\ pc' = [pc EXCEPT ![b] = "ready"] /\ layer' = [layer EXCEPT ![b] = NoLayer]
           /\ IF CompletesDirective(b) THEN at' = [at EXCEPT ![b] = @ + 1] ELSE at' = at
           /\ layer[b].kind = "use" /\ at[b] <= Len(file[b]) /\ file[b][at[b]].keyword = "FROM"
                => CompletesDirective(b)
           /\ layer[b].kind = "run" =>
                (CompletesDirective(b) <=> at[b] <= Len(file[b]) /\ file[b][at[b]].keyword = "RUN")
<1>1. pc' = [pc EXCEPT ![b] = "ready"] /\ layer' = [layer EXCEPT ![b] = NoLayer]
  BY DEF LayerDone, Goes
<1>2. IF CompletesDirective(b) THEN at' = [at EXCEPT ![b] = @ + 1] ELSE at' = at
  BY DEF LayerDone, NextDirective
<1> QED BY <1>1, <1>2 DEF CompletesDirective, Directive

LEMMA ChecksKeeps ==
    ASSUME IInv, NEW b \in Builds, Checks(b)
    PROVE  IInv' /\ Moves(b)
<1> DEFINE l == layer[b]
           t == l.found
           c == NewTip(context[b], l, t)
<1>1. Maps /\ Store(nodes, images) /\ pc[b] = "check" /\ pc[b] \in Mid
  BY DEF Checks, IInv, Mid
<1>2. UNCHANGED <<file, part, source, inputs, ran>> /\ NoChange
  BY DEF Checks
<1>3. BuildOK(file[b], at[b], "check", part[b], source[b], l, context[b], inputs[b], nodes, images)
  BY <1>1, NowHeld
<1>4. CASE nodes[t].image \in gone
  <2>1. pc' = [pc EXCEPT ![b] = "miss"] /\ layer' = layer /\ context' = context /\ at' = at
    BY <1>4 DEF Checks, Goes, StillThere
  <2>2. Frame(b)
    BY <1>1, <1>2, <2>1 DEF Frame, Maps
  <2>3. /\ file'[b] = file[b] /\ at'[b] = at[b] /\ pc'[b] = "miss" /\ part'[b] = part[b]
        /\ source'[b] = source[b] /\ layer'[b] = l /\ context'[b] = context[b]
        /\ inputs'[b] = inputs[b]
    BY <1>1, <1>2, <2>1 DEF Maps
  <2>4. BuildOK(file[b], at[b], "miss", part[b], source[b], l, context[b], inputs[b], nodes, images)
    <3>1. "miss" \in {"miss", "running"} /\ ~("miss" = "running")
      OBVIOUS
    <3> QED BY <1>1, <1>3, <3>1, LayerGoesOn
  <2>5. Stand(b)' = Stand(b)
    BY <1>1, <2>3 DEF Stand, Standing, Mid
  <2> QED BY <1>1, <1>2, <2>2, <2>3, <2>4, <2>5, GivenGrows, QuietMove DEF StaysOrFollows, Mid
<1>5. CASE nodes[t].image \notin gone
  <2>1. context' = [context EXCEPT ![b] = c] /\ LayerDone(b)
    BY <1>5 DEF Checks, WithLayer, NewTip, StillThere
  <2>2. /\ pc' = [pc EXCEPT ![b] = "ready"] /\ layer' = [layer EXCEPT ![b] = NoLayer]
        /\ IF CompletesDirective(b) THEN at' = [at EXCEPT ![b] = @ + 1] ELSE at' = at
        /\ l.kind = "use" /\ at[b] <= Len(file[b]) /\ file[b][at[b]].keyword = "FROM"
             => CompletesDirective(b)
        /\ l.kind = "run" =>
             (CompletesDirective(b) <=> at[b] <= Len(file[b]) /\ file[b][at[b]].keyword = "RUN")
    BY <1>1, <2>1, LayerIsDone
  <2>3. /\ InLayer(file[b], at[b], "check", part[b], source[b], l, context[b], inputs[b], nodes, images)
        /\ l.kind \in {"use", "run"}
    BY <1>1, <1>3, InMid
  <2>4. t \in DOMAIN nodes /\ nodes[t].hash = l.hash /\ nodes[t].kind = l.kind
    BY <2>3 DEF InLayer, Matches
  <2> HIDE DEF c
  <2>5. BuildOK(file[b], at'[b], "ready", part[b], source[b], NoLayer, c, inputs[b], nodes, images)
    <3>1. CASE l.kind = "use"
      <4>1. nodes[t].image = l.image
        <5>1. nodes[t].hash = FromHash(nodes[t].image)
          BY <1>1, <2>4, <3>1 DEF Store, NodeOK
        <5>2. l.hash = FromHash(l.image)
          BY <2>3, <3>1 DEF InLayer, Using
        <5>3. \A i, j : FromHash(i) = FromHash(j) => i = j
          BY DEF FromHash
        <5> QED BY <2>4, <5>1, <5>2, <5>3
      <4>2. /\ at[b] <= Len(file[b]) /\ file[b][at[b]].keyword = "FROM"
            /\ BuildOK(file[b], at[b] + 1, "ready", part[b], source[b], NoLayer, c, inputs[b], nodes, images)
        BY <1>1, <1>3, <2>4, <3>1, <4>1, UseDone DEF c
      <4>3. at'[b] = at[b] + 1
        BY <1>1, <2>2, <3>1, <4>2 DEF Maps
      <4> QED BY <4>2, <4>3
    <3>2. CASE l.kind = "run"
      <4>1. /\ ~OfFile(file[b], at[b], part[b])
            /\ images[nodes[t].image] = Append(Has(context[b], nodes, images), Doing(l.hash, images))
        BY <1>1, <1>3, <3>2, FoundDid
      <4>2. BuildOK(file[b], IF at[b] <= Len(file[b]) /\ file[b][at[b]].keyword = "RUN" THEN at[b] + 1 ELSE at[b],
                    "ready", part[b], source[b], NoLayer, c, inputs[b], nodes, images)
        BY <1>1, <1>3, <2>4, <3>2, <4>1, RunDone DEF c
      <4>3. at'[b] = IF at[b] <= Len(file[b]) /\ file[b][at[b]].keyword = "RUN" THEN at[b] + 1 ELSE at[b]
        BY <1>1, <2>2, <3>2 DEF Maps
      <4> QED BY <4>2, <4>3
    <3> QED BY <2>3, <3>1, <3>2
  <2>6. Frame(b)
    BY <1>1, <1>2, <2>1, <2>2 DEF Frame, Maps
  <2>7. /\ file'[b] = file[b] /\ pc'[b] = "ready" /\ part'[b] = part[b]
        /\ source'[b] = source[b] /\ layer'[b] = NoLayer /\ context'[b] = c
        /\ inputs'[b] = inputs[b]
    BY <1>1, <1>2, <2>1, <2>2 DEF Maps
  <2>8. at'[b] = Beyond(file[b], at[b], l.kind)
    BY <1>1, <2>2 DEF Maps, Beyond, CompletesDirective, Directive
  <2>9. Follows(Stand(b), Stand(b)', file[b], inputs'[b], nodes, images)
    <3>1. /\ Stand(b) = Standing(at[b], "check", part[b], source[b], l, context[b])
          /\ Stand(b)' = Standing(at'[b], "ready", part[b], source[b], NoLayer, c)
      BY <1>1, <2>7 DEF Stand
    <3>2. Matches(nodes[t], l.hash) /\ (l.kind = "run" => nodes[t].parent = context[b].tip)
      BY <2>3 DEF InLayer
    <3>3. ~OfFile(file[b], at[b], part[b])
      <4>1. l.kind = "use" => part[b] = 0
        BY <2>3 DEF InLayer, Using
      <4>2. l.kind = "run" => ~OfFile(file[b], at[b], part[b])
        BY <2>3 DEF InLayer
      <4> QED BY <2>3, <4>1, <4>2 DEF OfFile, PathAt
    <3> QED BY <1>1, <1>3, <2>4, <2>8, <3>1, <3>2, <3>3, LayerFollows DEF c
  <2> QED BY <1>1, <1>2, <2>5, <2>6, <2>7, <2>9, GivenGrows, QuietMove DEF StaysOrFollows
<1> QED BY <1>4, <1>5

\* A build whose layer is done, with nodes that may have grown.
LEMMA LayerStep ==
    ASSUME IInv, NEW b \in Builds, pc[b] \in Mid, LayerDone(b), NEW c,
           context' = [context EXCEPT ![b] = c], UNCHANGED <<outside, tag, file, part, source, inputs, ran>>,
           Store(nodes', images), Grown(nodes, nodes'),
           BuildOK(file[b], IF CompletesDirective(b) THEN at[b] + 1 ELSE at[b], "ready", part[b],
                   source[b], NoLayer, c, inputs[b], nodes', images),
           Follows(Stand(b), Standing(IF CompletesDirective(b) THEN at[b] + 1 ELSE at[b], "ready",
                                      part[b], source[b], NoLayer, c), file[b], inputs[b], nodes', images)
    PROVE  IInv' /\ Moves(b)
<1>1. /\ Maps /\ OutsideOK /\ Store(nodes, images)
      /\ images' = images /\ tagged' = tagged /\ gone' = gone /\ tag' = tag
  BY DEF IInv, outside
<1>2. /\ pc' = [pc EXCEPT ![b] = "ready"] /\ layer' = [layer EXCEPT ![b] = NoLayer]
      /\ IF CompletesDirective(b) THEN at' = [at EXCEPT ![b] = @ + 1] ELSE at' = at
  BY LayerIsDone
<1>3. Frame(b)
  BY <1>1, <1>2 DEF Frame, Maps
<1>4. /\ file'[b] = file[b] /\ pc'[b] = "ready" /\ part'[b] = part[b]
      /\ source'[b] = source[b] /\ layer'[b] = NoLayer /\ context'[b] = c
      /\ inputs'[b] = inputs[b] /\ at'[b] = IF CompletesDirective(b) THEN at[b] + 1 ELSE at[b]
  BY <1>1, <1>2 DEF Maps
<1>5. Held(b)'
  BY <1>1, <1>4 DEF Held
<1>6. Store(nodes, images)' /\ OutsideOK'
  BY <1>1 DEF OutsideOK
<1>7. Sequence(images') /\ Grown(images, images') /\ pc[b] # "done"
  BY <1>1, SameGrows DEF Store, Mid
<1>8. (\A o \in Builds : Held(o)') /\ TagIsWhole'
  BY <1>1, <1>3, <1>5, <1>6, <1>7, OthersKeep, TagKeeps
<1>9. StaysOrFollows(Stand(b), Stand(b)', file[b], inputs'[b], nodes', images')
  BY <1>1, <1>4 DEF Stand, StaysOrFollows
<1>10. Moves(b)
  BY <1>3, <1>4, <1>7, <1>9, GivenGrows DEF Moves, Around
<1> QED BY <1>3, <1>6, <1>8, <1>10 DEF IInv, Frame

LEMMA CommitLayerKeeps ==
    ASSUME IInv, NEW b \in Builds, CommitLayer(b)
    PROVE  IInv' /\ Moves(b)
<1> DEFINE l == layer[b]
           M == Append(nodes, Node(0, "use", l.hash, "zero", FALSE, l.image))
           t == Len(nodes) + 1
           c == NewTip(context[b], l, t)
<1>1. Maps /\ Store(nodes, images) /\ pc[b] = "miss" /\ pc[b] \in Mid /\ l.kind = "use"
  BY DEF CommitLayer, IInv, Mid
<1>2. nodes' = M
  BY <1>1 DEF CommitLayer, ParentOf
<1>3. t \in DOMAIN M /\ M[t] = Node(0, "use", l.hash, "zero", FALSE, l.image) /\ Len(M) = t
  <2> DEFINE node == Node(0, "use", l.hash, "zero", FALSE, l.image)
  <2> HIDE DEF node
  <2>1. Sequence(nodes)
    BY <1>1 DEF Store
  <2>2. /\ Len(Append(nodes, node)) = t /\ Append(nodes, node)[t] = node
        /\ Len(nodes) \in Nat /\ DOMAIN Append(nodes, node) = 1 .. t
    BY <2>1, Appended
  <2>3. t \in 1 .. t
    BY <2>2
  <2> QED BY <2>2, <2>3 DEF node
<1>4. /\ LayerDone(b) /\ context' = [context EXCEPT ![b] = c]
      /\ UNCHANGED <<outside, tag, file, part, source, inputs, ran>>
  BY <1>2, <1>3 DEF CommitLayer, WithLayer, NewTip
<1>5. BuildOK(file[b], at[b], "miss", part[b], source[b], l, context[b], inputs[b], nodes, images)
  BY <1>1, NowHeld
<1>6. Store(M, images) /\ Grown(nodes, M)
  BY <1>1, <1>5, UseRecorded
<1>7. M[t].image = l.image
  BY <1>3 DEF Node
<1> HIDE DEF M
<1>8. BuildOK(file[b], at[b], "miss", part[b], source[b], l, context[b], inputs[b], M, images)
  <2>1. Grown(images, images)
    BY <1>1, SameGrows DEF Store
  <2> QED BY <1>1, <1>5, <1>6, <2>1, BuildStays
<1>9. /\ at[b] <= Len(file[b]) /\ file[b][at[b]].keyword = "FROM"
      /\ BuildOK(file[b], at[b] + 1, "ready", part[b], source[b], NoLayer, c, inputs[b], M, images)
  BY <1>1, <1>3, <1>6, <1>7, <1>8, UseDone
<1>10. CompletesDirective(b)
  BY <1>1, <1>4, <1>9, LayerIsDone
<1>11. Follows(Stand(b), Standing(at[b] + 1, "ready", part[b], source[b], NoLayer, c),
               file[b], inputs[b], M, images)
  <2>1. Stand(b) = Standing(at[b], "miss", part[b], source[b], l, context[b])
    BY <1>1 DEF Stand
  <2>2. M[t].kind = "use" /\ M[t].hash = l.hash /\ M[t].exit = "zero"
    BY <1>3 DEF Node
  <2>3. ~OfFile(file[b], at[b], part[b]) /\ Matches(M[t], l.hash)
    BY <1>9, <2>2 DEF OfFile, PathAt, Matches
  <2>4. "miss" \in Mid /\ Beyond(file[b], at[b], l.kind) = at[b] + 1
    BY <1>1, <1>9 DEF Mid, Beyond
  <2>5. t \in DOMAIN M /\ M[t].kind = l.kind /\ (l.kind = "run" => M[t].parent = context[b].tip)
    BY <1>1, <1>3, <2>2
  <2> HIDE DEF t, l
  <2>6. Follows(Standing(at[b], "miss", part[b], source[b], l, context[b]),
                Standing(Beyond(file[b], at[b], l.kind), "ready", part[b], source[b], NoLayer,
                         NewTip(context[b], l, t)), file[b], inputs[b], M, images)
    BY <1>8, <2>3, <2>4, <2>5, LayerFollows
  <2> QED BY <2>1, <2>4, <2>6
<1> HIDE DEF c
<1> QED BY <1>1, <1>2, <1>4, <1>6, <1>9, <1>10, <1>11, LayerStep

LEMMA StageImageFileKeeps ==
    ASSUME IInv, NEW b \in Builds, StageImageFile(b)
    PROVE  IInv' /\ Moves(b)
<1> DEFINE x == <<images[source[b]], file[b][at[b]].paths[part[b]]>>
           c == [context[b] EXCEPT !.pending = Append(@, x)]
<1>1. Maps /\ Store(nodes, images) /\ pc[b] = "miss" /\ pc[b] \in Mid
  BY DEF StageImageFile, IInv, Mid
<1>2. OfFile(file[b], at[b], part[b])
  BY DEF StageImageFile, IsPath, Unpacks, OfFile, PathAt, Directive
<1>3. /\ LayerDone(b) /\ context' = [context EXCEPT ![b] = c]
      /\ UNCHANGED <<outside, nodes, tag, file, part, source, inputs, ran>>
  BY DEF StageImageFile, NoChange, Directive
<1>4. BuildOK(file[b], at[b], "miss", part[b], source[b], layer[b], context[b], inputs[b], nodes, images)
  BY <1>1, NowHeld
<1>5. BuildOK(file[b], at[b], "ready", part[b], source[b], NoLayer, c, inputs[b], nodes, images)
  BY <1>1, <1>2, <1>4, FileAttached
<1>6. ~CompletesDirective(b)
  BY <1>2 DEF CompletesDirective, OfFile, PathAt, Directive
<1>7. Follows(Stand(b), Standing(at[b], "ready", part[b], source[b], NoLayer, c),
              file[b], inputs[b], nodes, images)
  <2>1. Stand(b) = Standing(at[b], "miss", part[b], source[b], layer[b], context[b])
    BY <1>1 DEF Stand
  <2>2. c = Attaching(context[b], x)
    BY DEF Attaching
  <2> HIDE DEF c
  <2> QED BY <1>1, <1>2, <1>4, <2>1, <2>2, FileFollows
<1> HIDE DEF c
<1>8. Grown(nodes, nodes') /\ Store(nodes', images) /\ nodes' = nodes
  BY <1>1, <1>3, SameGrows DEF Store
<1> QED BY <1>1, <1>3, <1>5, <1>6, <1>8, <1>7, LayerStep

\* An upload leaves every build where it stands.
LEMMA ExportsKeeps ==
    ASSUME IInv, NEW b \in Builds, Exports(b)
    PROVE  IInv' /\ Moves(b)
<1>1. /\ UNCHANGED <<outside, nodes, tag, progress, context, inputs, ran>>
      /\ pc[b] = "miss" /\ pc[b] \in Mid
  BY DEF Exports, Mid
<1>2. /\ tagged' = tagged /\ images' = images /\ gone' = gone /\ nodes' = nodes /\ tag' = tag
      /\ file' = file /\ at' = at /\ pc' = pc /\ part' = part /\ source' = source /\ layer' = layer
      /\ context' = context /\ inputs' = inputs /\ ran' = ran
  BY <1>1 DEF outside, progress
<1>3. IInv'
  BY <1>2 DEF IInv, Maps, OutsideOK, Held, TagIsWhole
<1>4. Frame(b) /\ Stand(b)' = Stand(b)
  BY <1>2, <1>3 DEF Frame, IInv, Stand
<1>5. Grown(nodes, nodes') /\ Grown(images, images') /\ Grown(inputs[b], inputs'[b])
  BY <1>1, <1>2, SameGrows, GivenGrows DEF IInv, Store
<1> QED BY <1>1, <1>2, <1>3, <1>4, <1>5 DEF Moves, Around, StaysOrFollows

LEMMA SpawnsKeeps ==
    ASSUME IInv, NEW b \in Builds, Spawns(b)
    PROVE  IInv' /\ Moves(b)
<1>1. Maps /\ pc[b] = "miss" /\ "miss" \in Mid /\ layer[b].kind = "run"
  BY DEF Spawns, IInv, Mid
<1>2. /\ ran' = [ran EXCEPT ![b] = @ + 1] /\ pc' = [pc EXCEPT ![b] = "running"]
      /\ UNCHANGED <<file, at, part, source, layer, context, inputs>> /\ NoChange
  BY DEF Spawns, Goes
<1>3. Frame(b)
  BY <1>1, <1>2 DEF Frame, Maps
<1>4. /\ file'[b] = file[b] /\ at'[b] = at[b] /\ pc'[b] = "running" /\ part'[b] = part[b]
      /\ source'[b] = source[b] /\ layer'[b] = layer[b] /\ context'[b] = context[b]
      /\ inputs'[b] = inputs[b]
  BY <1>1, <1>2 DEF Maps
<1>5. BuildOK(file[b], at[b], "miss", part[b], source[b], layer[b], context[b], inputs[b], nodes, images)
  BY <1>1, NowHeld
<1>6. ~OfFile(file[b], at[b], part[b])
  BY DEF Spawns, IsPath, Unpacks, OfFile, PathAt, Directive
<1>7. BuildOK(file[b], at[b], "running", part[b], source[b], layer[b], context[b], inputs[b], nodes, images)
  BY <1>1, <1>5, <1>6, LayerGoesOn
<1>8. Stand(b)' = Stand(b)
  BY <1>1, <1>4 DEF Stand, Standing, Mid
<1> QED BY <1>1, <1>2, <1>3, <1>4, <1>7, <1>8, GivenGrows, QuietMove DEF StaysOrFollows, Mid

LEMMA OperationEndsKeeps ==
    ASSUME IInv, NEW b \in Builds, OperationEnds(b)
    PROVE  IInv' /\ Moves(b)
<1> DEFINE l == layer[b]
           i == Len(images) + 1
<1>1. Maps /\ OutsideOK /\ Store(nodes, images) /\ pc[b] = "running" /\ pc[b] \in Mid
  BY DEF OperationEnds, IInv, Mid
<1>2. BuildOK(file[b], at[b], "running", part[b], source[b], l, context[b], inputs[b], nodes, images)
  BY <1>1, NowHeld
<1>3. /\ context[b].tip \in 0 .. Len(nodes) /\ l.kind = "run"
      /\ Running(file[b], at[b], part[b], source[b], l, context[b], inputs[b], nodes, images)
      /\ ~OfFile(file[b], at[b], part[b]) /\ file[b] \in Dockerfiles /\ at[b] \in 1 .. Len(file[b]) + 1
      /\ part[b] \in Nat /\ DOMAIN context[b] = ContextFields
      /\ Sourced(file[b], at[b], part[b], source[b], inputs[b], images)
  <2>1. InLayer(file[b], at[b], "running", part[b], source[b], l, context[b], inputs[b], nodes, images)
    BY <1>1, <1>2, InMid
  <2>2. l.kind = "run" /\ ~OfFile(file[b], at[b], part[b])
        /\ Running(file[b], at[b], part[b], source[b], l, context[b], inputs[b], nodes, images)
    BY <2>1 DEF InLayer
  <2>3. "running" \in Mid
    BY DEF Mid
  <2> QED BY <1>2, <2>2, <2>3, InMid
<1>4. Unpacks(b) <=> Unpacking(file[b], at[b], part[b])
  BY DEF Unpacks, IsPath, Unpacking, PathAt, Directive
<1>5. images[LastImage(b)] = Has(context[b], nodes, images) /\ Requested(b) = Doing(l.hash, images)
  <2>1. context[b].tip # 0
    BY <1>3 DEF Running
  <2>2. images[LastImage(b)] = Has(context[b], nodes, images)
    BY <1>1, <1>3, <2>1, HasImage, TipOf
  <2>3. Doing(l.hash, images) =
          IF Unpacking(file[b], at[b], part[b]) THEN Did(l.command, NoSettings, context[b].pending)
          ELSE Did(l.command, Settings(ActingAs(file[b], at[b], context[b])), context[b].pending)
    <3>1. "running" \in Mid /\ "running" \notin {"look", "miss"}
      BY DEF Mid
    <3> QED BY <1>2, <1>3, <3>1, RequestIsDoing
  <2>4. Requested(b) = Doing(l.hash, images)
    BY <1>4, <2>3 DEF Requested, ActingAs, Directive
  <2> QED BY <2>2, <2>4
<1>6. PICK exit \in IF Unpacking(file[b], at[b], part[b]) THEN {"signal"} ELSE {"zero", "nonzero"} :
        /\ layer' = [layer EXCEPT ![b].exit = exit, ![b].image = i]
        /\ images' = Append(images, Append(images[LastImage(b)], Effect(exit, Requested(b))))
  BY <1>4 DEF OperationEnds
<1> DEFINE x == Append(Has(context[b], nodes, images), Effect(exit, Doing(l.hash, images)))
           J == Append(images, x)
           r == [l EXCEPT !.exit = exit, !.image = i]
<1>7. layer' = [layer EXCEPT ![b] = r]
  BY <1>1, <1>6 DEF Maps
<1>8. /\ images' = J /\ pc' = [pc EXCEPT ![b] = "ended"]
      /\ UNCHANGED <<version, tagged, gone, changes, nodes, tag, file, at, part, source, context, inputs, ran, repeats>>
  BY <1>5, <1>6 DEF OperationEnds, Goes
<1>9. Sequence(x) /\ x # <<>>
  BY <1>1, <1>3, HasImage, Appended
<1>10. Store(nodes, J) /\ Grown(images, J)
  BY <1>1, <1>9, StoreImage
<1>11. i \in DOMAIN J /\ J[i] = x /\ Sequence(J) /\ Len(J) = Len(images) + 1 /\ Len(images) \in Nat
       /\ DOMAIN images = 1 .. Len(images) /\ DOMAIN J = 1 .. Len(J)
  <2>1. Sequence(images)
    BY <1>1 DEF Store
  <2> HIDE DEF x
  <2> QED BY <2>1, Appended
<1> HIDE DEF J
<1>12. BuildOK(file[b], at[b], "running", part[b], source[b], l, context[b], inputs[b], nodes, J)
  <2>1. Grown(nodes, nodes)
    BY <1>1, SameGrows DEF Store
  <2> QED BY <1>1, <1>2, <1>10, <2>1, BuildStays
<1>13. J[i] = Append(Has(context[b], nodes, J), Effect(exit, Doing(l.hash, J)))
  <2>1. Grown(nodes, nodes)
    BY <1>1, SameGrows DEF Store
  <2>2. Has(context[b], nodes, J) = Has(context[b], nodes, images)
    BY <1>1, <1>3, <1>10, <2>1, HasStays
  <2>3. HashSays(file[b], at[b], part[b], source[b], l.hash, context[b], nodes, images)
    BY <1>3, RunningHash
  <2>4. Doing(l.hash, J) = Doing(l.hash, images)
    BY <1>1, <1>10, <1>11, <2>3, DoingStays DEF HashSays, Store
  <2> QED BY <1>11, <2>2, <2>4
<1>14. BuildOK(file[b], at[b], "ended", part[b], source[b], r, context[b], inputs[b], nodes, J)
  BY <1>6, <1>11, <1>12, <1>13, RunEnds
<1>15. r.kind = l.kind /\ r.hash = l.hash
  OBVIOUS
<1> HIDE DEF r
<1>16. Frame(b)
  BY <1>1, <1>7, <1>8 DEF Frame, Maps
<1>17. /\ file'[b] = file[b] /\ at'[b] = at[b] /\ pc'[b] = "ended" /\ part'[b] = part[b]
       /\ source'[b] = source[b] /\ layer'[b] = r /\ context'[b] = context[b]
       /\ inputs'[b] = inputs[b]
  BY <1>1, <1>7, <1>8 DEF Maps
<1>18. Held(b)' /\ Store(nodes, images)'
  BY <1>8, <1>10, <1>14, <1>17 DEF Held
<1>19. OutsideOK'
  BY <1>1, <1>8, <1>11 DEF OutsideOK
<1>20. Grown(nodes, nodes') /\ Grown(images, images') /\ Sequence(images')
  BY <1>1, <1>8, <1>10, <1>11, SameGrows DEF Store
<1>21. (\A o \in Builds : Held(o)') /\ TagIsWhole'
  BY <1>1, <1>8, <1>16, <1>18, <1>20, OthersKeep, TagKeeps
<1>22. Stand(b)' = Stand(b)
  BY <1>1, <1>17, <1>15 DEF Stand, Standing, Mid
<1>23. Moves(b)
  BY <1>1, <1>16, <1>17, <1>20, <1>22, GivenGrows DEF Moves, Around, StaysOrFollows
<1> QED BY <1>16, <1>18, <1>19, <1>21, <1>23 DEF IInv, Frame

\* A build that fails drops what it has; what was recorded stays.
LEMMA DropsHolds ==
    ASSUME Maps, Store(nodes', images'), NEW b \in Builds, Drops(b)
    PROVE  Frame(b) /\ Held(b)'
<1>1. /\ pc' = [pc EXCEPT ![b] = "failed"] /\ file' = [file EXCEPT ![b] = <<>>]
      /\ at' = [at EXCEPT ![b] = 0] /\ part' = [part EXCEPT ![b] = 0]
      /\ source' = [source EXCEPT ![b] = 0] /\ layer' = [layer EXCEPT ![b] = NoLayer]
      /\ context' = [context EXCEPT ![b] = NewContext] /\ inputs' = [inputs EXCEPT ![b] = <<>>]
      /\ ran' = [ran EXCEPT ![b] = 0]
  BY DEF Drops, Goes
<1>2. Frame(b)
  BY <1>1 DEF Frame, Maps
<1>3. /\ pc'[b] = "failed" /\ part'[b] = 0 /\ layer'[b] = NoLayer /\ context'[b] = NewContext
      /\ inputs'[b] = <<>>
  BY <1>1 DEF Maps
<1>4. "failed" \in {"idle", "failed"}
  OBVIOUS
<1>5. BuildOK(file'[b], at'[b], "failed", 0, source'[b], NoLayer, NewContext, <<>>, nodes', images')
  BY <1>4, FailedHolds
<1> QED BY <1>2, <1>3, <1>5 DEF Held

LEMMA FailsKeeps ==
    ASSUME IInv, NEW b \in Builds, Fails(b)
    PROVE  IInv' /\ Drops(b) /\ Around(b)
<1>1. Maps /\ Store(nodes, images) /\ pc[b] # "done" /\ Drops(b) /\ NoChange
  BY DEF Fails, IInv
<1>2. nodes' = nodes /\ images' = images
  BY <1>1 DEF NoChange, outside
<1>3. Frame(b) /\ Held(b)'
  BY <1>1, <1>2, DropsHolds
<1>4. Around(b)
  BY <1>1, <1>2, <1>3, SameGrows DEF Around, Store
<1> QED BY <1>1, <1>2, <1>3, <1>4, QuietStep DEF Held

\* A node is recorded before it is known that the RUN has failed.
LEMMA CommitResultKeeps ==
    ASSUME IInv, NEW b \in Builds, CommitResult(b)
    PROVE  IInv' /\ (Moves(b) \/ (Drops(b) /\ Around(b)))
<1> DEFINE l == layer[b]
           complete == CopyComplete(b)
           M == Append(nodes, Node(context[b].tip, "run", l.hash, l.exit, complete, l.image))
           t == Len(nodes) + 1
           c == NewTip(context[b], l, t)
<1>1. Maps /\ OutsideOK /\ Store(nodes, images) /\ pc[b] = "ended" /\ pc[b] \in Mid
  BY DEF CommitResult, IInv, Mid
<1>2. BuildOK(file[b], at[b], "ended", part[b], source[b], l, context[b], inputs[b], nodes, images)
  BY <1>1, NowHeld
<1>3. complete \in BOOLEAN
  BY DEF CopyComplete, Unpacks, IsPath
<1>4. l.kind = "run" /\ ~OfFile(file[b], at[b], part[b]) /\ Store(M, images) /\ Grown(nodes, M)
  <2>1. complete => Unpacking(file[b], at[b], part[b])
    BY DEF CopyComplete, Unpacks, IsPath, Unpacking, PathAt, Directive
  <2> HIDE DEF complete
  <2> QED BY <1>1, <1>2, <1>3, <2>1, RunRecorded
<1>5. nodes' = M
  BY <1>4 DEF CommitResult, ParentOf
<1>6. t \in DOMAIN M /\ M[t] = Node(context[b].tip, "run", l.hash, l.exit, complete, l.image) /\ Len(M) = t
  <2> DEFINE node == Node(context[b].tip, "run", l.hash, l.exit, complete, l.image)
  <2> HIDE DEF node
  <2>1. Sequence(nodes)
    BY <1>1 DEF Store
  <2>2. /\ Len(Append(nodes, node)) = t /\ Append(nodes, node)[t] = node
        /\ Len(nodes) \in Nat /\ DOMAIN Append(nodes, node) = 1 .. t
    BY <2>1, Appended
  <2>3. t \in 1 .. t
    BY <2>2
  <2> QED BY <2>2, <2>3 DEF node
<1>7. M[t].image = l.image
  BY <1>6 DEF Node
<1> HIDE DEF M
<1>8. CASE l.exit = "nonzero"
  <2>1. Drops(b) /\ UNCHANGED <<outside, tag, repeats>>
    BY <1>8 DEF CommitResult
  <2>2. images' = images /\ tagged' = tagged /\ gone' = gone /\ tag' = tag
    BY <2>1 DEF outside
  <2>3. Store(nodes', images')
    BY <1>4, <1>5, <2>2
  <2>4. Frame(b) /\ Held(b)'
    BY <1>1, <2>1, <2>3, DropsHolds
  <2>5. /\ Grown(nodes, nodes') /\ Grown(images, images') /\ Sequence(images') /\ pc[b] # "done"
        /\ OutsideOK'
    BY <1>1, <1>4, <1>5, <2>2, SameGrows DEF Store, OutsideOK
  <2>6. (\A o \in Builds : Held(o)') /\ TagIsWhole'
    BY <2>2, <2>3, <2>4, <2>5, OthersKeep, TagKeeps
  <2> QED BY <2>1, <2>3, <2>4, <2>5, <2>6 DEF IInv, Frame, Around
<1>9. CASE l.exit # "nonzero"
  <2>1. /\ LayerDone(b) /\ context' = [context EXCEPT ![b] = c]
        /\ UNCHANGED <<outside, tag, file, part, source, inputs, ran>>
    BY <1>5, <1>6, <1>9 DEF CommitResult, WithLayer, NewTip
  <2>2. BuildOK(file[b], at[b], "ended", part[b], source[b], l, context[b], inputs[b], M, images)
    <3>1. Grown(images, images)
      BY <1>1, SameGrows DEF Store
    <3> QED BY <1>1, <1>2, <1>4, <3>1, BuildStays
  <2>3. images[M[t].image] = Append(Has(context[b], M, images), Doing(l.hash, images))
    <3>1. InLayer(file[b], at[b], "ended", part[b], source[b], l, context[b], inputs[b], M, images)
      <4>1. "ended" \in Mid
        BY DEF Mid
      <4> QED BY <2>2, <4>1, InMid
    <3> QED BY <1>7, <1>9, <3>1 DEF InLayer, Effect
  <2>4. BuildOK(file[b], IF at[b] <= Len(file[b]) /\ file[b][at[b]].keyword = "RUN" THEN at[b] + 1 ELSE at[b],
                "ready", part[b], source[b], NoLayer, c, inputs[b], M, images)
    <3>1. "ended" \in Mid
      BY DEF Mid
    <3> QED BY <1>4, <1>6, <2>2, <2>3, <3>1, RunDone
  <2>5. CompletesDirective(b) <=> at[b] <= Len(file[b]) /\ file[b][at[b]].keyword = "RUN"
    BY <1>1, <1>4, <2>1, LayerIsDone
  <2>6. Matches(M[t], l.hash) /\ M[t].kind = "run" /\ M[t].parent = context[b].tip
    <3>1. InLayer(file[b], at[b], "ended", part[b], source[b], l, context[b], inputs[b], M, images)
      <4>1. "ended" \in Mid
        BY DEF Mid
      <4> QED BY <2>2, <4>1, InMid
    <3>2. l.exit = "zero" \/ Unpacking(file[b], at[b], part[b])
      BY <1>9, <3>1 DEF InLayer
    <3>3. Unpacking(file[b], at[b], part[b]) => complete
      BY DEF CopyComplete, Unpacks, IsPath, Unpacking, PathAt, Directive
    <3> HIDE DEF complete
    <3> QED BY <1>6, <3>2, <3>3 DEF Matches, Node
  <2>7. Follows(Stand(b), Standing(IF CompletesDirective(b) THEN at[b] + 1 ELSE at[b], "ready",
                                   part[b], source[b], NoLayer, c), file[b], inputs[b], M, images)
    <3>1. Stand(b) = Standing(at[b], "ended", part[b], source[b], l, context[b])
      BY <1>1 DEF Stand
    <3>2. "ended" \in Mid
      BY DEF Mid
    <3>3. Beyond(file[b], at[b], l.kind) = IF CompletesDirective(b) THEN at[b] + 1 ELSE at[b]
      BY DEF Beyond, CompletesDirective, Directive
    <3>4. /\ ~OfFile(file[b], at[b], part[b]) /\ t \in DOMAIN M
          /\ M[t].kind = l.kind /\ (l.kind = "run" => M[t].parent = context[b].tip)
      BY <1>4, <1>6, <2>6
    <3> HIDE DEF t, l
    <3>5. Follows(Standing(at[b], "ended", part[b], source[b], l, context[b]),
                  Standing(Beyond(file[b], at[b], l.kind), "ready", part[b], source[b], NoLayer,
                           NewTip(context[b], l, t)), file[b], inputs[b], M, images)
      BY <2>2, <2>6, <3>2, <3>4, LayerFollows
    <3> QED BY <3>1, <3>3, <3>5
  <2> HIDE DEF c
  <2> QED BY <1>1, <1>4, <1>5, <2>1, <2>4, <2>5, <2>7, LayerStep
<1> QED BY <1>8, <1>9

LEMMA BuildSteps ==
    ASSUME IInv, NEW b \in Builds, Step(b)
    PROVE  /\ IInv'
           /\ BasesOK => \/ Moves(b)
                         \/ (Begin(b) \/ Drops(b)) /\ Around(b)
BY BeginKeeps, SetsKeep, StageCopyKeeps, RunKeeps, CloserKeeps, FromKeeps, CopyFromKeeps,
   CopyEndsKeeps, TagsKeeps, LooksKeeps, ChecksKeeps, CommitLayerKeeps, ExportsKeeps,
   StageImageFileKeeps, SpawnsKeeps, OperationEndsKeeps, CommitResultKeeps, FailsKeeps DEF Step

-----------------------------------------------------------------------------
(* Steps outside, and the theorems.                                        *)

\* Nothing a build has depends on what is edited, pushed or lost later.
LEMMA OutsideKeeps ==
    ASSUME IInv, Store(nodes, images'), Grown(images, images'),
           UNCHANGED <<nodes, tag, progress, context, inputs, ran>>, OutsideOK'
    PROVE  IInv'
<1>1. /\ nodes' = nodes /\ tag' = tag /\ file' = file /\ at' = at /\ pc' = pc /\ part' = part
      /\ source' = source /\ layer' = layer /\ context' = context /\ inputs' = inputs /\ ran' = ran
  BY DEF progress
<1>2. Maps' /\ Store(nodes, images)' /\ Store(nodes, images)
  BY <1>1 DEF IInv, Maps
<1>3. ASSUME NEW b \in Builds PROVE Held(b)'
  <2>1. Grown(nodes, nodes)
    BY <1>2, SameGrows DEF Store
  <2>2. BuildOK(file[b], at[b], pc[b], part[b], source[b], layer[b], context[b], inputs[b], nodes, images')
    BY <1>2, <2>1, NowHeld, BuildStays
  <2> QED BY <1>1, <2>2 DEF Held
<1>4. TagIsWhole'
  <2>1. tag \in 0 .. Len(images) /\ Sequence(images) /\ Sequence(images')
    BY DEF IInv, OutsideOK, Store
  <2>2. tag # 0 => images'[tag] = images[tag]
    <3>1. tag # 0 => tag \in DOMAIN images
      BY <2>1, SequenceLen
    <3> QED BY <2>1, <3>1, GrownIn
  <2> QED BY <1>1, <2>2 DEF IInv, TagIsWhole
<1> QED BY <1>2, <1>3, <1>4 DEF IInv

LEMMA EditKeeps ==
    ASSUME IInv, NEW f \in Files, Edit(f)
    PROVE  IInv'
<1>1. /\ tagged' = tagged /\ images' = images /\ gone' = gone /\ tag' = tag
      /\ UNCHANGED <<nodes, tag, progress, context, inputs, ran>>
  BY DEF Edit
<1>2. Store(nodes, images) /\ OutsideOK
  BY DEF IInv
<1>3. Store(nodes, images') /\ Grown(images, images') /\ OutsideOK'
  BY <1>1, <1>2, SameGrows DEF Store, OutsideOK
<1> QED BY <1>1, <1>3, OutsideKeeps

LEMMA PushKeeps ==
    ASSUME IInv, NEW r \in Range(Bases), Push(r)
    PROVE  IInv'
<1> DEFINE x == <<<<r, changes'>>>>
<1>1. /\ images' = Append(images, x) /\ tagged' = [tagged EXCEPT ![r] = Len(images')]
      /\ gone' = gone /\ tag' = tag /\ UNCHANGED <<nodes, tag, progress, context, inputs, ran>>
  BY DEF Push
<1>2. Sequence(x) /\ x # <<>>
  <2>1. x = Append(<<>>, <<r, changes'>>)
    OBVIOUS
  <2> HIDE DEF x
  <2> QED BY <2>1, EmptySequence, Appended
<1> HIDE DEF x
<1>3. Store(nodes, images) /\ OutsideOK
  BY DEF IInv
<1>4. Store(nodes, images') /\ Grown(images, images')
  BY <1>1, <1>2, <1>3, StoreImage
<1>5. OutsideOK'
  <2>1. /\ Len(images') = Len(images) + 1 /\ Len(images) \in Nat
        /\ DOMAIN images = 1 .. Len(images) /\ DOMAIN images' = 1 .. Len(images')
    BY <1>1, <1>3, Appended DEF Store
  <2>2. DOMAIN images \subseteq DOMAIN images' /\ Len(images') \in DOMAIN images'
        /\ 0 .. Len(images) \subseteq 0 .. Len(images')
    BY <2>1
  <2> QED BY <1>1, <1>3, <2>2 DEF OutsideOK
<1> QED BY <1>1, <1>4, <1>5, OutsideKeeps

LEMMA LoseKeeps ==
    ASSUME IInv, NEW i \in DOMAIN images, Lose(i)
    PROVE  IInv'
<1>1. /\ tagged' = tagged /\ images' = images /\ gone' = gone \cup {i} /\ tag' = tag
      /\ UNCHANGED <<nodes, tag, progress, context, inputs, ran>>
  BY DEF Lose
<1>2. Store(nodes, images) /\ OutsideOK
  BY DEF IInv
<1>3. Store(nodes, images') /\ Grown(images, images') /\ OutsideOK'
  BY <1>1, <1>2, SameGrows DEF Store, OutsideOK
<1> QED BY <1>1, <1>3, OutsideKeeps

LEMMA Initially == Init => IInv
<1> SUFFICES ASSUME Init PROVE IInv
  OBVIOUS
<1>1. Sequence(Bases) /\ DOMAIN Bases = 1 .. Len(Bases) /\ Len(Bases) \in Nat
  BY DockerAssumption, SequenceLen
<1>2. /\ images = [i \in DOMAIN Bases |-> <<<<Bases[i], 0>>>>]
      /\ tagged = [r \in Range(Bases) |-> CHOOSE i \in DOMAIN Bases : Bases[i] = r]
      /\ nodes = <<>> /\ tag = 0 /\ gone = {}
  BY DEF Init
<1>3. /\ \A i \in DOMAIN images : Sequence(images[i]) /\ images[i] # <<>>
      /\ DOMAIN images = DOMAIN Bases
  <2>1. ASSUME NEW e PROVE Sequence(<<e>>) /\ <<e>> # <<>>
    <3> DEFINE x == <<e>>
    <3>1. x = Append(<<>>, e)
      OBVIOUS
    <3> HIDE DEF x
    <3>2. Sequence(x) /\ x # <<>>
      BY <3>1, EmptySequence, Appended
    <3> QED BY <3>2 DEF x
  <2> QED BY <1>2, <2>1
<1>4. Sequence(images) /\ Len(images) = Len(Bases)
  <2>1. images \in [1 .. Len(Bases) -> Range(images)]
    BY <1>1, <1>2, <1>3 DEF Range
  <2>2. images \in Seq(Range(images))
    BY <1>1, <2>1
  <2> QED BY <1>1, <1>3, <2>2, SequenceLen DEF Sequence
<1>5. Store(nodes, images)
  <2>1. DOMAIN nodes = {}
    BY <1>2
  <2> QED BY <1>2, <1>3, <1>4, <2>1, EmptySequence DEF Store
<1>6. Maps
  BY DEF Init, Maps
<1>7. OutsideOK
  <2>1. ASSUME NEW r \in Range(Bases) PROVE tagged[r] \in DOMAIN images
    <3>1. \E i \in DOMAIN Bases : Bases[i] = r
      BY DEF Range
    <3> QED BY <1>2, <1>3, <3>1
  <2> QED BY <1>1, <1>2, <1>4, <2>1 DEF OutsideOK
<1>8. ASSUME NEW b \in Builds PROVE Held(b)
  <2>1. /\ pc[b] = "idle" /\ part[b] = 0 /\ layer[b] = NoLayer /\ context[b] = NewContext
        /\ inputs[b] = <<>>
    BY DEF Init
  <2>2. "idle" \in {"idle", "failed"}
    OBVIOUS
  <2>3. BuildOK(file[b], at[b], "idle", 0, source[b], NoLayer, NewContext, <<>>, nodes, images)
    BY <1>5, <2>2, FailedHolds
  <2> QED BY <2>1, <2>3 DEF Held
<1>9. TagIsWhole
  BY <1>2 DEF TagIsWhole
<1> QED BY <1>5, <1>6, <1>7, <1>8, <1>9 DEF IInv

LEMMA Steps ==
    ASSUME IInv, [Next]_vars
    PROVE  IInv'
<1>1. CASE Next
  <2>1. Ended => UNCHANGED vars
    BY DEF Ended
  <2>2. CASE ~Ended
    BY <1>1, <2>2, BuildSteps, EditKeeps, PushKeeps, LoseKeeps DEF Next
  <2>3. CASE UNCHANGED vars
    <3>1. UNCHANGED <<nodes, tag, progress, context, inputs, ran, tagged, images, gone>>
      BY <2>3 DEF vars, outside
    <3>2. Store(nodes, images) /\ OutsideOK
      BY DEF IInv
    <3>3. Store(nodes, images') /\ Grown(images, images') /\ OutsideOK'
      BY <3>1, <3>2, SameGrows DEF Store, OutsideOK
    <3> QED BY <3>1, <3>3, OutsideKeeps
  <2> QED BY <2>1, <2>2, <2>3
<1>2. CASE UNCHANGED vars
  <2>1. UNCHANGED <<nodes, tag, progress, context, inputs, ran, tagged, images, gone>>
    BY <1>2 DEF vars, outside
  <2>2. Store(nodes, images) /\ OutsideOK
    BY DEF IInv
  <2>3. Store(nodes, images') /\ Grown(images, images') /\ OutsideOK'
    BY <2>1, <2>2, SameGrows DEF Store, OutsideOK
  <2> QED BY <2>1, <2>3, OutsideKeeps
<1> QED BY <1>1, <1>2

LEMMA TypeHolds == IInv => TypeOK
<1> SUFFICES ASSUME IInv PROVE TypeOK
  OBVIOUS
<1>1. OutsideOK /\ Store(nodes, images)
  BY DEF IInv
<1>2. ASSUME NEW n \in DOMAIN nodes
      PROVE  /\ nodes[n].parent \in 0 .. n - 1 /\ nodes[n].image \in DOMAIN images
             /\ nodes[n].kind = "use" <=> nodes[n].parent = 0
             /\ nodes[n].exit \in {"zero", "nonzero", "signal"} /\ nodes[n].copyComplete \in BOOLEAN
  BY <1>1 DEF Store, NodeOK
<1>3. ASSUME NEW b \in Builds
      PROVE  /\ pc[b] \in {"idle", "ready", "look", "check", "miss", "running", "ended", "done", "failed"}
             /\ context[b].tip \in 0 .. Len(nodes)
             /\ layer[b].kind \in {None, "use", "run"}
             /\ layer[b].kind = "run" => context[b].tip # 0
  <2>1. BuildOK(file[b], at[b], pc[b], part[b], source[b], layer[b], context[b], inputs[b], nodes, images)
    BY NowHeld
  <2>2. /\ context[b].tip \in 0 .. Len(nodes)
        /\ pc[b] \in {"idle", "ready", "done", "failed"} \cup Mid
    BY <2>1 DEF BuildOK
  <2>3. CASE pc[b] \in Mid
    <3>1. /\ layer[b].kind \in {"use", "run"}
          /\ InLayer(file[b], at[b], pc[b], part[b], source[b], layer[b], context[b], inputs[b], nodes, images)
      BY <2>1, <2>3, InMid
    <3> QED BY <2>2, <2>3, <3>1 DEF Mid, InLayer, Running
  <2>4. CASE pc[b] \in {"idle", "failed"}
    <3>1. layer[b] = NoLayer
      BY <2>1, <2>4 DEF BuildOK, Unstarted
    <3> QED BY <2>2, <2>4, <3>1, NoLayerIs DEF None
  <2>5. CASE pc[b] \in {"ready", "done"}
    <3>1. layer[b].kind = None
      BY <2>1, <2>5 DEF BuildOK, Started
    <3> QED BY <2>2, <2>5, <3>1 DEF None
  <2> QED BY <2>2, <2>3, <2>4, <2>5
<1> QED BY <1>1, <1>2, <1>3 DEF TypeOK, OutsideOK

LEMMA MeaningHolds == IInv => BuildIsItsDockerfile
<1> SUFFICES ASSUME IInv, NEW b \in Builds, pc[b] \in {"ready", "done"}, part[b] = 0, at[b] > 1
             PROVE  LET m == Meaning(file[b], inputs[b], at[b] - 1)
                        c == context[b]
                        content == Content(LastImage(b))
                    IN /\ \/ content = m.content /\ c.pending = m.pending
                          \/ /\ EndsStage(b) /\ c.pending = <<>>
                             /\ content = Flushed(m, IF at[b] > Len(file[b]) THEN m.user ELSE None)
                       /\ DOMAIN c.stages = DOMAIN m.stages
                       /\ \A i \in DOMAIN m.stages : images[c.stages[i].image] = m.stages[i].content
  BY DEF BuildIsItsDockerfile
<1> DEFINE m == Meaning(file[b], inputs[b], at[b] - 1)
           c == context[b]
<1>1. BuildOK(file[b], at[b], pc[b], part[b], source[b], layer[b], c, inputs[b], nodes, images)
  BY NowHeld
<1>2. /\ AtDirective(file[b], at[b], 0, source[b], c, inputs[b], nodes, images)
      /\ c.tip \in 0 .. Len(nodes)
  BY <1>1 DEF BuildOK, Started
<1>3. Reached(file[b], inputs[b], at[b], 0) = m
  BY DEF Reached
<1> HIDE DEF m
<1>4. /\ Agrees(c, m, images)
      /\ \/ Exactly(c, m, nodes, images)
         \/ /\ Ends(file[b], at[b])
            /\ FlushedIn(c, m, Closing(file[b], at[b], m), nodes, images)
  BY <1>2, <1>3 DEF AtDirective
<1>5. Content(LastImage(b)) = Has(c, nodes, images)
  <2>1. Store(nodes, images)
    BY DEF IInv
  <2>2. /\ c.tip # 0 => Has(c, nodes, images) = images[ImageIn(c.tip, nodes)]
        /\ c.tip = 0 <=> ImageIn(c.tip, nodes) = 0
        /\ c.tip = 0 <=> Has(c, nodes, images) = <<>>
    BY <1>2, <2>1, HasImage
  <2> QED BY <2>2, TipOf DEF Content
<1>6. /\ DOMAIN c.stages = DOMAIN m.stages
      /\ \A i \in DOMAIN m.stages : images[c.stages[i].image] = m.stages[i].content
  <2>1. SameStages(c.stages, m.stages, images)
    BY <1>4 DEF Agrees
  <2>2. DOMAIN c.stages = 1 .. Len(m.stages) /\ DOMAIN m.stages = 1 .. Len(m.stages)
    BY <2>1, SequenceLen DEF SameStages
  <2> QED BY <2>1, <2>2 DEF SameStages
<1>7. \/ Content(LastImage(b)) = m.content /\ c.pending = m.pending
      \/ /\ EndsStage(b) /\ c.pending = <<>>
         /\ Content(LastImage(b)) = Flushed(m, IF at[b] > Len(file[b]) THEN m.user ELSE None)
  BY <1>4, <1>5 DEF Exactly, FlushedIn, Closing, Ends, EndsStage, Directive
<1> QED BY <1>6, <1>7 DEF m

-----------------------------------------------------------------------------
(* Builds that repeat one another.                                         *)

NotBegun(b) ==
    /\ pc[b] \in {"idle", "failed"} => ran[b] = 0
    /\ pc[b] = "idle" => source[b] = 0
Traced(P, b) == Trace(P, Stand(b), file[b], inputs[b], nodes, images)

\* b has been given what o was, and nothing is lost or recorded twice.
Repeating(b, o) == gone = {} /\ ~Doubled /\ Grown(inputs[b], inputs[o])
\* It is at a point where o has been, and has run nothing.
Retraces(b, o) ==
    /\ ran[b] = 0
    /\ pc[b] # "failed" =>
         /\ pc[b] \in {"ready", "look", "check", "miss", "done"}
         /\ pc[b] = "miss" => OfFile(file[b], at[b], part[b])
         /\ \E P : Traced(P, o) /\ Stand(b) \in P
RepeatOK(b, o) ==
    /\ b \in Builds /\ o \in Builds /\ b \notin NoCache
    /\ pc[o] = "done" /\ pc[b] # "idle"
    /\ pc[b] # "failed" => file[b] = file[o]
    /\ Repeating(b, o) => Retraces(b, o)

RInv ==
    /\ IInv /\ BasesOK
    /\ \A b \in Builds : NotBegun(b)
    /\ \A b \in Builds : pc[b] \notin {"idle", "failed"} => \E P : Traced(P, b)
    /\ \A p \in repeats : p = <<p[1], p[2]>> /\ RepeatOK(p[1], p[2])

\* No two nodes are alike: in the tree as it is, and as it becomes.
LEMMA DoubledIs ==
    /\ Doubled <=> ~Single(nodes)
    /\ Doubled' <=> ~Single(nodes')
<1>1. Doubled <=> ~Single(nodes)
  BY DEF Doubled, Single, Alike, CacheMatches, Succeeded, Matches
<1>2. Doubled' <=> ~Single(nodes')
  BY DEF Doubled, Single, Alike, CacheMatches, Succeeded, Matches
<1> QED BY <1>1, <1>2

\* What is recorded twice was not always.
LEMMA SingleBefore ==
    ASSUME NEW N, NEW M, Sequence(N), Sequence(M), Grown(N, M), Single(M)
    PROVE  Single(N)
<1>1. \A n \in DOMAIN N : n \in DOMAIN M /\ M[n] = N[n]
  BY GrownIn
<1> QED BY <1>1 DEF Single

LEMMA GrownTwice ==
    ASSUME NEW s, NEW t, NEW u, Len(s) \in Nat, Len(t) \in Nat, Len(u) \in Nat,
           Grown(s, t), Grown(t, u)
    PROVE  Grown(s, u)
BY DEF Grown

\* An element that is added is one more, and the others stay.
LEMMA AppendedIn ==
    ASSUME NEW I, Sequence(I), NEW x
    PROVE  /\ DOMAIN I = 1 .. Len(I) /\ Len(I) \in Nat
           /\ DOMAIN Append(I, x) = 1 .. Len(I) + 1 /\ Len(Append(I, x)) = Len(I) + 1
           /\ \A i \in DOMAIN I : i # Len(I) + 1 /\ Append(I, x)[i] = I[i]
           /\ Append(I, x)[Len(I) + 1] = x
           /\ \A i \in DOMAIN Append(I, x) : i \in DOMAIN I \/ i = Len(I) + 1
<1>1. /\ DOMAIN I = 1 .. Len(I) /\ Len(I) \in Nat
      /\ DOMAIN Append(I, x) = 1 .. Len(I) + 1 /\ Len(Append(I, x)) = Len(I) + 1
  BY Appended, SequenceLen
<1>2. /\ \A i \in DOMAIN I : i # Len(I) + 1
      /\ \A i \in 1 .. Len(I) + 1 : i \in 1 .. Len(I) \/ i = Len(I) + 1
  BY <1>1
<1>3. /\ \A i \in DOMAIN I : Append(I, x)[i] = I[i]
      /\ Append(I, x)[Len(I) + 1] = x
  BY <1>1, Appended
<1> QED BY <1>1, <1>2, <1>3

-----------------------------------------------------------------------------
(* A base image stays known by its content.                                *)

\* An image that is made of another one is no base.
LEMMA BasesAdd ==
    ASSUME BasesOK, OutsideOK, Sequence(images), NEW x, images' = Append(images, x), Len(x) # 1,
           tagged' = tagged, changes' = changes
    PROVE  BasesOK'
<1>1. /\ DOMAIN images' = 1 .. Len(images) + 1
      /\ \A i \in DOMAIN images : i \in DOMAIN images' /\ images'[i] = images[i]
      /\ \A i \in DOMAIN images' : Len(images'[i]) = 1 => i \in DOMAIN images
  BY AppendedIn
<1>2. \A r \in Range(Bases) : tagged[r] \in DOMAIN images
  BY DEF OutsideOK
<1> QED BY <1>1, <1>2 DEF BasesOK

\* One that is pushed is new: it holds what no image held before.
LEMMA BasesPush ==
    ASSUME BasesOK, OutsideOK, Sequence(images), NEW r \in Range(Bases), Push(r)
    PROVE  BasesOK'
<1> DEFINE v == changes + 1
           x == <<<<r, v>>>>
<1>1. /\ images' = Append(images, x) /\ changes' = v /\ tagged' = [tagged EXCEPT ![r] = Len(images')]
      /\ changes \in Nat /\ v \in Nat /\ \A w \in 0 .. changes : w \in 0 .. v /\ w # v
  BY DEF Push, Changing, BasesOK
<1>2. Len(x) = 1 /\ v \in 0 .. v /\ \A q, w : x = <<<<q, w>>>> => w = v
  BY <1>1
<1> HIDE DEF v
<1>3. x = <<<<r, v>>>>
  OBVIOUS
<1> HIDE DEF x
<1>4. /\ Len(images') = Len(images) + 1 /\ Len(images) + 1 \in DOMAIN images'
      /\ \A i \in DOMAIN images : i \in DOMAIN images' /\ images'[i] = images[i]
      /\ images'[Len(images) + 1] = x
      /\ \A i \in DOMAIN images' : i \in DOMAIN images \/ i = Len(images) + 1
  BY <1>1, AppendedIn
<1>5. \A i \in DOMAIN images : Len(images[i]) = 1 => images[i] # x
  BY <1>1, <1>2 DEF BasesOK
<1>6. ASSUME NEW i \in DOMAIN images', Len(images'[i]) = 1
      PROVE  \E q \in Range(Bases), w \in 0 .. changes' : images'[i] = <<<<q, w>>>>
  <2>1. CASE i \in DOMAIN images
    <3>1. PICK q \in Range(Bases), w \in 0 .. changes : images[i] = <<<<q, w>>>>
      BY <1>4, <1>6, <2>1 DEF BasesOK
    <3> QED BY <1>1, <1>4, <2>1, <3>1
  <2>2. CASE i = Len(images) + 1
    BY <1>1, <1>2, <1>3, <1>4, <2>2
  <2> QED BY <1>4, <2>1, <2>2
<1>7. ASSUME NEW i \in DOMAIN images', NEW j \in DOMAIN images', Len(images'[i]) = 1, images'[i] = images'[j]
      PROVE  i = j
  <2>1. CASE i \in DOMAIN images /\ j \in DOMAIN images
    BY <1>4, <1>7, <2>1 DEF BasesOK
  <2>2. CASE i = Len(images) + 1 \/ j = Len(images) + 1
    BY <1>4, <1>5, <1>7, <2>2
  <2> QED BY <1>4, <2>1, <2>2
<1>8. ASSUME NEW q \in Range(Bases) PROVE Len(images'[tagged'[q]]) = 1
  <2>1. DOMAIN tagged = Range(Bases) /\ tagged[q] \in DOMAIN images
    BY DEF OutsideOK
  <2>2. CASE q = r
    BY <1>1, <1>2, <1>4, <2>1, <2>2
  <2>3. CASE q # r
    <3>1. tagged'[q] = tagged[q]
      BY <1>1, <2>1, <2>3
    <3> QED BY <1>4, <2>1, <3>1 DEF BasesOK
  <2> QED BY <2>2, <2>3
<1> QED BY <1>1, <1>6, <1>7, <1>8 DEF BasesOK

LEMMA BasesKept ==
    ASSUME BasesOK, images' = images, tagged' = tagged, changes' \in Nat, changes <= changes'
    PROVE  BasesOK'
<1>1. \A v \in 0 .. changes : v \in 0 .. changes'
  BY DEF BasesOK
<1> QED BY <1>1 DEF BasesOK

LEMMA BasesFirst == Init => BasesOK
<1> SUFFICES ASSUME Init PROVE BasesOK
  OBVIOUS
<1>1. /\ images = [i \in DOMAIN Bases |-> <<<<Bases[i], 0>>>>] /\ changes = 0
      /\ tagged = [r \in Range(Bases) |-> CHOOSE i \in DOMAIN Bases : Bases[i] = r]
  BY DEF Init
<1>2. /\ DOMAIN images = DOMAIN Bases /\ \A i \in DOMAIN Bases : images[i] = <<<<Bases[i], 0>>>>
      /\ 0 \in 0 .. changes /\ changes \in Nat
  BY <1>1
<1>3. \A i \in DOMAIN Bases : Bases[i] \in Range(Bases) /\ Len(images[i]) = 1
  BY <1>2 DEF Range
<1>4. \A i \in DOMAIN images :
        Len(images[i]) = 1 => \E r \in Range(Bases), v \in 0 .. changes : images[i] = <<<<r, v>>>>
  BY <1>2, <1>3
<1>5. \A i, j \in DOMAIN images : Len(images[i]) = 1 /\ images[i] = images[j] => i = j
  <2> SUFFICES ASSUME NEW i \in DOMAIN Bases, NEW j \in DOMAIN Bases, images[i] = images[j] PROVE i = j
    BY <1>2
  <2>1. <<<<Bases[i], 0>>>> = <<<<Bases[j], 0>>>>
    BY <1>2
  <2>2. Bases[i] = Bases[j]
    BY <2>1
  <2> QED BY <2>2, DockerAssumption
<1>6. ASSUME NEW r \in Range(Bases) PROVE Len(images[tagged[r]]) = 1
  <2>1. \E i \in DOMAIN Bases : Bases[i] = r
    BY DEF Range
  <2>2. tagged[r] \in DOMAIN Bases
    BY <1>1, <2>1
  <2> QED BY <1>3, <2>2
<1> QED BY <1>2, <1>4, <1>5, <1>6 DEF BasesOK

\* What a step of a build leaves alone.
LEMMA StepLeaves ==
    ASSUME NEW b \in Builds, Step(b)
    PROVE  /\ gone' = gone /\ tagged' = tagged /\ changes' = changes
           /\ images' = images \/ OperationEnds(b)
           /\ Begin(b) \/ repeats' = repeats
           /\ Begin(b) \/ pc[b] # "idle"
           /\ pc[b] # "done" /\ (pc[b] # "failed")
<1>1. \/ Begin(b)
      \/ \E keyword \in {"ENV", "ARG", "WORKDIR", "USER"} : \E c : SetsState(b, keyword, c)
      \/ StageCopy(b) \/ Run(b) \/ SealStage(b) \/ From(b) \/ CopyFrom(b) \/ CopyEnds(b)
      \/ Finalize(b) \/ Tags(b) \/ Looks(b) \/ Checks(b) \/ CommitLayer(b) \/ Exports(b)
      \/ StageImageFile(b) \/ Spawns(b) \/ OperationEnds(b) \/ CommitResult(b) \/ Fails(b)
  <2>1. SetsEnv(b) \/ SetsArg(b) \/ SetsWorkdir(b) \/ SetsUser(b) =>
          \E keyword \in {"ENV", "ARG", "WORKDIR", "USER"} : \E c : SetsState(b, keyword, c)
    BY DEF SetsEnv, SetsArg, SetsWorkdir, SetsUser
  <2> QED BY <2>1 DEF Step
<1>2. /\ gone' = gone /\ tagged' = tagged /\ changes' = changes
      /\ images' = images \/ OperationEnds(b)
      /\ Begin(b) \/ repeats' = repeats
  BY <1>1 DEF Begin, SetsState, StageCopy, Run, SealStage, From, CopyFrom, CopyEnds, Finalize, Tags,
     Looks, Checks, CommitLayer, Exports, StageImageFile, Spawns, OperationEnds, CommitResult, Fails, NoChange, outside
<1>3. /\ Begin(b) \/ pc[b] # "idle"
      /\ pc[b] # "done" /\ (pc[b] # "failed")
  BY <1>1 DEF Begin, SetsState, StageCopy, Run, SealStage, From, CopyFrom, CopyEnds, Finalize, Tags,
     Looks, Checks, CommitLayer, Exports, StageImageFile, Spawns, OperationEnds, CommitResult, Fails, IsAt
<1> QED BY <1>2, <1>3

LEMMA BasesStep ==
    ASSUME IInv, BasesOK, NEW b \in Builds, Step(b)
    PROVE  BasesOK'
<1>1. OutsideOK /\ Sequence(images) /\ Store(nodes, images)
  BY DEF IInv, Store
<1>2. tagged' = tagged /\ changes' = changes /\ (images' = images \/ OperationEnds(b))
  BY StepLeaves
<1>3. CASE images' = images
  BY <1>2, <1>3, BasesKept DEF BasesOK
<1>4. CASE OperationEnds(b)
  <2> DEFINE x == images[LastImage(b)]
  <2>1. PICK did : images' = Append(images, Append(x, did))
    BY <1>4 DEF OperationEnds
  <2> DEFINE y == Append(x, did)
  <2>2. images' = Append(images, y) /\ pc[b] = "running" /\ pc[b] \in Mid
    BY <1>4, <2>1 DEF OperationEnds, Mid
  <2>3. Sequence(x) /\ x # <<>>
    <3>1. /\ layer[b].kind \in {"use", "run"} /\ context[b].tip \in 0 .. Len(nodes)
          /\ InLayer(file[b], at[b], pc[b], part[b], source[b], layer[b], context[b], inputs[b], nodes, images)
      BY <2>2, NowHeld, InMid
    <3>2. context[b].tip # 0
      BY <2>2, <3>1 DEF InLayer, Running
    <3>3. LastImage(b) \in DOMAIN images
      BY <1>1, <3>1, <3>2, HasImage, TipOf
    <3> QED BY <1>1, <3>3 DEF Store
  <2> HIDE DEF x
  <2>4. Len(x) \in Nat /\ Len(x) # 0
    BY <2>3, SequenceLen, Nonempty
  <2>5. Len(y) # 1
    BY <2>3, <2>4, Appended
  <2> HIDE DEF y
  <2> QED BY <1>1, <1>2, <2>2, <2>5, BasesAdd
<1> QED BY <1>2, <1>3, <1>4

-----------------------------------------------------------------------------
(* Each build leaves a trace.                                              *)

Unmoved(o) ==
    /\ file'[o] = file[o] /\ at'[o] = at[o] /\ pc'[o] = pc[o] /\ part'[o] = part[o]
    /\ source'[o] = source[o] /\ layer'[o] = layer[o] /\ context'[o] = context[o]
    /\ inputs'[o] = inputs[o] /\ ran'[o] = ran[o]
Growing == Grown(nodes, nodes') /\ Grown(images, images')

LEMMA SequencesNow ==
    ASSUME IInv, NEW b \in Builds
    PROVE  /\ Sequence(nodes) /\ Sequence(images) /\ Sequence(inputs[b]) /\ Len(inputs[b]) \in Nat
           /\ pc[b] \notin {"idle", "failed"} => Len(file[b]) \in Nat
<1>1. Sequence(nodes) /\ Sequence(images)
  BY DEF IInv, Store
<1>2. Sequence(inputs[b])
  BY NowHeld, EmptySequence DEF BuildOK, Started, Unstarted
<1>3. pc[b] \notin {"idle", "failed"} => Len(file[b]) \in Nat
  <2>1. pc[b] \notin {"idle", "failed"} => file[b] \in Dockerfiles
    BY NowHeld DEF BuildOK, Started
  <2> QED BY <2>1, ParsedFile
<1> QED BY <1>1, <1>2, <1>3, SequenceLen

\* What is recorded later leaves the trace of a build that does not move.
LEMMA TracedStays ==
    ASSUME IInv, IInv', Growing, NEW o \in Builds, Unmoved(o), NEW P, Traced(P, o)
    PROVE  Traced(P, o)' /\ Stand(o)' = Stand(o)
<1>1. Stand(o)' = Stand(o) /\ file'[o] = file[o] /\ inputs'[o] = inputs[o]
  BY DEF Unmoved, Stand
<1>2. Sequence(nodes) /\ Sequence(images) /\ Sequence(inputs[o])
  BY SequencesNow
<1>3. Sequence(nodes') /\ Sequence(images')
  BY DEF IInv, Store
<1>4. Trace(P, Stand(o), file[o], inputs[o], nodes', images')
  BY <1>2, <1>3, TraceStays DEF Traced, Growing
<1> QED BY <1>1, <1>4 DEF Traced

\* A build begins at the first point, with nothing given or run.
LEMMA BeginsAt ==
    ASSUME IInv, NEW b \in Builds, NotBegun(b), Begin(b)
    PROVE  /\ Stand(b)' = Start /\ pc[b] = "idle" /\ pc'[b] = "ready" /\ ran'[b] = 0
           /\ inputs'[b] = <<>> /\ inputs[b] = <<>> /\ repeats' \subseteq repeats \cup ({b} \X Builds)
           /\ \A o \in Builds : <<b, o>> \in repeats' /\ <<b, o>> \notin repeats =>
                b \notin NoCache /\ pc[o] = "done" /\ file[o] = file'[b]
<1>1. /\ pc[b] = "idle" /\ part[b] = 0 /\ layer[b] = NoLayer /\ context[b] = NewContext
      /\ inputs[b] = <<>> /\ source[b] = 0 /\ ran[b] = 0
  <2>1. pc[b] = "idle"
    BY DEF Begin
  <2>2. Unstarted(part[b], layer[b], context[b], inputs[b])
    BY <2>1, NowHeld DEF BuildOK
  <2> QED BY <2>1, <2>2 DEF Unstarted, NotBegun
<1>2. PICK d \in Dockerfiles :
        /\ file' = [file EXCEPT ![b] = d]
        /\ repeats' = repeats \cup
             {p \in {b} \X Builds : b \notin NoCache /\ pc[p[2]] = "done" /\ file[p[2]] = d}
  BY DEF Begin
<1>3. /\ pc' = [pc EXCEPT ![b] = "ready"] /\ at' = [at EXCEPT ![b] = 1]
      /\ part' = part /\ source' = source /\ layer' = layer /\ context' = context
      /\ inputs' = inputs /\ ran' = ran
  BY DEF Begin, Goes
<1>4. /\ pc'[b] = "ready" /\ at'[b] = 1 /\ part'[b] = 0 /\ source'[b] = 0 /\ layer'[b] = NoLayer
      /\ context'[b] = NewContext /\ inputs'[b] = <<>> /\ ran'[b] = 0 /\ file'[b] = d
  BY <1>1, <1>2, <1>3 DEF IInv, Maps
<1>5. Stand(b)' = Start
  BY <1>4, StandingIs DEF Stand, Start
<1> QED BY <1>1, <1>2, <1>4, <1>5

\* The trace goes with each step.
LEMMA TracesKeep ==
    ASSUME IInv, BasesOK, NEW b \in Builds, NotBegun(b), Step(b), IInv', BasesOK',
           pc[b] \notin {"idle", "failed"} => \E P : Traced(P, b),
           Moves(b) \/ ((Begin(b) \/ Drops(b)) /\ Around(b))
    PROVE  pc'[b] \notin {"idle", "failed"} => \E P : Traced(P, b)'
<1>1. CASE Begin(b)
  <2>1. Stand(b)' = Start
    BY <1>1, BeginsAt
  <2>2. Trace({Start}, Start, file'[b], inputs'[b], nodes', images')
    BY DEF Trace
  <2> QED BY <2>1, <2>2 DEF Traced
<1>2. CASE Drops(b)
  BY <1>2 DEF Drops, Goes, IInv, Maps
<1>3. CASE Moves(b) /\ ~Begin(b)
  <2>1. PICK P : Trace(P, Stand(b), file[b], inputs[b], nodes, images)
    BY <1>3, StepLeaves DEF Traced
  <2>2. /\ Grown(nodes, nodes') /\ Grown(images, images') /\ Grown(inputs[b], inputs'[b])
        /\ file'[b] = file[b]
        /\ StaysOrFollows(Stand(b), Stand(b)', file[b], inputs'[b], nodes', images')
    BY <1>3 DEF Moves, Around
  <2>3. /\ Sequence(nodes) /\ Sequence(images) /\ Sequence(inputs[b])
        /\ Sequence(nodes') /\ Sequence(images') /\ Sequence(inputs'[b])
    <3>1. Held(b)'
      BY DEF IInv
    <3>2. Sequence(inputs'[b])
      BY <3>1, EmptySequence DEF Held, BuildOK, Started, Unstarted
    <3>3. Sequence(nodes') /\ Sequence(images')
      BY DEF IInv, Store
    <3> QED BY <3>2, <3>3, SequencesNow
  <2>4. \E R : Trace(R, Stand(b)', file[b], inputs'[b], nodes', images')
    BY <2>1, <2>2, <2>3, TraceGrows
  <2> QED BY <2>2, <2>4 DEF Traced
<1> QED BY <1>1, <1>2, <1>3

-----------------------------------------------------------------------------
(* A build that repeats another one goes where that one has been.          *)

\* Nothing follows the point where a build is done.
LEMMA NothingFollows ==
    ASSUME IInv, NEW o \in Builds, pc[o] = "done", NEW y, NEW f, f = file[o], NEW g, NEW N, NEW I
    PROVE  ~Follows(Stand(o), y, f, g, N, I)
<1>1. /\ f \in Dockerfiles /\ at[o] = Len(f) + 1 /\ context[o].pending = <<>>
  BY NowHeld DEF BuildOK, Started, Mid
<1>2. Len(f) \in Nat
  BY <1>1, ParsedFile
<1>3. Stand(o) = Between(at[o], part[o], source[o], context[o])
  BY StandingIs DEF Stand
<1> DEFINE x == Stand(o)
<1>4. x.mid = FALSE /\ ~(x.at <= Len(f)) /\ x.context.pending = <<>>
  BY <1>1, <1>2, <1>3 DEF Between
<1> HIDE DEF x
<1>5. ~GoesOn(x, y, f, g, N, I)
  BY <1>4 DEF GoesOn, SetsOn, CopiesOn, RunsOn, SealsOn, TakesOn, UnpacksOn, EndsOn, At, Unsealed
<1> QED BY <1>4, <1>5 DEF Follows, x

\* What is awaited where another build has gone on is in the tree.
LEMMA LooksFinds ==
    ASSUME IInv, NEW b \in Builds, NEW o \in Builds, b \notin NoCache, pc[o] = "done", file[b] = file[o],
           pc[b] = "look", NEW P, Traced(P, o), Stand(b) \in P, Candidates(b) = {}
    PROVE  OfFile(file[b], at[b], part[b])
<1> DEFINE x == Stand(b)
           l == layer[b]
           c == context[b]
<1>1. x = Awaiting(at[b], part[b], source[b], c, l.kind, l.hash)
  <2>1. pc[b] \in Mid
    BY DEF Mid
  <2> QED BY <2>1 DEF Stand, Standing
<1>2. Stand(o) = Between(at[o], part[o], source[o], context[o])
  BY StandingIs DEF Stand
<1>3. /\ x.mid = TRUE /\ x.at = at[b] /\ x.part = part[b] /\ x.context = c /\ x.kind = l.kind
      /\ x.hash = l.hash /\ x # Stand(o)
  BY <1>1, <1>2 DEF Awaiting, Between
<1>4. l.kind \in {"use", "run"}
  <2>1. pc[b] \in Mid
    BY DEF Mid
  <2> QED BY <2>1, NowHeld, InMid
<1> HIDE DEF x
<1>5. PICK y \in P : Follows(x, y, file[o], inputs[o], nodes, images)
  BY <1>3 DEF Traced, Trace, x
<1>6. IsDone(x, y, file[b], nodes, images)
  BY <1>3, <1>5 DEF Follows
<1> SUFFICES ASSUME ~OfFile(file[b], at[b], part[b]) PROVE FALSE
  OBVIOUS
<1>7. PICK t \in DOMAIN nodes : Fits(nodes[t], x)
  BY <1>3, <1>6 DEF IsDone
<1>8. /\ nodes[t].kind = l.kind /\ nodes[t].hash = l.hash
      /\ nodes[t].exit = "zero" \/ nodes[t].copyComplete
      /\ l.kind = "run" => nodes[t].parent = c.tip
  BY <1>3, <1>7 DEF Fits, Matches
<1>9. t \in Candidates(b)
  BY <1>4, <1>8 DEF Candidates, CacheMatches, Succeeded
<1> QED BY <1>9

\* The steps at each point of a layer.
LEMMA StepsAt ==
    ASSUME NEW b \in Builds, Step(b), ~Drops(b)
    PROVE  /\ pc[b] = "look" => Looks(b)
           /\ pc[b] = "check" => Checks(b)
           /\ pc[b] = "miss" => CommitLayer(b) \/ Exports(b) \/ StageImageFile(b) \/ Spawns(b)
BY DEF Step, Begin, SetsEnv, SetsArg, SetsWorkdir, SetsUser, SetsState, StageCopy, Run, SealStage, From,
   CopyFrom, CopyEnds, Finalize, Tags, Looks, Checks, CommitLayer, Exports, StageImageFile, Spawns,
   OperationEnds, CommitResult, Fails, IsAt

\* The steps that are left to it: none starts an operation.
LEMMA StaysCalm ==
    ASSUME IInv, NEW b \in Builds, NEW o \in Builds, b \notin NoCache, pc[o] = "done", file[b] = file[o],
           Step(b), ~Begin(b), ~Drops(b), gone = {}, ran[b] = 0, pc[b] \in {"ready", "look", "check", "miss"},
           pc[b] = "miss" => OfFile(file[b], at[b], part[b]),
           NEW P, Traced(P, o), Stand(b) \in P
    PROVE  /\ ran'[b] = 0 /\ pc'[b] \in {"ready", "look", "check", "miss", "done"}
           /\ pc'[b] = "miss" => OfFile(file'[b], at'[b], part'[b])
<1>1. Maps
  BY DEF IInv
<1>2. CASE pc[b] = "ready"
  <2>1. \/ \E keyword \in {"ENV", "ARG", "WORKDIR", "USER"} : \E c : SetsState(b, keyword, c)
        \/ StageCopy(b) \/ Run(b) \/ SealStage(b) \/ From(b) \/ CopyFrom(b) \/ CopyEnds(b)
        \/ Finalize(b) \/ Tags(b)
    <3>1. SetsEnv(b) \/ SetsArg(b) \/ SetsWorkdir(b) \/ SetsUser(b) =>
            \E keyword \in {"ENV", "ARG", "WORKDIR", "USER"} : \E c : SetsState(b, keyword, c)
      BY DEF SetsEnv, SetsArg, SetsWorkdir, SetsUser
    <3> QED BY <1>2, <3>1 DEF Step, Fails, Looks, Checks, CommitLayer, Exports, StageImageFile, Spawns, OperationEnds,
       CommitResult
  <2>2. ran' = ran /\ (pc' = pc \/ Goes(b, "look") \/ Goes(b, "done"))
    BY <2>1 DEF SetsState, StageCopy, Run, SealStage, From, CopyFrom, CopyEnds, Finalize, Tags
  <2>3. pc'[b] \in {"ready", "look", "done"}
    BY <1>1, <1>2, <2>2 DEF Goes, Maps
  <2> QED BY <2>2, <2>3
<1>3. CASE pc[b] = "look"
  <2>1. Looks(b)
    BY <1>3, StepsAt
  <2>2. /\ ran' = ran /\ file' = file /\ at' = at /\ part' = part
        /\ Goes(b, "check") \/ (Goes(b, "miss") /\ Candidates(b) = {})
    BY <2>1 DEF Looks
  <2>3. ran' = ran /\ file' = file /\ at' = at /\ part' = part
    BY <2>2
  <2>4. pc'[b] = "check" \/ (pc'[b] = "miss" /\ Candidates(b) = {})
    BY <1>1, <2>2 DEF Goes, Maps
  <2> QED BY <1>3, <2>3, <2>4, LooksFinds
<1>4. CASE pc[b] = "check"
  <2>1. Checks(b)
    BY <1>4, StepsAt
  <2>2. ran' = ran /\ Goes(b, "ready")
    BY <2>1 DEF Checks, StillThere, LayerDone
  <2> QED BY <1>1, <2>2 DEF Goes, Maps
<1>5. CASE pc[b] = "miss"
  <2>1. CommitLayer(b) \/ Exports(b) \/ StageImageFile(b) \/ Spawns(b)
    BY <1>5, StepsAt
  <2>2. OfFile(file[b], at[b], part[b])
    BY <1>5
  <2>3. ~Spawns(b)
    BY <2>2 DEF Spawns, IsPath, Unpacks, OfFile, PathAt, Directive
  <2>4. ~CommitLayer(b)
    <3>1. pc[b] \in Mid
      BY <1>5 DEF Mid
    <3>2. InLayer(file[b], at[b], pc[b], part[b], source[b], layer[b], context[b], inputs[b], nodes, images)
      BY <3>1, NowHeld, InMid
    <3>3. layer[b].kind = "use" => file[b][at[b]].keyword = "FROM"
      BY <3>2 DEF InLayer, Using
    <3> QED BY <2>2, <3>3 DEF CommitLayer, OfFile, PathAt
  <2>5. CASE Exports(b)
    BY <1>5, <2>2, <2>5 DEF Exports, progress
  <2>6. CASE StageImageFile(b)
    <3>1. ran' = ran /\ Goes(b, "ready")
      BY <2>6 DEF StageImageFile, LayerDone
    <3> QED BY <1>1, <3>1 DEF Goes, Maps
  <2> QED BY <2>1, <2>3, <2>4, <2>5, <2>6
<1> QED BY <1>2, <1>3, <1>4, <1>5

\* A step keeps it where the other one has been, as one point follows another.
LEMMA RepeatMoves ==
    ASSUME IInv, BasesOK, NEW b \in Builds, NEW o \in Builds, o # b, RepeatOK(b, o),
           Step(b), ~Begin(b), ~Drops(b), Moves(b), IInv', BasesOK', Repeating(b, o)'
    PROVE  Retraces(b, o)'
<1>1. /\ b \notin NoCache /\ pc[o] = "done" /\ pc[b] \notin {"idle", "failed", "done"}
      /\ file[b] = file[o] /\ gone' = gone
  BY StepLeaves DEF RepeatOK
<1>2. /\ Growing /\ Unmoved(o) /\ file'[b] = file[b] /\ pc'[b] \notin {"idle", "failed"}
      /\ Grown(inputs[b], inputs'[b])
      /\ StaysOrFollows(Stand(b), Stand(b)', file[b], inputs'[b], nodes', images')
  BY DEF Moves, Around, Frame, Growing, Unmoved
<1>3. /\ Sequence(nodes) /\ Sequence(images) /\ Sequence(inputs[b]) /\ Len(inputs[b]) \in Nat
      /\ Sequence(inputs[o]) /\ Len(inputs[o]) \in Nat /\ Len(file[b]) \in Nat
      /\ Sequence(inputs'[b]) /\ Len(inputs'[b]) \in Nat /\ Store(nodes', images') /\ Sequence(nodes')
  <2>1. Held(b)'
    BY DEF IInv
  <2>2. Sequence(inputs'[b])
    BY <2>1, EmptySequence DEF Held, BuildOK, Started, Unstarted
  <2>3. Store(nodes', images') /\ Sequence(nodes')
    BY DEF IInv, Store
  <2> QED BY <1>1, <2>2, <2>3, SequencesNow, SequenceLen
<1>4. gone' = {} /\ Single(nodes') /\ Grown(inputs'[b], inputs[o])
  BY <1>2, DoubledIs DEF Repeating, Unmoved
<1>5. Repeating(b, o)
  <2>1. Single(nodes)
    BY <1>2, <1>3, <1>4, SingleBefore DEF Growing
  <2>2. Grown(inputs[b], inputs[o])
    BY <1>2, <1>3, <1>4, GrownTwice
  <2> QED BY <1>1, <1>4, <2>1, <2>2, DoubledIs DEF Repeating
<1>6. /\ ran[b] = 0 /\ pc[b] \in {"ready", "look", "check", "miss"}
      /\ pc[b] = "miss" => OfFile(file[b], at[b], part[b])
      /\ \E P : Traced(P, o) /\ Stand(b) \in P
  BY <1>1, <1>5 DEF RepeatOK, Retraces
<1>7. PICK P : Traced(P, o) /\ Stand(b) \in P
  BY <1>6
<1>8. /\ ran'[b] = 0 /\ pc'[b] \in {"ready", "look", "check", "miss", "done"}
      /\ pc'[b] = "miss" => OfFile(file'[b], at'[b], part'[b])
  BY <1>1, <1>4, <1>6, <1>7, StaysCalm
<1>9. Traced(P, o)' /\ Stand(o)' = Stand(o)
  BY <1>2, <1>7, TracedStays
<1>10. Stand(b)' \in P
  <2>1. CASE Stand(b)' = Stand(b)
    BY <1>7, <2>1
  <2>2. CASE Follows(Stand(b), Stand(b)', file[b], inputs'[b], nodes', images')
    <3>1. Stand(b) # Stand(o)
      BY <1>1, <2>2, NothingFollows
    <3>2. Trace(P, Stand(o), file[b], inputs[o], nodes', images')
      BY <1>1, <1>2, <1>9 DEF Traced, Unmoved
    <3>3. KnownBases(images')
      BY DEF BasesOK, KnownBases
    <3> QED BY <1>3, <1>4, <1>7, <2>2, <3>1, <3>2, <3>3, TraceLeads
  <2> QED BY <1>2, <2>1, <2>2 DEF StaysOrFollows
<1> QED BY <1>8, <1>9, <1>10 DEF Retraces

\* Nothing else disturbs it.
LEMMA RepeatStays ==
    ASSUME IInv, IInv', Growing, NEW b \in Builds, NEW o \in Builds, RepeatOK(b, o),
           Unmoved(b), Unmoved(o), gone \subseteq gone'
    PROVE  RepeatOK(b, o)'
<1>1. /\ b \notin NoCache /\ pc'[o] = "done" /\ pc'[b] # "idle"
      /\ pc'[b] # "failed" => file'[b] = file'[o]
  BY DEF RepeatOK, Unmoved
<1>2. ASSUME Repeating(b, o)' PROVE Retraces(b, o)'
  <2>1. gone' = {} /\ Single(nodes') /\ Grown(inputs[b], inputs[o])
    BY <1>2, DoubledIs DEF Repeating, Unmoved
  <2>2. Single(nodes)
    <3>1. Sequence(nodes) /\ Sequence(nodes')
      BY DEF IInv, Store
    <3> QED BY <2>1, <3>1, SingleBefore DEF Growing
  <2>3. Retraces(b, o)
    BY <2>1, <2>2, DoubledIs DEF Repeating, RepeatOK
  <2>4. /\ ran'[b] = ran[b] /\ pc'[b] = pc[b] /\ file'[b] = file[b] /\ at'[b] = at[b]
        /\ part'[b] = part[b] /\ Stand(b)' = Stand(b)
    BY DEF Unmoved, Stand
  <2>5. ASSUME NEW P, Traced(P, o), Stand(b) \in P PROVE Traced(P, o)' /\ Stand(b)' \in P
    BY <2>4, <2>5, TracedStays
  <2>6. pc'[b] # "failed" => \E P : Traced(P, o)' /\ Stand(b)' \in P
    BY <2>3, <2>4, <2>5 DEF Retraces
  <2> QED BY <2>3, <2>4, <2>6 DEF Retraces
<1> QED BY <1>1, <1>2 DEF RepeatOK

\* A build that begins, or fails, has run nothing.
LEMMA RepeatBegins ==
    ASSUME IInv, IInv', NEW b \in Builds, NEW o \in Builds, NotBegun(b), Begin(b), Around(b),
           <<b, o>> \in repeats', <<b, o>> \notin repeats, \E P : Traced(P, o)
    PROVE  RepeatOK(b, o)'
<1>1. /\ Stand(b)' = Start /\ pc[b] = "idle" /\ pc'[b] = "ready" /\ ran'[b] = 0
      /\ b \notin NoCache /\ pc[o] = "done" /\ file[o] = file'[b]
  BY BeginsAt
<1>2. o # b /\ Growing /\ Unmoved(o)
  <2>1. o # b
    BY <1>1
  <2> QED BY <2>1 DEF Around, Frame, Growing, Unmoved
<1>3. PICK P : Traced(P, o)
  OBVIOUS
<1>4. Traced(P, o)'
  BY <1>2, <1>3, TracedStays
<1>5. Start \in P
  BY <1>3 DEF Traced, Trace
<1> QED BY <1>1, <1>2, <1>4, <1>5 DEF RepeatOK, Retraces, Unmoved

LEMMA RepeatDrops ==
    ASSUME IInv, NEW b \in Builds, NEW o \in Builds, Drops(b), Around(b), o # b, RepeatOK(b, o)
    PROVE  RepeatOK(b, o)'
<1>1. pc'[b] = "failed" /\ ran'[b] = 0
  BY DEF Drops, Goes, IInv, Maps
<1>2. pc'[o] = pc[o]
  BY DEF Around, Frame
<1> QED BY <1>1, <1>2 DEF RepeatOK, Retraces

LEMMA RepeatInit == Init => RInv
<1> SUFFICES ASSUME Init PROVE RInv
  OBVIOUS
<1>1. IInv /\ BasesOK
  BY Initially, BasesFirst
<1>2. repeats = {} /\ \A b \in Builds : pc[b] = "idle" /\ NotBegun(b)
  BY DEF Init, NotBegun
<1> QED BY <1>1, <1>2 DEF RInv

\* Every step of a build, whichever build it is.
LEMMA RepeatBuild ==
    ASSUME RInv, NEW c \in Builds, Step(c)
    PROVE  RInv'
<1>1. /\ IInv /\ BasesOK /\ IInv' /\ BasesOK'
      /\ (Moves(c) \/ ((Begin(c) \/ Drops(c)) /\ Around(c))) /\ Around(c)
  BY BuildSteps, BasesStep DEF RInv, Moves
<1>2. /\ \A b \in Builds : NotBegun(b)
      /\ \A b \in Builds : pc[b] \notin {"idle", "failed"} => \E P : Traced(P, b)
      /\ \A p \in repeats : p = <<p[1], p[2]>> /\ RepeatOK(p[1], p[2])
  BY DEF RInv
<1>3. Growing /\ gone' = gone /\ \A b \in Builds : b # c => Unmoved(b)
  BY <1>1, StepLeaves DEF Around, Frame, Growing, Unmoved
<1>4. ASSUME NEW b \in Builds PROVE NotBegun(b)'
  <2>1. CASE b # c
    BY <1>2, <1>3, <2>1 DEF NotBegun, Unmoved
  <2>2. CASE b = c /\ Begin(c)
    BY <1>1, <1>2, <2>2, BeginsAt DEF NotBegun
  <2>3. CASE b = c /\ Drops(c)
    BY <1>1, <2>3 DEF NotBegun, Drops, Goes, IInv, Maps
  <2>4. CASE b = c /\ Moves(c)
    BY <2>4 DEF NotBegun, Moves
  <2> QED BY <1>1, <2>1, <2>2, <2>3, <2>4
<1>5. ASSUME NEW b \in Builds PROVE pc'[b] \notin {"idle", "failed"} => \E P : Traced(P, b)'
  <2>1. CASE b = c
    BY <1>1, <1>2, <2>1, TracesKeep
  <2>2. CASE b # c
    <3>1. Unmoved(b) /\ pc'[b] = pc[b]
      BY <1>3, <2>2 DEF Unmoved
    <3>2. \A P : Traced(P, b) => Traced(P, b)'
      BY <1>1, <1>3, <3>1, TracedStays
    <3> QED BY <1>2, <3>1, <3>2
  <2> QED BY <2>1, <2>2
<1>6. ASSUME NEW b \in Builds, NEW o \in Builds, RepeatOK(b, o) PROVE RepeatOK(b, o)'
  <2>1. o # c
    BY <1>6, StepLeaves DEF RepeatOK
  <2>2. Unmoved(o)
    BY <1>3, <2>1
  <2>3. CASE b # c
    BY <1>1, <1>3, <1>6, <2>2, <2>3, RepeatStays
  <2>4. CASE b = c /\ Drops(c)
    BY <1>1, <1>6, <2>1, <2>4, RepeatDrops
  <2>5. CASE b = c /\ ~Drops(c)
    <3>1. ~Begin(c) /\ Moves(c)
      BY <1>1, <1>6, <2>5 DEF RepeatOK, Begin
    <3>2. Repeating(b, o)' => Retraces(b, o)'
      BY <1>1, <1>6, <2>1, <2>5, <3>1, RepeatMoves
    <3>3. file'[b] = file[b] /\ pc[b] # "failed" /\ pc'[b] \notin {"idle", "failed"}
      BY <2>5, <3>1, StepLeaves DEF Moves
    <3> QED BY <1>6, <2>2, <3>2, <3>3 DEF RepeatOK, Unmoved
  <2> QED BY <2>3, <2>4, <2>5
<1>7. ASSUME NEW p \in repeats' PROVE p = <<p[1], p[2]>> /\ RepeatOK(p[1], p[2])'
  <2>1. CASE p \in repeats
    <3>1. p = <<p[1], p[2]>> /\ RepeatOK(p[1], p[2])
      BY <1>2, <2>1
    <3>2. p[1] \in Builds /\ p[2] \in Builds
      BY <3>1 DEF RepeatOK
    <3> QED BY <1>6, <3>1, <3>2
  <2>2. CASE p \notin repeats
    <3>1. Begin(c) /\ NotBegun(c)
      BY <1>2, <2>2, StepLeaves
    <3>2. p \in {c} \X Builds
      BY <1>1, <2>2, <3>1, BeginsAt
    <3>3. PICK o \in Builds : p = <<c, o>>
      BY <3>2
    <3>4. pc[o] = "done"
      BY <1>1, <2>2, <3>1, <3>3, BeginsAt
    <3>5. \E P : Traced(P, o)
      BY <1>2, <3>4
    <3>6. RepeatOK(c, o)'
      BY <1>1, <2>2, <3>1, <3>3, <3>5, RepeatBegins
    <3>7. p[1] = c /\ p[2] = o
      BY <3>3
    <3> QED BY <3>3, <3>6, <3>7
  <2> QED BY <2>1, <2>2
<1> QED BY <1>1, <1>4, <1>5, <1>7 DEF RInv

\* What is edited, pushed or lost disturbs no build.
LEMMA RepeatOutside ==
    ASSUME RInv, IInv', BasesOK', Growing, UNCHANGED <<nodes, tag, progress, context, inputs, ran, repeats>>,
           gone \subseteq gone'
    PROVE  RInv'
<1>1. /\ IInv /\ \A b \in Builds : NotBegun(b)
      /\ \A b \in Builds : pc[b] \notin {"idle", "failed"} => \E P : Traced(P, b)
      /\ \A p \in repeats : p = <<p[1], p[2]>> /\ RepeatOK(p[1], p[2])
  BY DEF RInv
<1>2. repeats' = repeats /\ \A b \in Builds : Unmoved(b)
  BY DEF progress, Unmoved
<1>3. ASSUME NEW b \in Builds
      PROVE  NotBegun(b)' /\ (pc'[b] \notin {"idle", "failed"} => \E P : Traced(P, b)')
  <2>1. Unmoved(b)
    BY <1>2
  <2>2. \A P : Traced(P, b) => Traced(P, b)'
    BY <1>1, <2>1, TracedStays
  <2> QED BY <1>1, <2>1, <2>2 DEF NotBegun, Unmoved
<1>4. ASSUME NEW p \in repeats PROVE p = <<p[1], p[2]>> /\ RepeatOK(p[1], p[2])'
  <2>1. p = <<p[1], p[2]>> /\ RepeatOK(p[1], p[2])
    BY <1>1
  <2>2. p[1] \in Builds /\ p[2] \in Builds
    BY <2>1 DEF RepeatOK
  <2> QED BY <1>1, <1>2, <2>1, <2>2, RepeatStays
<1> QED BY <1>2, <1>3, <1>4 DEF RInv

LEMMA RepeatSteps ==
    ASSUME RInv, [Next]_vars
    PROVE  RInv'
<1>1. IInv /\ BasesOK /\ IInv' /\ OutsideOK /\ Store(nodes, images) /\ Sequence(images) /\ Sequence(nodes)
  BY Steps DEF RInv, IInv, Store
<1>2. Grown(nodes, nodes) /\ Grown(images, images)
  BY <1>1, SameGrows
<1>3. CASE \E b \in Builds : Step(b)
  BY <1>3, RepeatBuild
<1>4. ASSUME NEW f \in Files, Edit(f) PROVE RInv'
  <2>1. /\ UNCHANGED <<nodes, tag, progress, context, inputs, ran, repeats>>
        /\ images' = images /\ tagged' = tagged /\ gone' = gone /\ changes' = changes + 1
    BY <1>4 DEF Edit, Changing
  <2>2. BasesOK' /\ Growing
    BY <1>1, <1>2, <2>1, BasesKept DEF Growing, BasesOK
  <2> QED BY <1>1, <2>1, <2>2, RepeatOutside
<1>5. ASSUME NEW r \in Range(Bases), Push(r) PROVE RInv'
  <2>1. /\ UNCHANGED <<nodes, tag, progress, context, inputs, ran, repeats>> /\ gone' = gone
        /\ images' = Append(images, <<<<r, changes'>>>>)
    BY <1>5 DEF Push, Changing
  <2>2. Grown(images, images')
    BY <1>1, <2>1, AppendGrows
  <2>3. Growing
    BY <1>2, <2>1, <2>2 DEF Growing
  <2>4. BasesOK'
    BY <1>1, <1>5, BasesPush
  <2> QED BY <1>1, <2>1, <2>3, <2>4, RepeatOutside
<1>6. ASSUME NEW i \in DOMAIN images, Lose(i) PROVE RInv'
  <2>1. /\ UNCHANGED <<nodes, tag, progress, context, inputs, ran, repeats>>
        /\ images' = images /\ tagged' = tagged /\ gone \subseteq gone' /\ changes' = changes + 1
    BY <1>6 DEF Lose, Changing
  <2>2. BasesOK' /\ Growing
    BY <1>1, <1>2, <2>1, BasesKept DEF Growing, BasesOK
  <2> QED BY <1>1, <2>1, <2>2, RepeatOutside
<1>7. CASE UNCHANGED vars
  <2>1. /\ UNCHANGED <<nodes, tag, progress, context, inputs, ran, repeats>>
        /\ images' = images /\ tagged' = tagged /\ gone \subseteq gone' /\ changes' = changes
    BY <1>7 DEF vars, outside
  <2>2. BasesOK' /\ Growing
    BY <1>1, <1>2, <2>1, BasesKept DEF Growing, BasesOK
  <2> QED BY <1>1, <2>1, <2>2, RepeatOutside
<1>8. Ended => UNCHANGED vars
  BY DEF Ended
<1> QED BY <1>3, <1>4, <1>5, <1>6, <1>7, <1>8 DEF Next

\* A build has been given something for each directive so far, and at the end for all.
LEMMA GivenWithin ==
    ASSUME IInv, NEW b \in Builds, pc[b] \notin {"idle", "failed"}
    PROVE  Len(inputs[b]) <= Len(file[b])
<1> DEFINE f == file[b]
           g == inputs[b]
<1>1. BuildOK(f, at[b], pc[b], part[b], source[b], layer[b], context[b], g, nodes, images)
  BY NowHeld
<1>2. f \in Dockerfiles /\ at[b] \in 1 .. Len(f) + 1 /\ part[b] \in Nat
  BY <1>1 DEF BuildOK, Started
<1>3. Len(f) \in Nat /\ Sourced(f, at[b], part[b], source[b], g, images)
  BY <1>1, <1>2, ParsedFile DEF BuildOK, Started
<1>4. part[b] # 0 => at[b] <= Len(f)
  BY <1>2, <1>3 DEF Sourced
<1> HIDE DEF f, g
<1>5. CASE pc[b] \in {"ready", "done"}
  <2>1. Len(g) = IF part[b] = 0 THEN at[b] - 1 ELSE at[b]
    BY <1>1, <1>5 DEF BuildOK, Started, AtDirective
  <2> QED BY <1>2, <1>3, <1>4, <2>1 DEF f, g
<1>6. CASE pc[b] \in Mid
  <2>1. layer[b].kind \in {"use", "run"}
        /\ InLayer(f, at[b], pc[b], part[b], source[b], layer[b], context[b], g, nodes, images)
    BY <1>1, <1>6, InMid
  <2>2. CASE layer[b].kind = "use"
    <3>1. at[b] <= Len(f) /\ Len(g) = at[b]
      BY <2>1, <2>2 DEF InLayer, Using
    <3> QED BY <3>1 DEF f, g
  <2>3. CASE layer[b].kind = "run"
    <3>1. IF part[b] > 0 THEN Len(g) = at[b]
          ELSE IF Ends(f, at[b]) THEN Len(g) = at[b] - 1 ELSE Len(g) = at[b]
      BY <2>1, <2>3 DEF InLayer, Running
    <3>2. ~Ends(f, at[b]) => at[b] <= Len(f)
      BY <1>2, <1>3 DEF Ends
    <3> QED BY <1>2, <1>3, <1>4, <3>1, <3>2 DEF f, g
  <2> QED BY <2>1, <2>2, <2>3
<1> QED BY <1>1, <1>5, <1>6 DEF BuildOK

LEMMA GivenAll ==
    ASSUME IInv, NEW o \in Builds, pc[o] = "done"
    PROVE  Len(inputs[o]) = Len(file[o])
<1>1. /\ file[o] \in Dockerfiles /\ at[o] = Len(file[o]) + 1 /\ part[o] \in Nat
      /\ Sourced(file[o], at[o], part[o], source[o], inputs[o], images)
      /\ Len(inputs[o]) = IF part[o] = 0 THEN at[o] - 1 ELSE at[o]
  BY NowHeld DEF BuildOK, Started, Mid, AtDirective
<1>2. Len(file[o]) \in Nat
  BY <1>1, ParsedFile
<1>3. part[o] = 0
  BY <1>1, <1>2 DEF Sourced
<1> QED BY <1>1, <1>2, <1>3

LEMMA RepeatHolds == RInv => RepeatIsCached
<1> SUFFICES ASSUME RInv, gone = {}, ~Doubled, NEW b \in Builds, NEW o \in Builds, <<b, o>> \in repeats,
                    inputs[b] = SubSeq(inputs[o], 1, Len(inputs[b]))
             PROVE  ran[b] = 0
  BY DEF RepeatIsCached
<1>1. IInv /\ RepeatOK(b, o) /\ NotBegun(b)
  BY DEF RInv
<1>2. CASE pc[b] \in {"idle", "failed"}
  BY <1>1, <1>2 DEF NotBegun
<1>3. CASE pc[b] \notin {"idle", "failed"}
  <2>1. /\ file[b] = file[o] /\ pc[o] = "done"
        /\ Sequence(inputs[b]) /\ Sequence(inputs[o]) /\ Len(inputs[b]) \in Nat /\ Len(inputs[o]) \in Nat
    BY <1>1, <1>3, SequencesNow DEF RepeatOK
  <2>2. Len(inputs[b]) <= Len(file[b])
    BY <1>1, <1>3, GivenWithin
  <2>3. Len(inputs[o]) = Len(file[o])
    BY <1>1, <2>1, GivenAll
  <2>4. Grown(inputs[b], inputs[o])
    <3> DEFINE n == Len(inputs[b])
               s == SubSeq(inputs[o], 1, n)
    <3>1. n \in 0 .. Len(inputs[o])
      BY <2>1, <2>2, <2>3
    <3>2. \A i \in 1 .. n : s[i] = inputs[o][i]
      BY <2>1, <3>1 DEF Sequence
    <3> QED BY <2>1, <3>1, <3>2 DEF Grown
  <2> QED BY <1>1, <2>4 DEF RepeatOK, Repeating, Retraces
<1> QED BY <1>2, <1>3

-----------------------------------------------------------------------------
(* What was lost before a build began.                                     *)

\* Of the images lost before, a build stands on, or takes for a FROM, bases only,
\* and what it commits is new.
Spared(L, i, I) == i \in L => Len(I[i]) = 1
LossOK(L, p, l, c, G, N, I) ==
    /\ L \subseteq G
    /\ Spared(L, ImageIn(c.tip, N), I)
    /\ \A i \in DOMAIN c.stages : Spared(L, c.stages[i].image, I)
    /\ l.kind = "use" => Spared(L, l.image, I)
    /\ p = "ended" => l.image \notin L
Losing(b) == LossOK(lost[b], pc[b], layer[b], context[b], gone, nodes, images)
LInv == RInv /\ DOMAIN lost = Builds /\ \A b \in Builds : Losing(b)

LEMMA SparedStays ==
    ASSUME NEW L, NEW i, NEW I, NEW J, L \subseteq DOMAIN I, Sequence(I), Sequence(J), Grown(I, J),
           Spared(L, i, I)
    PROVE  Spared(L, i, J)
<1> SUFFICES ASSUME i \in L PROVE Len(J[i]) = 1
  BY DEF Spared
<1>1. i \in DOMAIN I
  OBVIOUS
<1>2. J[i] = I[i]
  BY <1>1, GrownIn
<1> QED BY <1>2 DEF Spared

LEMMA LossStays ==
    ASSUME NEW L, NEW p, NEW l, NEW c, NEW G, NEW H, NEW N, NEW M, NEW I, NEW J,
           LossOK(L, p, l, c, G, N, I), G \subseteq H, G \subseteq DOMAIN I,
           Sequence(N), Sequence(M), Grown(N, M), Sequence(I), Sequence(J), Grown(I, J),
           c.tip \in 0 .. Len(N)
    PROVE  LossOK(L, p, l, c, H, M, J)
<1>1. L \subseteq H /\ L \subseteq DOMAIN I
  BY DEF LossOK
<1>2. ImageIn(c.tip, M) = ImageIn(c.tip, N)
  BY TipStays
<1>3. \A i : Spared(L, i, I) => Spared(L, i, J)
  BY <1>1, SparedStays
<1> QED BY <1>1, <1>2, <1>3 DEF LossOK

\* A step that takes no image: the tip, the stages and a FROM's image stay.
LEMMA LossWaits ==
    ASSUME NEW L, NEW p, NEW l, NEW c, NEW G, NEW N, NEW I, LossOK(L, p, l, c, G, N, I),
           NEW q, NEW r, NEW d, d.tip = c.tip, d.stages = c.stages,
           r.kind = "use" => l.kind = "use" /\ r.image = l.image,
           q # "ended"
    PROVE  LossOK(L, q, r, d, G, N, I)
BY DEF LossOK

\* One that takes the image of a node as its tip.
LEMMA LossTakes ==
    ASSUME NEW L, NEW p, NEW l, NEW c, NEW G, NEW N, NEW I, LossOK(L, p, l, c, G, N, I),
           NEW t, t # 0, Spared(L, N[t].image, I), DOMAIN c = ContextFields
    PROVE  LossOK(L, "ready", NoLayer, NewTip(c, l, t), G, N, I)
<1> DEFINE d == NewTip(c, l, t)
<1>1. d.tip = t /\ d.stages = c.stages
  BY DEF NewTip, ContextFields
<1> HIDE DEF d
<1>2. NoLayer.kind # "use"
  BY NoLayerIs DEF None
<1> QED BY <1>1, <1>2 DEF LossOK, ImageIn, d

\* A build that has not begun, or has just begun, has no image.
LEMMA LossNone ==
    ASSUME NEW L, NEW p, p # "ended", NEW G, NEW N, NEW I, L \subseteq G, 0 \notin G
    PROVE  LossOK(L, p, NoLayer, NewContext, G, N, I)
<1>1. NewContext.tip = 0 /\ NewContext.stages = <<>> /\ NoLayer.kind # "use"
  BY NoLayerIs DEF NewContext, None
<1> QED BY <1>1 DEF LossOK, Spared, ImageIn

LEMMA LossNow ==
    ASSUME LInv, NEW b \in Builds
    PROVE  /\ IInv /\ BasesOK /\ Maps /\ OutsideOK /\ Store(nodes, images)
           /\ Sequence(nodes) /\ Sequence(images) /\ DOMAIN lost = Builds
           /\ LossOK(lost[b], pc[b], layer[b], context[b], gone, nodes, images)
           /\ context[b].tip \in 0 .. Len(nodes) /\ 0 \notin gone
<1>1. IInv /\ BasesOK /\ DOMAIN lost = Builds
      /\ LossOK(lost[b], pc[b], layer[b], context[b], gone, nodes, images)
  BY DEF LInv, RInv, Losing
<1>2. /\ Maps /\ OutsideOK /\ Store(nodes, images) /\ Sequence(nodes) /\ Sequence(images)
      /\ context[b].tip \in 0 .. Len(nodes)
  BY <1>1, NowHeld DEF Store, BuildOK
<1>3. 0 \notin gone
  BY <1>2, SequenceLen DEF OutsideOK
<1> QED BY <1>1, <1>2, <1>3

\* Nobody else's losses change with a step of a build.
LostOnly(b) == DOMAIN lost' = Builds /\ \A o \in Builds \ {b} : lost'[o] = lost[o]

LEMMA LossLeaves ==
    ASSUME DOMAIN lost = Builds, NEW b \in Builds, Step(b)
    PROVE  /\ LostOnly(b)
           /\ lost' = lost \/ Begin(b) \/ Drops(b)
<1>1. \/ Begin(b)
      \/ \E keyword \in {"ENV", "ARG", "WORKDIR", "USER"} : \E c : SetsState(b, keyword, c)
      \/ StageCopy(b) \/ Run(b) \/ SealStage(b) \/ From(b) \/ CopyFrom(b) \/ CopyEnds(b)
      \/ Finalize(b) \/ Tags(b) \/ Looks(b) \/ Checks(b) \/ CommitLayer(b) \/ Exports(b)
      \/ StageImageFile(b) \/ Spawns(b) \/ OperationEnds(b) \/ CommitResult(b) \/ Fails(b)
  <2>1. SetsEnv(b) \/ SetsArg(b) \/ SetsWorkdir(b) \/ SetsUser(b) =>
          \E keyword \in {"ENV", "ARG", "WORKDIR", "USER"} : \E c : SetsState(b, keyword, c)
    BY DEF SetsEnv, SetsArg, SetsWorkdir, SetsUser
  <2> QED BY <2>1 DEF Step
<1>2. lost' = lost \/ Begin(b) \/ Drops(b)
  BY <1>1 DEF SetsState, StageCopy, Run, SealStage, From, CopyFrom, CopyEnds, Finalize, Tags,
     Looks, Checks, CommitLayer, Exports, StageImageFile, Spawns, OperationEnds, CommitResult, Fails
<1>3. Begin(b) => lost' = [lost EXCEPT ![b] = gone]
  BY DEF Begin
<1>4. Drops(b) => lost' = [lost EXCEPT ![b] = {}]
  BY DEF Drops
<1> QED BY <1>2, <1>3, <1>4 DEF LostOnly

\* The steps that take no image.
Waits(b) ==
    \/ \E keyword \in {"ENV", "ARG", "WORKDIR", "USER"} : \E d :
         /\ SetsState(b, keyword, d)
         /\ DOMAIN context[b] = ContextFields => d.tip = context[b].tip /\ d.stages = context[b].stages
    \/ StageCopy(b) \/ Run(b) \/ SealStage(b) \/ CopyFrom(b) \/ CopyEnds(b) \/ Finalize(b) \/ Tags(b)
    \/ Looks(b) \/ Exports(b) \/ StageImageFile(b) \/ Spawns(b) \/ (Checks(b) /\ ~StillThere(b))

LEMMA StepsTake ==
    ASSUME NEW b \in Builds, Step(b)
    PROVE  \/ Begin(b) \/ Drops(b) \/ Waits(b) \/ From(b) \/ (Checks(b) /\ StillThere(b))
           \/ CommitLayer(b) \/ OperationEnds(b) \/ (CommitResult(b) /\ ~Drops(b))
<1>1. SetsEnv(b) \/ SetsArg(b) \/ SetsWorkdir(b) \/ SetsUser(b) => Waits(b)
  BY DEF SetsEnv, SetsArg, SetsWorkdir, SetsUser, Waits, ContextFields
<1>2. Fails(b) => Drops(b)
  BY DEF Fails
<1> QED BY <1>1, <1>2 DEF Step, Waits

\* Where a build is when it takes a step.
LEMMA LossAt ==
    ASSUME IInv, NEW b \in Builds, pc[b] = "ready" \/ pc[b] \in Mid
    PROVE  DOMAIN context[b] = ContextFields /\ DOMAIN layer[b] = LayerFields /\ Maps
<1>1. CASE pc[b] = "ready"
  BY <1>1, NowHeld, Ready
<1>2. CASE pc[b] \in Mid
  BY <1>2, NowHeld, InMid
<1> QED BY <1>1, <1>2

LEMMA WaitsKeep ==
    ASSUME LInv, NEW b \in Builds, Waits(b)
    PROVE  Losing(b)'
<1>1. IInv /\ Maps /\ LossOK(lost[b], pc[b], layer[b], context[b], gone, nodes, images)
  BY LossNow
<1>2. pc[b] = "ready" \/ pc[b] \in Mid
  BY DEF Waits, SetsState, StageCopy, Run, SealStage, CopyFrom, CopyEnds, Finalize, Tags, Looks,
     Exports, StageImageFile, Spawns, Checks, IsAt, Mid
<1>3. DOMAIN context[b] = ContextFields /\ DOMAIN layer[b] = LayerFields
  BY <1>1, <1>2, LossAt
<1>4. /\ nodes' = nodes /\ images' = images /\ gone' = gone /\ lost' = lost
      /\ context'[b].tip = context[b].tip /\ context'[b].stages = context[b].stages
      /\ layer'[b].kind = "use" => layer[b].kind = "use" /\ layer'[b].image = layer[b].image
      /\ pc'[b] # "ended"
  <2>1. ASSUME NEW keyword, NEW d, SetsState(b, keyword, d),
               d.tip = context[b].tip /\ d.stages = context[b].stages
        PROVE  <1>4!:
    BY <1>1, <2>1 DEF SetsState, IsAt, NoChange, outside, Maps
  <2>2. ASSUME StageCopy(b) \/ Run(b) \/ SealStage(b) \/ CopyFrom(b) \/ CopyEnds(b) \/ Finalize(b)
        PROVE  <1>4!:
    BY <1>1, <1>3, <2>2 DEF StageCopy, Run, SealStage, CopyFrom, CopyEnds, Finalize, IsAt, Goes, Wants,
       Layer, NoChange, outside, Maps, ContextFields
  <2>3. ASSUME Tags(b) \/ Looks(b) \/ Exports(b) \/ StageImageFile(b) \/ Spawns(b)
               \/ (Checks(b) /\ ~StillThere(b))
        PROVE  <1>4!:
    BY <1>1, <1>3, <2>3, NoLayerIs DEF Tags, Looks, Exports, StageImageFile, Spawns, Checks, Goes, LayerDone,
       NoChange, outside, progress, Maps, ContextFields, LayerFields, None
  <2> QED BY <1>3, <2>1, <2>2, <2>3 DEF Waits
<1>5. LossOK(lost[b], pc'[b], layer'[b], context'[b], gone, nodes, images)
  BY <1>1, <1>4, LossWaits
<1> QED BY <1>4, <1>5 DEF Losing

\* A FROM takes a stage of its own, or what the tag names, which is a base.
LEMMA FromTakes ==
    ASSUME LInv, NEW b \in Builds, From(b)
    PROVE  Losing(b)'
<1> DEFINE f == file[b]
           stages == Sealed(b)
           i == Resolved(stages, Directive(b).ref)
           c == [NewStage(context[b]) EXCEPT !.stages = stages, !.alias = Directive(b).alias, !.pending = <<>>]
           l == Layer("use", FromHash(i), <<>>, i)
           L == lost[b]
<1>1. /\ IInv /\ BasesOK /\ Maps /\ LossOK(L, pc[b], layer[b], context[b], gone, nodes, images)
      /\ pc[b] = "ready" /\ Resolvable(stages, Directive(b).ref)
  BY LossNow DEF From, IsAt
<1>2. DOMAIN context[b] = ContextFields
  BY <1>1, LossAt
<1>3. /\ context'[b] = c /\ layer'[b] = l /\ pc'[b] = "look"
      /\ nodes' = nodes /\ images' = images /\ gone' = gone /\ lost' = lost
  BY <1>1 DEF From, Goes, NoChange, outside, Maps
<1>4. Sequence(context[b].stages)
  BY <1>1, NowHeld, Ready DEF AtDirective, Agrees, SameStages
<1>5. Sequence(stages) /\ \A k \in DOMAIN stages : Spared(L, stages[k].image, images)
  <2>1. CASE LastImage(b) = 0
    BY <1>1, <1>4, <2>1 DEF Sealed, LossOK
  <2>2. CASE LastImage(b) # 0
    <3> DEFINE e == [name |-> context[b].alias, image |-> LastImage(b)]
               s == Append(context[b].stages, e)
               n == Len(context[b].stages)
    <3>1. stages = s
      BY <2>2 DEF Sealed
    <3>2. e.image = ImageIn(context[b].tip, nodes)
      BY TipOf
    <3> HIDE DEF e
    <3>3. /\ Sequence(s) /\ DOMAIN s = 1 .. n + 1 /\ n \in Nat /\ DOMAIN context[b].stages = 1 .. n
          /\ s[n + 1] = e /\ \A k \in 1 .. n : s[k] = context[b].stages[k]
      BY <1>4, Appended
    <3>4. Spared(L, e.image, images)
      BY <1>1, <3>2 DEF LossOK
    <3>5. \A k \in 1 .. n : Spared(L, context[b].stages[k].image, images)
      BY <1>1, <3>3 DEF LossOK
    <3> HIDE DEF s, n, stages
    <3>6. \A k \in 1 .. n + 1 : k \in 1 .. n \/ k = n + 1
      BY <3>3
    <3>7. ASSUME NEW k \in DOMAIN stages PROVE Spared(L, stages[k].image, images)
      BY <3>1, <3>3, <3>4, <3>5, <3>6
    <3> QED BY <3>1, <3>3, <3>7
  <2> QED BY <2>1, <2>2
<1> HIDE DEF stages
<1>6. Spared(L, i, images)
  <2>1. CASE LastNamed(stages, Directive(b).ref) = 0
    <3>1. Directive(b).ref \in Range(Bases)
      <4>1. \/ \A k \in DOMAIN stages : stages[k].name # Directive(b).ref
            \/ LastNamed(stages, Directive(b).ref) \in 1 .. Len(stages)
        BY <1>5, LastNamedIsOne
      <4> QED BY <1>1, <2>1, <4>1 DEF Resolvable
    <3>2. Len(images[tagged[Directive(b).ref]]) = 1
      BY <1>1, <3>1 DEF BasesOK
    <3> QED BY <2>1, <3>2 DEF Resolved, Spared
  <2>2. CASE LastNamed(stages, Directive(b).ref) # 0
    <3>1. LastNamed(stages, Directive(b).ref) \in DOMAIN stages
      BY <1>5, <2>2, LastNamedIsOne, SequenceLen
    <3> QED BY <1>5, <2>2, <3>1 DEF Resolved
  <2> QED BY <2>1, <2>2
<1> HIDE DEF i
<1>7. c.tip = context[b].tip /\ c.stages = stages
  BY <1>2 DEF NewStage, ContextFields
<1>8. l.kind = "use" /\ l.image = i
  BY DEF Layer
<1> HIDE DEF c, l
<1>9. LossOK(L, "look", l, c, gone, nodes, images)
  BY <1>1, <1>5, <1>6, <1>7, <1>8 DEF LossOK
<1> QED BY <1>3, <1>9 DEF Losing

\* What is found in the tree is taken when its image is there.
LEMMA ChecksTakes ==
    ASSUME LInv, NEW b \in Builds, Checks(b), StillThere(b)
    PROVE  Losing(b)'
<1> DEFINE l == layer[b]
           t == l.found
           L == lost[b]
<1>1. /\ IInv /\ Maps /\ LossOK(L, pc[b], l, context[b], gone, nodes, images) /\ Sequence(nodes)
      /\ pc[b] = "check" /\ pc[b] \in Mid
  BY LossNow DEF Checks, Mid
<1>2. DOMAIN context[b] = ContextFields
  BY <1>1, LossAt
<1>3. /\ context'[b] = NewTip(context[b], l, t) /\ layer'[b] = NoLayer /\ pc'[b] = "ready"
      /\ nodes' = nodes /\ images' = images /\ gone' = gone /\ lost' = lost
  BY <1>1 DEF Checks, WithLayer, NewTip, LayerDone, Goes, NoChange, outside, Maps
<1>4. t # 0
  <2>1. BuildOK(file[b], at[b], "check", part[b], source[b], l, context[b], inputs[b], nodes, images)
    BY <1>1, NowHeld
  <2>2. InLayer(file[b], at[b], "check", part[b], source[b], l, context[b], inputs[b], nodes, images)
    BY <1>1, <2>1, InMid
  <2>3. t \in DOMAIN nodes
    BY <2>2 DEF InLayer
  <2> QED BY <1>1, <2>3, SequenceLen
<1>5. Spared(L, nodes[t].image, images)
  BY <1>1 DEF StillThere, Spared, LossOK
<1> HIDE DEF t
<1>6. LossOK(L, "ready", NoLayer, NewTip(context[b], l, t), gone, nodes, images)
  BY <1>1, <1>2, <1>4, <1>5, LossTakes
<1> QED BY <1>3, <1>6 DEF Losing

\* A FROM's image, or one that was made since, is recorded and becomes the tip.
LEMMA RecordTakes ==
    ASSUME LInv, NEW b \in Builds, CommitLayer(b) \/ (CommitResult(b) /\ ~Drops(b)),
           Sequence(nodes'), Grown(nodes, nodes')
    PROVE  Losing(b)'
<1> DEFINE l == layer[b]
           t == Len(nodes')
           L == lost[b]
<1>1. /\ IInv /\ Maps /\ LossOK(L, pc[b], l, context[b], gone, nodes, images)
      /\ Sequence(nodes) /\ Sequence(images) /\ OutsideOK /\ context[b].tip \in 0 .. Len(nodes)
      /\ pc[b] \in Mid /\ (CommitLayer(b) => l.kind = "use") /\ (CommitResult(b) => pc[b] = "ended")
  BY LossNow DEF CommitLayer, CommitResult, Mid
<1>2. DOMAIN context[b] = ContextFields
  BY <1>1, LossAt
<1>3. \E e : nodes' = Append(nodes, e) /\ e.image = l.image
  BY DEF CommitLayer, CommitResult, Node
<1>4. t # 0 /\ nodes'[t].image = l.image
  BY <1>1, <1>3, Appended
<1>5. /\ context'[b] = NewTip(context[b], l, t) /\ layer'[b] = NoLayer /\ pc'[b] = "ready"
      /\ images' = images /\ gone' = gone /\ lost' = lost
  BY <1>1 DEF CommitLayer, CommitResult, WithLayer, NewTip, LayerDone, Goes, outside, Maps
<1>6. LossOK(L, pc[b], l, context[b], gone, nodes', images)
  BY <1>1, LossStays, SameGrows DEF OutsideOK
<1>7. Spared(L, l.image, images)
  BY <1>1 DEF LossOK, Spared
<1> HIDE DEF t
<1>8. LossOK(L, "ready", NoLayer, NewTip(context[b], l, t), gone, nodes', images)
  BY <1>2, <1>4, <1>6, <1>7, LossTakes
<1> QED BY <1>5, <1>8 DEF Losing

\* What a process ends with is an image that has not been lost.
LEMMA EndsTakes ==
    ASSUME LInv, NEW b \in Builds, OperationEnds(b)
    PROVE  Losing(b)'
<1> DEFINE l == layer[b]
           r == layer'[b]
           L == lost[b]
<1>1. /\ IInv /\ Maps /\ LossOK(L, pc[b], l, context[b], gone, nodes, images)
      /\ Sequence(nodes) /\ Sequence(images) /\ OutsideOK /\ context[b].tip \in 0 .. Len(nodes)
      /\ pc[b] = "running" /\ pc[b] \in Mid
  BY LossNow DEF OperationEnds, Mid
<1>2. DOMAIN l = LayerFields
  BY <1>1, LossAt
<1>3. PICK exit, x :
        /\ layer' = [layer EXCEPT ![b].exit = exit, ![b].image = Len(images) + 1]
        /\ images' = Append(images, x)
  BY DEF OperationEnds
<1>4. /\ context'[b] = context[b] /\ r.kind = l.kind /\ r.image = Len(images) + 1 /\ pc'[b] = "ended"
      /\ nodes' = nodes /\ gone' = gone /\ lost' = lost
  BY <1>1, <1>2, <1>3 DEF OperationEnds, Goes, Maps, LayerFields
<1>5. l.kind # "use"
  <2>1. BuildOK(file[b], at[b], "running", part[b], source[b], l, context[b], inputs[b], nodes, images)
    BY <1>1, NowHeld
  <2>2. InLayer(file[b], at[b], "running", part[b], source[b], l, context[b], inputs[b], nodes, images)
    BY <1>1, <2>1, InMid
  <2> QED BY <2>2 DEF InLayer
<1>6. Len(images) + 1 \notin gone
  BY <1>1, SequenceLen DEF OutsideOK
<1>7. LossOK(L, pc[b], l, context[b], gone, nodes, images')
  <2>1. Sequence(images') /\ Grown(images, images')
    BY <1>1, <1>3, AppendGrows
  <2> QED BY <1>1, <2>1, LossStays, SameGrows DEF OutsideOK
<1> HIDE DEF l, r
<1>8. LossOK(L, "ended", r, context[b], gone, nodes, images')
  BY <1>4, <1>5, <1>6, <1>7 DEF LossOK
<1> QED BY <1>4, <1>8 DEF Losing, r

LEMMA LossOfBuild ==
    ASSUME LInv, NEW b \in Builds, Step(b), Sequence(nodes'), Grown(nodes, nodes')
    PROVE  Losing(b)'
<1>1. IInv /\ Maps /\ DOMAIN lost = Builds /\ 0 \notin gone
  BY LossNow
<1>2. CASE Begin(b)
  <2>1. pc[b] = "idle"
    BY <1>2 DEF Begin
  <2>2. context[b] = NewContext /\ layer[b] = NoLayer
    BY <1>1, <2>1, NowHeld DEF BuildOK, Unstarted
  <2>3. /\ lost'[b] = gone /\ pc'[b] = "ready" /\ context'[b] = NewContext /\ layer'[b] = NoLayer
        /\ gone' = gone
    BY <1>1, <1>2, <2>2 DEF Begin, Goes, Maps, outside
  <2> QED BY <1>1, <2>3, LossNone DEF Losing
<1>3. CASE Drops(b)
  <2>1. /\ lost'[b] = {} /\ pc'[b] = "failed" /\ context'[b] = NewContext /\ layer'[b] = NoLayer
        /\ gone' = gone
    BY <1>1, <1>3, StepLeaves DEF Drops, Goes, Maps
  <2> QED BY <1>1, <2>1, LossNone DEF Losing
<1> QED BY <1>2, <1>3, StepsTake, WaitsKeep, FromTakes, ChecksTakes, RecordTakes, EndsTakes

LEMMA LossSteps ==
    ASSUME LInv, [Next]_vars
    PROVE  LInv'
<1>1. RInv /\ RInv' /\ DOMAIN lost = Builds /\ \A b \in Builds : Losing(b)
  BY RepeatSteps DEF LInv
<1>2. Sequence(nodes') /\ Sequence(images')
  BY <1>1 DEF RInv, IInv, Store
<1>3. ASSUME NEW o \in Builds, Grown(nodes, nodes'), Grown(images, images'), gone \subseteq gone',
             pc'[o] = pc[o], layer'[o] = layer[o], context'[o] = context[o], lost'[o] = lost[o]
      PROVE  Losing(o)'
  <2>1. LossOK(lost[o], pc[o], layer[o], context[o], gone', nodes', images')
    BY <1>2, <1>3, LossNow, LossStays DEF OutsideOK, LInv
  <2> QED BY <1>3, <2>1 DEF Losing
<1>4. ASSUME NEW b \in Builds, Step(b) PROVE LInv'
  <2>1. Around(b) /\ gone' = gone
    BY <1>1, <1>4, BuildSteps, StepLeaves DEF RInv, Moves
  <2>2. LostOnly(b) /\ Losing(b)'
    BY <1>1, <1>2, <1>4, <2>1, LossLeaves, LossOfBuild DEF Around
  <2>3. ASSUME NEW o \in Builds PROVE Losing(o)'
    <3>1. CASE o = b
      BY <2>2, <3>1
    <3>2. CASE o # b
      BY <1>3, <2>1, <2>2, <3>2 DEF Around, Frame, LostOnly
    <3> QED BY <3>1, <3>2
  <2> QED BY <1>1, <2>2, <2>3 DEF LInv, LostOnly
<1>5. ASSUME UNCHANGED <<nodes, layer, pc, context, lost>>, Grown(images, images'), gone \subseteq gone'
      PROVE  LInv'
  <2>1. Grown(nodes, nodes')
    BY <1>1, <1>5, SameGrows DEF RInv, IInv, Store
  <2> QED BY <1>1, <1>3, <1>5, <2>1 DEF LInv
<1>6. Grown(images, images)
  BY <1>1, SameGrows DEF RInv, IInv, Store
<1>7. ASSUME NEW f \in Files, Edit(f) PROVE LInv'
  BY <1>5, <1>6, <1>7 DEF Edit, progress
<1>8. ASSUME NEW r \in Range(Bases), Push(r) PROVE LInv'
  <2>1. Grown(images, images')
    BY <1>1, <1>8, AppendGrows DEF Push, RInv, IInv, Store
  <2> QED BY <1>5, <1>8, <2>1 DEF Push, progress
<1>9. ASSUME NEW i \in DOMAIN images, Lose(i) PROVE LInv'
  BY <1>5, <1>6, <1>9 DEF Lose, progress
<1>10. CASE UNCHANGED vars
  BY <1>5, <1>6, <1>10 DEF vars, outside, progress
<1>11. Ended => UNCHANGED vars
  BY DEF Ended
<1> QED BY <1>4, <1>7, <1>8, <1>9, <1>10, <1>11 DEF Next

LEMMA LossInit == Init => LInv
<1> SUFFICES ASSUME Init PROVE LInv
  OBVIOUS
<1>1. RInv
  BY RepeatInit
<1>2. /\ DOMAIN lost = Builds /\ gone = {}
      /\ \A b \in Builds : /\ lost[b] = {} /\ pc[b] = "idle" /\ layer[b] = NoLayer
                           /\ context[b] = NewContext
  BY DEF Init
<1>3. \A b \in Builds : Losing(b)
  BY <1>2, LossNone DEF Losing
<1> QED BY <1>1, <1>2, <1>3 DEF LInv

LEMMA LossHolds == LInv => LostIsRebuilt
<1> SUFFICES ASSUME LInv, NEW b \in Builds, NEW i \in StandsOn(b), i \in lost[b]
             PROVE  Len(images[i]) = 1
  BY DEF LostIsRebuilt
<1>1. LossOK(lost[b], pc[b], layer[b], context[b], gone, nodes, images)
  BY LossNow
<1>2. i = ImageIn(context[b].tip, nodes) \/ \E k \in DOMAIN context[b].stages : i = context[b].stages[k].image
  BY TipOf DEF StandsOn
<1> QED BY <1>1, <1>2 DEF LossOK, Spared

-----------------------------------------------------------------------------
(* The theorems.                                                           *)

\* The invariant holds in every state: the tree names what each image was made
\* from, and each build stands where the meaning of its Dockerfile says.
THEOREM BuildsHold == Spec => []IInv
<1>1. Init => IInv
  BY Initially
<1>2. IInv /\ [Next]_vars => IInv'
  BY Steps
<1> QED BY <1>1, <1>2, PTL DEF Spec

\* Parents come before their children, and what a node, the tag and a tip name is
\* there (context.py:229-247, cache_order 517-518).
THEOREM TypeCorrect == Spec => []TypeOK
BY BuildsHold, TypeHolds, PTL

\* Whatever other builds record, and whatever is edited, pushed or lost meanwhile,
\* a build has what its Dockerfile says (context.py:229-283, kw_from.py:73-130).
THEOREM MeaningPreserved == Spec => []BuildIsItsDockerfile
BY BuildsHold, MeaningHolds, PTL

\* The tag names all that a Dockerfile says (asyncio.py:93-128, 184-187).
THEOREM TagIsComplete == Spec => []TagIsWhole
<1>1. IInv => TagIsWhole
  BY DEF IInv
<1> QED BY <1>1, BuildsHold, PTL

\* A build that begins a Dockerfile another one has finished, and is given the same,
\* only ever is where that one has been (context.py:249-283).
THEOREM RepeatsHold == Spec => []RInv
<1>1. Init => RInv
  BY RepeatInit
<1>2. RInv /\ [Next]_vars => RInv'
  BY RepeatSteps
<1> QED BY <1>1, <1>2, PTL DEF Spec

\* It starts no operation, whatever is edited or pushed between the two and whatever
\* other builds do, unless an image is lost or a layer is recorded twice
\* (context.py:249-283, copy_layer.py:83-85).
THEOREM RepeatsAreCached == Spec => []RepeatIsCached
BY RepeatsHold, RepeatHolds, PTL

\* A layer whose image was lost before a build began is no more taken from the tree,
\* whichever build recorded it and whatever is lost meanwhile (context.py:477-479).
THEOREM LostAreRebuilt == Spec => []LostIsRebuilt
<1>1. Init => LInv
  BY LossInit
<1>2. LInv /\ [Next]_vars => LInv'
  BY LossSteps
<1> QED BY <1>1, <1>2, LossHolds, PTL DEF Spec

=============================================================================
