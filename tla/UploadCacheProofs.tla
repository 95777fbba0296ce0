------------------------- MODULE UploadCacheProofs -------------------------
(***************************************************************************)
(* Theorems about UploadCache, for any calls, lifetimes and schedules: a   *)
(* call returns the bytes it was called for, no hit outlives its lifetime, *)
(* and what the builder attaches was there when it asked.  All follow from *)
(* what each recorded result says of its upload, which no step makes false *)
(* because uploads are only added and answered again.                      *)
(***************************************************************************)
EXTENDS UploadCache, TLAPS

-----------------------------------------------------------------------------
(* The inductive invariant.                                                *)

Contents == Nat \cup {"image file"}
Bytes == Seq(Contents)
Stored == [is : {"upload", "image"}, holds : Bytes]
Results == [uuid : Nat, sha256 : Bytes, etag : Nat, recorded : Nat, expires : Nat]
Trees == [expires : Nat, root : BOOLEAN, results : SUBSET Results]
Sources == [uuid : Nat, sha256 : Bytes]

\* The steps of a call until it has an upload, and while it records it.
Looking == {"idle", "read", "get", "list", "check", "request", "upload"}
Keeping == {"create", "root", "append", "lifetime", "renew"}
Steps == Looking \cup Keeping \cup {"record", "done", "failed"}

\* Types, and what the clock and the server's numbering of uploads bound.
TypeInv ==
    /\ now \in 0 .. Horizon /\ content \in 0 .. Edits
    /\ server \in Seq(Stored) /\ lost \subseteq DOMAIN server
    /\ answered \in Seq(Nat) /\ Len(answered) = Len(server)
    /\ \A u \in DOMAIN server : answered[u] <= now
    /\ \A f \in DOMAIN trees : trees[f] \in Trees
    /\ sources \subseteq Sources
    /\ kind \in [Calls -> Kinds \cup {"none"}] /\ pc \in [Calls -> Steps]
    /\ read \in [Calls -> Bytes] /\ cached \in [Calls -> Results]
    /\ uuid \in [Calls -> Nat] /\ expires \in [Calls -> Nat]
    /\ began \in [Calls -> Nat] /\ missing \in [Calls -> SUBSET Nat]
    /\ looked \in [Calls -> Nat]

\* What a result of a call of kind k says of its upload: it was answered no
\* earlier than the result was recorded, and holds the bytes of its sha256.
Says(k, r) ==
    /\ r.uuid \in DOMAIN server /\ r.recorded <= answered[r.uuid]
    /\ r.expires = (IF k = "export" THEN Forever ELSE r.recorded + Ttl)
    /\ k # "import" => server[r.uuid] = [is |-> "upload", holds |-> r.sha256]
    /\ k = "fetch" => \E n \in Nat : r.sha256 = <<n, n>> /\ r.etag = n + 1
    /\ k = "export" => r.sha256 = ImageFile

\* Every result in the store says so, under the fingerprint of its bytes.
TreesInv ==
    \A f \in DOMAIN trees : \A r \in trees[f].results :
        /\ trees[f].root /\ Says(f[1], r)
        /\ f[1] \in {"transfer", "copy"} => r.sha256 = f[2]

\* The bytes of an upload were not missing when the call began.
There(c, u) == \E v \in DOMAIN server \ missing[c] : server[v] = server[u]

\* Bytes of a URL or a tag that is no older than the call.
Fresh(c, bytes) == \E n \in Nat : bytes = <<n, n>> /\ n >= began[c]

\* What a call that has its answer returns.
Returns(c) ==
    /\ uuid[c] \in DOMAIN server /\ uuid[c] = cached[c].uuid
    /\ kind[c] \in {"copy", "export", "fetch"} => There(c, uuid[c])
    /\ Reads(c) => server[uuid[c]].holds = read[c]
    /\ kind[c] = "export" => server[uuid[c]].holds = ImageFile
    /\ kind[c] = "fetch" \/ (kind[c] = "import" /\ expires[c] # 0) => Fresh(c, server[uuid[c]].holds)

\* The result a call found or made, and what it knows at each of its steps.
CallInv(c) ==
    /\ began[c] <= content /\ missing[c] \subseteq lost
    /\ pc[c] \in {"idle", "read", "get", "list"} => cached[c].uuid = Nothing
    /\ pc[c] # "idle" => kind[c] # "none"
    /\ pc[c] = "read" => Reads(c)
    /\ pc[c] = "check" => cached[c].uuid # Nothing /\ kind[c] \in {"copy", "export", "fetch"}
    /\ pc[c] = "upload" /\ kind[c] = "fetch" => Fresh(c, read[c])
    /\ pc[c] = "upload" /\ kind[c] = "export" => read[c] = ImageFile
    /\ pc[c] \in Looking => expires[c] = 0
    /\ pc[c] \in Keeping => expires[c] # 0
    /\ cached[c].uuid # Nothing =>
         /\ Says(kind[c], cached[c])
         /\ Reads(c) => cached[c].sha256 = read[c]
         /\ expires[c] = 0 => looked[c] < cached[c].expires
    /\ pc[c] = "request" /\ cached[c].uuid # Nothing => There(c, cached[c].uuid)
    /\ pc[c] \in Keeping \cup {"record", "done"} => Returns(c)

SourcesInv == \A s \in sources : s.uuid \in DOMAIN server /\ server[s.uuid].holds = s.sha256

IInv == TypeInv /\ TreesInv /\ SourcesInv /\ \A c \in Calls : CallInv(c)

-----------------------------------------------------------------------------
(* What no step takes back.                                                *)

Grows ==
    /\ DOMAIN server \subseteq DOMAIN server'
    /\ \A u \in DOMAIN server : server'[u] = server[u] /\ answered[u] <= answered'[u]
    /\ lost \subseteq lost' /\ content <= content'

\* What a step leaves alone of a call.
Same(d) ==
    /\ kind'[d] = kind[d] /\ pc'[d] = pc[d] /\ read'[d] = read[d] /\ cached'[d] = cached[d]
    /\ uuid'[d] = uuid[d] /\ expires'[d] = expires[d] /\ began'[d] = began[d]
    /\ missing'[d] = missing[d] /\ looked'[d] = looked[d]

\* Uploads and their answers stay in range.
LEMMA AnswersAreNumbers ==
    ASSUME TypeInv
    PROVE  /\ DOMAIN server = 1 .. Len(server) /\ DOMAIN answered = DOMAIN server /\ Len(server) \in Nat
           /\ \A u \in DOMAIN server : answered[u] \in Nat
  BY DEF TypeInv

\* Every upload was answered at some second.
LEMMA AnswersNow ==
    ASSUME TypeInv'
    PROVE  \A u \in DOMAIN server' : answered'[u] \in Nat
  BY DEF TypeInv

\* An upload that was there stays there for a call that goes on.
LEMMA ThereStays ==
    ASSUME Grows, NEW c, NEW u \in DOMAIN server, There(c, u), missing'[c] = missing[c]
    PROVE  There(c, u)'
  BY DEF Grows, There

\* What a result says stays true.
LEMMA SaysStays ==
    ASSUME TypeInv, TypeInv', Grows, NEW k, NEW r \in Results, Says(k, r)
    PROVE  Says(k, r)'
<1>1. r.uuid \in DOMAIN server /\ r.uuid \in DOMAIN server'
  BY DEF Says, Grows
<1>2. answered[r.uuid] \in Nat /\ answered'[r.uuid] \in Nat /\ r.recorded \in Nat
  BY <1>1, AnswersAreNumbers, AnswersNow DEF Results
<1>3. r.recorded <= answered'[r.uuid] /\ server'[r.uuid] = server[r.uuid]
  BY <1>1, <1>2 DEF Says, Grows
<1>4. k # "import" => server'[r.uuid] = [is |-> "upload", holds |-> r.sha256]
  BY <1>3, Zenon DEF Says
<1>5. k = "fetch" => \E n \in Nat : r.sha256 = <<n, n>> /\ r.etag = n + 1
  BY Zenon DEF Says
<1>6. /\ k = "export" => r.sha256 = ImageFile
      /\ r.expires = (IF k = "export" THEN Forever ELSE r.recorded + Ttl)
  BY Zenon DEF Says
<1> QED BY <1>1, <1>3, <1>4, <1>5, <1>6, Zenon DEF Says

\* What a call has not touched stays as it was.
LEMMA CallStays ==
    ASSUME IInv, TypeInv', Grows, NEW d \in Calls, Same(d)
    PROVE  CallInv(d)'
<1>1. CallInv(d) /\ cached[d] \in Results
  BY DEF IInv, TypeInv
<1>2. (cached[d].uuid # Nothing => Says(kind[d], cached[d]))'
  <2> SUFFICES ASSUME cached'[d].uuid # Nothing PROVE Says(kind[d], cached[d])'
    BY DEF Same
  <2>1. PICK k, r : k = kind[d] /\ r = cached[d]
    OBVIOUS
  <2>2. Says(k, r) /\ r \in Results
    BY <1>1, <2>1 DEF CallInv, Says, Same
  <2>3. Says(k, r)'
    BY <2>2, SaysStays DEF IInv
  <2>4. k = kind'[d] /\ r = cached'[d]
    BY <2>1 DEF Same
  <2> QED BY <2>3, <2>4, Zenon DEF Says
<1>3. pc[d] = "request" /\ cached[d].uuid # Nothing => There(d, cached[d].uuid)'
  BY <1>1, ThereStays DEF CallInv, Says, Same
<1>4. Returns(d) => Returns(d)'
  <2> SUFFICES ASSUME Returns(d) PROVE Returns(d)'
    OBVIOUS
  <2>1. There(d, uuid[d]) => There(d, uuid[d])'
    BY ThereStays DEF Returns, Same
  <2>2. Reads(d)' = Reads(d) /\ \A bytes : Fresh(d, bytes)' = Fresh(d, bytes)
    BY DEF Reads, Fresh, Same
  <2>3. uuid[d] \in DOMAIN server' /\ server'[uuid[d]] = server[uuid[d]]
    BY DEF Returns, Grows
  <2> QED BY <2>1, <2>2, <2>3 DEF Returns, Same, ImageFile, There
<1>5. began[d] <= content' /\ missing[d] \subseteq lost'
  BY <1>1 DEF CallInv, Grows, TypeInv, IInv
<1> QED BY <1>1, <1>2, <1>3, <1>4, <1>5 DEF CallInv, Same, Reads, Fresh, Nothing, Looking, Keeping, ImageFile, Says, There, Forever

\* So do the store and the sources.
LEMMA TreesStay ==
    ASSUME IInv, TypeInv', Grows, trees' = trees
    PROVE  TreesInv'
<1> SUFFICES ASSUME NEW f \in DOMAIN trees, NEW r \in trees[f].results
             PROVE  trees[f].root /\ Says(f[1], r)' /\ (f[1] \in {"transfer", "copy"} => r.sha256 = f[2])
  BY DEF TreesInv
<1>1. r \in Results
  BY DEF IInv, TypeInv, Trees
<1> QED BY <1>1, SaysStays DEF IInv, TreesInv

\* What file_sources says stays true while uploads are only added.
LEMMA SourcesStay ==
    ASSUME SourcesInv, Grows, sources' = sources
    PROVE  SourcesInv'
  BY DEF SourcesInv, Grows

\* What is left to show of a call's own step.
LEMMA StepOfCall ==
    ASSUME IInv, TypeInv', Grows, TreesInv', SourcesInv', NEW c \in Calls, CallInv(c)',
           \A d \in Calls \ {c} : Same(d)
    PROVE  IInv'
<1>1. ASSUME NEW d \in Calls \ {c} PROVE CallInv(d)'
  BY <1>1, CallStays
<1> QED BY <1>1 DEF IInv

\* A step that leaves the clock, the sources and the server as they are.
LEMMA QuietGrows ==
    ASSUME TypeInv, UNCHANGED <<outside, server, answered>>
    PROVE  Grows
<1>1. \A u \in DOMAIN server : answered[u] \in Nat
  BY AnswersAreNumbers
<1> QED BY <1>1 DEF Grows, outside, TypeInv

\* The clock and the source's content are numbers.
LEMMA Numbers == TypeInv => now \in Nat /\ content \in Nat /\ Ttl \in Nat /\ Ttl > 0 /\ Forever \in Nat /\ Forever > now
  BY UploadAssumption DEF TypeInv, Forever

\* A call that goes to another step, alone.
LEMMA GoesThere ==
    ASSUME TypeInv, NEW c \in Calls, NEW step \in Steps, Goes(c, step)
    PROVE  pc' \in [Calls -> Steps] /\ pc'[c] = step /\ \A d \in Calls \ {c} : pc'[d] = pc[d]
  BY DEF TypeInv, Goes

-----------------------------------------------------------------------------
(* Every step of a call keeps the invariant.                               *)

\* A call begins knowing nothing.
LEMMA BeginKeeps ==
    ASSUME IInv, NEW c \in Calls, NEW k \in Kinds, Begin(c, k) \/ (BeginUncached(c) /\ k = "import")
    PROVE  IInv'
<1> USE DEF IInv
<1>1. /\ pc[c] = "idle" /\ kind' = [kind EXCEPT ![c] = k]
      /\ \E step \in {"read", "get", "upload"} :
            /\ Goes(c, step)
            /\ step = "read" => k \in {"transfer", "copy"}
            /\ step = "upload" => k = "import"
      /\ began' = [began EXCEPT ![c] = content] /\ missing' = [missing EXCEPT ![c] = lost]
      /\ UNCHANGED <<now, outside, server, trees, sources, read, cached, uuid, expires, looked, answered>>
  BY DEF Begin, BeginUncached
<1>2. /\ pc' \in [Calls -> Steps] /\ pc'[c] \in {"read", "get", "upload"}
      /\ pc'[c] = "read" => k \in {"transfer", "copy"}
      /\ pc'[c] = "upload" => k = "import"
      /\ \A d \in Calls \ {c} : pc'[d] = pc[d]
  BY <1>1, GoesThere DEF Steps, Looking
<1>3. TypeInv' /\ Grows
  <2>1. lost \in SUBSET Nat
    BY AnswersAreNumbers DEF TypeInv
  <2>2. began' \in [Calls -> Nat] /\ missing' \in [Calls -> SUBSET Nat] /\ kind' \in [Calls -> Kinds \cup {"none"}]
    BY <1>1, <2>1, Numbers DEF TypeInv
  <2> QED BY <1>1, <1>2, <2>2, QuietGrows DEF TypeInv, outside
<1>4. TreesInv' /\ SourcesInv'
  BY <1>1, <1>3, TreesStay, SourcesStay
<1>5. \A d \in Calls \ {c} : Same(d)
  BY <1>1, <1>2 DEF Same, TypeInv
<1>6. CallInv(c)'
  <2>1. kind'[c] = k /\ began'[c] = content /\ missing'[c] = lost /\ cached[c].uuid = Nothing /\ expires[c] = 0
    BY <1>1 DEF TypeInv, CallInv, Looking
  <2>2. content <= content /\ k # "none"
    BY Numbers, UploadAssumption
  <2> QED BY <1>1, <1>2, <2>1, <2>2 DEF CallInv, Looking, Keeping, Reads, outside, Nothing
<1> QED BY <1>3, <1>4, <1>5, <1>6, StepOfCall

\* A snapshot of the source is what the source held.
LEMMA SnapshotUploadKeeps ==
    ASSUME IInv, NEW c \in Calls, SnapshotUpload(c)
    PROVE  IInv'
<1> USE DEF IInv
<1>1. /\ pc[c] = "read" /\ read' = [read EXCEPT ![c] = Append(read[c], content)]
      /\ \E step \in {"read", "get"} : Goes(c, step)
      /\ UNCHANGED <<now, outside, server, trees, sources, kind, cached, uuid, expires, ghosts>>
  BY DEF SnapshotUpload
<1>2. pc' \in [Calls -> Steps] /\ pc'[c] \in {"read", "get"} /\ \A d \in Calls \ {c} : pc'[d] = pc[d]
  BY <1>1, GoesThere DEF Steps, Looking
<1>3. TypeInv' /\ Grows
  <2>1. read[c] \in Seq(Contents) /\ content \in Contents
    BY Numbers DEF TypeInv, Bytes, Contents
  <2>2. Append(read[c], content) \in Bytes
    BY <2>1 DEF Bytes
  <2>3. read' \in [Calls -> Bytes]
    BY <1>1, <2>2 DEF TypeInv
  <2> QED BY <1>1, <1>2, <2>3, QuietGrows DEF TypeInv, outside, ghosts
<1>4. TreesInv' /\ SourcesInv'
  BY <1>1, <1>3, TreesStay, SourcesStay
<1>5. \A d \in Calls \ {c} : Same(d)
  BY <1>1, <1>2 DEF Same, TypeInv, ghosts
<1>6. CallInv(c)'
  BY <1>1, <1>2 DEF TypeInv, CallInv, Looking, Keeping, Reads, outside, ghosts, Nothing
<1> QED BY <1>3, <1>4, <1>5, <1>6, StepOfCall

\* Finding a tree says nothing yet of its results.
LEMMA GetSessionKeeps ==
    ASSUME IInv, NEW c \in Calls, GetSession(c)
    PROVE  IInv'
<1> USE DEF IInv
<1>1. /\ pc[c] = "get"
      /\ \E step \in {"list", "request", "upload"} :
            Goes(c, step) /\ (step = "upload" => kind[c] \notin {"fetch", "export"})
      /\ UNCHANGED <<now, outside, server, trees, sources, kind, read, cached, uuid, expires, ghosts>>
  BY DEF GetSession, AfterMiss
<1>2. /\ pc' \in [Calls -> Steps] /\ pc'[c] \in {"list", "request", "upload"}
      /\ pc'[c] = "upload" => kind[c] \notin {"fetch", "export"}
      /\ \A d \in Calls \ {c} : pc'[d] = pc[d]
  BY <1>1, GoesThere DEF Steps, Looking
<1>3. TypeInv' /\ Grows
  BY <1>1, <1>2, QuietGrows DEF TypeInv, outside, ghosts
<1>4. TreesInv' /\ SourcesInv'
  BY <1>1, <1>3, TreesStay, SourcesStay
<1>5. \A d \in Calls \ {c} : Same(d)
  BY <1>1, <1>2 DEF Same, TypeInv, ghosts
<1>6. CallInv(c)'
  BY <1>1, <1>2 DEF TypeInv, CallInv, Looking, Keeping, outside, ghosts, Nothing
<1> QED BY <1>3, <1>4, <1>5, <1>6, StepOfCall

\* A hit is a recorded result of this source.
LEMMA ListNodesKeeps ==
    ASSUME IInv, NEW c \in Calls, ListNodes(c)
    PROVE  IInv'
<1> USE DEF IInv
<1> DEFINE f == Fingerprint(c)
<1>1. /\ pc[c] = "list" /\ f \in DOMAIN trees
      /\ looked' = [looked EXCEPT ![c] = now]
      /\ UNCHANGED <<now, outside, server, trees, sources, kind, read, expires, began, missing, answered>>
  BY DEF ListNodes, Live
<1>2. cached[c].uuid = Nothing /\ expires[c] = 0
  BY <1>1 DEF CallInv, Looking
\* Either nothing is found, or a result of this tree that is not expired.
<1>3. \/ /\ cached' = cached /\ uuid' = uuid
         /\ \E step \in {"request", "upload"} :
               Goes(c, step) /\ (step = "upload" => kind[c] \notin {"fetch", "export"})
      \/ \E r \in trees[f].results :
            /\ cached' = [cached EXCEPT ![c] = r] /\ now < r.expires
            /\ \/ kind[c] \notin Unchecked /\ uuid' = [uuid EXCEPT ![c] = Nothing] /\ Goes(c, "check")
               \/ kind[c] \in Unchecked /\ uuid' = [uuid EXCEPT ![c] = r.uuid] /\ Goes(c, "record")
  <2>1. CASE Valid(f) = {}
    BY <2>1 DEF ListNodes, AfterMiss
  <2>2. CASE Valid(f) # {}
    <3>1. PICK r \in Newest(Valid(f)) : cached' = [cached EXCEPT ![c] = r]
      BY <2>2 DEF ListNodes
    <3>2. r \in trees[f].results /\ ~(r.expires <= now)
      BY DEF Newest, Valid, Expired
    <3>3. r \in Results
      BY <1>1, <3>2 DEF TypeInv, Trees
    <3>4. now < r.expires
      BY <3>2, <3>3, Numbers DEF Results
    <3>5. cached'[c] = r
      BY <3>1 DEF TypeInv
    <3> QED BY <2>2, <3>1, <3>2, <3>4, <3>5 DEF ListNodes
  <2> QED BY <2>1, <2>2
<1>4. CASE cached' = cached /\ uuid' = uuid /\ \E step \in {"request", "upload"} :
               Goes(c, step) /\ (step = "upload" => kind[c] \notin {"fetch", "export"})
  <2>1. /\ pc' \in [Calls -> Steps] /\ pc'[c] \in {"request", "upload"}
        /\ pc'[c] = "upload" => kind[c] \notin {"fetch", "export"}
        /\ \A d \in Calls \ {c} : pc'[d] = pc[d]
    BY <1>4, GoesThere DEF Steps, Looking
  <2>2. TypeInv' /\ Grows
    BY <1>1, <1>4, <2>1, Numbers, QuietGrows DEF TypeInv, outside
  <2>3. TreesInv' /\ SourcesInv'
    BY <1>1, <2>2, TreesStay, SourcesStay
  <2>4. \A d \in Calls \ {c} : Same(d)
    BY <1>1, <1>4, <2>1 DEF Same, TypeInv
  <2>5. CallInv(c)'
    BY <1>1, <1>2, <1>4, <2>1 DEF TypeInv, CallInv, Looking, Keeping, outside, Nothing
  <2> QED BY <2>2, <2>3, <2>4, <2>5, StepOfCall
<1>5. ASSUME NEW r \in trees[f].results, cached' = [cached EXCEPT ![c] = r], now < r.expires,
             \/ kind[c] \notin Unchecked /\ uuid' = [uuid EXCEPT ![c] = Nothing] /\ Goes(c, "check")
             \/ kind[c] \in Unchecked /\ uuid' = [uuid EXCEPT ![c] = r.uuid] /\ Goes(c, "record")
      PROVE  IInv'
  <2>1. /\ pc' \in [Calls -> Steps] /\ pc'[c] \in {"check", "record"}
        /\ \A d \in Calls \ {c} : pc'[d] = pc[d]
    BY <1>5, GoesThere DEF Steps, Looking
  <2>2. r \in Results /\ Says(f[1], r) /\ (f[1] \in {"transfer", "copy"} => r.sha256 = f[2])
    BY <1>1 DEF TypeInv, Trees, TreesInv
  <2>3. Says(kind[c], r) /\ (Reads(c) => r.sha256 = read[c])
    <3>1. f[1] = kind[c] /\ (Reads(c) => f[2] = read[c])
      BY DEF Fingerprint
    <3> QED BY <2>2, <3>1 DEF Reads
  <2>4. r.uuid \in DOMAIN server /\ r.uuid \in Nat /\ r.uuid # 0
    BY <2>3, AnswersAreNumbers DEF Says
  <2>5. TypeInv' /\ Grows
    <3>1. cached' \in [Calls -> Results] /\ looked' \in [Calls -> Nat]
      BY <1>1, <1>5, <2>2, Numbers DEF TypeInv
    <3>2. uuid' \in [Calls -> Nat]
      <4>1. PICK v \in Nat : uuid' = [uuid EXCEPT ![c] = v]
        BY <1>5, <2>4 DEF Nothing
      <4> QED BY <4>1 DEF TypeInv
    <3> QED BY <1>1, <2>1, <3>1, <3>2, QuietGrows DEF TypeInv, outside
  <2>6. TreesInv' /\ SourcesInv'
    BY <1>1, <2>5, TreesStay, SourcesStay
  <2>7. \A d \in Calls \ {c} : Same(d)
    BY <1>1, <1>5, <2>1 DEF Same, TypeInv
  <2>8. /\ cached'[c] = r /\ looked'[c] = now /\ kind[c] \in Kinds \cup {"none"}
        /\ pc'[c] = "check" => kind[c] \notin Unchecked
        /\ pc'[c] = "record" => kind[c] \in Unchecked /\ uuid'[c] = r.uuid
    BY <1>1, <1>5, <2>1 DEF TypeInv, Goes
  <2>9. CallInv(c)'
    <3>1. Says(kind[c], r)'
      BY <1>1, <2>2, <2>3, <2>5, SaysStays
    <3>2. now < r.expires /\ server[r.uuid] = server'[r.uuid] /\ r.uuid \in DOMAIN server'
      BY <1>5, <2>4, <2>5 DEF Grows
    <3>3. kind[c] # "none" /\ (Reads(c) /\ kind[c] # "import" => server[r.uuid].holds = read[c])
      <4>1. kind[c] # "none"
        BY <1>1 DEF CallInv
      <4>2. kind[c] # "import" => server[r.uuid] = [is |-> "upload", holds |-> r.sha256]
        BY <2>3, Zenon DEF Says
      <4> QED BY <2>3, <4>1, <4>2
    <3>4. pc'[c] = "check" => kind[c] \in {"copy", "export", "fetch"}
      BY <2>8, <3>3, UploadAssumption DEF Unchecked
    <3>5. pc'[c] = "record" => Returns(c)'
      BY <1>1, <1>2, <2>1, <2>8, <3>2, <3>3 DEF Returns, Unchecked, Reads
    <3> QED BY <1>1, <1>2, <2>1, <2>3, <2>4, <2>8, <3>1, <3>2, <3>3, <3>4, <3>5 DEF CallInv, Looking, Keeping, Reads, outside, Nothing
  <2> QED BY <2>5, <2>6, <2>7, <2>9, StepOfCall
<1> QED BY <1>3, <1>4, <1>5

\* The builder asks for the bytes before it uses a hit.
LEMMA CheckFileExistsKeeps ==
    ASSUME IInv, NEW c \in Calls, CheckFileExists(c)
    PROVE  IInv'
<1> USE DEF IInv
<1>1. /\ pc[c] = "check" /\ cached[c].uuid # Nothing /\ kind[c] \in {"copy", "export", "fetch"} /\ expires[c] = 0
      /\ CallInv(c) /\ cached[c] \in Results
      /\ UNCHANGED <<now, outside, server, trees, sources, kind, read, expires, ghosts>>
  BY DEF CheckFileExists, CallInv, Looking, TypeInv
<1>2. NoResult \in Results /\ NoResult.uuid = Nothing
  BY DEF NoResult, Results, Bytes, Nothing
\* What the check of an existing upload tells.
<1>3. ASSUME Uploads(cached[c].sha256) # {} PROVE There(c, cached[c].uuid)
  <2>1. PICK v \in DOMAIN server \ lost : server[v] = [is |-> "upload", holds |-> cached[c].sha256]
    BY <1>3 DEF Uploads
  <2>2. server[cached[c].uuid] = server[v]
    <3>1. Says(kind[c], cached[c])
      BY <1>1 DEF CallInv
    <3> QED BY <1>1, <2>1, <3>1 DEF Says
  <2> QED BY <1>1, <2>1, <2>2 DEF There, CallInv
<1>4. (IF kind[c] = "copy" THEN read[c] ELSE cached[c].sha256) = cached[c].sha256
  BY <1>1 DEF CallInv, Reads
<1>5. \/ /\ cached' = [cached EXCEPT ![c] = NoResult] /\ uuid' = uuid
         /\ \E step \in {"request", "upload"} :
               Goes(c, step) /\ (step = "upload" => kind[c] \notin {"fetch", "export"})
      \/ /\ cached' = cached /\ There(c, cached[c].uuid)
         /\ \/ uuid' = uuid /\ kind[c] = "fetch" /\ Goes(c, "request")
            \/ uuid' = [uuid EXCEPT ![c] = cached[c].uuid] /\ kind[c] \in {"copy", "export"} /\ Goes(c, "record")
  <2>1. CASE Uploads(cached[c].sha256) = {}
    BY <1>4, <2>1 DEF CheckFileExists, AfterMiss
  <2>2. CASE Uploads(cached[c].sha256) # {}
    <3>1. There(c, cached[c].uuid)
      BY <1>3, <2>2
    <3>2. cached' = cached /\ IF kind[c] = "fetch" THEN Goes(c, "request") /\ UNCHANGED uuid
               ELSE Goes(c, "record") /\ uuid' = [uuid EXCEPT ![c] = cached[c].uuid]
      BY <1>4, <2>2 DEF CheckFileExists
    <3> QED BY <1>1, <3>1, <3>2
  <2> QED BY <2>1, <2>2
<1>6. /\ pc' \in [Calls -> Steps] /\ pc'[c] \in {"request", "upload", "record"}
      /\ \A d \in Calls \ {c} : pc'[d] = pc[d]
  BY <1>5, GoesThere DEF Steps, Looking
<1>7. TypeInv' /\ Grows
  <2>1. cached' \in [Calls -> Results] /\ uuid' \in [Calls -> Nat]
    BY <1>1, <1>2, <1>5 DEF TypeInv, Results
  <2> QED BY <1>1, <1>6, <2>1, QuietGrows DEF TypeInv, outside, ghosts
<1>8. TreesInv' /\ SourcesInv'
  BY <1>1, <1>7, TreesStay, SourcesStay
<1>9. \A d \in Calls \ {c} : Same(d)
  BY <1>1, <1>5, <1>6 DEF Same, TypeInv, ghosts
<1>10. CallInv(c)'
  <2>1. CASE cached' = [cached EXCEPT ![c] = NoResult] /\ \E step \in {"request", "upload"} :
               Goes(c, step) /\ (step = "upload" => kind[c] \notin {"fetch", "export"})
    <3>1. /\ cached'[c] = NoResult /\ pc'[c] \in {"request", "upload"}
          /\ pc'[c] = "upload" => kind[c] \notin {"fetch", "export"}
      BY <2>1 DEF TypeInv, Goes
    <3> QED BY <1>1, <1>2, <3>1 DEF CallInv, Looking, Keeping, outside, ghosts
  <2>2. CASE /\ cached' = cached /\ There(c, cached[c].uuid)
             /\ \/ uuid' = uuid /\ kind[c] = "fetch" /\ Goes(c, "request")
                \/ uuid' = [uuid EXCEPT ![c] = cached[c].uuid] /\ kind[c] \in {"copy", "export"} /\ Goes(c, "record")
    <3>1. \/ pc'[c] = "request" /\ kind[c] = "fetch"
          \/ pc'[c] = "record" /\ kind[c] \in {"copy", "export"} /\ uuid'[c] = cached[c].uuid
      BY <2>2 DEF TypeInv, Goes
    <3>2. There(c, cached[c].uuid)'
      BY <1>1, <2>2 DEF There, ghosts, outside
    <3>3. Says(kind[c], cached[c])'
      BY <1>1, <2>2, Zenon DEF Says, CallInv, ghosts
    <3>4. pc'[c] = "record" => Returns(c)'
      <4>1. /\ cached[c].uuid \in DOMAIN server
            /\ server[cached[c].uuid].holds = cached[c].sha256
            /\ Reads(c) => cached[c].sha256 = read[c]
            /\ kind[c] = "export" => cached[c].sha256 = ImageFile
        <5>1. Says(kind[c], cached[c]) /\ (Reads(c) => cached[c].sha256 = read[c])
          BY <1>1 DEF CallInv
        <5> QED BY <1>1, <5>1 DEF Says
      <4> QED BY <1>1, <2>2, <3>1, <3>2, <4>1 DEF Returns, Reads, There, ImageFile
    <3> QED BY <1>1, <2>2, <3>1, <3>2, <3>3, <3>4 DEF CallInv, Looking, Keeping, Reads, outside, ghosts
  <2> QED BY <1>5, <2>1, <2>2
<1> QED BY <1>7, <1>8, <1>9, <1>10, StepOfCall

\* Fetched bytes and their ETag belong together.
LEMMA HttpFetchKeeps ==
    ASSUME IInv, NEW c \in Calls, HttpFetch(c)
    PROVE  IInv'
<1> USE DEF IInv
<1>1. /\ pc[c] = "request" /\ kind[c] = "fetch" /\ expires[c] = 0 /\ CallInv(c) /\ cached[c] \in Results
      /\ UNCHANGED <<now, outside, server, trees, sources, kind, cached, expires, ghosts>>
  BY DEF HttpFetch, CallInv, Looking, TypeInv
<1>2. \/ /\ NotModified(c) /\ Goes(c, "record") /\ read' = read
         /\ uuid' = [uuid EXCEPT ![c] = cached[c].uuid]
      \/ Goes(c, "upload") /\ uuid' = uuid /\ read' = [read EXCEPT ![c] = <<content, content>>]
  BY DEF HttpFetch
<1>3. pc' \in [Calls -> Steps] /\ \A d \in Calls \ {c} : pc'[d] = pc[d]
  BY <1>2, GoesThere DEF Steps, Looking
<1>4. TypeInv' /\ Grows
  <2>1. content \in Contents
    BY Numbers DEF Contents
  <2>2. <<content, content>> \in Bytes
    BY <2>1 DEF Bytes
  <2>3. read' \in [Calls -> Bytes] /\ uuid' \in [Calls -> Nat]
    BY <1>1, <1>2, <2>2 DEF TypeInv, Results
  <2> QED BY <1>1, <1>3, <2>3, QuietGrows DEF TypeInv, outside, ghosts
<1>5. TreesInv' /\ SourcesInv'
  BY <1>1, <1>4, TreesStay, SourcesStay
<1>6. \A d \in Calls \ {c} : Same(d)
  BY <1>1, <1>2, <1>3 DEF Same, TypeInv, ghosts
<1>7. CallInv(c)'
  <2>1. cached[c].uuid # Nothing => Says(kind[c], cached[c])'
    BY <1>1, Zenon DEF Says, CallInv, ghosts
  <2>2. CASE NotModified(c) /\ Goes(c, "record") /\ read' = read /\ uuid' = [uuid EXCEPT ![c] = cached[c].uuid]
    <3>1. pc'[c] = "record" /\ uuid'[c] = cached[c].uuid /\ cached[c].uuid # Nothing /\ cached[c].etag = content + 1
      BY <2>2 DEF TypeInv, Goes, NotModified
    <3>2. Says("fetch", cached[c])
      BY <1>1, <3>1 DEF CallInv
    <3>3. PICK n \in Nat : cached[c].sha256 = <<n, n>> /\ cached[c].etag = n + 1
      BY <3>2 DEF Says
    <3>4. server[cached[c].uuid] = [is |-> "upload", holds |-> cached[c].sha256] /\ cached[c].uuid \in DOMAIN server
      BY <3>2 DEF Says
    <3>5. n >= began[c]
      BY <1>1, <3>1, <3>3, Numbers DEF CallInv, TypeInv
    <3>6. Fresh(c, server[cached[c].uuid].holds)
      BY <3>3, <3>4, <3>5 DEF Fresh
    <3>7. There(c, cached[c].uuid)
      BY <1>1, <3>1 DEF CallInv
    <3>8. Returns(c)'
      BY <1>1, <3>1, <3>4, <3>6, <3>7 DEF Returns, Reads, There, Fresh, ghosts, outside
    <3> QED BY <1>1, <2>1, <2>2, <3>1, <3>8 DEF CallInv, Looking, Keeping, Reads, outside, ghosts
  <2>3. CASE Goes(c, "upload") /\ uuid' = uuid /\ read' = [read EXCEPT ![c] = <<content, content>>]
    <3>1. pc'[c] = "upload" /\ read'[c] = <<content, content>>
      BY <2>3 DEF TypeInv, Goes
    <3>2. content \in Nat /\ content >= began[c]
      BY <1>1, Numbers DEF CallInv, TypeInv
    <3>3. Fresh(c, read[c])'
      BY <1>1, <3>1, <3>2 DEF Fresh, ghosts
    <3> QED BY <1>1, <2>1, <3>1, <3>3 DEF CallInv, Looking, Keeping, Reads, outside, ghosts
  <2> QED BY <1>2, <2>2, <2>3
<1> QED BY <1>4, <1>5, <1>6, <1>7, StepOfCall

\* Exported bytes are the source image's.
LEMMA ExportSourceKeeps ==
    ASSUME IInv, NEW c \in Calls, ExportSource(c)
    PROVE  IInv'
<1> USE DEF IInv
<1>1. /\ pc[c] = "request" /\ kind[c] = "export" /\ expires[c] = 0 /\ CallInv(c) /\ cached[c] \in Results
      /\ Goes(c, "upload") /\ read' = [read EXCEPT ![c] = ImageFile]
      /\ UNCHANGED <<now, outside, server, trees, sources, kind, cached, uuid, expires, ghosts>>
  BY DEF ExportSource, CallInv, Looking, TypeInv
<1>2. pc' \in [Calls -> Steps] /\ pc'[c] = "upload" /\ \A d \in Calls \ {c} : pc'[d] = pc[d]
  BY <1>1, GoesThere DEF Steps, Looking
<1>3. TypeInv' /\ Grows
  <2>1. "image file" \in Contents
    BY DEF Contents
  <2>2. ImageFile \in Bytes
    <3>1. \A one \in Contents : <<one>> \in Bytes
      BY DEF Bytes
    <3> QED BY <2>1, <3>1 DEF ImageFile
  <2>3. read' \in [Calls -> Bytes]
    BY <1>1, <2>2 DEF TypeInv
  <2> QED BY <1>1, <1>2, <2>3, QuietGrows DEF TypeInv, outside, ghosts
<1>4. TreesInv' /\ SourcesInv'
  BY <1>1, <1>3, TreesStay, SourcesStay
<1>5. \A d \in Calls \ {c} : Same(d)
  BY <1>1, <1>2 DEF Same, TypeInv, ghosts
<1>6. CallInv(c)'
  <2>1. cached[c].uuid # Nothing => Says(kind[c], cached[c])'
    BY <1>1, Zenon DEF Says, CallInv, ghosts
  <2>2. read'[c] = ImageFile
    BY <1>1 DEF TypeInv
  <2> QED BY <1>1, <1>2, <2>1, <2>2 DEF CallInv, Looking, Keeping, Reads, outside, ghosts
<1> QED BY <1>3, <1>4, <1>5, <1>6, StepOfCall

\* The server has one more upload, answered now.
LEMMA UploadAdds ==
    ASSUME TypeInv, NEW new \in Stored, server' = Append(server, new), answered' = Append(answered, now),
           UNCHANGED <<now, outside>>
    PROVE  /\ Grows /\ Len(server') \in DOMAIN server' \ DOMAIN server /\ Len(server') # 0
           /\ server'[Len(server')] = new /\ answered'[Len(server')] = now
           /\ server' \in Seq(Stored) /\ answered' \in Seq(Nat) /\ Len(answered') = Len(server')
           /\ lost' \subseteq DOMAIN server' /\ \A u \in DOMAIN server' : answered'[u] <= now'
<1>1. /\ server' \in Seq(Stored) /\ Len(server') = Len(server) + 1 /\ Len(server) \in Nat
      /\ DOMAIN server' = 1 .. Len(server) + 1 /\ DOMAIN server = 1 .. Len(server)
      /\ \A u \in 1 .. Len(server) : server'[u] = server[u]
      /\ server'[Len(server) + 1] = new
  BY DEF TypeInv
<1>2. /\ answered' \in Seq(Nat) /\ Len(answered') = Len(server) + 1
      /\ \A u \in 1 .. Len(server) : answered'[u] = answered[u] /\ answered[u] \in Nat /\ answered[u] <= now
      /\ answered'[Len(server) + 1] = now
  <2>1. answered \in Seq(Nat) /\ now \in Nat /\ Len(answered) = Len(server)
        /\ \A u \in 1 .. Len(server) : answered[u] <= now
    BY <1>1, Numbers DEF TypeInv
  <2>2. /\ answered' \in Seq(Nat) /\ Len(answered') = Len(answered) + 1
        /\ \A u \in 1 .. Len(answered) : answered'[u] = answered[u] /\ answered[u] \in Nat
        /\ answered'[Len(answered) + 1] = now
    BY <2>1
  <2> QED BY <2>1, <2>2
<1> QED BY <1>1, <1>2, Numbers DEF Grows, TypeInv, outside

\* An upload that is there is answered again.
LEMMA UploadAgain ==
    ASSUME TypeInv, NEW u \in DOMAIN server, server' = server, answered' = [answered EXCEPT ![u] = now],
           UNCHANGED <<now, outside>>
    PROVE  /\ Grows /\ answered'[u] = now /\ answered' \in Seq(Nat) /\ Len(answered') = Len(server')
           /\ \A v \in DOMAIN server' : answered'[v] <= now'
<1>1. /\ DOMAIN server = 1 .. Len(server) /\ Len(server) \in Nat /\ DOMAIN answered = 1 .. Len(server)
      /\ \A v \in DOMAIN server : answered[v] \in Nat /\ answered[v] <= now
  BY AnswersAreNumbers DEF TypeInv
<1>2. answered' \in Seq(Nat) /\ Len(answered') = Len(answered)
  BY <1>1, Numbers DEF TypeInv
<1>3. answered'[u] = now /\ \A v \in DOMAIN server : v # u => answered'[v] = answered[v]
  BY <1>1
<1> QED BY <1>1, <1>2, <1>3, Numbers DEF Grows, TypeInv, outside

\* An upload holds the bytes that were read for it.
LEMMA UploadKeeps ==
    ASSUME IInv, NEW c \in Calls, Upload(c)
    PROVE  IInv'
<1> USE DEF IInv
<1> DEFINE etag == IF kind[c] = "fetch" THEN read[c][1] + 1 ELSE Nothing
<1>1. /\ pc[c] = "upload" /\ kind[c] # "none" /\ CallInv(c) /\ Goes(c, "create")
      /\ cached' = [cached EXCEPT ![c] =
            [uuid |-> uuid'[c], sha256 |-> Uploaded(c), etag |-> etag, recorded |-> now, expires |-> Expiration(c, now)]]
      /\ expires' = [expires EXCEPT ![c] = Expiration(c, now)]
      /\ UNCHANGED <<now, outside, trees, sources, kind, read, began, missing, looked>>
  BY DEF Upload, CallInv
<1>2. pc' \in [Calls -> Steps] /\ pc'[c] = "create" /\ \A d \in Calls \ {c} : pc'[d] = pc[d]
  BY <1>1, GoesThere DEF Steps, Keeping
\* What is uploaded, and until when it is kept.
<1>3. /\ Uploaded(c) \in Bytes /\ etag \in Nat
      /\ Expiration(c, now) \in Nat /\ Expiration(c, now) # 0
      /\ kind[c] = "fetch" => \E n \in Nat : Uploaded(c) = <<n, n>> /\ etag = n + 1
      /\ kind[c] \in {"fetch", "import"} => Fresh(c, Uploaded(c))
      /\ kind[c] = "export" => Uploaded(c) = ImageFile
      /\ kind[c] # "import" => Uploaded(c) = read[c]
  <2>1. content \in Contents /\ content \in Nat /\ content >= began[c]
    BY <1>1, Numbers DEF Contents, CallInv, TypeInv
  <2>2. <<content, content>> \in Bytes /\ read[c] \in Bytes
    BY <2>1 DEF Bytes, TypeInv
  <2>3. Fresh(c, <<content, content>>)
    BY <2>1 DEF Fresh
  <2>4. Expiration(c, now) \in Nat /\ Expiration(c, now) # 0
    BY Numbers DEF Expiration
  <2>5. CASE kind[c] = "import"
    BY <2>2, <2>3, <2>4, <2>5 DEF Uploaded, Nothing
  <2>6. CASE kind[c] = "fetch"
    <3>1. PICK n \in Nat : read[c] = <<n, n>>
      BY <1>1, <2>6 DEF CallInv, Fresh
    <3>2. read[c][1] = n
      BY <3>1
    <3>3. Fresh(c, read[c])
      BY <1>1, <2>6 DEF CallInv
    <3> QED BY <2>2, <2>4, <2>6, <3>1, <3>2, <3>3 DEF Uploaded
  <2>7. CASE kind[c] \notin {"import", "fetch"}
    BY <1>1, <2>2, <2>4, <2>7 DEF Uploaded, Nothing, CallInv
  <2> QED BY <2>5, <2>6, <2>7
\* One upload holds it, which the server has.
<1>4. /\ Grows /\ uuid' = [uuid EXCEPT ![c] = uuid'[c]] /\ uuid'[c] \in DOMAIN server' /\ uuid'[c] \notin lost
      /\ server'[uuid'[c]] = [is |-> IF kind[c] = "import" THEN "image" ELSE "upload", holds |-> Uploaded(c)]
      /\ answered'[uuid'[c]] = now
      /\ server' \in Seq(Stored) /\ answered' \in Seq(Nat) /\ Len(answered') = Len(server')
      /\ lost' \subseteq DOMAIN server' /\ \A u \in DOMAIN server' : answered'[u] <= now'
  <2> DEFINE new == [is |-> IF kind[c] = "import" THEN "image" ELSE "upload", holds |-> Uploaded(c)]
  <2>1. new \in Stored
    BY <1>3 DEF Stored
  <2>2. CASE Held(c) = {}
    <3>1. server' = Append(server, new) /\ answered' = Append(answered, now) /\ uuid' = [uuid EXCEPT ![c] = Len(server')]
      BY <2>2 DEF Upload
    <3>2. uuid'[c] = Len(server')
      BY <3>1 DEF TypeInv
    <3> HIDE DEF new
    <3>3. /\ Grows /\ Len(server') \in DOMAIN server' \ DOMAIN server
          /\ server'[Len(server')] = new /\ answered'[Len(server')] = now
          /\ server' \in Seq(Stored) /\ answered' \in Seq(Nat) /\ Len(answered') = Len(server')
          /\ lost' \subseteq DOMAIN server' /\ \A u \in DOMAIN server' : answered'[u] <= now'
      BY <1>1, <2>1, <3>1, UploadAdds
    <3> QED BY <3>1, <3>2, <3>3 DEF TypeInv, new
  <2>3. CASE Held(c) # {}
    <3>1. PICK u \in Held(c) : uuid' = [uuid EXCEPT ![c] = u] /\ server' = server
                               /\ answered' = [answered EXCEPT ![u] = now]
      BY <2>3 DEF Upload
    <3>2. u \in DOMAIN server /\ u \notin lost /\ server[u] = new /\ uuid'[c] = u
      BY <3>1 DEF Held, Uploads, TypeInv
    <3>3. /\ Grows /\ answered'[u] = now /\ answered' \in Seq(Nat) /\ Len(answered') = Len(server')
          /\ \A v \in DOMAIN server' : answered'[v] <= now'
      BY <1>1, <3>1, <3>2, UploadAgain
    <3> QED BY <1>1, <3>1, <3>2, <3>3 DEF TypeInv, outside
  <2> QED BY <2>2, <2>3
<1>5. uuid'[c] \in Nat /\ uuid'[c] # 0
  <2>1. DOMAIN server' = 1 .. Len(server') /\ Len(server') \in Nat
    BY <1>4
  <2> QED BY <1>4, <2>1
<1>6. TypeInv'
  <2>1. cached' \in [Calls -> Results] /\ expires' \in [Calls -> Nat] /\ uuid' \in [Calls -> Nat]
    BY <1>1, <1>3, <1>4, <1>5, Numbers DEF TypeInv, Results
  <2> QED BY <1>1, <1>2, <1>4, <2>1 DEF TypeInv, outside
<1>7. TreesInv' /\ SourcesInv'
  BY <1>1, <1>4, <1>6, TreesStay, SourcesStay
<1>8. \A d \in Calls \ {c} : Same(d)
  BY <1>1, <1>2, <1>4 DEF Same, TypeInv
<1>9. CallInv(c)'
  <2>1. /\ cached'[c].uuid = uuid'[c] /\ cached'[c].sha256 = Uploaded(c) /\ cached'[c].etag = etag
        /\ cached'[c].recorded = now /\ cached'[c].expires = Expiration(c, now) /\ expires'[c] = Expiration(c, now)
    BY <1>1 DEF TypeInv
  <2>2. Says(kind[c], cached[c])'
    <3>1. now <= answered'[uuid'[c]]
      BY <1>4, Numbers
    <3> QED BY <1>1, <1>3, <1>4, <2>1, <3>1 DEF Says, Expiration
  <2>3. There(c, uuid[c])'
    BY <1>1, <1>4 DEF There, CallInv
  <2>4. Fresh(c, Uploaded(c)) => Fresh(c, server[uuid[c]].holds)'
    BY <1>1, <1>4 DEF Fresh
  <2>5. Returns(c)'
    <3>1. server'[uuid'[c]].holds = Uploaded(c)
      BY <1>4
    <3>2. uuid'[c] \in DOMAIN server' /\ uuid'[c] = cached'[c].uuid
      BY <1>4, <2>1
    <3>3. Reads(c)' => server'[uuid'[c]].holds = read'[c]
      BY <1>1, <1>3, <3>1 DEF Reads
    <3>4. kind'[c] \in {"fetch", "import"} => Fresh(c, server[uuid[c]].holds)'
      BY <1>1, <1>3, <2>4
    <3>5. kind'[c] = "export" => server'[uuid'[c]].holds = ImageFile
      BY <1>1, <1>3, <3>1
    <3> QED BY <2>3, <3>2, <3>3, <3>4, <3>5 DEF Returns
  <2> QED BY <1>1, <1>2, <1>3, <1>5, <2>1, <2>2, <2>5 DEF CallInv, Looking, Keeping, Reads, outside, Nothing
<1> QED BY <1>4, <1>6, <1>7, <1>8, <1>9, StepOfCall

-----------------------------------------------------------------------------
(* A call with an upload records it.                                       *)

\* It keeps what it returns while it goes on.
LEMMA GoesOn ==
    ASSUME IInv, NEW c \in Calls, pc[c] \in Keeping \cup {"record"},
           NEW step \in Keeping \cup {"record", "done"}, Goes(c, step),
           expires'[c] = 0 <=> expires[c] = 0, step \in Keeping => expires[c] # 0,
           UNCHANGED <<outside, server, kind, read, cached, uuid, ghosts>>
    PROVE  CallInv(c)'
<1>1. pc'[c] = step
  BY DEF IInv, TypeInv, Goes
<1>2. CallInv(c) /\ cached[c] \in Results
  BY DEF IInv, TypeInv
<1>3. (Says(kind[c], cached[c]) => Says(kind[c], cached[c])') /\ (There(c, uuid[c]) => There(c, uuid[c])')
  BY Zenon DEF Says, There, ghosts
<1>4. Returns(c)'
  <2>1. Returns(c)
    BY <1>2 DEF CallInv
  <2> QED BY <1>3, <2>1 DEF Returns, Reads, Fresh, There, ghosts
<1> QED BY <1>1, <1>2, <1>3, <1>4 DEF CallInv, Looking, Keeping, Reads, outside, ghosts

\* One tree is put into the store; its results are good.
LEMMA PutTree ==
    ASSUME IInv, NEW f, NEW t \in Trees, Put(f, t), UNCHANGED <<server, answered>>,
           \A r \in t.results : t.root /\ Says(f[1], r) /\ (f[1] \in {"transfer", "copy"} => r.sha256 = f[2])
    PROVE  (\A g \in DOMAIN trees' : trees'[g] \in Trees) /\ TreesInv'
<1>1. DOMAIN trees' = DOMAIN trees \cup {f} /\ trees'[f] = t /\ \A g \in DOMAIN trees \ {f} : trees'[g] = trees[g]
  BY DEF Put
<1>2. \A k, r : Says(k, r) => Says(k, r)'
  BY Zenon DEF Says
<1>3. ASSUME NEW g \in DOMAIN trees', NEW r \in trees'[g].results
      PROVE  trees'[g].root /\ Says(g[1], r)' /\ (g[1] \in {"transfer", "copy"} => r.sha256 = g[2])
  <2>1. CASE g = f
    BY <1>1, <1>2, <2>1
  <2>2. CASE g # f
    <3>1. g \in DOMAIN trees /\ trees'[g] = trees[g]
      BY <1>1, <2>2
    <3> QED BY <1>2, <1>3, <3>1 DEF IInv, TreesInv
  <2> QED BY <2>1, <2>2
<1>4. TreesInv'
  BY <1>3 DEF TreesInv
<1> QED BY <1>1, <1>4 DEF IInv, TypeInv

\* A transaction of remember_result(): a call goes on, and one tree changes.
PutStep(c, step) ==
    /\ pc[c] \in Keeping /\ Goes(c, step) /\ step \in Keeping \cup {"record"}
    /\ UNCHANGED <<now, outside, server, sources, kind, read, cached, uuid, expires, ghosts>>
    /\ (\A g \in DOMAIN trees' : trees'[g] \in Trees) /\ TreesInv'

\* A step of remembering a result that records nothing.
LEMMA PutStepKeeps ==
    ASSUME IInv, NEW c \in Calls, NEW step, PutStep(c, step)
    PROVE  IInv'
<1> USE DEF IInv
<1>1. pc' \in [Calls -> Steps] /\ pc'[c] = step /\ \A d \in Calls \ {c} : pc'[d] = pc[d]
  BY GoesThere DEF Steps, PutStep
<1>2. TypeInv' /\ Grows
  BY <1>1, QuietGrows DEF TypeInv, PutStep, outside, ghosts
<1>3. TreesInv' /\ SourcesInv'
  BY <1>2, SourcesStay DEF PutStep
<1>4. \A d \in Calls \ {c} : Same(d)
  BY <1>1 DEF Same, TypeInv, PutStep, ghosts
<1>5. CallInv(c)'
  <2>1. expires[c] # 0
    BY DEF PutStep, CallInv
  <2> QED BY <2>1, GoesOn DEF PutStep
<1> QED BY <1>2, <1>3, <1>4, <1>5, StepOfCall

\* A new tree has no result.
LEMMA CreateSessionKeeps ==
    ASSUME IInv, NEW c \in Calls, CreateSession(c)
    PROVE  IInv'
<1> USE DEF IInv
<1> DEFINE f == Fingerprint(c)
<1>1. /\ pc[c] = "create" /\ Goes(c, "root") /\ CallInv(c)
      /\ UNCHANGED <<now, outside, server, sources, kind, read, cached, uuid, expires, ghosts>>
  BY DEF CreateSession
<1>2. (\A g \in DOMAIN trees' : trees'[g] \in Trees) /\ TreesInv'
  <2>1. CASE Live(f)
    <3>1. trees' = trees
      BY <2>1 DEF CreateSession
    <3>2. \A k, r : Says(k, r) => Says(k, r)'
      BY <1>1, Zenon DEF Says, ghosts
    <3> QED BY <3>1, <3>2 DEF TreesInv, TypeInv
  <2>2. CASE ~Live(f)
    <3>1. Put(f, Empty(expires[c])) /\ Empty(expires[c]) \in Trees
      BY <2>2 DEF CreateSession, Empty, Trees, TypeInv
    <3>2. \A r \in Empty(expires[c]).results : FALSE
      BY DEF Empty
    <3> QED BY <1>1, <3>1, <3>2, PutTree DEF ghosts
  <2> QED BY <2>1, <2>2
<1>3. PutStep(c, "root")
  BY <1>1, <1>2 DEF PutStep, Keeping
<1> QED BY <1>3, PutStepKeeps

\* A root is no result.
LEMMA AppendRootKeeps ==
    ASSUME IInv, NEW c \in Calls, AppendRoot(c)
    PROVE  IInv'
<1> USE DEF IInv
<1> DEFINE f == Fingerprint(c)
<1>1. /\ pc[c] = "root" /\ Goes(c, "append") /\ CallInv(c)
      /\ UNCHANGED <<now, outside, server, sources, kind, read, cached, uuid, expires, ghosts>>
  BY DEF AppendRoot
<1>2. (\A g \in DOMAIN trees' : trees'[g] \in Trees) /\ TreesInv'
  <2> DEFINE t == [trees[f] EXCEPT !.root = TRUE]
  <2>1. f \in DOMAIN trees /\ Put(f, t) /\ trees[f] \in Trees
    BY DEF AppendRoot, Live, TypeInv
  <2>2. t \in Trees /\ t.root /\ t.results = trees[f].results
    BY <2>1 DEF Trees
  <2> HIDE DEF t, f
  <2>3. \A r \in t.results : Says(f[1], r) /\ (f[1] \in {"transfer", "copy"} => r.sha256 = f[2])
    BY <2>1, <2>2 DEF TreesInv
  <2> QED BY <1>1, <2>1, <2>2, <2>3, PutTree DEF ghosts
<1>3. PutStep(c, "append")
  BY <1>1, <1>2 DEF PutStep, Keeping
<1> QED BY <1>3, PutStepKeeps

\* A result that is recorded says what the call was answered.
LEMMA AppendResultKeeps ==
    ASSUME IInv, NEW c \in Calls, AppendResult(c)
    PROVE  IInv'
<1> USE DEF IInv
<1> DEFINE f == Fingerprint(c)
<1>1. /\ pc[c] = "append" /\ Goes(c, "lifetime") /\ CallInv(c)
      /\ UNCHANGED <<now, outside, server, sources, kind, read, cached, uuid, expires, ghosts>>
  BY DEF AppendResult
<1>2. (\A g \in DOMAIN trees' : trees'[g] \in Trees) /\ TreesInv'
  <2> DEFINE t == [trees[f] EXCEPT !.results = @ \cup {cached[c]}]
  <2>1. f \in DOMAIN trees /\ Put(f, t) /\ trees[f] \in Trees /\ trees[f].root /\ cached[c] \in Results
    BY DEF AppendResult, Live, HasParent, TypeInv
  <2>2. t \in Trees /\ t.root /\ t.results = trees[f].results \cup {cached[c]}
    BY <2>1 DEF Trees
  <2>3. Says(kind[c], cached[c]) /\ (Reads(c) => cached[c].sha256 = read[c])
    <3>1. uuid[c] \in DOMAIN server /\ uuid[c] = cached[c].uuid
      BY <1>1 DEF CallInv, Keeping, Returns
    <3>2. cached[c].uuid # Nothing
      BY <3>1, AnswersAreNumbers DEF Nothing
    <3> QED BY <1>1, <3>2 DEF CallInv
  <2>4. f[1] = kind[c] /\ (Reads(c) => f[2] = read[c])
    BY DEF Fingerprint
  <2>5. Says(f[1], cached[c]) /\ (f[1] \in {"transfer", "copy"} => cached[c].sha256 = f[2])
    BY <2>3, <2>4 DEF Reads
  <2> HIDE DEF t, f
  <2>6. \A r \in t.results : Says(f[1], r) /\ (f[1] \in {"transfer", "copy"} => r.sha256 = f[2])
    BY <2>1, <2>2, <2>5 DEF TreesInv
  <2> QED BY <1>1, <2>1, <2>2, <2>6, PutTree DEF ghosts
<1>3. PutStep(c, "lifetime")
  BY <1>1, <1>2 DEF PutStep, Keeping
<1> QED BY <1>3, PutStepKeeps

\* The lifetime of a tree changes no result.
LEMMA SetSessionTtlKeeps ==
    ASSUME IInv, NEW c \in Calls, SetSessionTtl(c)
    PROVE  IInv'
<1> USE DEF IInv
<1> DEFINE f == Fingerprint(c)
<1>1. /\ pc[c] = "renew" /\ Goes(c, "record") /\ CallInv(c)
      /\ UNCHANGED <<now, outside, server, sources, kind, read, cached, uuid, expires, ghosts>>
  BY DEF SetSessionTtl
<1>2. (\A g \in DOMAIN trees' : trees'[g] \in Trees) /\ TreesInv'
  <2> DEFINE t == [trees[f] EXCEPT !.expires = expires[c]]
  <2>1. f \in DOMAIN trees /\ Put(f, t) /\ trees[f] \in Trees /\ expires[c] \in Nat
    BY DEF SetSessionTtl, Live, TypeInv
  <2>2. t \in Trees /\ t.root = trees[f].root /\ t.results = trees[f].results
    BY <2>1 DEF Trees
  <2> HIDE DEF t, f
  <2>3. \A r \in t.results : t.root /\ Says(f[1], r) /\ (f[1] \in {"transfer", "copy"} => r.sha256 = f[2])
    BY <2>1, <2>2 DEF TreesInv
  <2> QED BY <1>1, <2>1, <2>2, <2>3, PutTree DEF ghosts
<1>3. PutStep(c, "record")
  BY <1>1, <1>2 DEF PutStep, Keeping
<1> QED BY <1>3, PutStepKeeps

\* A lifetime is computed before it is written.
LEMMA LifetimeKeeps ==
    ASSUME IInv, NEW c \in Calls, Lifetime(c)
    PROVE  IInv'
<1> USE DEF IInv
<1>1. /\ pc[c] = "lifetime" /\ Goes(c, "renew") /\ CallInv(c)
      /\ expires' = [expires EXCEPT ![c] = Expiration(c, now)]
      /\ UNCHANGED <<now, outside, server, trees, sources, kind, read, cached, uuid, ghosts>>
  BY DEF Lifetime
<1>2. pc' \in [Calls -> Steps] /\ pc'[c] = "renew" /\ \A d \in Calls \ {c} : pc'[d] = pc[d]
  BY <1>1, GoesThere DEF Steps, Keeping
<1>3. Expiration(c, now) \in Nat /\ Expiration(c, now) # 0
  BY Numbers DEF Expiration
<1>4. TypeInv' /\ Grows
  <2>1. expires' \in [Calls -> Nat]
    BY <1>1, <1>3 DEF TypeInv
  <2> QED BY <1>1, <1>2, <2>1, QuietGrows DEF TypeInv, outside, ghosts
<1>5. TreesInv' /\ SourcesInv'
  BY <1>1, <1>4, TreesStay, SourcesStay
<1>6. \A d \in Calls \ {c} : Same(d)
  BY <1>1, <1>2 DEF Same, TypeInv, ghosts
<1>7. CallInv(c)'
  <2>1. expires[c] # 0 /\ expires'[c] # 0
    BY <1>1, <1>3 DEF CallInv, Keeping, TypeInv
  <2> QED BY <1>1, <2>1, GoesOn DEF Keeping
<1> QED BY <1>4, <1>5, <1>6, <1>7, StepOfCall

\* file_sources records what the call uploaded.
LEMMA RecordKeeps ==
    ASSUME IInv, NEW c \in Calls, Record(c)
    PROVE  IInv'
<1> USE DEF IInv
<1> DEFINE sha == IF Reads(c) THEN read[c] ELSE cached[c].sha256
<1>1. /\ pc[c] = "record" /\ Goes(c, "done") /\ CallInv(c) /\ Returns(c) /\ cached[c] \in Results
      /\ sources' \subseteq sources \cup {[uuid |-> uuid[c], sha256 |-> sha]}
      /\ kind[c] = "import" => sources' = sources
      /\ UNCHANGED <<now, outside, server, trees, kind, read, cached, uuid, expires, ghosts>>
  BY DEF Record, CallInv, TypeInv
<1>2. pc' \in [Calls -> Steps] /\ pc'[c] = "done" /\ \A d \in Calls \ {c} : pc'[d] = pc[d]
  BY <1>1, GoesThere DEF Steps
<1>3. TypeInv' /\ Grows
  <2>1. sources' \subseteq Sources
    <3>1. sha \in Bytes /\ uuid[c] \in Nat
      BY <1>1 DEF TypeInv, Results
    <3> HIDE DEF sha
    <3>2. [uuid |-> uuid[c], sha256 |-> sha] \in Sources
      BY <3>1 DEF Sources
    <3> QED BY <1>1, <3>2 DEF TypeInv
  <2> QED BY <1>1, <1>2, <2>1, QuietGrows DEF TypeInv, outside, ghosts
<1>4. TreesInv'
  BY <1>1, <1>3, TreesStay
<1>5. SourcesInv'
  <2>1. ASSUME kind[c] # "import" PROVE uuid[c] \in DOMAIN server /\ server[uuid[c]].holds = sha
    <3>1. uuid[c] \in DOMAIN server /\ uuid[c] = cached[c].uuid /\ (Reads(c) => server[uuid[c]].holds = read[c])
      BY <1>1 DEF Returns
    <3>2. cached[c].uuid # Nothing
      BY <3>1, AnswersAreNumbers DEF Nothing
    <3>3. Says(kind[c], cached[c])
      BY <1>1, <3>2 DEF CallInv
    <3>4. server[cached[c].uuid] = [is |-> "upload", holds |-> cached[c].sha256]
      BY <2>1, <3>3, Zenon DEF Says
    <3> QED BY <3>1, <3>4
  <2> HIDE DEF sha
  <2>2. CASE kind[c] = "import"
    BY <1>1, <2>2 DEF SourcesInv, ghosts
  <2>3. CASE kind[c] # "import"
    <3>1. \A s \in sources' : s \in sources \/ s = [uuid |-> uuid[c], sha256 |-> sha]
      BY <1>1
    <3> QED BY <1>1, <2>1, <2>3, <3>1 DEF SourcesInv
  <2> QED BY <2>2, <2>3
<1>6. \A d \in Calls \ {c} : Same(d)
  BY <1>1, <1>2 DEF Same, TypeInv, ghosts
<1>7. CallInv(c)'
  BY <1>1, GoesOn DEF Keeping
<1> QED BY <1>3, <1>4, <1>5, <1>6, <1>7, StepOfCall

\* A call that raises leaves what it recorded.
LEMMA FailsKeeps ==
    ASSUME IInv, NEW c \in Calls, Fails(c)
    PROVE  IInv'
<1> USE DEF IInv
<1>1. /\ Goes(c, "failed") /\ CallInv(c) /\ kind[c] # "none"
      /\ UNCHANGED <<now, outside, server, trees, sources, kind, read, cached, uuid, expires, ghosts>>
  BY DEF Fails, CallInv
<1>2. pc' \in [Calls -> Steps] /\ pc'[c] = "failed" /\ \A d \in Calls \ {c} : pc'[d] = pc[d]
  BY <1>1, GoesThere DEF Steps
<1>3. TypeInv' /\ Grows
  BY <1>1, <1>2, QuietGrows DEF TypeInv, outside, ghosts
<1>4. TreesInv' /\ SourcesInv'
  BY <1>1, <1>3, TreesStay, SourcesStay
<1>5. \A d \in Calls \ {c} : Same(d)
  BY <1>1, <1>2 DEF Same, TypeInv, ghosts
<1>6. CallInv(c)'
  <2>1. Says(kind[c], cached[c]) => Says(kind[c], cached[c])'
    BY <1>1, Zenon DEF Says, ghosts
  <2> QED BY <1>1, <1>2, <2>1 DEF CallInv, Looking, Keeping, Reads, outside, ghosts
<1> QED BY <1>3, <1>4, <1>5, <1>6, StepOfCall

-----------------------------------------------------------------------------
(* So does every step of the outside.                                      *)

\* What the world outside does keeps the invariant if trees and types stay right.
LEMMA OutsideKeeps ==
    ASSUME IInv, TypeInv', Grows, TreesInv', UNCHANGED <<sources, call, began, missing, looked>>
    PROVE  IInv'
<1>1. SourcesInv'
  BY SourcesStay DEF IInv
<1>2. ASSUME NEW d \in Calls PROVE CallInv(d)'
  BY <1>2, CallStays DEF Same, call
<1> QED BY <1>1, <1>2 DEF IInv

\* A second that passes only expires results.
LEMMA TickKeeps == IInv /\ Tick => IInv'
<1> SUFFICES ASSUME IInv, Tick PROVE IInv'
  OBVIOUS
<1> USE DEF IInv
<1>1. now' \in 0 .. Horizon /\ \A u \in DOMAIN server : answered[u] <= now'
  BY Numbers, AnswersAreNumbers, UploadAssumption DEF Tick, TypeInv
<1>2. TypeInv'
  BY <1>1 DEF Tick, TypeInv, outside, call, ghosts
<1>3. Grows
  BY QuietGrows DEF Tick, ghosts
<1> QED BY <1>2, <1>3, TreesStay, OutsideKeeps DEF Tick, ghosts

\* An edit of the source does not change what was read of it.
LEMMA EditKeeps == IInv /\ Edit => IInv'
<1> SUFFICES ASSUME IInv, Edit PROVE IInv'
  OBVIOUS
<1> USE DEF IInv
<1>1. content' \in 0 .. Edits /\ content <= content'
  BY Numbers, UploadAssumption DEF Edit, TypeInv
<1>2. TypeInv'
  BY <1>1 DEF Edit, TypeInv, call, ghosts
<1>3. Grows
  BY <1>1, AnswersAreNumbers DEF Edit, Grows, ghosts
<1> QED BY <1>2, <1>3, TreesStay, OutsideKeeps DEF Edit, ghosts

\* A server that forgets an upload does not change what it held.
LEMMA LoseKeeps ==
    ASSUME IInv, NEW u \in DOMAIN server, Lose(u)
    PROVE  IInv'
<1> USE DEF IInv
<1>1. TypeInv'
  BY DEF Lose, TypeInv, call, ghosts
<1>2. Grows
  BY AnswersAreNumbers, Numbers DEF Lose, Grows, ghosts
<1> QED BY <1>1, <1>2, TreesStay, OutsideKeeps DEF Lose, ghosts

\* An upload of the same bytes by somebody else is answered later.
LEMMA OthersUploadKeeps ==
    ASSUME IInv, NEW u \in DOMAIN server, OthersUpload(u)
    PROVE  IInv'
<1> USE DEF IInv
<1>1. server[u] \in Stored
  BY DEF TypeInv
<1>2. /\ Grows /\ server' \in Seq(Stored) /\ answered' \in Seq(Nat) /\ Len(answered') = Len(server')
      /\ lost' \subseteq DOMAIN server' /\ \A v \in DOMAIN server' : answered'[v] <= now'
  BY <1>1, UploadAdds DEF OthersUpload
<1>3. TypeInv'
  BY <1>2 DEF OthersUpload, TypeInv, outside, call
<1> QED BY <1>2, <1>3, TreesStay, OutsideKeeps DEF OthersUpload

\* A deleted tree has no result.
LEMMA InvalidateKeeps ==
    ASSUME IInv, NEW f \in DOMAIN trees, Invalidate(f)
    PROVE  IInv'
<1> USE DEF IInv
<1>1. DOMAIN trees' = DOMAIN trees \ {f} /\ \A g \in DOMAIN trees' : trees'[g] = trees[g]
  BY DEF Invalidate
<1>2. TypeInv'
  BY <1>1 DEF Invalidate, TypeInv, outside, call, ghosts
<1>3. Grows
  BY QuietGrows DEF Invalidate, ghosts
<1>4. \A k, r : Says(k, r) => Says(k, r)'
  BY Zenon DEF Says, Invalidate, ghosts
<1>5. TreesInv'
  BY <1>1, <1>4 DEF TreesInv
<1> QED BY <1>2, <1>3, <1>5, OutsideKeeps DEF Invalidate, ghosts

-----------------------------------------------------------------------------
(* The theorems.                                                           *)

\* Every step keeps the invariant.
LEMMA StepKeeps == IInv /\ [Next]_vars => IInv'
<1> SUFFICES ASSUME IInv, [Next]_vars PROVE IInv'
  OBVIOUS
<1>1. ASSUME NEW c \in Calls, Step(c) PROVE IInv'
  <2>1. ASSUME NEW k \in Kinds, Begin(c, k) PROVE IInv'
    BY <2>1, BeginKeeps
  <2>2. ASSUME BeginUncached(c) PROVE IInv'
    <3>1. "import" \in Kinds
      BY <2>2 DEF BeginUncached
    <3> QED BY <2>2, <3>1, BeginKeeps
  <2> QED BY <1>1, <2>1, <2>2, SnapshotUploadKeeps, GetSessionKeeps, ListNodesKeeps, CheckFileExistsKeeps,
             HttpFetchKeeps, ExportSourceKeeps, UploadKeeps, CreateSessionKeeps, AppendRootKeeps,
             AppendResultKeeps, LifetimeKeeps, SetSessionTtlKeeps, RecordKeeps, FailsKeeps DEF Step
<1>2. ASSUME UNCHANGED vars PROVE IInv'
  <2>1. TypeInv' /\ Grows /\ UNCHANGED <<trees, sources, call, began, missing, looked>>
    BY <1>2, QuietGrows DEF IInv, TypeInv, vars, outside, call, ghosts
  <2> QED BY <2>1, TreesStay, OutsideKeeps
<1> QED BY <1>1, <1>2, TickKeeps, EditKeeps, LoseKeeps, OthersUploadKeeps, InvalidateKeeps DEF Next, Ended

\* At the start nothing is recorded.
LEMMA InitHolds == Init => IInv
<1> SUFFICES ASSUME Init PROVE IInv
  OBVIOUS
<1>1. TypeInv
  <2>1. <<>> \in Bytes /\ <<>> \in Seq(Stored) /\ <<>> \in Seq(Nat) /\ Len(<<>>) = 0 /\ DOMAIN <<>> = {}
    BY DEF Bytes
  <2>2. NoResult \in Results
    BY <2>1 DEF NoResult, Results, Nothing
  <2>3. now \in 0 .. Horizon /\ content \in 0 .. Edits
    BY UploadAssumption DEF Init
  <2>4. "idle" \in Steps
    BY DEF Steps, Looking
  <2>5. /\ kind \in [Calls -> Kinds \cup {"none"}] /\ pc \in [Calls -> Steps]
        /\ read \in [Calls -> Bytes] /\ cached \in [Calls -> Results]
        /\ uuid \in [Calls -> Nat] /\ expires \in [Calls -> Nat]
        /\ began \in [Calls -> Nat] /\ missing \in [Calls -> SUBSET Nat] /\ looked \in [Calls -> Nat]
    BY <2>1, <2>2, <2>4 DEF Init, Nothing
  <2>6. /\ server \in Seq(Stored) /\ lost \subseteq DOMAIN server /\ answered \in Seq(Nat) /\ Len(answered) = Len(server)
        /\ DOMAIN server = {} /\ DOMAIN trees = {} /\ sources = {}
    BY <2>1 DEF Init
  <2> QED BY <2>3, <2>5, <2>6 DEF TypeInv
<1>2. DOMAIN trees = {} /\ sources = {}
  BY DEF Init
<1>3. TreesInv /\ SourcesInv
  BY <1>2 DEF TreesInv, SourcesInv
<1>4. ASSUME NEW c \in Calls PROVE CallInv(c)
  <2>1. /\ pc[c] = "idle" /\ expires[c] = 0 /\ cached[c].uuid = Nothing
        /\ began[c] <= content /\ missing[c] \subseteq lost
    BY DEF Init, NoResult, Nothing
  <2> QED BY <2>1 DEF CallInv, Looking, Keeping
<1> QED BY <1>1, <1>3, <1>4 DEF IInv

\* The inductive invariant, of every reachable state.
THEOREM Inductive == Spec => []IInv
<1>1. IInv /\ [Next]_vars => IInv'
  BY StepKeeps
<1> QED BY <1>1, InitHolds, PTL DEF Spec

\* What the store, the server and the calls hold has its type: every result
\* in the store hangs below a root, and is of an upload that was answered
\* (reuse.py:40-55).
THEOREM TypeCorrect == Spec => []TypeOK
<1>1. IInv => TypeOK
  <2> SUFFICES ASSUME IInv PROVE TypeOK
    OBVIOUS
  <2>1. DOMAIN answered = DOMAIN server
    BY AnswersAreNumbers DEF IInv
  <2>2. ASSUME NEW f \in DOMAIN trees, NEW r \in trees[f].results
        PROVE  trees[f].root /\ r.uuid \in DOMAIN server /\ r.recorded <= now
               /\ r.expires = (IF f[1] = "export" THEN Forever ELSE r.recorded + Ttl)
    <3>1. trees[f].root /\ Says(f[1], r) /\ r \in Results
      BY DEF IInv, TypeInv, TreesInv, Trees
    <3>2. r.uuid \in DOMAIN server /\ r.recorded <= answered[r.uuid] /\ r.recorded \in Nat
          /\ r.expires = (IF f[1] = "export" THEN Forever ELSE r.recorded + Ttl)
      BY <3>1, Zenon DEF Says, Results
    <3>3. answered[r.uuid] <= now /\ answered[r.uuid] \in Nat /\ now \in Nat
      BY <3>2, AnswersAreNumbers, Numbers DEF IInv, TypeInv
    <3> QED BY <3>1, <3>2, <3>3
  <2>3. \A c \in Calls : pc[c] = "done" => uuid[c] \in DOMAIN server
    BY DEF IInv, CallInv, Returns
  <2> QED BY <2>1, <2>2, <2>3 DEF TypeOK, IInv, TypeInv
<1> QED BY <1>1, Inductive, PTL

\* A call returns the bytes it was called for, and file_sources names them
\* (upload_cache.py:129-142, kw_add.py:146-191).
THEOREM ReturnsWhatWasAsked == Spec => []GivesWhatItAsked
<1>1. IInv => GivesWhatItAsked
  <2> SUFFICES ASSUME IInv PROVE GivesWhatItAsked
    OBVIOUS
  <2>1. ASSUME NEW c \in Calls, pc[c] = "done"
        PROVE  /\ Reads(c) => server[uuid[c]].holds = read[c]
               /\ kind[c] = "export" => server[uuid[c]].holds = ImageFile
               /\ kind[c] = "fetch" \/ (kind[c] = "import" /\ ~Hit(c)) => server[uuid[c]].holds[1] >= began[c]
    <3>1. Returns(c)
      BY <2>1 DEF IInv, CallInv
    <3>2. ASSUME Fresh(c, server[uuid[c]].holds) PROVE server[uuid[c]].holds[1] >= began[c]
      BY <3>2 DEF Fresh
    <3>3. kind[c] = "import" /\ ~Hit(c) => expires[c] # 0
      BY <2>1 DEF Hit
    <3> QED BY <3>1, <3>2, <3>3 DEF Returns
  <2> QED BY <2>1 DEF GivesWhatItAsked, IInv, SourcesInv
<1> QED BY <1>1, Inductive, PTL

\* No hit outlives the lifetime that began with its upload's answer
\* (reuse.py:21-37, docs/python_sdk/caching.md:4).
THEOREM HitsAreYoung == Spec => []HitIsYoung
<1>1. IInv => HitIsYoung
  <2> SUFFICES ASSUME IInv, NEW c \in Calls, Hit(c), kind[c] # "export"
               PROVE  looked[c] < answered[uuid[c]] + Ttl
    BY DEF HitIsYoung
  <2>1. Returns(c) /\ CallInv(c) /\ expires[c] = 0
    BY DEF IInv, CallInv, Hit
  <2>2. uuid[c] \in DOMAIN server /\ cached[c].uuid = uuid[c] /\ cached[c].uuid # Nothing
    BY <2>1, AnswersAreNumbers DEF Returns, IInv, Nothing
  <2>3. Says(kind[c], cached[c]) /\ looked[c] < cached[c].expires
    BY <2>1, <2>2 DEF CallInv
  <2>4. cached[c].recorded <= answered[uuid[c]] /\ cached[c].expires = cached[c].recorded + Ttl
    BY <2>2, <2>3 DEF Says
  <2>5. cached[c].recorded \in Nat /\ answered[uuid[c]] \in Nat /\ looked[c] \in Nat /\ Ttl \in Nat
    BY <2>2, AnswersAreNumbers, Numbers DEF IInv, TypeInv, Results
  <2> QED BY <2>3, <2>4, <2>5
<1> QED BY <1>1, Inductive, PTL

\* The builder attaches no bytes that the server had forgotten before the
\* directive began (kw_copy.py:169-173, kw_add.py:146-150).
THEOREM ForgottenIsUploadedAgain == Spec => []CheckedIsThere
<1>1. IInv => CheckedIsThere
  BY DEF IInv, CallInv, Returns, There, CheckedIsThere
<1> QED BY <1>1, Inductive, PTL

=============================================================================
