---------------------------- MODULE UploadCache ----------------------------
(***************************************************************************)
(* Reuse of completed uploads and imports: lookup_result() and             *)
(* remember_result() over a store of expiring trees, as five callers use   *)
(* them: CachedFileTransfer.upload ("transfer"), the builder's COPY        *)
(* ("copy"), COPY --from ("export") and ADD of a URL ("fetch"), and        *)
(* import_image ("import").                                                *)
(* Every call of the store is one transaction; calls, expiry, edits of the *)
(* sources and losses on the server interleave between them.               *)
(***************************************************************************)
EXTENDS Naturals, FiniteSets, Sequences

CONSTANTS
    Calls,      \* calls of the five functions, in one scope, with one lifetime
    Kinds,      \* what they may be
    Ttl,        \* the lifetime, in seconds
    Horizon,    \* bound: seconds
    Edits,      \* bound: new contents of the source
    Losses      \* bound: uploads and images the server forgets

ASSUME UploadAssumption ==
    /\ Kinds \subseteq {"transfer", "copy", "export", "fetch", "import"}
    /\ Ttl \in Nat \ {0} /\ Horizon \in Nat /\ Edits \in Nat /\ Losses \in Nat

Nothing == 0

VARIABLES
    now,
    content,    \* what the local file, the URL or the registry tag holds
    server,     \* the uploads and images: what each is and holds
    lost,       \* those the server has forgotten
    trees,      \* the store: by fingerprint, the tree's expiry, root and results
    sources,    \* file_sources: which upload came from which source content
    \* a call: its kind and step; the content read (a file is read in pieces);
    \* the cached result; the upload; the expiry a transaction is about to write
    kind, pc, read, cached, uuid, expires,
    \* ghosts: content and losses at the call's start; when a lookup answered;
    \* when each upload was answered
    began, missing, looked, answered

outside == <<content, lost>>
call == <<kind, pc, read, cached, uuid, expires>>
ghosts == <<began, missing, looked, answered>>
vars == <<now, outside, server, trees, sources, call, ghosts>>

NoResult == [uuid |-> Nothing, sha256 |-> <<>>, etag |-> Nothing, recorded |-> 0, expires |-> 0]

Init ==
    /\ now = 0 /\ content = 0 /\ server = <<>> /\ lost = {} /\ trees = <<>> /\ sources = {}
    /\ kind = [c \in Calls |-> "none"] /\ pc = [c \in Calls |-> "idle"]
    /\ read = [c \in Calls |-> <<>>] /\ cached = [c \in Calls |-> NoResult]
    /\ uuid = [c \in Calls |-> Nothing] /\ expires = [c \in Calls |-> 0]
    /\ began = [c \in Calls |-> 0] /\ missing = [c \in Calls |-> {}]
    /\ looked = [c \in Calls |-> 0] /\ answered = <<>>

Goes(c, step) == pc' = [pc EXCEPT ![c] = step]
Reads(c) == kind[c] \in {"transfer", "copy"}

-----------------------------------------------------------------------------
(* The store: SyncStore and AsyncStore over SQLite.                        *)

\* expiration(), and the comparison every read of an expiry makes.  What comes
\* out of an image is kept without one.
Forever == Horizon + 1
Expiration(c, t) == IF kind[c] = "export" THEN Forever ELSE t + Ttl
ExpiredLate(t) == t < now \* mutant
Expired(t) == t <= now

\* The key of a call's tree: the bytes, or the source, in its own namespace.
Fingerprint(c) == <<kind[c], IF Reads(c) THEN read[c] ELSE <<"source">>>>
Live(f) == f \in DOMAIN trees /\ ~Expired(trees[f].expires)
Put(f, tree) == trees' = [g \in DOMAIN trees \cup {f} |-> IF g = f THEN tree ELSE trees[g]]
Empty(t) == [expires |-> t, root |-> FALSE, results |-> {}]

\* Those of the results that are not expired, and the newest of them.
Valid(f) == {r \in trees[f].results : ~Expired(r.expires)}
Newest(R) == {r \in R : \A q \in R : q.recorded <= r.recorded}

-----------------------------------------------------------------------------
(* The calls.                                                              *)

Begin(c, k) ==
    /\ pc[c] = "idle" /\ kind' = [kind EXCEPT ![c] = k]
    /\ Goes(c, IF k \in {"transfer", "copy"} THEN "read" ELSE "get")
    /\ began' = [began EXCEPT ![c] = content] /\ missing' = [missing EXCEPT ![c] = lost]
    /\ UNCHANGED <<now, outside, server, trees, sources, read, cached, uuid, expires, looked, answered>>

\* import_image(no_cache=True) looks nothing up.
BeginUncached(c) ==
    /\ pc[c] = "idle" /\ "import" \in Kinds /\ kind' = [kind EXCEPT ![c] = "import"] /\ Goes(c, "upload")
    /\ began' = [began EXCEPT ![c] = content] /\ missing' = [missing EXCEPT ![c] = lost]
    /\ UNCHANGED <<now, outside, server, trees, sources, read, cached, uuid, expires, looked, answered>>

\* snapshot_upload(): one piece after another is hashed and copied.
SnapshotUpload(c) ==
    /\ pc[c] = "read" /\ read' = [read EXCEPT ![c] = Append(@, content)]
    /\ Goes(c, IF Len(read'[c]) = 2 THEN "get" ELSE "read")
    /\ UNCHANGED <<now, outside, server, trees, sources, kind, cached, uuid, expires, ghosts>>

\* What follows a lookup without a result, and one with a result.
AfterMiss(c) == IF kind[c] \in {"fetch", "export"} THEN "request" ELSE "upload"
ChecksNothing == {"transfer", "import", "copy", "export", "fetch"} \* mutant
Unchecked == {"transfer", "import"}

\* lookup_result(): is there a tree, and what is in it.
GetSession(c) ==
    /\ pc[c] = "get" /\ Goes(c, IF Live(Fingerprint(c)) THEN "list" ELSE AfterMiss(c))
    /\ UNCHANGED <<now, outside, server, trees, sources, kind, read, cached, uuid, expires, ghosts>>

ListNodes(c) ==
    /\ pc[c] = "list" /\ Live(Fingerprint(c))
    /\ looked' = [looked EXCEPT ![c] = now]
    /\ LET R == Valid(Fingerprint(c)) IN
         IF R = {} THEN Goes(c, AfterMiss(c)) /\ UNCHANGED <<cached, uuid>>
         ELSE /\ \E r \in Newest(R) : cached' = [cached EXCEPT ![c] = r]
              /\ uuid' = [uuid EXCEPT ![c] = IF kind[c] \in Unchecked THEN cached'[c].uuid ELSE Nothing]
              /\ Goes(c, IF kind[c] \notin Unchecked THEN "check" ELSE "record")
    /\ UNCHANGED <<now, outside, server, trees, sources, kind, read, expires, began, missing, answered>>

\* check_file_exists() asks for the bytes, not for the cached upload.
Uploads(bytes) == {u \in DOMAIN server \ lost : server[u] = [is |-> "upload", holds |-> bytes]}

CheckFileExists(c) ==
    /\ pc[c] = "check"
    /\ IF Uploads(IF kind[c] = "copy" THEN read[c] ELSE cached[c].sha256) = {}
       THEN cached' = [cached EXCEPT ![c] = NoResult] /\ Goes(c, AfterMiss(c)) /\ UNCHANGED uuid
       ELSE /\ UNCHANGED cached
            /\ IF kind[c] = "fetch" THEN Goes(c, "request") /\ UNCHANGED uuid
               ELSE Goes(c, "record") /\ uuid' = [uuid EXCEPT ![c] = cached[c].uuid]
    /\ UNCHANGED <<now, outside, server, trees, sources, kind, read, expires, ghosts>>

\* fetch_url(): a conditional request.  The server may answer that nothing
\* changed, or send the body, whose ETag may be the cached one.
NotModified(c) == cached[c].uuid # Nothing /\ cached[c].etag = content + 1

HttpFetch(c) ==
    /\ pc[c] = "request" /\ kind[c] = "fetch"
    /\ IF NotModified(c)
       THEN Goes(c, "record") /\ uuid' = [uuid EXCEPT ![c] = cached[c].uuid] /\ UNCHANGED read
       ELSE Goes(c, "upload") /\ read' = [read EXCEPT ![c] = <<content, content>>] /\ UNCHANGED uuid
    /\ UNCHANGED <<now, outside, server, trees, sources, kind, cached, expires, ghosts>>

\* export_source(): a file or a directory of an image, which never changes.
ImageFile == <<"image file">>
ExportSource(c) ==
    /\ pc[c] = "request" /\ kind[c] = "export" /\ Goes(c, "upload")
    /\ read' = [read EXCEPT ![c] = ImageFile]
    /\ UNCHANGED <<now, outside, server, trees, sources, kind, cached, uuid, expires, ghosts>>

\* The snapshot, the fetched body, the export, or what the registry's tag names now.
FileAgain(c) == <<content, content>> \* mutant
Uploaded(c) == IF kind[c] = "import" THEN <<content, content>> ELSE read[c]
\* ensure_file() sends nothing when the server has the bytes.
Held(c) == IF kind[c] = "import" THEN {} ELSE Uploads(Uploaded(c))

\* The upload, or the import, is done and answered; remember_result() begins.
Upload(c) ==
    /\ pc[c] = "upload"
    /\ IF Held(c) = {}
       THEN /\ server' = Append(server, [is |-> IF kind[c] = "import" THEN "image" ELSE "upload",
                                         holds |-> Uploaded(c)])
            /\ answered' = Append(answered, now)
            /\ uuid' = [uuid EXCEPT ![c] = Len(server')]
       ELSE \E u \in Held(c) : /\ uuid' = [uuid EXCEPT ![c] = u] /\ UNCHANGED server
                               /\ answered' = [answered EXCEPT ![u] = now]
    /\ cached' = [cached EXCEPT ![c] =
         [uuid |-> uuid'[c], sha256 |-> Uploaded(c), etag |-> IF kind[c] = "fetch" THEN read[c][1] + 1 ELSE Nothing,
          recorded |-> now, expires |-> Expiration(c, now)]]
    /\ expires' = [expires EXCEPT ![c] = Expiration(c, now)] /\ Goes(c, "create")
    /\ UNCHANGED <<now, outside, trees, sources, kind, read, began, missing, looked>>

\* create_session() returns a live tree as it is.
CreateSession(c) ==
    /\ pc[c] = "create" /\ Goes(c, "root")
    /\ IF Live(Fingerprint(c)) THEN UNCHANGED trees ELSE Put(Fingerprint(c), Empty(expires[c]))
    /\ UNCHANGED <<now, outside, server, sources, kind, read, cached, uuid, expires, ghosts>>

\* append() of the root, which is there when another call has added it.
AppendRoot(c) ==
    /\ pc[c] = "root" /\ Live(Fingerprint(c)) /\ Goes(c, "append")
    /\ Put(Fingerprint(c), [trees[Fingerprint(c)] EXCEPT !.root = TRUE])
    /\ UNCHANGED <<now, outside, server, sources, kind, read, cached, uuid, expires, ghosts>>

NoParent(f) == TRUE \* mutant
HasParent(f) == trees[f].root

AppendResult(c) ==
    /\ pc[c] = "append" /\ Live(Fingerprint(c)) /\ HasParent(Fingerprint(c)) /\ Goes(c, "lifetime")
    /\ Put(Fingerprint(c), [trees[Fingerprint(c)] EXCEPT !.results = @ \cup {cached[c]}])
    /\ UNCHANGED <<now, outside, server, sources, kind, read, cached, uuid, expires, ghosts>>

\* set_session_ttl() reads the clock before its transaction.
Lifetime(c) ==
    /\ pc[c] = "lifetime" /\ Goes(c, "renew") /\ expires' = [expires EXCEPT ![c] = Expiration(c, now)]
    /\ UNCHANGED <<now, outside, server, trees, sources, kind, read, cached, uuid, ghosts>>

SetSessionTtl(c) ==
    /\ pc[c] = "renew" /\ Live(Fingerprint(c)) /\ Goes(c, "record")
    /\ Put(Fingerprint(c), [trees[Fingerprint(c)] EXCEPT !.expires = expires[c]])
    /\ UNCHANGED <<now, outside, server, sources, kind, read, cached, uuid, expires, ghosts>>

\* file_sources.record(); import_image() keeps no source, but reapplies its tag;
\* the source of an export is its image.
Record(c) ==
    /\ pc[c] = "record" /\ Goes(c, "done")
    /\ sources' = IF kind[c] \in {"import", "export"} THEN sources
                  ELSE sources \cup {[uuid |-> uuid[c], sha256 |-> IF Reads(c) THEN read[c] ELSE cached[c].sha256]}
    /\ UNCHANGED <<now, outside, server, trees, kind, read, cached, uuid, expires, ghosts>>

\* A request fails, the call is cancelled, or a tree expired between two of its
\* transactions: list_nodes(), append() and set_session_ttl() then raise.
Fails(c) ==
    /\ pc[c] \notin {"idle", "done", "failed"} /\ Goes(c, "failed")
    /\ UNCHANGED <<now, outside, server, trees, sources, kind, read, cached, uuid, expires, ghosts>>

-----------------------------------------------------------------------------
Tick ==
    /\ now < Horizon /\ now' = now + 1
    /\ UNCHANGED <<outside, server, trees, sources, call, ghosts>>

Edit ==
    /\ content < Edits /\ content' = content + 1
    /\ UNCHANGED <<now, server, lost, trees, sources, call, ghosts>>

Lose(u) ==
    /\ Cardinality(lost) < Losses /\ u \notin lost /\ lost' = lost \cup {u}
    /\ UNCHANGED <<now, content, server, trees, sources, call, ghosts>>

\* Another client uploads bytes that the server has forgotten.
OthersUpload(u) ==
    /\ u \in lost /\ server[u].is = "upload" /\ Uploads(server[u].holds) = {}
    /\ server' = Append(server, server[u]) /\ answered' = Append(answered, now)
    /\ UNCHANGED <<now, outside, trees, sources, call, began, missing, looked>>

\* The application deletes a tree to invalidate its results, as ttl=0 does.
Invalidate(f) ==
    /\ trees' = [g \in DOMAIN trees \ {f} |-> trees[g]]
    /\ UNCHANGED <<now, outside, server, sources, call, ghosts>>

Step(c) ==
    \/ \E k \in Kinds : Begin(c, k)
    \/ BeginUncached(c) \/ SnapshotUpload(c) \/ GetSession(c) \/ ListNodes(c) \/ CheckFileExists(c)
    \/ HttpFetch(c) \/ ExportSource(c) \/ Upload(c) \/ CreateSession(c) \/ AppendRoot(c) \/ AppendResult(c)
    \/ Lifetime(c) \/ SetSessionTtl(c) \/ Record(c) \/ Fails(c)

Ended == (\A c \in Calls : pc[c] \in {"done", "failed"}) /\ UNCHANGED vars

Next ==
    \/ \E c \in Calls : Step(c)
    \/ Tick \/ Edit \/ (\E u \in DOMAIN server : Lose(u) \/ OthersUpload(u)) \/ (\E f \in DOMAIN trees : Invalidate(f))
    \/ Ended

Spec == Init /\ [][Next]_vars

-----------------------------------------------------------------------------
(* Properties.                                                             *)

\* A call that returns a result it has found.
Hit(c) == pc[c] = "done" /\ expires[c] = 0

TypeOK ==
    /\ now \in 0 .. Horizon /\ content \in 0 .. Edits /\ lost \subseteq DOMAIN server
    /\ DOMAIN answered = DOMAIN server
    /\ \A f \in DOMAIN trees : \A r \in trees[f].results :
         trees[f].root /\ r.uuid \in DOMAIN server /\ r.recorded <= now
         /\ r.expires = (IF f[1] = "export" THEN Forever ELSE r.recorded + Ttl)
    /\ \A c \in Calls : pc[c] = "done" => uuid[c] \in DOMAIN server

\* What a call returns holds the bytes it was called for: a local file as it
\* was read, even if it was edited then or later, a URL as it was during the
\* call, and an uncached import's image is no older than the call; so does
\* whatever file_sources says of an upload (upload_cache.py:50-69, 129-142,
\* kw_add.py:146-191, reuse.py:23-57).
GivesWhatItAsked ==
    /\ \A c \in Calls : pc[c] = "done" =>
         /\ Reads(c) => server[uuid[c]].holds = read[c]
         /\ kind[c] = "export" => server[uuid[c]].holds = ImageFile
         /\ kind[c] = "fetch" \/ (kind[c] = "import" /\ ~Hit(c)) => server[uuid[c]].holds[1] >= began[c]
    /\ \A s \in sources : server[s.uuid].holds = s.sha256

\* No result is reused once its lifetime is over, counted from the answer to
\* the upload or import: neither reuse, nor a 304, nor another call's result in
\* the same tree extends it (docs/python_sdk/caching.md:4, advanced.md:750).
HitIsYoung == \A c \in Calls : Hit(c) /\ kind[c] # "export" => looked[c] < answered[uuid[c]] + Ttl

\* COPY, COPY --from and ADD never attach bytes that the server had forgotten
\* before the directive began, cached or not: what is gone is uploaded again
\* (kw_copy.py:169-173, kw_add.py:146-150, copy_source.py:99-104,
\* advanced.md:566).
CheckedIsThere ==
    \A c \in Calls : pc[c] = "done" /\ kind[c] \in {"copy", "export", "fetch"} =>
        \E u \in DOMAIN server \ missing[c] : server[u] = server[uuid[c]]
=============================================================================
