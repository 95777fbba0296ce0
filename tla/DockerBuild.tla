---------------------------- MODULE DockerBuild ----------------------------
(***************************************************************************)
(* AsyncImageBuilder and ImageBuilder: builds that share one history tree  *)
(* as their layer cache.  A directive is carried out in the steps between  *)
(* two requests, so that two builds, the files they copy and the images of *)
(* the server can change in between.  A layer hash is modelled by what is  *)
(* hashed, and an image by what was done to make it.                       *)
(***************************************************************************)
EXTENDS Sequences, Naturals, Functions

CONSTANTS
    Builds,         \* calls of build() with one session_id and one store
    NoCache,        \* those with no_cache=True
    Dockerfiles,    \* what a build may be given: sequences of directives
    Files,          \* local files and URLs
    Bases,          \* external image references, a sequence
    Dirs,           \* paths in images that are directories
    Changes         \* bound: files edited, base images pushed, images lost

None == "none"

VARIABLES
    \* outside: what a file holds, what a base tag names, the images, those lost
    version, tagged, images, gone, changes,
    \* the store: the history tree, in the order of created_at; the tag; the
    \* files <<image, path>> that were taken out of an image and uploaded
    nodes, tag, uploads,
    \* a build: its Dockerfile, the next directive, its step; a directive's
    \* part of COPY --from and the image it copies from; the layer it works on
    file, at, pc, part, source, layer,
    context,        \* BuildContext
    \* ghosts
    inputs,         \* inputs[b][i]: what directive i was given from outside
    ran,            \* operations the build has spawned
    lost,           \* the images that were lost when the build began
    repeats         \* <<b, o>>: b began its Dockerfile when o had finished the same one

outside == <<version, tagged, images, gone, changes>>
progress == <<file, at, pc, part, source, layer>>
vars == <<outside, nodes, tag, uploads, progress, context, inputs, ran, lost, repeats>>

NoChange == UNCHANGED <<outside, nodes, tag, uploads, repeats>>

\* What the parser lets pass: only ARG comes before the first FROM, a RUN hashes
\* as one, and COPY --from names a path.
Sequence(s) == s \in Seq(Range(s))
Parsed(d) ==
    /\ Sequence(d)
    /\ \E k \in DOMAIN d : d[k].keyword = "FROM" /\ \A i \in 1 .. k - 1 : d[i].keyword = "ARG"
    /\ \A i \in DOMAIN d :
         /\ d[i].keyword = "RUN" => d[i].command[1] = "RUN"
         /\ d[i].keyword = "COPY_FROM" => Sequence(d[i].paths) /\ d[i].paths # <<>>

ASSUME DockerAssumption ==
    /\ NoCache \subseteq Builds /\ Changes \in Nat
    /\ Sequence(Bases) /\ \A i, j \in DOMAIN Bases : Bases[i] = Bases[j] => i = j
    /\ \A d \in Dockerfiles : Parsed(d)

-----------------------------------------------------------------------------
(* What a Dockerfile means: the reference definition.                      *)

Settings(c) == [env |-> c.env, workdir |-> c.workdir, user |-> c.user, args |-> c.args]
Closer == <<"RUN", ":">>
Did(command, settings, files) == [command |-> command, settings |-> settings, files |-> files]
Unpacked(content, path) == <<"unpack", content, path>>
NoSettings == [env |-> {}, workdir |-> "/", user |-> "root", args |-> {}]

NewStage(m) == [m EXCEPT !.env = {}, !.workdir = "/", !.user = None]
\* The files a stage ends with are attached by a layer of their own.
Flushed(m, user) ==
    IF m.pending = <<>> THEN m.content
    ELSE Append(m.content, Did(Closer, [Settings(m) EXCEPT !.user = user], m.pending))

\* One path of COPY --from: a file is attached later, a directory unpacked now.
CopiedFrom(m, content, path) ==
    IF path \in Dirs
    THEN [m EXCEPT !.pending = <<>>,
                   !.content = Append(@, Did(Unpacked(content, path), NoSettings, m.pending))]
    ELSE [m EXCEPT !.pending = Append(@, <<content, path>>)]
\* The first n of its paths.
Copied(m, content, paths, n) ==
    LET after[i \in 0 .. n] ==
            IF i = 0 THEN m ELSE CopiedFrom(after[i - 1], content, paths[i])
    IN after[n]

\* The last stage of that name; 0 for none.
LastNamed(stages, ref) ==
    LET named == {i \in DOMAIN stages : stages[i].name = ref}
    IN IF named = {} THEN 0 ELSE CHOOSE i \in named : \A j \in named : j <= i
\* What a reference names: a stage of the Dockerfile, else what was given.
Named(stages, ref, input) ==
    LET i == LastNamed(stages, ref) IN IF i = 0 THEN input ELSE stages[i].content

Meant(m, d, input) ==
    CASE d.keyword = "FROM" ->
            LET sealed == IF m.content = <<>> THEN m.stages
                          ELSE Append(m.stages, [name |-> m.alias, content |-> Flushed(m, None)])
            IN [NewStage(m) EXCEPT !.stages = sealed, !.alias = d.alias, !.pending = <<>>,
                                   !.content = Named(sealed, d.ref, input)]
      [] d.keyword = "RUN" ->
            [m EXCEPT !.content = Append(@, Did(d.command, Settings(m), m.pending)), !.pending = <<>>]
      [] d.keyword = "COPY" -> [m EXCEPT !.pending = Append(@, input)]
      [] d.keyword = "COPY_FROM" -> Copied(m, Named(m.stages, d.ref, input), d.paths, Len(d.paths))
      [] d.keyword = "ENV" -> [m EXCEPT !.env = @ \cup {d.value}]
      [] d.keyword = "ARG" -> [m EXCEPT !.args = @ \cup {d.value}]
      [] d.keyword = "WORKDIR" -> [m EXCEPT !.workdir = d.value]
      [] d.keyword = "USER" -> [m EXCEPT !.user = d.value]

Nothing == [content |-> <<>>, pending |-> <<>>, stages |-> <<>>, alias |-> None,
            env |-> {}, workdir |-> "/", user |-> None, args |-> {}]

\* What the first n directives of a Dockerfile mean, given what each was given.
Meaning(d, given, n) ==
    LET m[i \in 0 .. n] == IF i = 0 THEN Nothing ELSE Meant(m[i - 1], d[i], given[i])
    IN m[n]

-----------------------------------------------------------------------------
(* The context of a build.                                                 *)

\* The layer a directive works on: its image once it has one, the node found
\* for it, and how its process ended.
Layer(kind, hash, command, image) ==
    [kind |-> kind, hash |-> hash, command |-> command, image |-> image, found |-> 0, exit |-> None]

NewContext == [tip |-> 0, parentHash |-> <<>>, pending |-> <<>>, stages |-> <<>>, alias |-> None,
               env |-> {}, workdir |-> "/", user |-> None, args |-> {}]
NoLayer == Layer(None, <<>>, <<>>, 0)

Init ==
    /\ version = [f \in Files |-> 0] /\ gone = {} /\ changes = 0
    /\ images = [i \in DOMAIN Bases |-> <<<<Bases[i], 0>>>>]
    /\ tagged = [r \in Range(Bases) |-> CHOOSE i \in DOMAIN Bases : Bases[i] = r]
    /\ nodes = <<>> /\ tag = 0 /\ uploads = {}
    /\ file = [b \in Builds |-> <<>>] /\ at = [b \in Builds |-> 0] /\ pc = [b \in Builds |-> "idle"]
    /\ part = [b \in Builds |-> 0] /\ source = [b \in Builds |-> 0]
    /\ layer = [b \in Builds |-> NoLayer]
    /\ context = [b \in Builds |-> NewContext]
    /\ inputs = [b \in Builds |-> <<>>] /\ ran = [b \in Builds |-> 0]
    /\ lost = [b \in Builds |-> {}] /\ repeats = {}

ImageOf(n) == IF n = 0 THEN 0 ELSE nodes[n].image
Content(i) == IF i = 0 THEN <<>> ELSE images[i]
LastImage(b) == ImageOf(context[b].tip)

PendingRepr(c) == c.pending
StateRepr(c) == Settings(c)

\* chain(): the hash of a layer.
Chain(c, contribution) == <<c.parentHash, ImageOf(c.tip), StateRepr(c), contribution, PendingRepr(c)>>
FromHash(i) == <<"FROM", i>>

AnyExit(n) == TRUE \* mutant
Succeeded(n) == nodes[n].exit = "zero"
CacheMatches(n, hash) ==
    nodes[n].hash = hash /\ (Succeeded(n) \/ nodes[n].copyComplete)

\* try_cache_hit(): a FROM is looked for in the whole tree, other layers
\* among the children of the tip; the newest wins.
Candidates(b) ==
    {n \in DOMAIN nodes : /\ CacheMatches(n, layer[b].hash) /\ b \notin NoCache
                          /\ IF layer[b].kind = "use" THEN nodes[n].kind = "use"
                             ELSE nodes[n].kind = "run" /\ nodes[n].parent = context[b].tip}
Newest(N) == CHOOSE n \in N : \A m \in N : m <= n

Node(parent, kind, hash, exit, complete, image) ==
    [parent |-> parent, kind |-> kind, hash |-> hash, exit |-> exit,
     copyComplete |-> complete, image |-> image]

Goes(b, step) == pc' = [pc EXCEPT ![b] = step]
Given(b, input) == inputs' = [inputs EXCEPT ![b] = Append(@, input)]
Directive(b) == file[b][at[b]]
IsAt(b, keyword) == pc[b] = "ready" /\ at[b] <= Len(file[b]) /\ Directive(b).keyword = keyword
NextDirective(b) == at' = [at EXCEPT ![b] = @ + 1]

\* The layer whose cache entry is looked for next.
Wants(b, kind, hash, command) ==
    layer' = [layer EXCEPT ![b] = Layer(kind, hash, command, 0)]

-----------------------------------------------------------------------------
(* Building.                                                               *)

Begin(b) ==
    /\ pc[b] = "idle" /\ Goes(b, "ready")
    /\ \E d \in Dockerfiles :
         /\ file' = [file EXCEPT ![b] = d]
         /\ repeats' = repeats \cup
                {p \in {b} \X Builds : b \notin NoCache /\ pc[p[2]] = "done" /\ file[p[2]] = d}
    /\ at' = [at EXCEPT ![b] = 1] /\ lost' = [lost EXCEPT ![b] = gone]
    /\ UNCHANGED <<outside, nodes, tag, uploads, part, source, layer, context, inputs, ran>>

\* ENV, ARG, WORKDIR and USER change what later layers are hashed and run with.
SetsState(b, keyword, c) ==
    /\ IsAt(b, keyword) /\ context' = [context EXCEPT ![b] = c]
    /\ NextDirective(b) /\ Given(b, <<>>)
    /\ UNCHANGED <<file, pc, part, source, layer, ran, lost>> /\ NoChange

SetsEnv(b) == SetsState(b, "ENV", [context[b] EXCEPT !.env = @ \cup {Directive(b).value}])
SetsArg(b) == SetsState(b, "ARG", [context[b] EXCEPT !.args = @ \cup {Directive(b).value}])
SetsWorkdir(b) == SetsState(b, "WORKDIR", [context[b] EXCEPT !.workdir = Directive(b).value])
SetsUser(b) == SetsState(b, "USER", [context[b] EXCEPT !.user = Directive(b).value])

\* stage_copy() and stage_urls(): the file is uploaded, and attached later.
StageCopy(b) ==
    /\ IsAt(b, "COPY")
    /\ LET now == <<Directive(b).file, version[Directive(b).file]>> IN
         context' = [context EXCEPT ![b].pending = Append(@, now)] /\ Given(b, now)
    /\ NextDirective(b)
    /\ UNCHANGED <<file, pc, part, source, layer, ran, lost>> /\ NoChange

RunHash(b, command) == Chain(context[b], command)

Run(b) ==
    /\ IsAt(b, "RUN") /\ Goes(b, "look")
    /\ Wants(b, "run", RunHash(b, Directive(b).command), Directive(b).command)
    /\ Given(b, <<>>)
    /\ UNCHANGED <<file, at, part, source, context, ran, lost>> /\ NoChange

\* A stage that ends with pending files is sealed by a nested RUN, as root.
AsRoot(c) == [c EXCEPT !.user = None]
MustSeal(b) == context[b].pending # <<>>

SealStage(b) ==
    /\ IsAt(b, "FROM") /\ LastImage(b) # 0 /\ MustSeal(b) /\ Goes(b, "look")
    /\ Wants(b, "run", Chain(AsRoot(context[b]), Closer), Closer)
    /\ UNCHANGED <<file, at, part, source, context, inputs, ran, lost>> /\ NoChange

Sealed(b) ==
    IF LastImage(b) = 0 THEN context[b].stages
    ELSE Append(context[b].stages, [name |-> context[b].alias, image |-> LastImage(b)])

\* resolve_stage_ref(): the last stage of that name, else an external image.
Resolved(stages, ref) ==
    LET i == LastNamed(stages, ref) IN IF i = 0 THEN tagged[ref] ELSE stages[i].image
Resolvable(stages, ref) == ref \in Range(Bases) \/ \E i \in DOMAIN stages : stages[i].name = ref

From(b) ==
    /\ IsAt(b, "FROM") /\ (LastImage(b) # 0 => ~MustSeal(b))
    /\ Resolvable(Sealed(b), Directive(b).ref)
    /\ LET image == Resolved(Sealed(b), Directive(b).ref) IN
         /\ context' = [context EXCEPT ![b] =
                [NewStage(@) EXCEPT !.stages = Sealed(b), !.alias = Directive(b).alias, !.pending = <<>>]]
         /\ layer' = [layer EXCEPT ![b] = Layer("use", FromHash(image), <<>>, image)]
         /\ Given(b, images[image])
    /\ Goes(b, "look")
    /\ UNCHANGED <<file, at, part, source, ran, lost>> /\ NoChange

CopyHash(b, path) == Chain(context[b], <<"COPY", source'[b], path>>)

\* copy_from_image(): the reference is resolved once, the paths one by one.
CopyFrom(b) ==
    /\ IsAt(b, "COPY_FROM") /\ part[b] < Len(Directive(b).paths)
    /\ IF part[b] = 0
       THEN /\ Resolvable(context[b].stages, Directive(b).ref)
            /\ source' = [source EXCEPT ![b] = Resolved(context[b].stages, Directive(b).ref)]
            /\ Given(b, images[source'[b]])
       ELSE UNCHANGED <<source, inputs>>
    /\ part' = [part EXCEPT ![b] = @ + 1]
    /\ LET path == Directive(b).paths[part'[b]] IN
         Wants(b, "run", CopyHash(b, path), Unpacked(images[source'[b]], path))
    /\ Goes(b, "look")
    /\ UNCHANGED <<file, at, context, ran, lost>> /\ NoChange

CopyEnds(b) ==
    /\ IsAt(b, "COPY_FROM") /\ part[b] = Len(Directive(b).paths)
    /\ part' = [part EXCEPT ![b] = 0] /\ NextDirective(b)
    /\ UNCHANGED <<file, pc, source, layer, context, inputs, ran, lost>> /\ NoChange

\* The builder's finalize(): files that are still pending.
AllFlushed(b) == FALSE \* mutant
MustFlush(b) == context[b].pending # <<>>

Finalize(b) ==
    /\ pc[b] = "ready" /\ at[b] > Len(file[b]) /\ MustFlush(b)
    /\ Wants(b, "run", RunHash(b, Closer), Closer) /\ Goes(b, "look")
    /\ UNCHANGED <<file, at, part, source, context, inputs, ran, lost>> /\ NoChange

Tags(b) ==
    /\ pc[b] = "ready" /\ at[b] > Len(file[b]) /\ ~MustFlush(b)
    /\ tag' = LastImage(b) /\ Goes(b, "done")
    /\ UNCHANGED <<outside, nodes, uploads, file, at, part, source, layer, context, inputs, ran, lost,
                   repeats>>

-----------------------------------------------------------------------------
(* A layer.                                                                *)

Looks(b) ==
    /\ pc[b] = "look"
    /\ IF Candidates(b) = {} THEN Goes(b, "miss") /\ UNCHANGED layer
       ELSE Goes(b, "check") /\ layer' = [layer EXCEPT ![b].found = Newest(Candidates(b))]
    /\ UNCHANGED <<file, at, part, source, context, inputs, ran, lost>> /\ NoChange

WithLayer(b, n) ==
    [context[b] EXCEPT !.tip = n, !.parentHash = layer[b].hash, !.pending = <<>>]

\* A nested seal and one path of a COPY --from return to their directive.
CompletesDirective(b) ==
    /\ at[b] <= Len(file[b])
    /\ \/ Directive(b).keyword = "RUN"
       \/ Directive(b).keyword = "FROM" /\ layer[b].kind = "use"
LayerDone(b) ==
    /\ Goes(b, "ready") /\ layer' = [layer EXCEPT ![b] = NoLayer]
    /\ IF CompletesDirective(b) THEN NextDirective(b) ELSE UNCHANGED at

\* check_image_archive() answers for the candidate.
Unchecked(b) == TRUE \* mutant
StillThere(b) == nodes[layer[b].found].image \notin gone

Checks(b) ==
    /\ pc[b] = "check"
    /\ IF StillThere(b)
       THEN context' = [context EXCEPT ![b] = WithLayer(b, layer[b].found)] /\ LayerDone(b)
       ELSE Goes(b, "miss") /\ UNCHANGED <<context, layer, at>>
    /\ UNCHANGED <<file, part, source, inputs, ran, lost>> /\ NoChange

ParentIsTip(b) == context[b].tip \* mutant
ParentOf(b) == IF layer[b].kind = "use" THEN 0 ELSE context[b].tip

\* commit_layer(): FROM records its image below the root.
CommitLayer(b) ==
    /\ pc[b] = "miss" /\ layer[b].kind = "use"
    /\ nodes' = Append(nodes, Node(ParentOf(b), "use", layer[b].hash, "zero", FALSE, layer[b].image))
    /\ context' = [context EXCEPT ![b] = WithLayer(b, Len(nodes'))] /\ LayerDone(b)
    /\ UNCHANGED <<outside, tag, uploads, file, part, source, inputs, ran, lost, repeats>>

IsPath(b) == at[b] <= Len(file[b]) /\ Directive(b).keyword = "COPY_FROM" /\ part[b] > 0
Unpacks(b) == IsPath(b) /\ Directive(b).paths[part[b]] \in Dirs

\* export_source(): what the path names is taken out of its image and uploaded;
\* an upload that is remembered needs the image no more.
Upload(b) == <<source[b], Directive(b).paths[part[b]]>>

Exports(b) ==
    /\ pc[b] = "miss" /\ IsPath(b) /\ Upload(b) \notin uploads
    /\ source[b] \notin gone
    /\ uploads' = uploads \cup {Upload(b)}
    /\ UNCHANGED <<outside, nodes, tag, progress, context, inputs, ran, lost, repeats>>

\* stage_image_file(): a file out of an image is attached like a local one.
StageImageFile(b) ==
    /\ pc[b] = "miss" /\ IsPath(b) /\ ~Unpacks(b) /\ Upload(b) \in uploads
    /\ context' = [context EXCEPT ![b].pending =
                     Append(@, <<images[source[b]], Directive(b).paths[part[b]]>>)]
    /\ LayerDone(b)
    /\ UNCHANGED <<file, part, source, inputs, ran, lost>> /\ NoChange

\* run_operation() and apply_copy_layer() submit their operation.
Spawns(b) ==
    /\ pc[b] = "miss" /\ layer[b].kind = "run"
    /\ IsPath(b) => Unpacks(b) /\ Upload(b) \in uploads
    /\ LastImage(b) \notin gone
    /\ ran' = [ran EXCEPT ![b] = @ + 1] /\ Goes(b, "running")
    /\ UNCHANGED <<file, at, part, source, layer, context, inputs, lost>> /\ NoChange

\* What the request does to the image: build_request() and copy_request().
Requested(b) ==
    LET c == context[b] IN
    IF Unpacks(b) THEN Did(layer[b].command, NoSettings, c.pending)
    ELSE Did(layer[b].command,
             Settings(IF at[b] <= Len(file[b]) /\ Directive(b).keyword = "FROM" THEN AsRoot(c) ELSE c),
             c.pending)

\* A command that exits with an error has done a part of that.
Effect(exit, did) == IF exit = "nonzero" THEN [did EXCEPT !.command = <<"part of", @>>] ELSE did

\* The server: the process exits, and its filesystem becomes an image.  A
\* COPY's process is stopped by SIGTERM.
OperationEnds(b) ==
    /\ pc[b] = "running" /\ Goes(b, "ended")
    /\ \E exit \in IF Unpacks(b) THEN {"signal"} ELSE {"zero", "nonzero"} :
         /\ layer' = [layer EXCEPT ![b].exit = exit, ![b].image = Len(images) + 1]
         /\ images' = Append(images, Append(images[LastImage(b)], Effect(exit, Requested(b))))
    /\ UNCHANGED <<version, tagged, gone, changes, nodes, tag, uploads, file, at, part, source,
                   context, inputs, ran, lost, repeats>>

\* A build that fails drops its context; what it has recorded stays.
Drops(b) ==
    /\ Goes(b, "failed") /\ file' = [file EXCEPT ![b] = <<>>] /\ at' = [at EXCEPT ![b] = 0]
    /\ part' = [part EXCEPT ![b] = 0] /\ source' = [source EXCEPT ![b] = 0]
    /\ layer' = [layer EXCEPT ![b] = NoLayer] /\ context' = [context EXCEPT ![b] = NewContext]
    /\ inputs' = [inputs EXCEPT ![b] = <<>>] /\ ran' = [ran EXCEPT ![b] = 0]
    /\ lost' = [lost EXCEPT ![b] = {}]

Unmarked(b) == FALSE \* mutant
CopyComplete(b) == Unpacks(b)

\* commit_result() comes before check_success(): a failed RUN is in the tree.
CommitResult(b) ==
    /\ pc[b] = "ended"
    /\ nodes' = Append(nodes, Node(ParentOf(b), "run", layer[b].hash, layer[b].exit,
                                   CopyComplete(b), layer[b].image))
    /\ IF layer[b].exit = "nonzero"
       THEN Drops(b)
       ELSE /\ context' = [context EXCEPT ![b] = WithLayer(b, Len(nodes'))] /\ LayerDone(b)
            /\ UNCHANGED <<file, part, source, inputs, ran, lost>>
    /\ UNCHANGED <<outside, tag, uploads, repeats>>

\* A request, a callback or a COPY's command fails, or the build is cancelled.
Fails(b) == pc[b] \notin {"idle", "done", "failed"} /\ Drops(b) /\ NoChange

-----------------------------------------------------------------------------
(* Outside.                                                                *)

Changing == changes < Changes /\ changes' = changes + 1 /\ UNCHANGED repeats

Edit(f) ==
    /\ Changing /\ version' = [version EXCEPT ![f] = @ + 1]
    /\ UNCHANGED <<tagged, images, gone, nodes, tag, uploads, progress, context, inputs, ran, lost>>

\* A new image is pushed under a base's tag.
Push(r) ==
    /\ Changing /\ images' = Append(images, <<<<r, changes'>>>>)
    /\ tagged' = [tagged EXCEPT ![r] = Len(images')]
    /\ UNCHANGED <<version, gone, nodes, tag, uploads, progress, context, inputs, ran, lost>>

\* The server loses an image, or no longer lets the client see it.
Lose(i) ==
    /\ Changing /\ i \notin gone /\ gone' = gone \cup {i}
    /\ UNCHANGED <<version, tagged, images, nodes, tag, uploads, progress, context, inputs, ran, lost>>

Step(b) ==
    \/ Begin(b) \/ SetsEnv(b) \/ SetsArg(b) \/ SetsWorkdir(b) \/ SetsUser(b)
    \/ StageCopy(b) \/ Run(b) \/ SealStage(b) \/ From(b)
    \/ CopyFrom(b) \/ CopyEnds(b) \/ Finalize(b) \/ Tags(b)
    \/ Looks(b) \/ Checks(b) \/ CommitLayer(b) \/ Exports(b) \/ StageImageFile(b) \/ Spawns(b)
    \/ OperationEnds(b) \/ CommitResult(b) \/ Fails(b)

Ended == (\A b \in Builds : pc[b] \in {"done", "failed"}) /\ UNCHANGED vars

Next ==
    \/ \E b \in Builds : Step(b)
    \/ \E f \in Files : Edit(f)
    \/ \E r \in Range(Bases) : Push(r)
    \/ \E i \in DOMAIN images : Lose(i)
    \/ Ended

Spec == Init /\ [][Next]_vars

-----------------------------------------------------------------------------
(* Properties.                                                             *)

TypeOK ==
    /\ \A n \in DOMAIN nodes :
         /\ nodes[n].parent \in 0 .. n - 1 /\ nodes[n].image \in DOMAIN images
         /\ nodes[n].kind = "use" <=> nodes[n].parent = 0
         /\ nodes[n].exit \in {"zero", "nonzero", "signal"} /\ nodes[n].copyComplete \in BOOLEAN
    /\ tag \in 0 .. Len(images) /\ gone \subseteq DOMAIN images
    /\ \A b \in Builds :
         /\ pc[b] \in {"idle", "ready", "look", "check", "miss", "running", "ended", "done", "failed"}
         /\ context[b].tip \in 0 .. Len(nodes)
         /\ layer[b].kind \in {None, "use", "run"}
         /\ layer[b].kind = "run" => context[b].tip # 0

\* Between two directives a build has exactly what its Dockerfile says so far:
\* the filesystem of its tip, the files still to be attached, and the sealed
\* stages, whether a layer was built or found, whichever build made it, and
\* whatever was edited, pushed or lost meanwhile (context.py:229-283,
\* kw_run.py:49-84, kw_from.py:73-130, kw_copy.py:278-298).
EndsStage(b) == at[b] > Len(file[b]) \/ Directive(b).keyword = "FROM"
BuildIsItsDockerfile ==
    \A b \in Builds : pc[b] \in {"ready", "done"} /\ part[b] = 0 /\ at[b] > 1 =>
        LET m == Meaning(file[b], inputs[b], at[b] - 1)
            c == context[b]
            content == Content(LastImage(b))
        IN /\ \/ content = m.content /\ c.pending = m.pending
              \/ /\ EndsStage(b) /\ c.pending = <<>>
                 /\ content = Flushed(m, IF at[b] > Len(file[b]) THEN m.user ELSE None)
           /\ DOMAIN c.stages = DOMAIN m.stages
           /\ \A i \in DOMAIN m.stages : images[c.stages[i].image] = m.stages[i].content

\* A tag names an image that holds all that some build's Dockerfile says, the
\* files of a trailing COPY included; no failed build is tagged
\* (asyncio.py:93-128, 184-187).
TagIsWhole ==
    tag # 0 => \E b \in Builds :
        /\ pc[b] = "done"
        /\ LET m == Meaning(file[b], inputs[b], Len(file[b])) IN images[tag] = Flushed(m, m.user)

\* No build stands on an image that was lost before it began, but for the bases,
\* which are not its own: a layer whose image is lost is built again, though its
\* node is still in the tree, by whichever build recorded it (context.py:477-479).
StandsOn(b) == {LastImage(b)} \cup {context[b].stages[i].image : i \in DOMAIN context[b].stages}
LostIsRebuilt ==
    \A b \in Builds : \A i \in StandsOn(b) \cap lost[b] : Len(images[i]) = 1

\* A build of a Dockerfile that another one has finished, given the same as that
\* one, starts no operation: every layer is found again (context.py:249-283,
\* copy_layer.py:83-85).  Unless an image is lost, or two builds that raced, or
\* one without the cache, recorded a layer twice: the newest one hides the other
\* and all that was built on it.
Alike(m, n) ==
    /\ nodes[m].kind = nodes[n].kind /\ nodes[m].parent = nodes[n].parent
    /\ CacheMatches(m, nodes[n].hash) /\ CacheMatches(n, nodes[m].hash)
Doubled == \E m, n \in DOMAIN nodes : m # n /\ Alike(m, n)
RepeatIsCached ==
    gone = {} /\ ~Doubled => \A b, o \in Builds :
        <<b, o>> \in repeats /\ inputs[b] = SubSeq(inputs[o], 1, Len(inputs[b])) => ran[b] = 0
=============================================================================
