--------------------------- MODULE MCDockerBuild ---------------------------
(***************************************************************************)
(* Instances of DockerBuild for TLC: two builds, each of one of these      *)
(* Dockerfiles.                                                            *)
(***************************************************************************)
EXTENDS DockerBuild, TLC

OneBase == <<"base">>

FromAs(ref, alias) == [keyword |-> "FROM", ref |-> ref, alias |-> alias]
RunIt(command) == [keyword |-> "RUN", command |-> <<"RUN", command>>]
CopyIn(f) == [keyword |-> "COPY", file |-> f]
CopyOf(ref, paths) == [keyword |-> "COPY_FROM", ref |-> ref, paths |-> paths]
Sets(keyword, value) == [keyword |-> keyword, value |-> value]

\* Two stages: the first is sealed, the second takes a file and a directory.
Staged(f) == <<FromAs("base", "s"), Sets("USER", "u"), CopyIn(f),
               FromAs("base", None), CopyOf("s", <<"file", "dir">>)>>
\* A file that is attached last.
Trailing(f) == <<FromAs("base", None), Sets("ENV", "v"), RunIt("c"), CopyIn(f)>>
\* The same command under other settings, and a stage of the same name on it.
Derived(f) == <<Sets("ARG", "v"), FromAs("base", "s"), Sets("WORKDIR", "v"), RunIt("c"),
                FromAs("s", "s"), CopyIn(f)>>

AllDockerfiles == UNION {{Staged(f), Trailing(f), Derived(f)} : f \in Files}

Symmetry == Permutations(Builds)
=============================================================================
