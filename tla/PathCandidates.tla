---------------------------- MODULE PathCandidates ----------------------------
(***************************************************************************)
(* How runtime_launcher turns the paths it is given into files: the owner  *)
(* of the sidecar when the tool was invoked by a bare name, and the        *)
(* declared files, each looked up below several roots.  RuntimeLauncher    *)
(* takes a path to be found or not; here it is found somewhere.            *)
(*                                                                         *)
(* A path is a sequence of components; an absolute one starts with "/".    *)
(* A path below /proc/self/cwd/ is looked up as the relative path it ends  *)
(* with, and is written as that path.                                      *)
(***************************************************************************)
EXTENDS Naturals, Sequences, SequencesExt, FiniteSetsExt

CONSTANTS
  Files,     \* absolute path -> [exec, content, real]: real is what a link leads to
  Means,     \* declared path -> the content it stands for
  Name,      \* the bare name of the tools
  Trees,     \* components that end in ".runfiles"
  Paths,     \* values of PATH
  Configs,   \* [file, emulator, argument, foreign, names]: declared paths, whether
             \* the loader needs the emulator, whether PATH_ENVIRONMENT names PATH
  Dirs,      \* directories a program may change to
  Runfiles,  \* values of RUNFILES_DIR
  MaxDepth,  \* bound on nested launches
  None

ASSUME PathCandidatesAssumption ==
  /\ \A p \in DOMAIN Files \cup Dirs \cup Runfiles : p \in Seq(STRING) /\ p # <<>> /\ p[1] = "/"
  /\ \A f \in DOMAIN Files : \A i \in 2..Len(f) : f[i] # "/"
  /\ \A f \in DOMAIN Files : Files[f].real \in DOMAIN Files /\ Files[Files[f].real].content = Files[f].content
  /\ \A p \in DOMAIN Means : p \in Seq(STRING) /\ p # <<>> /\ p[1] # "/"
  /\ \A p \in DOMAIN Means : p[1] = "bazel-out" => Len(p) > 3 /\ p[2] # "bin" /\ p[3] = "bin"
  /\ Name \in STRING /\ Name # "/"
  /\ \A p \in Paths : p \in Seq(Seq(STRING))
  /\ "/" \notin Trees /\ \A r \in Runfiles : r[Len(r)] \in Trees
  /\ \A c \in Configs : {c.file, c.emulator, c.argument} \subseteq DOMAIN Means
  /\ None \notin {"owner", "path", "not found"}
  /\ LET word == STRING \cup {"/", "_main"}
     IN  None \notin Seq(word) \cup [file : Seq(word), argument : Seq(word), emulator : Seq(word) \cup {None}]
  /\ MaxDepth \in Nat

-----------------------------------------------------------------------------
(* Where declared files are.                                               *)

Below(directory, path) == Len(path) > 1 /\ path[1] = directory
From(i, path) == SubSeq(path, i, Len(path))
First(i, S, path) == i \in 2..(Len(path) - 1) /\ path[i] \in S /\ \A j \in 2..(i - 1) : path[j] \notin S

\* An output is named by bazel-out, a configuration and bin, and then like the
\* sources: below external/ when it belongs to another repository.
Own(p) == IF Below("bazel-out", p) THEN From(4, p) ELSE p
OutputOfRepository(p) == Below("bazel-out", p) /\ Below("external", Own(p))

\* Bazel's own layout: a runfiles tree has a source or an output of another
\* repository below the name of the repository, others below that of the main one.
InMain(p) == <<"_main">> \o Own(p)
Kept(p) == IF Below("external", Own(p)) THEN Tail(Own(p)) ELSE InMain(p)

\* A declared path stands below some directory, or where a runfiles tree has it;
\* trees of older versions had other repositories below the main one, too.
Stands(p, path) ==
  \E i \in 1..(Len(path) - 1) :
    From(i + 1, path) = p \/ (path[i] \in Trees /\ From(i + 1, path) \in {Kept(p), InMain(p)})

\* Nowhere does a declared path stand for another file, or for a directory.
ASSUME NoStrayCopies ==
  \A f \in DOMAIN Files, p \in DOMAIN Means : \A k \in 1..Len(f) :
    Stands(p, SubSeq(f, 1, k)) => k = Len(f) /\ Files[f].content = Means[p]

\* Files beside a file, below the directory of its first i components.
Beside(file, i) == {g \in DOMAIN Files : Len(g) > i /\ SubSeq(g, 1, i) = SubSeq(file, 1, i)}
Serves(g, p) == p \in {c.emulator : c \in Configs} => Files[g].exec

\* A declared path is there along with a file: in the execution root above the
\* output tree, or in the runfiles tree, that the file is in.
InRoot(f, p) == \E i \in DOMAIN f :
  i > 2 /\ First(i, {"bazel-out"}, f) /\ \E g \in Beside(f, i - 1) : Serves(g, p) /\ From(i, g) = p
InTree(f, p) == \E i \in DOMAIN f :
  First(i, Trees, f) /\ \E g \in Beside(f, i) : Serves(g, p) /\ From(i + 1, g) = Kept(p)

VARIABLES
  stage,    \* "program", "owner", "prepare" or "exit78"
  cwd,      \* working directory
  env,      \* [path, file, emulator, runfiles]: PATH, declared paths, RUNFILES_DIR
  config,   \* what the launchers are given, one of Configs
  self,     \* [argv0, file]: how the launcher was started, and which it is
  owner,    \* the file next to which the sidecar is looked for
  run,      \* what the last launch handed over, or None
  depth,
  why       \* why the launcher gave up, or None

vars == <<stage, cwd, env, config, self, owner, run, depth, why>>

-----------------------------------------------------------------------------
Absolute(path) == path # <<>> /\ path[1] = "/"
Join(directory, path) == IF Absolute(path) THEN path ELSE directory \o path
Exists(path) == \E f \in DOMAIN Files : IsPrefix(path, f)
Regular(path) == path \in DOMAIN Files
Executable(path) == Regular(path) /\ Files[path].exec

\* What the path holds before the first component in S that is not its last.
Before(path, S) ==
  LET at == {i \in 2..(Len(path) - 1) : path[i] \in S}
  IN  IF at = {} THEN <<>> ELSE SubSeq(path, 1, Min(at) - 1)

\* A path that starts with the marker has no root before it.
ExecutionRootFromPath(path) ==
  LET output == Before(path, {"bazel-out"})
      root == IF output # <<>> THEN output ELSE Before(path, {"external"})
  IN  IF Len(root) > 1 THEN <<root>> ELSE <<>>

RunfilesRootFromPath(path) ==
  LET before == Before(path, Trees)
  IN  IF before = <<>> THEN <<>> ELSE <<SubSeq(path, 1, Len(before) + 1)>>

RunfilesRoots ==
  (IF env.runfiles = None THEN <<>> ELSE <<env.runfiles>>)
    \o RunfilesRootFromPath(Files[self.file].real)
    \o RunfilesRootFromPath(Join(cwd, self.argv0))
    \o RunfilesRootFromPath(cwd)

\* Mutation: an output keeps its way through the output tree.
InRunfiles_OutputAsIs(path) ==
  IF Below("external", path) THEN Tail(path) ELSE <<"_main">> \o path

\* Where a runfiles tree keeps a path: external repositories by name, an
\* output under its path below bin, or not at all, anything else under its own
\* path.
InRunfiles(path) ==
  LET bin == {i \in 2..(Len(path) - 1) : path[i] = "bin"} IN
  CASE Below("external", path) -> Tail(path)
    [] Below("bazel-out", path) /\ bin # {} -> <<"_main">> \o SubSeq(path, Min(bin) + 1, Len(path))
    [] Below("bazel-out", path) /\ bin = {} -> None
    [] OTHER -> <<"_main">> \o path

Roots == <<cwd>> \o ExecutionRootFromPath(Join(cwd, self.argv0)) \o ExecutionRootFromPath(Files[self.file].real)

\* declaredPathCandidates, with the repetitions it leaves out.
Candidates(path) ==
  IF Absolute(path) THEN <<path>>
  ELSE [i \in DOMAIN Roots |-> Roots[i] \o path]
         \o IF InRunfiles(path) = None THEN <<>>
            ELSE [i \in DOMAIN RunfilesRoots |-> RunfilesRoots[i] \o InRunfiles(path)]

\* Mutation: a path that is not found stays what it is.
AbsoluteBeforeChdir_AsGiven(path) ==
  LET candidates == Candidates(path)
      found == {i \in DOMAIN candidates : Exists(candidates[i])}
  IN  IF found = {} THEN path ELSE candidates[Min(found)]

\* The first candidate that exists, or else the first one.
AbsoluteBeforeChdir(path) ==
  LET candidates == Candidates(path)
      found == {i \in DOMAIN candidates : Exists(candidates[i])}
  IN  candidates[IF found = {} THEN 1 ELSE Min(found)]

\* Only an argument that names the output tree or a repository is looked up.
Rewritten(argument) == Below("bazel-out", argument) \/ Below("external", argument)
ResolveArgument(argument) == IF Rewritten(argument) THEN AbsoluteBeforeChdir(argument) ELSE argument

\* An emulator is the first candidate that can be executed.
DeclaredExecutable(path) ==
  LET candidates == Candidates(path)
      found == {i \in DOMAIN candidates : Executable(candidates[i])}
  IN  IF found = {} THEN None ELSE candidates[Min(found)]

-----------------------------------------------------------------------------
(* runtimeSidecarOwners and executableOnDeclaredPath.                      *)

Bare == Len(self.argv0) = 1

\* Where PATH leads to the name.
OnPath(i) == AbsoluteBeforeChdir(env.path[i]) \o self.argv0

\* PATH has entries, none is empty, and none of them is a regular file.
PathReadable ==
  /\ env.path # <<>>
  /\ \A i \in DOMAIN env.path : env.path[i] # <<>> /\ ~Regular(AbsoluteBeforeChdir(env.path[i]))

\* Mutation: the first match will do.
Matched_First ==
  LET found == {i \in DOMAIN env.path : Executable(OnPath(i))}
  IN  IF found = {} THEN {} ELSE {OnPath(Min(found))}

Matched == {p \in {OnPath(i) : i \in DOMAIN env.path} : Executable(p)}
OwnerFound == Bare => PathReadable /\ \E p \in Matched : Matched = {p}

GiveUp(reason) ==
  /\ stage' = "exit78"
  /\ why' = reason
  /\ UNCHANGED <<cwd, env, config, self, owner, run, depth>>

FindOwner ==
  /\ stage = "owner"
  /\ OwnerFound
  /\ owner' = AbsoluteBeforeChdir(IF Bare THEN CHOOSE p \in Matched : TRUE ELSE self.argv0)
  /\ stage' = "prepare"
  /\ UNCHANGED <<cwd, env, config, self, run, depth, why>>

RefuseOwner ==
  /\ stage = "owner"
  /\ ~OwnerFound
  /\ GiveUp("owner")

-----------------------------------------------------------------------------
(* The paths of prepare.                                                   *)

\* PATH_ENVIRONMENT may name PATH: every entry must then lead somewhere.
PathResolved == [i \in DOMAIN env.path |-> AbsoluteBeforeChdir(env.path[i])]
PathAccepted ==
  config.names => /\ env.path # <<>>
                  /\ \A i \in DOMAIN env.path : env.path[i] # <<>> /\ Exists(PathResolved[i])

\* The emulator, when the loader is that of another machine.
Found ==
  /\ Exists(AbsoluteBeforeChdir(env.file))
  /\ config.foreign => DeclaredExecutable(env.emulator) # None

RefusePath ==
  /\ stage = "prepare"
  /\ ~PathAccepted
  /\ GiveUp("path")

RefuseNotFound ==
  /\ stage = "prepare"
  /\ ~Found
  /\ GiveUp("not found")

Launch ==
  /\ stage = "prepare"
  /\ PathAccepted /\ Found
  /\ run' = [file |-> AbsoluteBeforeChdir(env.file), argument |-> ResolveArgument(config.argument),
             emulator |-> IF config.foreign THEN DeclaredExecutable(env.emulator) ELSE None]
  /\ env' = [env EXCEPT !.path = IF config.names THEN PathResolved ELSE @, !.file = AbsoluteBeforeChdir(@),
                        !.emulator = IF config.foreign THEN DeclaredExecutable(@) ELSE @]
  /\ stage' = "program"
  /\ UNCHANGED <<cwd, config, self, owner, depth, why>>

-----------------------------------------------------------------------------
(* The programs in between, and the PATH lookup of the system.             *)

OnRawPath(i) == Join(cwd, env.path[i]) \o <<Name>>

Spawn(argv0, file) ==
  /\ stage = "program"
  /\ depth < MaxDepth
  /\ self' = [argv0 |-> argv0, file |-> file]
  /\ depth' = depth + 1
  /\ stage' = "owner"
  /\ UNCHANGED <<cwd, env, config, owner, run, why>>

SpawnByName ==
  LET found == {i \in DOMAIN env.path : Executable(OnRawPath(i))}
  IN  found # {} /\ Spawn(<<Name>>, OnRawPath(Min(found)))

\* By its whole path, or by the path from the working directory.
SpawnByPath(file) ==
  /\ Last(file) = Name /\ Executable(file)
  /\ \/ Spawn(file, file)
     \/ /\ IsPrefix(cwd, file) /\ Len(file) > Len(cwd) + 1
        /\ Spawn(SubSeq(file, Len(cwd) + 1, Len(file)), file)

ChangeDirectory(directory) ==
  /\ stage = "program" /\ run # None
  /\ cwd' = directory
  /\ UNCHANGED <<stage, env, config, self, owner, run, depth, why>>

SetRunfiles(root) ==
  /\ stage = "program" /\ run # None
  /\ env' = [env EXCEPT !.runfiles = root]
  /\ UNCHANGED <<stage, cwd, config, self, owner, run, depth, why>>

Init ==
  /\ stage = "program"
  /\ cwd \in Dirs
  /\ config \in Configs
  /\ \E p \in Paths : env = [path |-> p, file |-> config.file, emulator |-> config.emulator, runfiles |-> None]
  /\ self = None /\ owner = None /\ run = None /\ why = None
  /\ depth = 0

Next ==
  \/ FindOwner \/ RefuseOwner \/ RefusePath \/ RefuseNotFound \/ Launch
  \/ SpawnByName \/ \E f \in DOMAIN Files : SpawnByPath(f)
  \/ \E d \in Dirs : ChangeDirectory(d)
  \/ \E r \in Runfiles \cup {None} : SetRunfiles(r)

Spec == Init /\ [][Next]_vars

-----------------------------------------------------------------------------
\* Types: what a launch hands over is absolute, found or not.
TypeOK ==
  /\ stage \in {"program", "owner", "prepare", "exit78"} /\ (stage = "exit78") = (why # None)
  /\ cwd \in Dirs /\ depth \in 0..MaxDepth
  /\ stage = "prepare" => Absolute(owner)
  /\ run # None => Absolute(run.file) /\ (Rewritten(config.argument) => Absolute(run.argument))

\* "Runtime launchers resolve a basename invoked through their closed PATH to
\* exactly one declared executable and adjacent sidecar" (CHANGELOG.md,
\* 0.3.5): the file beside which the sidecar is sought is the launcher that
\* the system found and started, although the two read PATH differently.
OwnerIsWhatRan == stage = "prepare" => owner = self.file

\* The launcher is where its link leads; a path tells where the link is, too, but
\* a bare name does not say by which link it was found.
Places == {Files[self.file].real} \cup IF Bare THEN {} ELSE {self.file}
Needed == {config.file} \cup IF config.foreign THEN {config.emulator} ELSE {}

\* Whether a declared path is there along with the launcher; and whether it is
\* so where the launcher looks for it, which in a runfiles tree leaves out the
\* outputs of other repositories.
Held(p) == \E f \in Places : InRoot(f, p) \/ InTree(f, p)
Anchored(p) == \E f \in Places : InRoot(f, p) \/ (InTree(f, p) /\ ~OutputOfRepository(p))

\* Whoever finds a declared path takes the file declared, from every directory
\* and with any RUNFILES_DIR; and a launch only fails for want of a path that is
\* not anchored, and only when no launch above it has found the path.
DeclaredMeansOneFile ==
  /\ run # None =>
       /\ Files[run.file].content = Means[config.file]
       /\ config.foreign => Files[run.emulator].content = Means[config.emulator]
       /\ Rewritten(config.argument) =>
            /\ Regular(run.argument) => Files[run.argument].content = Means[config.argument]
            /\ stage = "program" /\ Anchored(config.argument) => Regular(run.argument)
  /\ why = "not found" => depth = 1 /\ \E p \in Needed : ~Anchored(p)

\* "Static runtime launchers that carry target loaders and libraries through
\* declared runfiles" (CHANGELOG.md, 0.3.0): a launcher that all declared paths
\* are carried along with finds them.  The code looks for an output of another
\* repository where a runfiles tree does not have it.
RunfilesSuffice == why = "not found" => \E p \in Needed : ~Held(p)
=============================================================================
