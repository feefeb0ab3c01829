--------------------------- MODULE RuntimeLauncher ---------------------------
(***************************************************************************)
(* Nested invocations of runtime_launcher.  A running program spawns a     *)
(* declared tool, which is the launcher under the tool's name; the         *)
(* launcher settles the runtime from the tool's sidecar or from the        *)
(* environment it inherits, and execs a program that inherits what it      *)
(* publishes.  Environment variables keep the suffix of their name         *)
(* RULES_FIPS_RUNTIME_*; DECLARED stands for a variable that               *)
(* PATH_ENVIRONMENT names.  LD_* variables, which every launch drops, are  *)
(* left out.                                                               *)
(*                                                                         *)
(* A file is known by the tool it belongs to, by whether it is the hidden  *)
(* sibling .real-<tool>, and by the form of the path that names it.  What  *)
(* the files contain is the business of ElfClosure: here its verdict is    *)
(* one of the ways a launch can end.                                       *)
(***************************************************************************)
EXTENDS Naturals, Sequences

CONSTANTS
  Tools,      \* declared tools
  Sidecar,    \* tool -> the assignments of its sidecar, Malformed, or None
  Real,       \* tools with an executable sibling .real-<name>
  Rooted,     \* tools whose own path contains bazel-out/ or external/
  StartEnvs,  \* environments a consumer starts the first launcher with
  MaxDepth,   \* bound on nested launches
  None,       \* unset, absent
  Malformed   \* a value or a sidecar the launcher refuses to read

FixedArg == <<"FIXED_ARG_0", "FIXED_ARG_1">>
RuntimeTriple == {"LOADER", "LIBRARY", "PROGRAM"}
Variables == RuntimeTriple \cup
  {"STATIC", "COUNT", "FIXED_ARG_0", "FIXED_ARG_1", "ARGV0", "INHIBIT_CACHE",
   "PATH_ENVIRONMENT", "DECLARED"}

File == [of: Tools, hidden: BOOLEAN, form: {"relative", "absolute"}]

Value(v) ==
  CASE v \in RuntimeTriple \cup {"DECLARED"} -> File \cup {None}
    [] v \in {"FIXED_ARG_0", "FIXED_ARG_1", "ARGV0"} -> Tools \cup {None}
    [] v \in {"STATIC", "INHIBIT_CACHE"} -> {"true", "false", None, Malformed}
    [] v = "COUNT" -> {0, 1, 2, None, Malformed}
    [] v = "PATH_ENVIRONMENT" -> {"names", None}

Reasons == {"owner", "sidecar", "incomplete", "malformed", "required", "not found", "program"}

\* A sidecar is written for a static program, or with a loader and the library
\* path beside it, and with as many fixed arguments as it counts.
SidecarOK(sidecar) ==
  /\ DOMAIN sidecar \subseteq Variables
  /\ \A v \in DOMAIN sidecar : sidecar[v] \in Value(v) \ {None}
  /\ IF "STATIC" \in DOMAIN sidecar /\ sidecar.STATIC = "true"
     THEN "PROGRAM" \in DOMAIN sidecar /\ {"LOADER", "LIBRARY"} \cap DOMAIN sidecar = {}
     ELSE RuntimeTriple \subseteq DOMAIN sidecar /\ sidecar.LOADER.of = sidecar.LIBRARY.of
  /\ "COUNT" \in DOMAIN sidecar =>
       \A i \in 1..2 : sidecar.COUNT \in i..2 => FixedArg[i] \in DOMAIN sidecar

\* A consumer sets a loader and a library path of one runtime.
StartOK(e) ==
  /\ DOMAIN e = Variables /\ \A v \in Variables : e[v] \in Value(v)
  /\ e.LOADER # None /\ e.LIBRARY # None => e.LOADER.of = e.LIBRARY.of

ASSUME LauncherAssumption ==
  /\ MaxDepth \in Nat
  /\ \A unusual \in {None, Malformed} :
       /\ unusual \notin Tools /\ unusual \notin File /\ unusual \notin Nat /\ unusual \notin Reasons
       /\ unusual \notin {"true", "false", "names"}
  /\ None # Malformed
  /\ Real \subseteq Tools /\ Rooted \subseteq Tools
  /\ DOMAIN Sidecar = Tools
  /\ \A t \in Tools : Sidecar[t] \notin {None, Malformed} => SidecarOK(Sidecar[t])
  /\ \A e \in StartEnvs : StartOK(e)

VARIABLES
  stage,  \* "program", or where the launcher stands, or "exit78"
  env,    \* the environment of the current process
  cwd,    \* "execroot" or "elsewhere"
  tool,   \* the tool whose launcher runs, or ran last
  arg,    \* its first argument when that names a declared tool, or None
  depth,  \* how many launches deep
  run,    \* what the last successful launch executed, or None
  why     \* why the launcher gave up, or None

vars == <<stage, env, cwd, tool, arg, depth, run, why>>

Init ==
  /\ stage = "program"
  /\ env \in StartEnvs
  /\ cwd = "execroot"
  /\ tool = None
  /\ arg = None
  /\ depth = 0
  /\ run = None
  /\ why = None

-----------------------------------------------------------------------------
(* Helpers of the launcher.                                                *)

\* The first owner with a readable sidecar: argv[0], then the first argument.
SidecarOwner ==
  IF Sidecar[tool] # None THEN tool
  ELSE IF arg # None /\ Sidecar[arg] # None THEN arg
  ELSE None

\* Mutation: a variable the parent has set wins over the sidecar.
Assign_ParentWins(sidecar, e) ==
  [v \in Variables |-> IF v \in DOMAIN sidecar /\ e[v] = None THEN sidecar[v] ELSE e[v]]

Assign(sidecar, e) ==
  [v \in Variables |-> IF v \in DOMAIN sidecar THEN sidecar[v] ELSE e[v]]

\* A relative path is found from the execution root, or through the
\* execution root that the launcher's own path gives away.
Found(f) == f # None /\ (f.form = "absolute" \/ cwd = "execroot" \/ tool \in Rooted)

Absolute(f) == IF f = None THEN None ELSE [f EXCEPT !.form = "absolute"]

FixedArgumentsOK ==
  \/ env.COUNT = None
  \/ \E n \in 0..Len(FixedArg) :
       env.COUNT = n /\ \A i \in 1..n : env[FixedArg[i]] # None

FixedArguments ==
  IF env.COUNT = None THEN <<>> ELSE [i \in 1..env.COUNT |-> env[FixedArg[i]]]

\* Mutation: the controls stay in the environment.
ConsumeInvocationControls_Keeps(e) == e

\* One launcher invocation consumes its fixed arguments and its argv[0].
ConsumeInvocationControls(e) == [e EXCEPT !.COUNT = 0, !.ARGV0 = None]

\* Mutation: the declared paths are published as they came.
ResolvePathEnvironment_AsGiven(e) == e

ResolvePathEnvironment(e) ==
  IF e.PATH_ENVIRONMENT = None THEN e ELSE [e EXCEPT !.DECLARED = Absolute(@)]

\* The executable's own .real- sibling, when it has one, replaces PROGRAM.
SelectedProgram ==
  IF tool \in Real THEN [of |-> tool, hidden |-> TRUE, form |-> "absolute"]
  ELSE Absolute(env.PROGRAM)

\* The configured name, or the launcher's own name when a sibling replaced
\* the default program, or the path of the program.
SelectedArgv0 ==
  IF env.ARGV0 # None THEN [of |-> env.ARGV0, hidden |-> FALSE]
  ELSE IF SelectedProgram # Absolute(env.PROGRAM) THEN [of |-> tool, hidden |-> FALSE]
  ELSE [of |-> SelectedProgram.of, hidden |-> SelectedProgram.hidden]

PreparedEnvironment ==
  LET consumed == ConsumeInvocationControls(env)
  IN  ResolvePathEnvironment([consumed EXCEPT !.PROGRAM = Absolute(@)])

GiveUp(reason) ==
  /\ stage' = "exit78"
  /\ why' = reason
  /\ UNCHANGED <<env, cwd, tool, arg, depth, run>>

-----------------------------------------------------------------------------
(* The running program: it may change directory, lose variables, and spawn *)
(* a tool with or without naming another as its first argument.            *)

Spawn(t, a) ==
  /\ stage = "program"
  /\ depth < MaxDepth
  /\ stage' = "sidecar"
  /\ tool' = t
  /\ arg' = a
  /\ depth' = depth + 1
  /\ UNCHANGED <<env, cwd, run, why>>

ChangeDirectory ==
  /\ stage = "program"
  /\ run # None
  /\ cwd' = "elsewhere"
  /\ UNCHANGED <<stage, env, tool, arg, depth, run, why>>

Unset(v) ==
  /\ stage = "program"
  /\ run # None
  /\ env[v] # None
  /\ env' = [env EXCEPT ![v] = None]
  /\ UNCHANGED <<stage, cwd, tool, arg, depth, run, why>>

-----------------------------------------------------------------------------
(* environmentWithSidecar.                                                 *)

\* A tool invoked by basename must be the only one of that name on PATH.
RefuseOwner ==
  /\ stage = "sidecar"
  /\ GiveUp("owner")

\* Mutation: static mode is not reset before the assignments.
ReadSidecar_KeepsStatic ==
  /\ stage = "sidecar"
  /\ SidecarOwner # None
  /\ Sidecar[SidecarOwner] # Malformed
  /\ env' = Assign(Sidecar[SidecarOwner], [env EXCEPT !.COUNT = 0])
  /\ stage' = "prepare"
  /\ UNCHANGED <<cwd, tool, arg, depth, run, why>>

\* The sidecar overrides the parent's runtime: static mode and fixed
\* arguments are reset first, then every assignment is applied.
ReadSidecar ==
  /\ stage = "sidecar"
  /\ SidecarOwner # None
  /\ Sidecar[SidecarOwner] # Malformed
  /\ env' = Assign(Sidecar[SidecarOwner], [env EXCEPT !.STATIC = "false", !.COUNT = 0])
  /\ stage' = "prepare"
  /\ UNCHANGED <<cwd, tool, arg, depth, run, why>>

RefuseSidecar ==
  /\ stage = "sidecar"
  /\ SidecarOwner # None
  /\ Sidecar[SidecarOwner] = Malformed
  /\ GiveUp("sidecar")

Configured == {v \in RuntimeTriple : env[v] # None}

\* Without a sidecar the inherited runtime is all there or not there at all.
InheritanceOK ==
  \/ env.STATIC = "true" /\ env.PROGRAM # None
  \/ env.STATIC \notin {"true", Malformed} /\ Configured \in {{}, RuntimeTriple}

Inherit ==
  /\ stage = "sidecar"
  /\ SidecarOwner = None
  /\ InheritanceOK
  /\ stage' = "prepare"
  /\ UNCHANGED <<env, cwd, tool, arg, depth, run, why>>

RefuseInheritance ==
  /\ stage = "sidecar"
  /\ SidecarOwner = None
  /\ ~InheritanceOK
  /\ GiveUp("incomplete")

-----------------------------------------------------------------------------
(* The rest of prepare, the validation and the exec.                       *)

Static == env.STATIC = "true"

\* The files this launch cannot do without.
Required ==
  {"PROGRAM"} \cup (IF Static THEN {} ELSE {"LOADER", "LIBRARY"})
              \cup (IF env.PATH_ENVIRONMENT = None THEN {} ELSE {"DECLARED"})

WellFormed ==
  /\ env.STATIC # Malformed
  /\ FixedArgumentsOK
  /\ Static \/ env.INHIBIT_CACHE # Malformed

RefuseMalformed ==
  /\ stage = "prepare"
  /\ ~WellFormed
  /\ GiveUp("malformed")

RefuseMissing ==
  /\ stage = "prepare"
  /\ \E v \in Required : env[v] = None
  /\ GiveUp("required")

\* A path that names nothing from here.  A library path is not looked at
\* before the closure validation, which then finds no file in it.
RefuseNotFound ==
  /\ stage = "prepare"
  /\ \E v \in Required : env[v] # None /\ ~Found(env[v])
  /\ GiveUp("not found")

Launchable == WellFormed /\ \A v \in Required : Found(env[v])

\* Mutation: a failed validation is reported and ignored.
RefuseProgram_GoesOn ==
  /\ stage = "prepare"
  /\ Launchable
  /\ stage' = "program"
  /\ why' = "program"
  /\ UNCHANGED <<env, cwd, tool, arg, depth, run>>

\* validateStaticProgram or validateDeclaredClosure fails, or exec does.
RefuseProgram ==
  /\ stage = "prepare"
  /\ Launchable
  /\ GiveUp("program")

ExecStatic ==
  /\ stage = "prepare"
  /\ Launchable
  /\ Static
  /\ run' = [mode |-> "static", source |-> SidecarOwner, program |-> env.PROGRAM.of,
             fixed |-> FixedArguments,
             argv0 |-> [of |-> env.PROGRAM.of, hidden |-> env.PROGRAM.hidden]]
  /\ env' = PreparedEnvironment
  /\ stage' = "program"
  /\ UNCHANGED <<cwd, tool, arg, depth, why>>

ExecDynamic ==
  /\ stage = "prepare"
  /\ Launchable
  /\ ~Static
  /\ run' = [mode |-> "dynamic", source |-> SidecarOwner, program |-> SelectedProgram.of,
             fixed |-> FixedArguments, argv0 |-> SelectedArgv0,
             loader |-> env.LOADER.of, library |-> env.LIBRARY.of,
             inhibitCache |-> env.INHIBIT_CACHE = "true"]
  /\ env' = [PreparedEnvironment EXCEPT !.LOADER = Absolute(@),
                                         !.LIBRARY = Absolute(@),
                                         !.PROGRAM = SelectedProgram]
  /\ stage' = "program"
  /\ UNCHANGED <<cwd, tool, arg, depth, why>>

Launcher ==
  \/ RefuseOwner \/ ReadSidecar \/ RefuseSidecar \/ Inherit \/ RefuseInheritance
  \/ RefuseMalformed \/ RefuseMissing \/ RefuseNotFound \/ RefuseProgram \/ ExecStatic \/ ExecDynamic

Program ==
  \/ \E t \in Tools, a \in Tools \cup {None} : Spawn(t, a)
  \/ ChangeDirectory
  \/ \E v \in Variables : Unset(v)

Next == Launcher \/ Program

Spec == Init /\ [][Next]_vars

-----------------------------------------------------------------------------
\* Types of the invocation chain.
TypeOK ==
  /\ stage \in {"program", "sidecar", "prepare", "exit78"}
  /\ DOMAIN env = Variables /\ \A v \in Variables : env[v] \in Value(v)
  /\ cwd \in {"execroot", "elsewhere"}
  /\ tool \in Tools \cup {None} /\ arg \in Tools \cup {None}
  /\ depth \in 0..MaxDepth
  /\ (stage = "exit78") = (why # None)

Launched == run # None /\ stage = "program"
Dynamic == Launched /\ run.mode = "dynamic"

\* An existing sidecar overrides the parent's runtime state (CHANGELOG.md,
\* 0.3.6), whatever the ancestors were: mode, loader, library path and,
\* without a .real- sibling, program are those the sidecar names.
SidecarOverridesRuntime ==
  Launched /\ run.source # None =>
    LET sidecar == Sidecar[run.source] IN
    /\ (run.mode = "static") = ("STATIC" \in DOMAIN sidecar /\ sidecar.STATIC = "true")
    /\ run.mode = "static" => run.program = sidecar.PROGRAM.of
    /\ run.mode = "dynamic" =>
         /\ run.loader = sidecar.LOADER.of
         /\ run.library = sidecar.LIBRARY.of
         /\ run.program = IF tool \in Real THEN tool ELSE sidecar.PROGRAM.of

\* No chain of launches and lost variables pairs the loader of one tool's
\* runtime with the libraries of another's.
RuntimeNeverMixed == Dynamic => run.loader = run.library

\* Fixed arguments and an explicit argv[0] are consumed by one invocation
\* (CHANGELOG.md, 0.3.8): a nested launch passes its own sidecar's, or none.
ControlsConsumedOnce ==
  Launched /\ depth > 1 =>
    LET own == IF run.source = None THEN <<>> ELSE Sidecar[run.source] IN
    /\ Len(run.fixed) = IF "COUNT" \in DOMAIN own THEN own.COUNT ELSE 0
    /\ \A i \in DOMAIN run.fixed : run.fixed[i] = own[FixedArg[i]]
    /\ run.argv0.of # run.program => "ARGV0" \in DOMAIN own

\* A program that was launched hands its descendants paths that survive a
\* change of directory: a nested launch that inherits its runtime does not
\* fail because a runtime file is not found.  The exception is a program below
\* a static launch that has lost STATIC: a static launch publishes the loader
\* and the library path as it inherited them, and does not look at them.
InheritedRuntimeSurvivesChdir ==
  why = "not found" =>
    \/ depth = 1
    \/ SidecarOwner # None
    \/ /\ run.mode = "static" /\ ~Static
       /\ \A v \in Required \ {"LOADER", "LIBRARY"} : env[v] # None => Found(env[v])

\* "An existing sidecar still overrides parent runtime state" (CHANGELOG.md,
\* 0.3.6), taken for every runtime control: the loader options of a tool
\* with a sidecar do not depend on the parent.
SidecarOverridesLoaderOptions ==
  Dynamic /\ run.source # None /\ run.inhibitCache =>
    "INHIBIT_CACHE" \in DOMAIN Sidecar[run.source]

\* Dispatching to a .real- sibling never exposes the hidden filename as
\* argv[0] (CHANGELOG.md, 0.3.1).
HiddenNameNeverExposed == Dynamic /\ tool \in Real => ~run.argv0.hidden
=============================================================================
