----------------------------- MODULE ExecutionRoot -----------------------------
(***************************************************************************)
(* The five hermetic launchers.  Four start a tool that lies below the     *)
(* execution root at an embedded path and find that root, by four copies   *)
(* of one function, from RULES_FIPS_EXEC_ROOT, from their own argv[0] or   *)
(* from the working directory; hermetic_exec starts the program its        *)
(* environment names.  Programs in between change directory and clean      *)
(* their environment.  In a sandbox of links the files of the root are     *)
(* links to those of another root, where a program may find itself.        *)
(*                                                                         *)
(* A path is a sequence of components; an absolute one starts with "/".    *)
(***************************************************************************)
EXTENDS Naturals, Sequences, SequencesExt, FiniteSetsExt

CONSTANTS
  Root,       \* the execution root
  Origin,     \* the root that the links of a sandbox lead to
  Dirs,       \* directories a program may change to
  Launchers,  \* paths below Root, [path, kind], that name the launchers
  Arguments,  \* argument lists the launchers are given
  Executables,\* values of RULES_HERMETIC_EXECUTABLE
  Pins,       \* values of the variable that RULES_HERMETIC_EXEC_ENV assigns
  MaxSteps,   \* bound on the launches and what programs do between them
  None

Kinds == {"bash", "make", "busybox", "musl", "exec"}

\* How an argument gives its path: joined to --gcc-toolchain=, --sysroot=,
\* -fuse-ld=, -resource-dir= or -L; as the argument after -isystem or
\* -resource-dir; as an archive (*.a); or in any other way, such as after -I,
\* -iquote, or -L and --sysroot as arguments of their own, or as an input.
Forms == {"joined", "following", "archive", "other"}
Roots == {Root, Origin}

\* The first "bazel-out" of a path below a root is that of the output tree, and
\* "/" is the first component of a path alone.
ASSUME ExecutionRootAssumption ==
  /\ \A r \in Roots :
       /\ r \in Seq(STRING) /\ Len(r) > 1 /\ r[1] = "/" /\ "/" \notin ToSet(Tail(r))
       /\ "bazel-out" \notin ToSet(r)
  /\ Dirs \subseteq Seq(STRING) \ {<<>>} /\ Root \in Dirs /\ \A d \in Dirs : d[1] = "/"
  /\ \A l \in Launchers :
       /\ l.kind \in Kinds
       /\ l.path \in Seq(STRING) /\ Len(l.path) > 1 /\ l.path[1] = "bazel-out" /\ "/" \notin ToSet(l.path)
  /\ \A a \in Arguments : a \in Seq([form : Forms, path : Seq(STRING)])
  /\ Executables \subseteq Seq(STRING)
  /\ MaxSteps \in Nat

VARIABLES
  cwd,    \* working directory of the process
  env,    \* [root, make, pin]: RULES_FIPS_EXEC_ROOT, MAKE and the assigned variable
  order,  \* [executable, assigned]: the hermetic_exec variables of the environment
  self,   \* the launcher that starts, argv[0] and arguments; None in a program
  run,    \* what the last launcher handed over to, or how it failed
  steps

vars == <<cwd, env, order, self, run, steps>>

Absolute(path) == path # <<>> /\ path[1] = "/"
Join(root, path) == IF Absolute(path) THEN path ELSE root \o path

\* What is there: the tools that the launchers embed and hermetic_exec starts.
Embedded(kind) == <<"bazel-out", "tools", kind>>
Tools == {r \o Embedded(k) : r \in Roots, k \in Kinds}
Exists(path) == path \in Tools

-----------------------------------------------------------------------------
(* executionRoot, the same in bash, make, busybox and musl_tool.           *)

Published == env.root # None

\* Mutation: the last "bazel-out" counts.
Marker_Last(path) == Max({0} \cup {i \in 2..(Len(path) - 1) : path[i] = "bazel-out"})

\* The first "/bazel-out/", unless the path starts with it.
Marker(path) == Min({i \in 2..(Len(path) - 1) : path[i] = "bazel-out"} \cup {Len(path)})
Marked(path) == Marker(path) \in 3..(Len(path) - 1)

RootOf(argv0) ==
  LET invoked == Join(cwd, argv0) IN
  IF Published THEN env.root
  ELSE IF Marked(invoked) THEN SubSeq(invoked, 1, Marker(invoked) - 1)
  ELSE cwd

-----------------------------------------------------------------------------
Init ==
  /\ cwd = Root
  /\ env = [root |-> None, make |-> None, pin |-> None]
  /\ order \in [executable : Executables \cup {None},
                assigned : UNION {[1..n -> Pins \cup {None}] : n \in 0..2}]
  /\ self = None
  /\ run = None
  /\ steps = 0

Step == steps < MaxSteps /\ steps' = steps + 1
Idle == self = None

\* argv[0] is the whole path, the path from the working directory when it
\* leads there, or the bare name that a PATH lookup found.
Argv0s(launcher) ==
  LET path == Root \o launcher.path IN
  {path, <<Last(path)>>} \cup
    {SubSeq(path, Len(d) + 1, Len(path)) : d \in {e \in {cwd} : IsStrictPrefix(e, path)}}

Launch(launcher, argv0, arguments) ==
  /\ Idle /\ Step
  /\ argv0 \in Argv0s(launcher)
  /\ self' = [launcher |-> launcher, argv0 |-> argv0, arguments |-> arguments, via |-> "path"]
  /\ UNCHANGED <<cwd, env, order, run>>

\* A recipe runs $(MAKE).
Remake(launcher) ==
  /\ Idle /\ Step
  /\ launcher.kind = "make"
  /\ env.make \in {r \o launcher.path : r \in Roots}
  /\ self' = [launcher |-> launcher, argv0 |-> env.make, arguments |-> <<>>, via |-> "MAKE"]
  /\ UNCHANGED <<cwd, env, order, run>>

ChangeDirectory(dir) ==
  /\ Idle /\ Step
  /\ cwd' = dir
  /\ UNCHANGED <<env, order, self, run>>

CleanEnvironment ==
  /\ Idle /\ Step
  /\ \E kept \in SUBSET {"root", "make"} :
       env' = [v \in DOMAIN env |-> IF v \in kept THEN env[v] ELSE None]
  /\ order' \in {order, [order EXCEPT !.executable = None]}
  /\ UNCHANGED <<cwd, self, run>>

Repin(value) ==
  /\ Idle /\ Step
  /\ env' = [env EXCEPT !.pin = value]
  /\ UNCHANGED <<cwd, order, self, run>>

-----------------------------------------------------------------------------
Starting(kind) == ~Idle /\ self.launcher.kind = kind
HandOver(tool, arguments) ==
  /\ self' = None
  /\ run' = [status |-> "running", kind |-> self.launcher.kind, tool |-> tool, arguments |-> arguments,
             given |-> self.arguments, cwd |-> cwd, argv0 |-> self.argv0,
             wrapper |-> Join(RootOf(self.argv0), self.argv0)]
  /\ UNCHANGED <<cwd, order, steps>>
GiveUp(status) ==
  /\ self' = None
  /\ run' = [status |-> status, kind |-> self.launcher.kind, argv0 |-> self.argv0, via |-> self.via,
             root |-> env.root, executable |-> order.executable, cwd |-> cwd]
  /\ UNCHANGED <<cwd, env, order, steps>>

ToolOf(kind) == Join(RootOf(self.argv0), Embedded(kind))

RunBash ==
  /\ Starting("bash")
  /\ Exists(ToolOf("bash"))
  /\ HandOver(ToolOf("bash"), self.arguments)
  /\ UNCHANGED env

RunBusyBox ==
  /\ Starting("busybox")
  /\ Exists(ToolOf("busybox"))
  /\ HandOver(ToolOf("busybox"), self.arguments)
  /\ UNCHANGED env

\* Mutation: the name it was invoked by.
MakeNames_AsInvoked == {self.argv0}

\* os.Executable: the launcher itself, however it was invoked, or the file
\* that it is a link to.
MakeNames == {r \o self.launcher.path : r \in Roots}

RunMake ==
  /\ Starting("make")
  /\ Exists(ToolOf("make"))
  /\ HandOver(ToolOf("make"), self.arguments)
  /\ \E name \in MakeNames : env' = [env EXCEPT !.make = name]

\* A musl tool is known by the name it was invoked by.
AllowedTools == {"ar", "clang", "ld.lld"}
Named == Last(self.argv0) \in AllowedTools

\* stat, or execve itself, does not find the tool.
Missing ==
  /\ \E kind \in Kinds \ {"exec"} : Starting(kind) /\ ~Exists(ToolOf(kind)) /\ (kind = "musl" => Named)
  /\ GiveUp("missing")

-----------------------------------------------------------------------------
(* hermetic_musl_tool                                                      *)

RefuseName ==
  /\ Starting("musl")
  /\ ~Named
  /\ GiveUp("refused")

\* Mutation: only a directory outside the root calls for it.
Rebased_Outside(argument, root) ==
  IF ~IsPrefix(root, cwd) /\ argument.form # "other" /\ argument.path[1] \in {"bazel-out", "external"}
  THEN [argument EXCEPT !.path = root \o @] ELSE argument

\* A path in one of the spellings that the launcher knows is anchored, unless
\* the tool runs in the root anyway; in any other it stays as it is.
Rebased(argument, root) ==
  IF cwd # root /\ argument.form # "other" /\ argument.path[1] \in {"bazel-out", "external"}
  THEN [argument EXCEPT !.path = root \o @] ELSE argument

RunMuslTool ==
  /\ Starting("musl")
  /\ Named
  /\ Exists(ToolOf("musl"))
  /\ HandOver(ToolOf("musl"), [i \in DOMAIN self.arguments |-> Rebased(self.arguments[i], RootOf(self.argv0))])
  /\ env' = [env EXCEPT !.root = RootOf(self.argv0)]

-----------------------------------------------------------------------------
(* hermetic_exec: None in a list of assignments is one without key.        *)

WellFormed == order.executable # None /\ None \notin ToSet(order.assigned)

\* Setenv, one after another.
Assigned(old) == IF order.assigned = <<>> THEN old ELSE Last(order.assigned)

\* execve takes a relative name from the working directory.
Program == Join(cwd, order.executable)

RunExec ==
  /\ Starting("exec")
  /\ WellFormed /\ Exists(Program)
  /\ HandOver(Program, self.arguments)
  /\ env' = [env EXCEPT !.pin = Assigned(@)]

MissingProgram ==
  /\ Starting("exec")
  /\ WellFormed /\ ~Exists(Program)
  /\ GiveUp("missing")

RefuseExec ==
  /\ Starting("exec")
  /\ ~WellFormed
  /\ GiveUp("refused")

Next ==
  \/ \E l \in Launchers, a \in Arguments : \E v \in Argv0s(l) : Launch(l, v, a)
  \/ \E l \in Launchers : Remake(l)
  \/ \E d \in Dirs : ChangeDirectory(d)
  \/ CleanEnvironment
  \/ \E p \in Pins : Repin(p)
  \/ RunBash \/ RunBusyBox \/ RunMake \/ Missing
  \/ RefuseName \/ RunMuslTool \/ RunExec \/ MissingProgram \/ RefuseExec

Spec == Init /\ [][Next]_vars

-----------------------------------------------------------------------------
Ran == run # None /\ run.status = "running"

LauncherPaths == {r \o l.path : r \in Roots, l \in Launchers}

\* Types of the process state.
TypeOK ==
  /\ cwd \in Dirs
  /\ env.root \in {None} \cup Seq(STRING) /\ env.make \in {None} \cup LauncherPaths
  /\ env.pin \in Pins \cup {None}
  /\ self # None => self.launcher \in Launchers /\ self.arguments \in Arguments \cup {<<>>}
  /\ run # None => run.status \in {"running", "missing", "refused"} /\ run.cwd \in Dirs
  /\ Ran => run.tool \in Tools
  /\ steps \in 0..MaxSteps

\* What a launcher publishes is a root that has its files, so a tool is missed
\* only by a launcher that was invoked by a relative name from a directory
\* outside the root and its output tree below a cleaned environment; $(MAKE) is
\* never.  hermetic_exec looks for no root: what it misses is not below the
\* root at all, or was named relative to the root in another directory.
ToolsStayReachable ==
  /\ env.root \in Roots \cup {None}
  /\ run # None /\ run.status = "missing" /\ run.kind = "exec" =>
       ~Exists(Join(Root, run.executable)) \/ (~Absolute(run.executable) /\ run.cwd # Root)
  /\ run # None /\ run.status = "missing" /\ run.kind # "exec" =>
       /\ run.root = None
       /\ ~Absolute(run.argv0)
       /\ run.via # "MAKE"
       /\ run.cwd # Root
       /\ ~IsPrefix(Append(Root, "bazel-out"), run.cwd)

\* The file of the execution root that argument i of a running tool declares
\* is the one that the tool opens in the directory it runs in.
Declares(i) == run.given[i].path[1] \in {"bazel-out", "external"}
Declared(i) == Join(run.cwd, run.arguments[i].path) \in {r \o run.given[i].path : r \in Roots}

\* In whatever directory a native build calls a compiler or linker, a declared
\* file that it is handed joined to --gcc-toolchain=, --sysroot=, -fuse-ld=,
\* -resource-dir= or -L, after -isystem or -resource-dir, or as an archive is
\* the one of the execution root; and a compiler that was invoked by its path,
\* absolute or in the root, is told that path.  In any other spelling a path is
\* left as it is given, and a relative one leads elsewhere from another directory
\* than the root, which CHANGELOG.md:145-148 passes over.
ArgumentsStayDeclared ==
  Ran /\ run.kind = "musl" =>
    /\ \A i \in DOMAIN run.given :
         IF run.given[i].form # "other" THEN Declares(i) => Declared(i)
         ELSE run.arguments[i] = run.given[i]
    /\ Absolute(run.argv0) \/ (run.cwd = Root /\ Len(run.argv0) > 1) => run.wrapper \in LauncherPaths
=============================================================================
