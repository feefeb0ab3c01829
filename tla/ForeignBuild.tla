---------------------------- MODULE ForeignBuild ----------------------------
(***************************************************************************)
(* foreign_build_driver: reset the work directory, configure, make one     *)
(* target after another, copy the installed files to the declared outputs  *)
(* and, on every way out, reset the work directory again.  The driver may  *)
(* be killed at any step and run again over what it left.                  *)
(*                                                                         *)
(* The outputs are flattened to the entries the driver copies, in order: a *)
(* file output is one entry, a directory output its own directory and then *)
(* what the walk of the staged directory meets.                            *)
(***************************************************************************)
EXTENDS Naturals, Sequences, FiniteSets

CONSTANTS
  Configs,  \* [targets, entries, paths]: targets to make, entries to copy, other paths
  Paths,    \* destinations
  MaxRuns,  \* bound on the runs of the driver
  Absent

\* An entry is installed by one target; a link is bad when it is absolute or
\* escapes its output; "other" is neither a directory, a link nor a regular file.
\* Its source is local to the stage or not.  Paths of the configuration, which
\* name Configure, the tools, the work and source directories and the outputs,
\* lie inside the execution root, outside it, or are empty; the outputs lie
\* outside the work directory.
Kinds == {"file", "dir", "link", "bad link", "other"}

ASSUME ForeignBuildAssumption ==
  /\ MaxRuns \in Nat
  /\ \A c \in Configs :
       /\ c.targets \in Seq({"target", ""})
       /\ c.entries \in Seq([path : Paths, kind : Kinds, by : Nat, local : BOOLEAN])
       /\ c.paths \subseteq {"inside", "outside", ""}
  /\ Absent \notin [kind : Kinds, built : Nat, whole : BOOLEAN]

VARIABLES
  config,
  pc,      \* where the driver stands; "exit" has a status, "killed" has none
  errors,  \* the steps that failed, as joined into the returned error
  next,    \* the target or entry the driver is at
  work,    \* the work directory: "empty" or "used"
  staged,  \* run that installed each entry below the work directory, or 0
  out,     \* what stands at each destination
  runs     \* runs so far

vars == <<config, pc, errors, next, work, staged, out, runs>>

Nothing == [i \in DOMAIN config.entries |-> 0]

Init ==
  /\ config \in Configs
  /\ pc = "idle"
  /\ errors = {}
  /\ next = 1
  /\ work \in {"empty", "used"}
  /\ staged = Nothing
  /\ out = [p \in Paths |-> Absent]
  /\ runs = 0

Running == pc \notin {"idle", "exit", "killed"}

GoTo(step) == pc' = step /\ next' = 1 /\ UNCHANGED errors
Fail(step, where) == pc' = where /\ errors' = errors \cup {step} /\ next' = 1

-----------------------------------------------------------------------------
(* The build tool starts the driver, with the outputs cleared or as they   *)
(* are, and may kill it.                                                   *)

Start(cleared) ==
  /\ ~Running
  /\ runs < MaxRuns
  /\ runs' = runs + 1
  /\ pc' = "config"
  /\ errors' = {}
  /\ next' = 1
  /\ out' = IF cleared THEN [p \in Paths |-> Absent] ELSE out
  /\ UNCHANGED <<config, work, staged>>

Kill ==
  /\ Running
  /\ pc' = "killed"
  /\ UNCHANGED <<config, errors, next, work, staged, out, runs>>

-----------------------------------------------------------------------------
(* Before the deferred reset is in place a failure returns at once.        *)

\* resolveConfig: some output, and nothing that leads out of the execution root.
Resolves(c) ==
  /\ c.paths = {"inside"}
  /\ c.entries # <<>>
  /\ \A i \in DOMAIN c.entries : c.entries[i].local

ReadConfig ==
  /\ pc = "config"
  /\ (Resolves(config) /\ GoTo("reset")) \/ Fail("config", "exit")
  /\ UNCHANGED <<config, work, staged, out, runs>>

\* Mutation: MkdirAll without the RemoveAll.
Reset_Keeps ==
  /\ pc = "reset"
  /\ GoTo("make dirs")
  /\ UNCHANGED <<config, work, staged, out, runs>>

Reset ==
  /\ pc = "reset"
  /\ GoTo("make dirs")
  /\ work' = "empty"
  /\ staged' = Nothing
  /\ UNCHANGED <<config, out, runs>>

ResetFails ==
  /\ pc = "reset"
  /\ Fail("reset", "exit")
  /\ work' = "used"
  /\ \E kept \in SUBSET DOMAIN staged :
       staged' = [i \in DOMAIN staged |-> IF i \in kept THEN staged[i] ELSE 0]
  /\ UNCHANGED <<config, out, runs>>

-----------------------------------------------------------------------------
(* After it every failure goes through the deferred reset.                 *)

MakeDirs ==
  /\ pc = "make dirs"
  /\ GoTo("configure") \/ Fail("make dirs", "clean")
  /\ work' = "used"
  /\ UNCHANGED <<config, staged, out, runs>>

\* Mutation: a failed configure is noted and the build goes on.
Configure_GoesOn ==
  /\ pc = "configure"
  /\ GoTo("make") \/ Fail("configure", "make")
  /\ UNCHANGED <<config, work, staged, out, runs>>

\* Mutation: a failed configure leaves without the deferred reset.
Configure_Exits ==
  /\ pc = "configure"
  /\ GoTo("make") \/ Fail("configure", "exit")
  /\ UNCHANGED <<config, work, staged, out, runs>>

Configure ==
  /\ pc = "configure"
  /\ GoTo("make") \/ Fail("configure", "clean")
  /\ UNCHANGED <<config, work, staged, out, runs>>

InstalledBy(target) == {i \in DOMAIN config.entries : config.entries[i].by = target}

\* What is installed already is up to date for make and left alone.
Install(entries) ==
  staged' = [i \in DOMAIN staged |-> IF i \in entries /\ staged[i] = 0 THEN runs ELSE staged[i]]

MakeTarget ==
  /\ pc = "make"
  /\ next \in DOMAIN config.targets
  /\ config.targets[next] # ""
  /\ Install(InstalledBy(next))
  /\ IF next = Len(config.targets) THEN GoTo("copy")
     ELSE next' = next + 1 /\ UNCHANGED <<pc, errors>>
  /\ UNCHANGED <<config, work, out, runs>>

\* No target, an empty target, or a failing one, which may have installed some.
MakeFails ==
  /\ pc = "make"
  /\ Fail("make", "clean")
  /\ \E some \in SUBSET InstalledBy(next) :
       /\ next \notin DOMAIN config.targets \/ config.targets[next] = "" => some = {}
       /\ Install(some)
  /\ UNCHANGED <<config, work, out, runs>>

Entry == config.entries[next]
Standing(whole) == [kind |-> Entry.kind, built |-> staged[next], whole |-> whole]

\* A destination directory may exist already.
CopyDirectory ==
  /\ pc = "copy"
  /\ next \in DOMAIN config.entries
  /\ Entry.kind = "dir"
  /\ staged[next] # 0
  /\ out[Entry.path] # Absent => out[Entry.path].kind = "dir"
  /\ out' = [out EXCEPT ![Entry.path] = IF @ = Absent THEN Standing(TRUE) ELSE @]
  /\ next' = next + 1
  /\ UNCHANGED <<config, pc, errors, work, staged, runs>>

\* symlink(2) refuses an existing destination.
CopySymlink ==
  /\ pc = "copy"
  /\ next \in DOMAIN config.entries
  /\ Entry.kind = "link"
  /\ staged[next] # 0
  /\ out[Entry.path] = Absent
  /\ out' = [out EXCEPT ![Entry.path] = Standing(TRUE)]
  /\ next' = next + 1
  /\ UNCHANGED <<config, pc, errors, work, staged, runs>>

\* Mutation: an existing destination is truncated.
CreateFile_Truncates ==
  /\ pc = "copy"
  /\ next \in DOMAIN config.entries
  /\ Entry.kind = "file"
  /\ staged[next] # 0
  /\ out' = [out EXCEPT ![Entry.path] = Standing(FALSE)]
  /\ pc' = "write"
  /\ UNCHANGED <<config, errors, next, work, staged, runs>>

\* O_CREATE|O_EXCL refuses an existing destination.
CreateFile ==
  /\ pc = "copy"
  /\ next \in DOMAIN config.entries
  /\ Entry.kind = "file"
  /\ staged[next] # 0
  /\ out[Entry.path] = Absent
  /\ out' = [out EXCEPT ![Entry.path] = Standing(FALSE)]
  /\ pc' = "write"
  /\ UNCHANGED <<config, errors, next, work, staged, runs>>

WriteFile ==
  /\ pc = "write"
  /\ out' = [out EXCEPT ![Entry.path] = Standing(TRUE)]
  /\ pc' = "copy"
  /\ next' = next + 1
  /\ UNCHANGED <<config, errors, work, staged, runs>>

\* The entry is refused or a system call fails; earlier entries stay, and so
\* does a directory made before its source was read.
CopyFails ==
  /\ pc \in {"copy", "write"}
  /\ next \in DOMAIN config.entries
  /\ Fail("copy", "clean")
  /\ \/ UNCHANGED out
     \/ /\ Entry.kind = "dir" /\ out[Entry.path] = Absent
        /\ out' = [out EXCEPT ![Entry.path] = [kind |-> "dir", built |-> runs, whole |-> TRUE]]
  /\ UNCHANGED <<config, work, staged, runs>>

Copied ==
  /\ pc = "copy"
  /\ next > Len(config.entries)
  /\ GoTo("clean")
  /\ UNCHANGED <<config, work, staged, out, runs>>

\* The deferred reset: its failure joins the error on its way out.
Clean ==
  /\ pc = "clean"
  /\ GoTo("exit")
  /\ work' = "empty"
  /\ staged' = Nothing
  /\ UNCHANGED <<config, out, runs>>

CleanFails ==
  /\ pc = "clean"
  /\ Fail("clean", "exit")
  /\ work' = "used"
  /\ UNCHANGED <<config, staged, out, runs>>

Next ==
  \/ \E cleared \in BOOLEAN : Start(cleared)
  \/ Kill
  \/ ReadConfig \/ Reset \/ ResetFails \/ MakeDirs \/ Configure
  \/ MakeTarget \/ MakeFails
  \/ CopyDirectory \/ CopySymlink \/ CreateFile \/ WriteFile \/ CopyFails \/ Copied
  \/ Clean \/ CleanFails

Spec == Init /\ [][Next]_vars

-----------------------------------------------------------------------------
Succeeded == pc = "exit" /\ errors = {}
Single(i) == config.entries[i].kind # "dir"

\* Types of the driver's state.
TypeOK ==
  /\ config \in Configs
  /\ pc \in {"idle", "config", "reset", "make dirs", "configure", "make", "copy", "write",
             "clean", "exit", "killed"}
  /\ errors \subseteq {"config", "reset", "make dirs", "configure", "make", "copy", "clean"}
  /\ errors # {} => pc \in {"clean", "exit", "killed"}
  /\ next \in 1..(Len(config.entries) + Len(config.targets) + 1)
  /\ work \in {"empty", "used"}
  /\ staged \in [DOMAIN config.entries -> 0..MaxRuns]
  /\ out \in [Paths -> [kind : Kinds, built : 1..MaxRuns, whole : BOOLEAN] \cup {Absent}]
  /\ runs \in 0..MaxRuns

\* An entry has its place to itself, or shares a directory.
Delivered(i) ==
  LET entry == config.entries[i] IN
  /\ entry.local
  /\ out[entry.path] # Absent
  /\ out[entry.path].kind = entry.kind
  /\ out[entry.path].whole
  /\ Single(i) => out[entry.path].built = runs
  /\ \A j \in DOMAIN config.entries : Single(i) /\ j # i => config.entries[j].path # entry.path

\* Every way out after the first reset leaves the work directory, a declared
\* output, empty, unless the reset itself failed and is reported.
WorkLeftEmpty ==
  pc = "exit" /\ errors \cap {"config", "reset", "clean"} = {} => work = "empty"

\* A finished output is never written again: only the build tool clears it.
FinishedIsFinal ==
  [][\A p \in Paths :
       out[p] # Absent /\ out[p].whole => out'[p] = out[p] \/ runs' # runs]_vars

-----------------------------------------------------------------------------
(* The contract: asked for its entries, and for paths inside the root.     *)

Asked == {<<"paths", {"inside"}>>} \cup {<<"entry", i>> : i \in DOMAIN config.entries}

Have ==
  {<<"paths", config.paths>>} \cup {<<"entry", i>> : i \in {k \in DOMAIN config.entries : Delivered(k)}}

Outcome ==
  CASE pc = "idle" -> "none"
    [] Running -> "running"
    [] OTHER -> IF Succeeded THEN "success" ELSE "failure"

Delivery == INSTANCE DeliveryContract WITH outcome <- Outcome, asked <- Asked, have <- Have

\* A run that reports success was asked for paths inside the execution root
\* only and delivers every declared output whole, as this run installed it,
\* whatever killed runs left in the work directory or at the destinations; no
\* two outputs have landed on one destination, and nothing the run does later,
\* the deferred cleaning included, takes an output back.
ImplementsDelivery == Delivery!Spec

=============================================================================
