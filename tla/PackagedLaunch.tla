---------------------------- MODULE PackagedLaunch ----------------------------
(***************************************************************************)
(* A packaged release started by crypto_activation: prepare the launch,    *)
(* run the fipsinstall child, materialise the writable copies one by one,  *)
(* exec the runtime wrapper.  Several launchers may share one activation   *)
(* root; each may be killed at any step and be started again, and a killed *)
(* launcher does not take its fipsinstall child with it.                   *)
(*                                                                         *)
(* A file's contents are abstracted to where they came from; Partial is a  *)
(* file that was truncated and not yet written in full.                    *)
(*                                                                         *)
(* A file is a place, not a path.  A copy's destination is the place that  *)
(* its path leads to, through the links that an earlier deployment may     *)
(* have left below the activation root; below says whether the path, taken *)
(* as a text, is below the root.  Links stay as they are.                  *)
(***************************************************************************)
EXTENDS Naturals, Sequences, FiniteSets

CONSTANTS
  Launchers,   \* launcher processes a supervisor runs
  Configs,     \* launch configurations considered
  ModuleConf,  \* the file fipsinstall writes, below the activation root
  StateFiles,  \* other files below the activation root
  ReleaseFiles,\* regular files of the release
  Elsewhere,   \* paths outside the activation root
  MaxBoots,    \* bound on the starts of one launcher
  Absent, Partial

RootFiles == StateFiles \cup {ModuleConf}
Files == RootFiles \cup ReleaseFiles \cup Elsewhere
Contents == {Absent, Partial, "module", "release", "edited"}
OrphanStates == {"started", "opened", "failed"}

ASSUME PackagedLaunchAssumption ==
  /\ MaxBoots \in Nat
  /\ ModuleConf \notin StateFiles
  /\ RootFiles \cap (ReleaseFiles \cup Elsewhere) = {}
  /\ ReleaseFiles \cap Elsewhere = {}
  /\ {Absent, Partial} \cap {"module", "release", "edited"} = {} /\ Absent # Partial
  /\ \A c \in Configs :
       /\ c.intact \in BOOLEAN /\ c.activation \in BOOLEAN
       /\ c.copies \in Seq([source: Files, destination: Files, below: BOOLEAN])

VARIABLES
  config,   \* the launch configuration beside the launcher
  file,     \* contents of every file
  pc,       \* where each launcher process stands
  index,    \* the writable copy each launcher is at
  buffer,   \* the contents it has read for that copy
  child,    \* its fipsinstall child: "none", "started", "opened", "done"
  orphans,  \* how many children of killed launchers have "started", "opened"
            \* the module configuration, or "failed" after opening it
  boots,    \* starts so far
  shared    \* ghost: another launcher, a runtime or an orphan was around

vars == <<config, file, pc, index, buffer, child, orphans, boots, shared>>

Init ==
  /\ config \in Configs
  /\ \E kept \in SUBSET StateFiles :  \* left behind by an earlier deployment
       file = [f \in Files |-> IF f \in ReleaseFiles THEN "release"
                               ELSE IF f \in kept THEN "edited" ELSE Absent]
  /\ pc = [p \in Launchers |-> "idle"]
  /\ index = [p \in Launchers |-> 1]
  /\ buffer = [p \in Launchers |-> Absent]
  /\ child = [p \in Launchers |-> "none"]
  /\ orphans = [s \in OrphanStates |-> 0]
  /\ boots = [p \in Launchers |-> 0]
  /\ shared = [p \in Launchers |-> FALSE]

Copy(p) == config.copies[index[p]]
AllCopied(p) == index[p] > Len(config.copies)
At(p, step) == pc[p] = step
GoTo(p, step) == pc' = [pc EXCEPT ![p] = step]
Busy(p) == pc[p] \notin {"idle", "exit78"}
AtWork == orphans["started"] + orphans["opened"] > 0

-----------------------------------------------------------------------------
(* The supervisor starts a launcher that is not running.                   *)

Start(p) ==
  /\ ~Busy(p)
  /\ boots[p] < MaxBoots
  /\ GoTo(p, "prepare")
  /\ boots' = [boots EXCEPT ![p] = @ + 1]
  /\ index' = [index EXCEPT ![p] = 1]
  /\ buffer' = [buffer EXCEPT ![p] = Absent]
  /\ child' = [child EXCEPT ![p] = "none"]
  /\ shared' = [q \in Launchers |->
                  IF q = p THEN AtWork \/ \E r \in Launchers \ {p} : Busy(r)
                  ELSE shared[q] \/ Busy(q)]
  /\ UNCHANGED <<config, file, orphans>>

-----------------------------------------------------------------------------
(* preparePackagedLaunch.                                                  *)

\* config.intact: schema, command, activation root, OpenSSL, program, loader,
\* library path and runtime wrapper are what the launcher requires.

\* Every copy's source is a regular file now, before anything is activated.
SourcesRegular == \A i \in DOMAIN config.copies : file[config.copies[i].source] # Absent

\* The path of every copy's destination is below the activation root, wherever
\* it leads.
DestinationsWithin == \A i \in DOMAIN config.copies : config.copies[i].below

\* Mutation: the copies' sources are not checked.
Prepare_AnySource(p) ==
  /\ At(p, "prepare")
  /\ config.intact
  /\ DestinationsWithin
  /\ GoTo(p, IF config.activation THEN "activate" ELSE "read")
  /\ UNCHANGED <<config, file, index, buffer, child, orphans, boots, shared>>

\* Mutation: the copies' destinations are not checked.
Prepare_AnyDestination(p) ==
  /\ At(p, "prepare")
  /\ config.intact
  /\ SourcesRegular
  /\ GoTo(p, IF config.activation THEN "activate" ELSE "read")
  /\ UNCHANGED <<config, file, index, buffer, child, orphans, boots, shared>>

Prepare(p) ==
  /\ At(p, "prepare")
  /\ config.intact
  /\ SourcesRegular
  /\ DestinationsWithin
  /\ GoTo(p, IF config.activation THEN "activate" ELSE "read")
  /\ UNCHANGED <<config, file, index, buffer, child, orphans, boots, shared>>

RefusePrepare(p) ==
  /\ At(p, "prepare")
  /\ ~config.intact \/ ~SourcesRegular \/ ~DestinationsWithin
  /\ GoTo(p, "exit78")
  /\ UNCHANGED <<config, file, index, buffer, child, orphans, boots, shared>>

-----------------------------------------------------------------------------
(* The fipsinstall child: ensureOutputParent, Run, and what the child does *)
(* to its -out file.                                                       *)

StartChild(p) ==
  /\ At(p, "activate")
  /\ child[p] = "none"
  /\ child' = [child EXCEPT ![p] = "started"]
  /\ UNCHANGED <<config, file, pc, index, buffer, orphans, boots, shared>>

ChildOpens(p) ==
  /\ child[p] = "started"
  /\ child' = [child EXCEPT ![p] = "opened"]
  /\ file' = [file EXCEPT ![ModuleConf] = Partial]
  /\ UNCHANGED <<config, pc, index, buffer, orphans, boots, shared>>

ChildWrites(p) ==
  /\ child[p] = "opened"
  /\ child' = [child EXCEPT ![p] = "done"]
  /\ file' = [file EXCEPT ![ModuleConf] = "module"]
  /\ UNCHANGED <<config, pc, index, buffer, orphans, boots, shared>>

\* Mutation: the child is started and not waited for.
Activated_NotWaited(p) ==
  /\ At(p, "activate")
  /\ child[p] # "none"
  /\ GoTo(p, "read")
  /\ UNCHANGED <<config, file, index, buffer, child, orphans, boots, shared>>

Activated(p) ==
  /\ At(p, "activate")
  /\ child[p] = "done"
  /\ GoTo(p, "read")
  /\ UNCHANGED <<config, file, index, buffer, child, orphans, boots, shared>>

\* The output directory cannot be made, or the child fails at any point.
ActivationFails(p) ==
  /\ At(p, "activate")
  /\ child[p] # "done"
  /\ GoTo(p, "exit78")
  /\ child' = [child EXCEPT ![p] = "none"]
  /\ UNCHANGED <<config, file, index, buffer, orphans, boots, shared>>

\* A killed launcher's child goes on where it was, to its end or to a failure.
OrphanOpens ==
  /\ orphans["started"] > 0
  /\ orphans' = [orphans EXCEPT !["started"] = @ - 1, !["opened"] = @ + 1]
  /\ file' = [file EXCEPT ![ModuleConf] = Partial]
  /\ UNCHANGED <<config, pc, index, buffer, child, boots, shared>>

OrphanWrites ==
  /\ orphans["opened"] > 0
  /\ orphans' = [orphans EXCEPT !["opened"] = @ - 1]
  /\ file' = [file EXCEPT ![ModuleConf] = "module"]
  /\ UNCHANGED <<config, pc, index, buffer, child, boots, shared>>

OrphanFails ==
  /\ \/ /\ orphans["started"] > 0
        /\ orphans' = [orphans EXCEPT !["started"] = @ - 1]
     \/ /\ orphans["opened"] > 0
        /\ orphans' = [orphans EXCEPT !["opened"] = @ - 1, !["failed"] = @ + 1]
  /\ UNCHANGED <<config, file, pc, index, buffer, child, boots, shared>>

-----------------------------------------------------------------------------
(* materializeWritableCopies and the exec of the runtime wrapper.          *)

\* Mutation: a destination that exists is left alone.
ReadSource_KeepsExisting(p) ==
  /\ At(p, "read")
  /\ ~AllCopied(p)
  /\ file[Copy(p).source] # Absent
  /\ IF file[Copy(p).destination] = Absent
     THEN /\ buffer' = [buffer EXCEPT ![p] = file[Copy(p).source]]
          /\ GoTo(p, "truncate")
          /\ UNCHANGED index
     ELSE index' = [index EXCEPT ![p] = @ + 1] /\ UNCHANGED <<buffer, pc>>
  /\ UNCHANGED <<config, file, child, orphans, boots, shared>>

ReadSource(p) ==
  /\ At(p, "read")
  /\ ~AllCopied(p)
  /\ file[Copy(p).source] # Absent
  /\ buffer' = [buffer EXCEPT ![p] = file[Copy(p).source]]
  /\ GoTo(p, "truncate")
  /\ UNCHANGED <<config, file, index, child, orphans, boots, shared>>

\* os.WriteFile truncates an existing destination before it writes.
Truncate(p) ==
  /\ At(p, "truncate")
  /\ file' = [file EXCEPT ![Copy(p).destination] = Partial]
  /\ GoTo(p, "write")
  /\ UNCHANGED <<config, index, buffer, child, orphans, boots, shared>>

\* Mutation: the copy loop advances twice.
WriteContents_Twice(p) ==
  /\ At(p, "write")
  /\ file' = [file EXCEPT ![Copy(p).destination] = buffer[p]]
  /\ index' = [index EXCEPT ![p] = @ + 2]
  /\ GoTo(p, "read")
  /\ UNCHANGED <<config, buffer, child, orphans, boots, shared>>

WriteContents(p) ==
  /\ At(p, "write")
  /\ file' = [file EXCEPT ![Copy(p).destination] = buffer[p]]
  /\ index' = [index EXCEPT ![p] = @ + 1]
  /\ GoTo(p, "read")
  /\ UNCHANGED <<config, buffer, child, orphans, boots, shared>>

\* Mutation: a failed copy is passed over.
CopyFails_PassesOver(p) ==
  /\ pc[p] \in {"read", "truncate", "write"}
  /\ ~AllCopied(p)
  /\ GoTo(p, "read")
  /\ index' = [index EXCEPT ![p] = @ + 1]
  /\ UNCHANGED <<config, file, buffer, child, orphans, boots, shared>>

\* Mutation: a failed copy is tried again without end.
CopyFails_Retries(p) ==
  /\ pc[p] \in {"read", "truncate", "write"}
  /\ ~AllCopied(p)
  /\ GoTo(p, "read")
  /\ UNCHANGED <<config, file, index, buffer, child, orphans, boots, shared>>

\* Any of the three system calls of a copy may fail; earlier copies stay.
CopyFails(p) ==
  /\ pc[p] \in {"read", "truncate", "write"}
  /\ ~AllCopied(p)
  /\ GoTo(p, "exit78")
  /\ UNCHANGED <<config, file, index, buffer, child, orphans, boots, shared>>

ExecRuntime(p) ==
  /\ At(p, "read")
  /\ AllCopied(p)
  /\ GoTo(p, "running")
  /\ UNCHANGED <<config, file, index, buffer, child, orphans, boots, shared>>

-----------------------------------------------------------------------------
(* The environment: the launcher is killed, the runtime edits its state or *)
(* stops.                                                                  *)

Kill(p) ==
  /\ pc[p] \in {"prepare", "activate", "read", "truncate", "write"}
  /\ GoTo(p, "idle")
  /\ orphans' = IF child[p] \in {"started", "opened"}
                THEN [orphans EXCEPT ![child[p]] = @ + 1] ELSE orphans
  /\ child' = [child EXCEPT ![p] = "none"]
  /\ UNCHANGED <<config, file, index, buffer, boots, shared>>

Edit(p, f) ==
  /\ At(p, "running")
  /\ f \in StateFiles
  /\ file' = [file EXCEPT ![f] = "edited"]
  /\ UNCHANGED <<config, pc, index, buffer, child, orphans, boots, shared>>

Stop(p) ==
  /\ At(p, "running")
  /\ GoTo(p, "idle")
  /\ UNCHANGED <<config, file, index, buffer, child, orphans, boots, shared>>

Launcher(p) ==
  \/ Prepare(p) \/ RefusePrepare(p) \/ StartChild(p) \/ Activated(p) \/ ActivationFails(p)
  \/ ReadSource(p) \/ Truncate(p) \/ WriteContents(p) \/ CopyFails(p) \/ ExecRuntime(p)

Child(p) == ChildOpens(p) \/ ChildWrites(p)
Orphan == OrphanOpens \/ OrphanWrites \/ OrphanFails

Next ==
  \/ \E p \in Launchers :
       \/ Start(p) \/ Launcher(p) \/ Child(p) \/ Kill(p) \/ Stop(p)
       \/ \E f \in StateFiles : Edit(p, f)
  \/ Orphan

Spec == Init /\ [][Next]_vars

\* A launcher that is not killed keeps running its sequential code, and the
\* children it started run to their end.
FairSpec ==
  /\ Spec
  /\ \A p \in Launchers : WF_vars(Launcher(p)) /\ WF_vars(Child(p))
  /\ WF_vars(Orphan)

-----------------------------------------------------------------------------
Destinations == {config.copies[i].destination : i \in DOMAIN config.copies}
Written == Destinations \cup IF config.activation THEN {ModuleConf} ELSE {}

\* What the release holds, but for what a link below the root leads a copy to.
Untouched == ReleaseFiles \ Destinations
SourcesImmutable == \A i \in DOMAIN config.copies : config.copies[i].source \in Untouched

\* Types of the processes' and the files' state.
TypeOK ==
  /\ config \in Configs
  /\ file \in [Files -> Contents]
  /\ pc \in [Launchers -> {"idle", "prepare", "activate", "read", "truncate", "write",
                           "running", "exit78"}]
  /\ index \in [Launchers -> 1..(Len(config.copies) + 1)]
  /\ buffer \in [Launchers -> Contents]
  /\ child \in [Launchers -> {"none", "started", "opened", "done"}]
  /\ orphans \in [OrphanStates -> Nat]
  /\ boots \in [Launchers -> 0..MaxBoots]
  /\ shared \in [Launchers -> BOOLEAN]

\* No copy reads a file that it, or a copy after it, writes.
ReadsSettled ==
  \A i, j \in DOMAIN config.copies :
    config.copies[i].source = config.copies[j].destination => j < i

\* The copy's contents are those of its source, and in any case whole.  A copy
\* that reads what a later one writes may find a file torn by an earlier launch.
Landed(i, contents) ==
  IF config.copies[i].source \in Untouched THEN contents = "release"
  ELSE ReadsSettled => contents # Partial

\* The file a launch leaves is the one its configuration asks for: written
\* by fipsinstall, or the last copy to this destination.
AsConfigured(f) ==
  LET writers == {i \in DOMAIN config.copies : config.copies[i].destination = f}
      last == CHOOSE i \in writers : \A j \in writers : j <= i
  IN  IF writers = {} THEN file[f] = "module" ELSE Landed(last, file[f])

\* A launch that had the activation root to itself hands the runtime exactly
\* the configured state, whatever earlier launches killed at any step, other
\* deployments or earlier runtimes left there.
CompleteAtExec ==
  [][\A p \in Launchers :
       At(p, "read") /\ pc'[p] = "running" /\ ~shared[p] =>
         \A f \in Written : AsConfigured(f)]_vars

\* Where a launcher stands says what it has checked and done: its copies are
\* within bounds, a child belongs to an activation, nothing is written or run
\* before every destination was checked, or before its activation is over.
Ordered ==
  \A p \in Launchers :
    /\ pc[p] = "prepare" => child[p] = "none"
    /\ pc[p] \in {"prepare", "activate"} => index[p] = 1
    /\ pc[p] = "activate" => config.activation
    /\ child[p] \in {"started", "opened"} => pc[p] = "activate"
    /\ pc[p] \in {"truncate", "write"} => index[p] <= Len(config.copies)
    /\ pc[p] \in {"activate", "read", "truncate", "write", "running"} => DestinationsWithin
    /\ pc[p] \in {"read", "truncate", "write", "running"} /\ config.activation =>
         child[p] = "done"

\* What the release holds stays as it was, and so does what is read from it.
ReleaseIntact ==
  /\ \A f \in Untouched : file[f] = "release"
  /\ SourcesImmutable =>
       \A p \in Launchers : pc[p] \in {"truncate", "write"} => buffer[p] = "release"

\* A launcher that cannot reach its runtime without writing f first.
Behind(p, f) ==
  \/ pc[p] \in {"idle", "exit78", "prepare"}
  \/ pc[p] = "activate" /\ (child[p] # "done" \/ f \in Destinations)
  \/ /\ pc[p] \in {"read", "truncate", "write"}
     /\ \E i \in DOMAIN config.copies : i >= index[p] /\ config.copies[i].destination = f

TornByOrphan(f) == f = ModuleConf /\ orphans["opened"] + orphans["failed"] > 0

\* Whoever leaves a file truncated has to write it again before it can run.
TornHasWriter ==
  SourcesImmutable =>
    \A f \in Written : file[f] = Partial => TornByOrphan(f) \/ \E p \in Launchers : Behind(p, f)

\* The inductive invariant of the launchers.
LaunchInv == Ordered /\ ReleaseIntact /\ TornHasWriter

\* When launches from release files have overlapped and every launcher has
\* reached its runtime, no file any of them wrote is left truncated, whatever
\* was killed on the way; but the module configuration may be, by a killed
\* launcher's fipsinstall child that is at work or has failed.
SettledComplete ==
  SourcesImmutable /\ (\A p \in Launchers : At(p, "running")) =>
    \A f \in Written : file[f] = Partial => TornByOrphan(f)

\* A runtime never starts on an activation that failed or was not waited for.
ActivatedBeforeRunning ==
  \A p \in Launchers : At(p, "running") /\ config.activation => child[p] = "done"

\* Sources are checked before activation: a copy of the file that activation
\* itself generates never starts in a fresh activation root.
GeneratedSourceNeverBoots ==
  (\E i \in DOMAIN config.copies : config.copies[i].source = ModuleConf) =>
    file[ModuleConf] = Absent /\ \A p \in Launchers : ~At(p, "running")

\* No file outside the activation root is written, in particular none of the
\* release, but where a link below the root leads a copy there, and then only
\* when the paths of all destinations are below the root (ModuleConf lies below
\* the root by configuration: the launcher does not check where fipsinstall
\* writes).
OnlyRootWritten ==
  [][\A f \in Files \ RootFiles :
       file'[f] # file[f] => DestinationsWithin /\ f \in Destinations]_vars

\* A launch never hangs: it reaches the runtime or gives up, or is killed.
LaunchSettles ==
  \A p \in Launchers : Busy(p) ~> (pc[p] \in {"idle", "running", "exit78"})
=============================================================================
