# TLA+ models of rules_fips

rules_fips builds OpenSSL with its FIPS provider under Bazel and ships launchers
that run the result without the host's loader, libraries or tools.  These modules
model the parts of it that have control: the walks, the launchers, the driver and
the repository rules.  Every definition is translated from the source named in
`PROJECT.json` ("map"); properties are aimed at the hazards listed there.

    tlc -workers 2 -config MCDeclaredLoad.cfg MCDeclaredLoad    # model checking
    tlapm DeclaredLoad_proofs.tla                               # proofs

## 1. The system

| Component | State | Operations | Hard behaviour | What makes it correct |
|---|---|---|---|---|
| Closure validation (`tools/runtime_launcher/main.go:203-254`, a second copy in `tools/fips_artifact_validator/main.go:250-303`) | worklist, seen set | inspect, resolve, reject | cycles, repeats, ambiguous directories, stat errors | accepts exactly the programs whose reachable files all resolve; ends |
| Launch (`runtime_launcher`, `main`, 46-65) | process, mapped files | validate, exec | the loader looks libraries up by other rules than the walk | what runs is what was validated |
| Invocation (`runtime_launcher`, 67-160, 256-488) | environment, sidecars, cwd | sidecar, inherit, publish, exec | nested launches, lost variables, chdir, re-entry | runtimes are not mixed; controls are used once |
| Path lookup (`runtime_launcher`, 325-374, 438-450, 490-714) | cwd, `PATH`, `RUNFILES_DIR`, the launcher's own path | find the owner, the declared files, the emulator | several roots, links and copies, bare names, two readings of `PATH` | the owner is what ran; a declared path is one file from everywhere |
| Packaged launch (`tools/crypto_activation/main.go`) | files below the activation root | prepare, fipsinstall child, writable copies, exec | overlapping launchers, kills, surviving children, partial writes | the runtime gets the configured files, whole |
| Foreign build driver (`tools/foreign_build_driver/main.go`) | work directory, outputs | reset, configure, make, copy, clean | failure or kill at every step, reruns | success delivers every output of this run |
| Verified archives (`fips/repositories.bzl`) | extracted tree | prune, remove, validate | links, deletion through links, depth limits | accepted trees are contained, hold what is retained and nothing else |
| Artifact validator (`tools/fips_artifact_validator/main.go`) | staged trees, stamp, manifest, module configuration | closure set, OpenSSL checks, two ways of staging | failure or kill at every step, reruns with other inputs | certificates are true, trees hold what was declared |
| Execution tool launchers (`tools/hermetic_*`) | environment, cwd | locate the execution root, exec | chains through `RULES_FIPS_EXEC_ROOT`, `$(MAKE)`, cleaned environments | the root published is the right one |
| Runtime tool rule (`fips/toolchains/runtime_tool.bzl`) | sidecar files | write | agreement with the reader | planned |
| Source selection (`fips/extensions.bzl`) | overrides | collect, select | several modules | planned |
| UBI imports (`fips/ubi_repositories.bzl`) | repository names | import lock | name collisions | planned |
| SDK, toolbox, toolchain rules (`fips/*.bzl`, `fips/toolchains/*.bzl`) | none | declare actions | none: declarative | not modelled |
| Release workflows (`.github/workflows`) | CI service | jobs | hosted | not modelled |

The components meet through files and environment variables.  The repository
rules deliver trees; the driver builds OpenSSL from them; the validator stamps
tools and stages artifacts; rules put a sidecar beside each tool; the runtime
launcher under a tool's name reads the sidecar, validates the program's closure
and execs a loader; and the packaged launcher activates the module, copies
state files and execs a runtime wrapper, which is a runtime launcher again.

## 2. The modules

- **DeclaredFiles** holds the file layout both closure walks look at (`entry`
  is what `stat` reports, `needs` what `ImportedLibraries` reports, `search` the
  library path) and the lookup of one `DT_NEEDED` entry.  `tool` selects the copy:
  the launcher fails on a stat error, the validator reads it as absence.
- **ClosureContract** is the abstract specification: one step, accept if every
  reachable file is sound, reject if some file is not.
- **ElfClosure** is the worklist loop, one action per branch of the loop body:
  `SkipSeen`, `Inspect`, `Resolve`, `FailToResolve`, `Finish`.  Its
  `ImplementsContract` is the contract instantiated on the same variables; queue,
  seen set and pending entries are hidden by leaving them out.
- **DeclaredLoad** EXTENDS ElfClosure with `main` and an external dynamic loader
  that binds each name once, by first match in the library path, and falls back
  to the host for everything else.  The validator's copy of the walk starts no loader.
- **RuntimeLauncher** models chains of launches.  A variable keeps the suffix of its
  `RULES_FIPS_RUNTIME_*` name (`COUNT` for `FIXED_ARG_COUNT`, `LIBRARY` for `LIBRARY_PATH`);
  a file is known by its tool, by whether it is the hidden sibling and by its path form.
  The launcher settles its environment (`ReadSidecar`, `Inherit`) and then execs or
  refuses; the running program may lose any variable, change directory, and spawn.
- **PackagedLaunch** models launcher processes that share an activation root.  Copies
  are split at their system calls (`ReadSource`, `Truncate`, `WriteContents`), because
  other launchers, orphaned children and kills come between them.  A file is a place: a copy
  has the place its destination leads to, through links that an earlier deployment may have left
  below the root, and `below`, what the lexical test of `pathWithin` says of the path.
- **VerifiedArchive** models the repository rule over explicit trees.  A path is a
  sequence of nodes; `Ends`, `Links` and `Real` model what Bazel's `realpath` and `path` do
  with links, and `Removed` what `delete` does.  The attribute `remove_paths` is taken one
  path at a time (`RemovePath`).
- **ForeignBuild** models the driver over a flat list of entries in copy order.
- **ArtifactValidator** models the four modes of the validator over one file system, one
  run after another: `Tasks` is what a job copies, in the code's order, and `Checks` what
  it checks.  A copy is two steps (`OpenDestination`, `CopyContents`), as is a certificate,
  because a kill may come between; the deferred `os.Remove` of the module configuration is
  `Unwind`, which a kill skips.  A closure check is one step, whose meaning ElfClosure and
  its contract give.  A declared file is inside its tree by its name (`inside`), wherever a
  link may lead it.
- **DeliveryContract** is the abstract specification of a build step: a run reports success
  only when it has what it was asked for, and takes nothing back while it runs.
  `ForeignBuild!ImplementsDelivery` and `ArtifactValidator!ImplementsDelivery` instantiate
  it with their own `Asked` and `Have`: entries there, checks, files and certificates here.
- **ExecutionRoot** models the five `hermetic_*` launchers (four hold a copy of
  `executionRoot`, modelled once) and the programs between them.  Paths are sequences of
  components, so `Marker` finds "/bazel-out/" where the code does.  There are two roots: `Root`,
  and `Origin`, to which the links of a sandbox lead and which `os.Executable` may therefore give
  to `MAKE`.  An argument has the form in which it gives its path; `Rebased` rewrites those
  that the musl launcher knows.  The program that `hermetic_exec` is given may be relative, or
  may not be there.
- **PathCandidates** models the lookup that RuntimeLauncher abstracts to `Found`, in the same
  form of paths: `Candidates` is the list of `declaredPathCandidates`, in its order, and
  `OnRawPath` the system's own reading of `PATH`.  A section of its own says how Bazel lays
  files out (`Kept`, `Stands`), apart from the code's candidates: in a runfiles tree, sources
  and outputs of another repository alike lie below the name of that repository, while
  `InRunfiles`, as the code does, looks for such outputs below `_main/external`.
- **DeclaredLoad_proofs** (which also holds those about ElfClosure), **RuntimeLauncher_proofs**,
  **PathCandidates_proofs**, **PackagedLaunch_proofs**, **ForeignBuild_proofs**,
  **ArtifactValidator_proofs**, **ExecutionRoot_proofs** and **VerifiedArchive_proofs** hold
  theorems and lemmas.
- **MC\*** give constants their values.  Operators named `X_Y`, headed "Mutation", are
  faulty variants of the definition below them: replacing it by the variant violates
  the property that PROJECT.json pairs with it, which shows that the property can fail.

## 3. What is checked

| Run | States | Instance | Shows |
|---|---|---|---|
| `MCDeclaredLoad` | 319,996 | both copies of the walk; 2 directories, 2 names and one path entry, library paths with and without a repeat, all layouts, 4 dependency lists or unreadable | `WalkInv`, refinement of the contract, every step nearer to the end, termination; `OnlyInspectedMapped`, `RunsWithWholeClosure` |
| `MCRuntimeLauncher` | 5,257,983 | 6 tools, one of each sidecar shape, 3 nested launches, 7 starting environments | no mixed runtime, sidecar wins, controls used once, paths survive chdir |
| `MCPackagedLaunch` | 625,361 | 2 launchers, 2 starts each, 10 configurations | `LaunchInv`, complete state at exec, no lasting truncation but by an orphan, nothing outside the root but where a link leads a copy, launches settle |
| `MCVerifiedArchive` | 126,624 | all trees of 3 nodes, 8 retain and 3 remove attributes, 4 levels | containment, retained is whole, nothing else survives, nothing refused without cause |
| `MCForeignBuild` | 4,615 | 3 runs, 12 configurations | implements the delivery contract, work directory empty, finished outputs final |
| `MCArtifactValidator` | 1,467,814 | 3 runs of any of 13 jobs, over cleared or kept outputs | certificates true, SDK staged exactly, writes confined, implements the delivery contract |
| `MCExecutionRoot` | 2,089,334 | 7 launchers of all kinds, 4 directories, 3 programs for `hermetic_exec`, 4 steps | only roots are published, who misses a tool, which arguments stay declared |
| `MCPathCandidates` | 107,486 | 19 files in an execution root, a tree of links, a tree of copies and outside, outputs of another repository among them; 4 configurations, 11 `PATH`s, 4 directories, 2 nested launches | the owner is what ran, a declared path is one file |

Bounds.  Two directories and two names already give a missing, a unique and an
ambiguous library, a shared dependency, self and mutual dependency, and a repeat
within a list; a third adds no new outcome of the lookup.  The theorems of section 5 lift
this and every other safety result to any instance.  Three nested launches are parent, child
and grandchild: what a launch publishes is all a descendant sees, so two generations of
inheritance and one sidecar between them cover each hand-over.  Two launchers with two starts give an
overlap, a kill, a restart and an orphan at once.  Three nodes give a link in a
directory to a file that pruning deletes.  Three runs of the driver are one killed
in the work directory, one killed while copying, and one over both; three runs of the
validator are one that is killed, one of another job over its remains, and the first again.
Four steps of ExecutionRoot are a launch, a change of directory, a cleaned environment and
a launch in any order; two nested launches of PathCandidates are one that resolves and one
that inherits.  The 256 levels of
the archive loops become `MaxLevels` (4: one more than the deepest tree, so that only
a retained path through a link cycle reaches it in pruning, and only the depth finding
needs less).  All counters bounded by guards are constants: `MaxDepth`, `MaxBoots`,
`MaxRuns`, `MaxLevels`, `MaxSteps`.

`CHECK_DEADLOCK FALSE` is set throughout: a verdict, an exec, an exit status or a
failed rule is an end of the system, and the bounds stop the rest.

### Fairness

- `DeclaredLoad` has weak fairness of the walk's `Next`: the loop is sequential code without a
  call that waits for another process.  Of the loader it assumes none.
- `PackagedLaunch` has weak fairness of each launcher's own steps, each running
  `fipsinstall` child and each orphan: processes that the operating system schedules.
  Starts, kills, edits and stops are not fair.  `LaunchSettles` therefore also says
  that no launcher waits for another.  `process.Run` has no timeout: it is
  assumed that `fipsinstall` itself ends.
- The other specifications assume none and claim safety only.

### Disagreements found

1. `SidecarOverridesLoaderOptions` (run `launcher_options`).  CHANGELOG.md:65-66 says
   an existing sidecar overrides parent runtime state.  `environmentWithSidecar`
   (main.go:304-311) resets the static mode and the argument count only, so
   `INHIBIT_CACHE` comes from the parent: a musl tool below a glibc consumer is
   started with `--inhibit-cache`.
2. `HiddenNameNeverExposed` (run `launcher_argv0`).  CHANGELOG.md:154-157 says the
   hidden name is not exposed as `argv[0]`.  A frontend that is started again below
   itself inherits its hidden sibling as default program, and `selectedArgv0`
   (main.go:461-469) returns that path.
3. `RejectedNestingExceeds` (run `archive_depth`).  repositories.bzl:39 says nesting
   "exceeds 256 levels"; the loop rejects a tree of exactly 256.
4. `RunfilesSuffice` (run `candidates_runfiles`).  CHANGELOG.md:169-170 says that launchers carry
   loaders and libraries through declared runfiles.  `declaredPathCandidates` (main.go:591-595)
   looks for an output of another repository, `bazel-out/<configuration>/bin/external/<repository>/...`,
   below `_main/external/<repository>`; the runfiles trees of Bazel 9.2.0 (`.bazelversion`)
   have it below `<repository>`.  It bites where the launcher in the tree is itself a copy:
   where it is a link, the link leads to an execution root that has the file.

Two more are not counterexamples of a run, but follow from what a passing run checks:

5. CHANGELOG.md:146-148 says that the static tool launcher normalizes declared execroot-rooted
   compiler arguments.  `resolveExecutionRootPaths` (hermetic_musl_tool/main.go:72-91) does so for
   eight spellings; a declared path behind `-I`, `-iquote`, or `-L` and `--sysroot` as arguments
   of their own, or as an input that is no archive, stays relative and leads elsewhere after a
   change of directory.  `ArgumentsStayDeclared` says so: any other spelling is as given.
6. docs/architecture.md:109-111 says that copied SDK trees reject symlinks that escape their
   declared source root.  `copyDeclaredFiles` (fips_artifact_validator/main.go:424-433) compares
   names and copies what the link leads to, as `TestCopyDeclaredFilesAcceptsBazelMappedInput`
   (main_test.go:193) wants it to.  `StagedExactly` says so: every declared file whose name is
   inside its tree is there, and the model does not ask where it leads.

## 4. Properties worth reading first

- `ImplementsContract` relates the loop to a one-line meaning of "closure", cycles
  and all, for both copies although they treat stat errors differently.
- `OnlyInspectedMapped` joins two algorithms, unique match and first match.  It
  is why ambiguity must be an error.
- `RuntimeNeverMixed` holds because a partial runtime is refused (main.go:299) and
  a sidecar that names a loader names the libraries too.
- `CompleteAtExec` speaks of a launch that had the activation root to itself since it
  started (`shared` is the history variable for this); `SettledComplete` of
  overlapping launches once all of them run.  Between the two lies what the code does
  not promise: a runtime may start while another launcher rewrites its files, and the
  `fipsinstall` child of a killed launcher may truncate the module configuration below
  a running runtime, and may fail there.  Files copied from the release are as in the
  release, unless a link leads a copy onto them.  Of a copy that reads below the activation
  root, whole contents are promised only if no copy reads what it or a later copy writes
  (`ReadsSettled`): otherwise a launch that was killed while it wrote leaves a truncated file
  that the next one copies as it is.
- `ImplementsDelivery` relates an exit status to the outputs of several runs, for two
  programs: nothing that an earlier run left counts as an output of this one, and neither
  the deferred cleaning nor a later copy takes back what was delivered.
- `CertificatesTrue` also covers the module configuration beside the manifest, which is
  removed by a `defer` that a kill skips and whose error nobody reads: the next run must
  not list its providers under it.
- `StagedExactly` includes permissions, because `copyFile` keeps those of a file that
  exists; that both trees are removed first is what makes it hold.
- `InheritedRuntimeSurvivesChdir` has one exception, because a program may lose `STATIC` like any
  other variable: a static launch publishes loader and library path as it inherited them,
  and a descendant that no longer knows it is static then looks for them.
- `OnlyRootWritten` takes a path to be where its links lead.  `pathWithin` is a test of the text
  and `MkdirAll` and `WriteFile` follow links, so a link below the activation root leads a
  copy out of it; the property allows exactly that, and only when the path of every
  destination is below the root.
- `ToolsStayReachable` says that only a root that has the tools is published, and who may still
  miss a tool: of the four launchers with embedded tools only one invoked by a relative
  name, outside the root and its output tree, below a cleaned environment; of
  `hermetic_exec` whoever names a program relative to the root in another directory.
- `ArgumentsStayDeclared` speaks of the spellings that the musl launcher rewrites: a path joined
  to `--gcc-toolchain=`, `--sysroot=`, `-fuse-ld=`, `-resource-dir=` or `-L`, the argument after
  `-isystem` or `-resource-dir`, and an archive.  Any other is as given (the fifth disagreement).
- `OwnerIsWhatRan` compares two readings of `PATH`: the system's, entry by entry from the
  working directory, and the launcher's, each entry below several roots.  They agree
  because the working directory is the first root and a second match is refused.
- `DeclaredMeansOneFile` says that whoever finds a declared path has the declared file, and that
  only a launcher that is not `Anchored` may miss one: neither the execution root nor the
  runfiles tree around it has the file (`Held`), or it is an output of another repository in a
  runfiles tree, which the code seeks elsewhere (the fourth disagreement).  A launcher found by
  its bare name is around where its link leads only, because `declaredPathCandidates` starts
  from `argv[0]` and not from the owner that was found.  The property rests on `NoStrayCopies`:
  nowhere does a declared path stand for another file; in a working directory that has an
  `external/` or `bazel-out/` of its own with other files, the code takes those.
- `RetainedIsWhole` is restricted to attributes whose paths run through real directories.
  For a retained path through a link, pruning may delete the retained files and report no
  error; a removed path through a link may delete files below a retained one.
- `RefusedForCause` is the other half of the rule: an archive is not refused because the
  loops delete what they have still to read.  A directory that is to be read is gone only
  where a retained path runs through a link, and nesting is refused only where there is a
  directory, or a retained path, as deep as the limit (see the third disagreement for the
  limit itself).

## 5. What is proved

Every safety property that a passing run checks is a theorem for all values of the
constants that satisfy the module's assumption.  Each section below says what is
assumed and which invariant carries the induction: a property is seldom inductive itself.
The proofs of a module all rest on one lemma per action and conjunct, and on the lemmas
about its operators that come first in its file.

### Closure and load (`DeclaredLoad_proofs`)

Under `DeclaredFilesAssumption` (library paths and dependency lists are sequences over the
declared names, the program is not a library file) and `HostAssumption`.  What is stated of
`Spec` holds of `LoadSpec`, whose steps are steps of the walk or leave its state alone:

- `TypeCorrect`: `Spec => []TypeOK`.
- `WalkInvariant`: `Spec => []WalkInv`.  `AcceptedIsComplete` alone is not
  inductive: it says nothing until the end.  `WalkInv` says at each step where each
  entry of an inspected file is (`NothingForgotten`), that the walk has not strayed
  (`OnlyReachable`), and that a rejection has a culprit (`VerdictGrounded`).
- `AcceptanceComplete`: `Spec => []AcceptedIsComplete`, from `WalkInv` at an empty queue.  The run
  checks `WalkInv` itself.
- `WalkImplementsContract`: `Spec => ImplementsContract`.  `Finish` maps to `Accept`,
  because a closed set holding the program contains every reachable file; the failing
  branches map to `Reject`, because their culprit was reached; the rest stutters.
- `WalkGoesOn`: `Spec => WalkAdvances`, from the types: what is inspected is one of the
  declared files.  Where these are finite, the measure is one of a well-founded order; that a
  fair walk therefore ends is left to `Terminates`.
- `NoHostLookup`: `LoadSpec => []OnlyInspectedMapped`, by the invariant that every
  mapped file was inspected by an accepted walk and every wanted entry is
  one of a mapped file, so that the unique match is the first match.
- `WholeClosureLoaded`: `LoadSpec => []RunsWithWholeClosure`, by the further invariant
  that a wanted list that has run dry leaves every entry of a mapped file bound.

`ReachableClosed`, `ReachableLeast` and `ResolvedReachable` state what reachability by
closed sets means.

### Chains of launches (`RuntimeLauncher_proofs`)

Under `LauncherAssumption`: any tools, sidecars as the rule writes them (`SidecarOK`: a
loader never without its libraries) and starting environments whose loader and libraries
are of one runtime, for chains of any length.

- `SidecarDecides`, `LoaderKeepsItsLibraries`, `ControlsAreConsumed`, `InheritedIsFound`:
  `SidecarOverridesRuntime`, `RuntimeNeverMixed`, `ControlsConsumedOnce` and
  `InheritedRuntimeSurvivesChdir`, with `TypeCorrect`.
- The properties speak of the launch that execs; the invariant `ChainInv` says what lies
  between two of them. `HandedDown`: a published environment has no controls and only absolute
  paths, but for what a static launch has not looked up (`Unlooked`). `Paired`: if both are
  there, loader and libraries are of one runtime, which programs that drop variables keep.
  `SidecarApplied`: from `ReadSidecar` to the exec, the environment has every value of the
  sidecar and its resets.

### Path lookup (`PathCandidates_proofs`)

Under `PathCandidatesAssumption` (paths are sequences of components, files, directories and
runfiles roots are absolute, a link leads to a file of the same content, declared paths are
relative, and outputs and runfiles roots are named as Bazel names them):

- `TypeCorrect`: what a launch hands over is absolute, found or not, since every candidate
  is (`CandidatesTyped`).
- `OwnerIsSelf`: `Spec => []OwnerIsWhatRan`.  The invariant keeps how the launcher was
  invoked (`InvokedAs`): by a path that leads to it from the working directory, or by the
  bare name through an entry of `PATH` that the system took.  In the second case the
  entry itself is the launcher's first candidate for it and exists (`NameFindsSelf`), so
  that the launcher is among the matches, and the match is unique or refused.  The
  assumptions on the layout are not used.
- `OneFile`: `Spec => []DeclaredMeansOneFile`, under `NoStrayCopies`.  Every candidate of a
  declared path is a place where the layout lets it stand (`CandidateStands`), so that the
  one taken is the declared file (`StandsForFile`); a launcher that is `Anchored` has the root
  of its tree among its candidates (`AnchoredHas`), so that it does find one.
  `FoundInv` carries this through nested launches: until one launch has handed over, the
  declared paths are those configured (`AsDeclared`); after it, they are the files it found
  (`Resolved`); and a launcher that misses one is the first, and not anchored
  (`NotFoundOnlyAway`).

### Packaged launch (`PackagedLaunch_proofs`)

Under `PackagedLaunchAssumption`, so for any number of launchers, starts, files and
configurations:

- `LaunchInvariant`: `Spec => [](TypeOK /\ LaunchInv)`.  `SettledComplete` alone is not
  inductive, because it speaks of launchers that all run.  `TornHasWriter` says who
  answers for a truncated file before that: a launcher that is `Behind`, one that cannot
  reach its runtime without writing the file again.  The launcher that truncates is
  behind by its own position; when it is killed or gives up it is behind because it
  would start over; and it stops being behind only by writing, which ends the
  truncation.  `Ordered` and `ReleaseIntact` supply the positions and that
  what is written is never itself partial.
- `TypeCorrect`, `NothingLeftTorn`, `ActivationPrecedes`, `WritesStayInRoot`,
  `GeneratedNeverBoots`: `TypeOK`, `SettledComplete`, `ActivatedBeforeRunning`,
  `OnlyRootWritten` and `GeneratedSourceNeverBoots`, from that invariant and,
  the last, from `ExecInv` below.  `ActivatedBeforeRunning` is a corollary of `Ordered`, which
  the run checks with `LaunchInv`.
- `StateCompleteAtExec`: `Spec => CompleteAtExec`, by `ExecInv` on top of it.  A launcher
  with the root to itself has nobody beside it (`NobodyElse`); the module configuration it
  activated stands until a copy goes over it (`ModuleStands`); every copy made and not
  written over stands as it should, and what is in the buffer is what it should be
  (`CopiesStand`).  The last needs that no source is torn: `TornIsWritten` says that only
  destinations are, and `ReadsSettled` that this launch has written those it reads.

### Foreign build driver (`ForeignBuild_proofs`)

Under `ForeignBuildAssumption` (any configurations and number of runs, outputs outside the
work directory):

- `LeavesWorkEmpty`, `FinishedStaysFinal`: `WorkLeftEmpty` and `FinishedIsFinal`, with
  `TypeCorrect`.
- `BuildImplementsDelivery`: `Spec => ImplementsDelivery`.  A run succeeds in the step that
  finds no error after cleaning, where nothing of the copies can be seen any more;
  `DriverInv` carries it there.  What is staged after the reset is of this run
  (`StagedNow`), the entries before the one in hand stand, and only directories share
  a path with one of them (`CopiedSoFar`), the open file is this run's (`WritingOne`),
  and a driver that cleans without an error has delivered everything (`OnItsWay`).

### Artifact validator (`ArtifactValidator_proofs`)

Under `ArtifactValidatorAssumption` and `TasksAssumption` (no two copies of a job are the
same in source and destination), so for any jobs and number of runs:

- `CertificatesAreTrue`: `Spec => []CertificatesTrue`.  The property speaks of whole
  certificates only; `CertInv` adds what makes one whole.  While checks are made, all those
  before `next` hold; while a certificate is written, all hold and it names the job of
  this run.  The providers are the sixth check and `fipsinstall` is the fifth
  (`ProvidersLast`), so that the configuration in place is this run's own.
- `SdkStagedExactly`, `WritesAreConfined`, `ValidatorImplementsDelivery`: `StagedExactly`,
  `WritesConfined` and `ImplementsDelivery`, with `TypeCorrect`, by `StageInv`.  Copies
  may be sent to one place, so "what was copied stands" is not inductive; `LatestStands`
  says it of the last copy begun to each place, `MadeByTask` that whatever this run
  made comes from one of its copies, and `TreesOwned` that the trees of an SDK hold
  nothing else, with their own permissions where one copy writes.  `NothingEarly` keeps
  what a run has not made from counting as its own, which is why nothing that the
  contract has seen is taken back.

### Execution tool launchers (`ExecutionRoot_proofs`)

Under `ExecutionRootAssumption` (two absolute roots of at least two components without
`bazel-out`, launchers below `bazel-out`):

- `ToolsAreReached`, `ArgumentsAreDeclared`: `ToolsStayReachable` and
  `ArgumentsStayDeclared`, with `TypeCorrect`.  `RootInv` adds
  that a published root is one of the two and `MAKE` the whole path of a launcher (`EnvTyped`),
  and that the launcher at work was started by one of its names (`Invoked`): the first
  `bazel-out` of such a path is where the root ends (`Marker`).

### Verified archives (`VerifiedArchive_proofs`)

Under `VerifiedArchiveAssumption` (what holds an entry is a directory of the archive; links
lead anywhere, in loops too; the depth limit is above one), for trees of any size:

- `AcceptedStaysInside`, `RetainedSurvives`, `PruningIsComplete`: `AcceptedIsContained`,
  `RetainedIsWhole` and `NothingElseSurvives`, with `TypeCorrect`.  They speak of accepted
  archives, at the end of three loops.  `ArchiveInv` says what each loop has still to do:
  what is there is kept or has an ancestor that pruning will read (`Pruning`), an entry that
  escapes has one that validation will read (`Validated`).  `Standing` (an entry holds what
  leads to it) is what lets a directory that is deleted take all below it out of both.  For
  `RetainedIsWhole`, `OwnPaths` says that where retained paths run through real directories
  pruning reads entries under their own paths only, and `Whole` that nothing kept has been
  deleted at any stage.
- `RefusalHasCause`: `Spec => []RefusedForCause`.  `Counted` says that the directories a loop
  has in hand are as many names deep as levels were counted, those of pruning on the way
  to a retained path, and that an entry of validation's last level is there.  `Kept` says that
  retained paths through real directories are there while pruning runs; `Standing` then
  gives what leads to them, and so every directory that pruning has still to read.

### Only model-checked

`Terminates` and `LaunchSettles`: liveness under fairness is out of the prover's reach; of the
first, `WalkGoesOn` proves the measure.  The four runs of section 3 that find a disagreement
are counterexamples and need no proof.

## 6. What is left out

- Not modelled within modelled components, because no property speaks of it: the `LD_*` filter
  and the paths inside options and undeclared variables (`resolvedEnvironment`),
  `TEST_SRCDIR` and `TEST_WORKSPACE`, the loader command lines, the contents of manifests
  and stamps, the environment of checks, the freezing of marker paths in the driver's
  environment.
- The unpackaged command of `crypto_activation` (`prepare`, 326-372): it checks its
  arguments, makes the directory of `-out` and execs `fipsinstall`; nothing follows in its
  process.  A user who runs it on the module configuration of a release that is being
  launched acts like the orphans of PackagedLaunch, which the launch properties exempt.
- More of the same form: nine more tool names of `hermetic_musl_tool`, further declared paths
  and `PATH_ENVIRONMENT` names.  `AllowedTools` and `Means` hold one of each form.
- In ExecutionRoot, an execution root below a directory named `bazel-out`: the first marker
  would name that directory, and every launcher would miss its tools; `ExecutionRootAssumption`
  excludes it.  The bash launcher also looks for its loader, the make launcher finds neither
  tool nor loader missing before `execve` does; one outcome stands for both.
- In ForeignBuild, what lies in a directory output is a fixed list of entries, so that a file
  which an earlier run left there, and this run does not make, is out of view.
- In ForeignBuild, outputs inside the work directory: `resolveConfig` does not refuse them,
  and the deferred reset would remove them after a success.  `ForeignBuildAssumption`
  takes them to lie outside.
- Changes to declared inputs between validation and exec: the inputs are immutable.
- Writes by `make` outside its stage directory.
- Rules that only declare actions, and hosted workflows (section 1).

## 7. Plan

1. `SourceSelection` and `UbiImports`: module extensions, names and overrides.
2. The sidecar writer of `runtime_tool.bzl`, composed with RuntimeLauncher: every
   sidecar it writes satisfies what the reader requires.
3. Proofs of the properties of the modules of items 1 and 2.
