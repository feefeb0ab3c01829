--------------------------- MODULE ArtifactValidator ---------------------------
(***************************************************************************)
(* fips_artifact_validator: four modes over one file system.  Two stage    *)
(* files (stage-runtime, stage-crypto-sdk), two check artifacts and then   *)
(* write a certificate (elf-closure a stamp, openssl a manifest).  A run   *)
(* fails or is killed at any step, and the next one, of the same job or of *)
(* one whose inputs have changed, meets what it left.                      *)
(*                                                                         *)
(* One closure check is one step here: ElfClosure models the walk, and     *)
(* ClosureContract what its verdict means.                                 *)
(***************************************************************************)
EXTENDS Naturals, Sequences, Functions

CONSTANTS
  Jobs,     \* the runs that are asked for
  Places,   \* <<tree, directory, name>> of every file that can be written
  MaxRuns,  \* bound on the runs
  Absent

Modes == {"elf-closure", "openssl", "stage-crypto-sdk", "stage-runtime"}

\* A job: the programs to check, the files to stage, as runtime pairs whose
\* destination is a basename or not, and as declared files whose name is inside
\* their source tree or not, wherever it leads; the platform; and the checks that hold of its artifacts.
ASSUME ArtifactValidatorAssumption ==
  /\ MaxRuns \in Nat
  /\ \A j \in Jobs :
       /\ j.mode \in Modes
       /\ j.programs \in Seq(STRING)
       /\ j.runtime \in Seq([from : STRING, name : STRING, base : BOOLEAN])
       /\ j.headers \in Seq([name : STRING, inside : BOOLEAN])
       /\ j.pkgconfig \in Seq([name : STRING, inside : BOOLEAN])
       /\ {j.host, j.arch} \subseteq STRING /\ j.emulator \in BOOLEAN
  /\ Absent \notin [job : Jobs, by : Nat, whole : BOOLEAN]

VARIABLES
  job,
  pc,     \* where the run stands; "exit" has a status, "killed" has none
  ok,     \* no step of the run has failed
  next,   \* the tree, check or copy it is at
  files,  \* what stands at each place
  cert,   \* the stamp and the manifest
  conf,   \* the module configuration beside the manifest
  runs

vars == <<job, pc, ok, next, files, cert, conf, runs>>

CertModes == {"elf-closure", "openssl"}
Elsewhere == <<"elsewhere", "", "">>
Running == pc \notin {"idle", "exit", "killed"}

-----------------------------------------------------------------------------
(* What a job asks for.                                                    *)

Task(from, to) == [from |-> from, to |-> to, refused |-> FALSE]

\* Mutation: a source outside its tree is not noticed.
Refused_Never(declared) == FALSE

\* filepath.Rel leads out of the source tree, and would out of the destination.
\* The name decides: a link inside the tree is followed wherever it leads.
Refused(declared) == ~declared.inside

DeclaredTasks(list, directory) ==
  [i \in DOMAIN list |->
     [from |-> list[i].name, refused |-> Refused(list[i]),
      to |-> IF list[i].inside THEN <<"sdk", directory, list[i].name>> ELSE Elsewhere]]

FixedTasks ==
  << Task("libcrypto", <<"sdk", "lib", "libcrypto.a">>),
     Task("libssl", <<"sdk", "lib", "libssl.a">>),
     Task("openssl", <<"sdk", "bin", "openssl">>),
     Task("provider", <<"sdk", "lib/ossl-modules", "fips.so">>),
     Task("config", <<"sdk", "ssl", "openssl.cnf">>),
     Task("activation", <<"sdk", "bin", "crypto-activate">>) >>

\* Every runtime file goes to the runtime tree and then to the SDK's lib.
RuntimeTasks(pairs) ==
  [k \in 1..(2 * Len(pairs)) |->
     LET pair == pairs[(k + 1) \div 2]
         directory == IF k % 2 = 1 THEN <<"runtime", "">> ELSE <<"sdk", "lib">>
     IN Task(pair.from, IF pair.base THEN Append(directory, pair.name) ELSE Elsewhere)]

Tasks == [j \in Jobs |->
  CASE j.mode = "stage-runtime" ->
         [i \in DOMAIN j.runtime |-> Task(j.runtime[i].from, <<"out", "", j.runtime[i].name>>)]
    [] j.mode = "stage-crypto-sdk" ->
         DeclaredTasks(j.headers, "include") \o DeclaredTasks(j.pkgconfig, "lib/pkgconfig")
           \o FixedTasks \o RuntimeTasks(j.runtime)
    [] OTHER -> <<>>]

Checks == [j \in Jobs |->
  CASE j.mode = "elf-closure" -> [i \in DOMAIN j.programs |-> <<"closure", j.programs[i]>>]
    [] j.mode = "openssl" ->
         << <<"closure", "openssl">>, <<"closure", "fips.so">>,
            <<"machine", "openssl">>, <<"machine", "fips.so">>,
            <<"fipsinstall", "fips.so">>, <<"providers", "openssl">> >>
    [] OTHER -> <<>>]

\* Native, or AArch64 on AMD64 with the declared QEMU.
EmulatorSelected(j) ==
  j.host = j.arch \/ (j.host = "amd64" /\ j.arch = "arm64" /\ j.emulator)

\* Mutation: runtime destinations are not looked at.
Normalized_Any(pairs) == TRUE

Normalized(pairs) == \A i \in DOMAIN pairs : pairs[i].base

ArgumentsOK(j) ==
  CASE j.mode = "elf-closure" -> j.programs # <<>>
    [] j.mode = "openssl" -> j.arch \in {"amd64", "arm64"} /\ EmulatorSelected(j)
    [] j.mode = "stage-runtime" -> j.runtime # <<>>
    [] OTHER -> <<>> \notin {j.runtime, j.pkgconfig, j.headers} /\ Normalized(j.runtime)

\* What is copied to some place by some job.
Sources == UNION {{t.from : t \in Range(Tasks[j])} : j \in Jobs}

\* No file is staged twice to one place.
ASSUME TasksAssumption ==
  /\ Absent \notin [from : Sources, by : Nat, whole : BOOLEAN, perm : Sources]
  /\ Elsewhere \in Places
  /\ \A j \in Jobs : \A a, b \in DOMAIN Tasks[j] :
       /\ Tasks[j][a].to \in Places
       /\ Tasks[j][a] = Tasks[j][b] /\ Tasks[j][a].to # Elsewhere => a = b

\* The last copy to a place is the one that is to stand there.
Expected == [j \in Jobs |->
  {Tasks[j][i] : i \in {k \in DOMAIN Tasks[j] :
     \A l \in DOMAIN Tasks[j] : l > k => Tasks[j][l].to # Tasks[j][k].to}}]

-----------------------------------------------------------------------------
Init ==
  /\ job \in Jobs
  /\ pc = "idle"
  /\ ok = TRUE
  /\ next = 1
  /\ files = [p \in Places |-> Absent]
  /\ cert = [m \in CertModes |-> Absent]
  /\ conf = Absent
  /\ runs = 0

GoTo(step) == pc' = step /\ next' = 1 /\ UNCHANGED ok
Fail == ok' = FALSE /\ next' = 1

\* The module configuration is removed on every way out once it is named.
Unwinding == job.mode = "openssl" /\ (pc = "certificate" \/ next > 4)
GiveUp == Fail /\ pc' = IF Unwinding THEN "unwind" ELSE "exit"

\* The build tool starts a run, over cleared outputs or over the old ones.
Start(j, cleared) ==
  /\ ~Running
  /\ runs < MaxRuns
  /\ job' = j
  /\ pc' = "arguments"
  /\ ok' = TRUE
  /\ next' = 1
  /\ files' = IF cleared THEN [p \in Places |-> Absent] ELSE files
  /\ cert' = IF cleared THEN [m \in CertModes |-> Absent] ELSE cert
  /\ runs' = runs + 1
  /\ UNCHANGED conf

Kill ==
  /\ Running
  /\ pc' = "killed"
  /\ UNCHANGED <<job, ok, next, files, cert, conf, runs>>

AcceptArguments ==
  /\ pc = "arguments"
  /\ ArgumentsOK(job)
  /\ GoTo(IF job.mode \in CertModes THEN "check"
          ELSE IF job.mode = "stage-crypto-sdk" THEN "remove" ELSE "copy")
  /\ UNCHANGED <<job, files, cert, conf, runs>>

RefuseArguments ==
  /\ pc = "arguments"
  /\ ~ArgumentsOK(job)
  /\ GiveUp
  /\ UNCHANGED <<job, files, cert, conf, runs>>

-----------------------------------------------------------------------------
(* stage-crypto-sdk starts from empty trees.                               *)

\* Mutation: the runtime tree is kept.
Trees_First == <<"sdk">>

Trees == <<"sdk", "runtime">>
InTree(tree) == {p \in Places : p[1] = tree}
Without(gone) == [p \in Places |-> IF p \in gone THEN Absent ELSE files[p]]

RemoveTree ==
  /\ pc = "remove"
  /\ files' = Without(InTree(Trees[next]))
  /\ IF next = Len(Trees) THEN GoTo("copy") ELSE next' = next + 1 /\ UNCHANGED <<pc, ok>>
  /\ UNCHANGED <<job, cert, conf, runs>>

RemoveFails ==
  /\ pc = "remove"
  /\ \E gone \in SUBSET {p \in InTree(Trees[next]) : files[p] # Absent} : files' = Without(gone)
  /\ GiveUp
  /\ UNCHANGED <<job, cert, conf, runs>>

-----------------------------------------------------------------------------
(* Staging.                                                                *)

CurrentTask == Tasks[job][next]
Copying == pc = "copy" /\ next \in DOMAIN Tasks[job]

\* O_CREATE|O_TRUNC: what stands there is emptied and keeps its permissions.
OpenDestination ==
  /\ Copying
  /\ ~CurrentTask.refused
  /\ files' = [files EXCEPT ![CurrentTask.to] =
                 [from |-> CurrentTask.from, by |-> runs, whole |-> FALSE,
                  perm |-> IF @ = Absent THEN CurrentTask.from ELSE @.perm]]
  /\ pc' = "contents"
  /\ UNCHANGED <<job, ok, next, cert, conf, runs>>

CopyContents ==
  /\ pc = "contents"
  /\ files' = [files EXCEPT ![CurrentTask.to].whole = TRUE]
  /\ pc' = "copy"
  /\ next' = next + 1
  /\ UNCHANGED <<job, ok, cert, conf, runs>>

\* Mutation: a file that cannot be copied is passed over.
CopyFails_PassesOver ==
  /\ Copying \/ pc = "contents"
  /\ pc' = "copy"
  /\ next' = next + 1
  /\ UNCHANGED <<job, ok, files, cert, conf, runs>>

\* A source outside its tree is refused, or a system call fails.
CopyFails ==
  /\ Copying \/ pc = "contents"
  /\ GiveUp
  /\ UNCHANGED <<job, files, cert, conf, runs>>

Staged ==
  /\ pc = "copy"
  /\ next > Len(Tasks[job])
  /\ GoTo("exit")
  /\ UNCHANGED <<job, files, cert, conf, runs>>

-----------------------------------------------------------------------------
(* Checking.                                                               *)

CurrentCheck == Checks[job][next]
Checking == pc = "check" /\ next \in DOMAIN Checks[job]

\* Mutation: fipsinstall is skipped when its output exists.
Installed_Once(old) == IF old = Absent THEN [by |-> runs, whole |-> TRUE] ELSE old

\* fipsinstall -out replaces what stands there.
Installed(old) == [by |-> runs, whole |-> TRUE]

CheckPasses ==
  /\ Checking
  /\ CurrentCheck \in job.holds
  /\ conf' = IF CurrentCheck[1] = "fipsinstall" THEN Installed(conf) ELSE conf
  /\ next' = next + 1
  /\ UNCHANGED <<job, pc, ok, files, cert, runs>>

\* The check does not hold, or it cannot be made; a failed fipsinstall may
\* have written some of its output.
CheckFails ==
  /\ Checking
  /\ GiveUp
  /\ \/ UNCHANGED conf
     \/ CurrentCheck[1] = "fipsinstall" /\ conf' = [by |-> runs, whole |-> FALSE]
  /\ UNCHANGED <<job, files, cert, runs>>

\* WriteFile truncates and then writes.
TruncateCertificate ==
  /\ pc = "check"
  /\ next > Len(Checks[job])
  /\ cert' = [cert EXCEPT ![job.mode] = [job |-> job, by |-> runs, whole |-> FALSE]]
  /\ GoTo("certificate")
  /\ UNCHANGED <<job, files, conf, runs>>

WriteCertificate ==
  /\ pc = "certificate"
  /\ cert' = [cert EXCEPT ![job.mode].whole = TRUE]
  /\ GoTo(IF job.mode = "openssl" THEN "unwind" ELSE "exit")
  /\ UNCHANGED <<job, files, conf, runs>>

\* A digest panics, or the certificate cannot be created or written.
CertificateFails ==
  /\ pc = "certificate" \/ (pc = "check" /\ next > Len(Checks[job]))
  /\ GiveUp
  /\ UNCHANGED <<job, files, cert, conf, runs>>

\* The deferred removal, whose own failure nobody hears of.
Unwind ==
  /\ pc = "unwind"
  /\ conf' \in {Absent, conf}
  /\ GoTo("exit")
  /\ UNCHANGED <<job, files, cert, runs>>

Next ==
  \/ \E j \in Jobs, cleared \in BOOLEAN : Start(j, cleared)
  \/ Kill
  \/ AcceptArguments \/ RefuseArguments
  \/ RemoveTree \/ RemoveFails
  \/ OpenDestination \/ CopyContents \/ CopyFails \/ Staged
  \/ CheckPasses \/ CheckFails
  \/ TruncateCertificate \/ WriteCertificate \/ CertificateFails \/ Unwind

Spec == Init /\ [][Next]_vars

-----------------------------------------------------------------------------
\* Types, with the order of the steps: a failed run only leaves, and what a
\* running one has truncated it is writing.
TypeOK ==
  /\ job \in Jobs
  /\ pc \in {"idle", "arguments", "remove", "copy", "contents", "check", "certificate",
             "unwind", "exit", "killed"}
  /\ ok \in BOOLEAN /\ (ok \/ pc \in {"unwind", "exit", "killed"})
  /\ next \in Nat \ {0}
  /\ \A p \in Places : files[p] # Absent =>
       /\ files[p].by \in 1..runs
       /\ Running /\ files[p].by = runs /\ ~files[p].whole => pc = "contents"
  /\ \A m \in CertModes : cert[m] # Absent => cert[m].job \in Jobs /\ cert[m].by \in 1..runs
  /\ conf = Absent \/ conf \in [by : 1..runs, whole : BOOLEAN]
  /\ runs \in 0..MaxRuns

Succeeded == pc = "exit" /\ ok

\* A stamp or manifest that stands whole says the truth of the job it was
\* written for, whatever failed or was killed before and after: each of the
\* job's checks holds.  The providers, the last of them, are listed under the
\* module configuration this run's fipsinstall wrote, never under one that a
\* killed run left beside the manifest.
CertificatesTrue ==
  /\ \A m \in CertModes : cert[m] # Absent /\ cert[m].whole =>
       Range(Checks[cert[m].job]) \subseteq cert[m].job.holds
  /\ Checking /\ CurrentCheck[1] = "providers" => conf = [by |-> runs, whole |-> TRUE]

\* After a successful stage-crypto-sdk both trees hold the declared files and
\* nothing of an earlier run, each with the permissions of its own source
\* unless two files were sent to its place.
StagedExactly ==
  Succeeded /\ job.mode = "stage-crypto-sdk" =>
    /\ {p \in InTree("sdk") \cup InTree("runtime") : files[p] # Absent} = {t.to : t \in Expected[job]}
    /\ \A i \in DOMAIN Tasks[job] :
         (\A l \in DOMAIN Tasks[job] \ {i} : Tasks[job][l].to # Tasks[job][i].to) =>
           files[Tasks[job][i].to].perm = Tasks[job][i].from

\* Nothing is ever written outside the declared trees, and a runtime
\* destination that is not a basename stops stage-crypto-sdk before it has
\* removed anything.
WritesConfined ==
  [][/\ files'[Elsewhere] = files[Elsewhere]
     /\ Running /\ job.mode = "stage-crypto-sdk" /\ (\E i \in DOMAIN job.runtime : ~job.runtime[i].base)
          => files' = files]_vars

-----------------------------------------------------------------------------
(* The contract: the checks are to hold, and the files and the certificate *)
(* are to stand as this run made them.                                     *)

Asked ==
  {<<"check", c>> : c \in Range(Checks[job])} \cup {<<"file", t>> : t \in Expected[job]}
    \cup {<<"certificate", m>> : m \in CertModes \cap {job.mode}}

Stands(t) == files[t.to] # Absent /\ files[t.to].from = t.from /\ files[t.to].by = runs /\ files[t.to].whole

Have ==
  {<<"check", c>> : c \in Range(Checks[job]) \cap job.holds}
    \cup {<<"file", t>> : t \in {e \in Expected[job] : Stands(e)}}
    \cup {<<"certificate", m>> : m \in
           {n \in CertModes : cert[n] # Absent /\ cert[n].by = runs /\ cert[n].whole}}

Outcome ==
  CASE pc = "idle" -> "none"
    [] Running -> "running"
    [] OTHER -> IF Succeeded THEN "success" ELSE "failure"

Delivery == INSTANCE DeliveryContract WITH
  outcome <- Outcome, asked <- Asked, have <- Have

\* A run that reports success has made every check it was asked for, and each
\* holds, and has staged every file whole; no later step of the run undoes it.
ImplementsDelivery == Delivery!Spec
=============================================================================
