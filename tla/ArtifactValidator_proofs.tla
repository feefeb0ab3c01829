----------------------- MODULE ArtifactValidator_proofs -----------------------
(***************************************************************************)
(* Theorems about the artifact validator, for any jobs, any places and any *)
(* number of runs: its certificates are true, stage-crypto-sdk stages      *)
(* exactly what was declared, nothing is written elsewhere, and a run that *)
(* reports success has delivered what it was asked for.                    *)
(***************************************************************************)
EXTENDS ArtifactValidator, TLAPS, SequenceTheorems, WellFoundedInduction

\* The certificates, and the configuration beside one, are what was written.
CertTyped ==
  /\ job \in Jobs
  /\ next \in Nat \ {0}
  /\ DOMAIN cert = CertModes
  /\ \A m \in CertModes : cert[m] # Absent => cert[m] \in [job : Jobs, by : Nat, whole : BOOLEAN]
  /\ runs \in Nat

Passed == \A i \in DOMAIN Checks[job] : i < next => Checks[job][i] \in job.holds

\* Whoever writes a certificate has passed every check, and a whole one keeps
\* to the job it was written for.
Certified ==
  /\ pc = "check" => Passed
  /\ pc \in {"check", "certificate"} => job.mode \in CertModes
  /\ pc = "certificate" =>
       /\ Range(Checks[job]) \subseteq job.holds
       /\ cert[job.mode] \in [job : {job}, by : Nat, whole : BOOLEAN]
  /\ \A m \in CertModes : cert[m] # Absent /\ cert[m].whole =>
       Range(Checks[cert[m].job]) \subseteq cert[m].job.holds

\* The providers are listed right after this run's fipsinstall.
Configured ==
  Checking /\ CurrentCheck[1] = "providers" => conf = [by |-> runs, whole |-> TRUE]

CertInv == CertTyped /\ Certified /\ Configured

-----------------------------------------------------------------------------
\* The checks of a job, by its mode.
LEMMA ChecksOf ==
  ASSUME NEW j \in Jobs
  PROVE  /\ j.mode = "elf-closure" => Checks[j] = [i \in 1..Len(j.programs) |-> <<"closure", j.programs[i]>>]
         /\ j.mode = "openssl" => Checks[j] =
              << <<"closure", "openssl">>, <<"closure", "fips.so">>,
                 <<"machine", "openssl">>, <<"machine", "fips.so">>,
                 <<"fipsinstall", "fips.so">>, <<"providers", "openssl">> >>
         /\ j.mode \in CertModes => Len(Checks[j]) \in Nat /\ DOMAIN Checks[j] = 1..Len(Checks[j])
<1>1. j.mode \in Modes /\ j.programs \in Seq(STRING)
  BY ArtifactValidatorAssumption
<1>2. DOMAIN j.programs = 1..Len(j.programs) /\ Len(j.programs) \in Nat
  BY <1>1
<1>3. CASE j.mode = "elf-closure"
  <2>1. Checks[j] = [i \in 1..Len(j.programs) |-> <<"closure", j.programs[i]>>]
    BY <1>2, <1>3 DEF Checks
  <2>2. Len(Checks[j]) = Len(j.programs)
    BY <1>2, <2>1
  <2> QED
    BY <1>2, <1>3, <2>1, <2>2
<1>4. CASE j.mode = "openssl"
  <2>1. Checks[j] =
          << <<"closure", "openssl">>, <<"closure", "fips.so">>,
             <<"machine", "openssl">>, <<"machine", "fips.so">>,
             <<"fipsinstall", "fips.so">>, <<"providers", "openssl">> >>
    BY <1>4 DEF Checks
  <2>2. Len(Checks[j]) = 6 /\ DOMAIN Checks[j] = 1..6
    BY <2>1
  <2> QED
    BY <1>4, <2>1, <2>2
<1> QED
  BY <1>3, <1>4 DEF CertModes

\* The only check of the providers is the one behind fipsinstall.
LEMMA ProvidersLast ==
  ASSUME NEW j \in Jobs, j.mode \in CertModes, NEW i \in DOMAIN Checks[j], Checks[j][i][1] = "providers"
  PROVE  i = 6 /\ 5 \in DOMAIN Checks[j] /\ Checks[j][5][1] = "fipsinstall"
<1>1. CASE j.mode = "elf-closure"
  <2>1. Checks[j][i] = <<"closure", j.programs[i]>>
    BY <1>1, ChecksOf
  <2> QED
    BY <2>1
<1>2. CASE j.mode = "openssl"
  <2>1. Checks[j] =
          << <<"closure", "openssl">>, <<"closure", "fips.so">>,
             <<"machine", "openssl">>, <<"machine", "fips.so">>,
             <<"fipsinstall", "fips.so">>, <<"providers", "openssl">> >>
    BY <1>2, ChecksOf
  <2>2. /\ Checks[j][1][1] = "closure" /\ Checks[j][2][1] = "closure"
        /\ Checks[j][3][1] = "machine" /\ Checks[j][4][1] = "machine"
        /\ Checks[j][5][1] = "fipsinstall" /\ DOMAIN Checks[j] = 1..6
    BY <2>1
  <2>3. i = 1 \/ i = 2 \/ i = 3 \/ i = 4 \/ i = 5 \/ i = 6
    BY <2>2
  <2> QED
    BY <2>2, <2>3
<1> QED
  BY <1>1, <1>2 DEF CertModes

\* When no check is left, all have been passed.
LEMMA AllPassed ==
  ASSUME job \in Jobs, job.mode \in CertModes, next \in Nat, Passed, next > Len(Checks[job])
  PROVE  Range(Checks[job]) \subseteq job.holds
<1>1. DOMAIN Checks[job] = 1..Len(Checks[job]) /\ Len(Checks[job]) \in Nat
  BY ChecksOf
<1>2. \A i \in DOMAIN Checks[job] : Checks[job][i] \in job.holds
  BY <1>1 DEF Passed
<1> QED
  BY <1>2 DEF Range

-----------------------------------------------------------------------------
\* Initially there is nothing to vouch for.
LEMMA CertInit == Init => CertInv
<1> SUFFICES ASSUME Init PROVE CertInv
  OBVIOUS
<1>1. cert = [m \in CertModes |-> Absent] /\ \A m \in CertModes : cert[m] = Absent
  BY DEF Init
<1> QED
  BY <1>1 DEF Init, CertInv, CertTyped, Certified, Configured, Checking

\* Every step keeps the certificates true.
LEMMA CertStep == CertInv /\ [Next]_vars => CertInv'
<1> SUFFICES ASSUME CertTyped, Certified, Configured, [Next]_vars PROVE CertInv'
  BY DEF CertInv
<1> USE DEF CertTyped
<1>1. ASSUME NEW j \in Jobs, NEW cleared \in BOOLEAN, Start(j, cleared) PROVE CertInv'
  <2>1. /\ job' = j /\ pc' = "arguments" /\ next' = 1 /\ runs' = runs + 1
        /\ cert' = [m \in CertModes |-> Absent] \/ cert' = cert
    BY <1>1 DEF Start
  <2>2. CertTyped'
    BY <2>1
  <2>3. Certified' /\ Configured'
    BY <2>1 DEF Certified, Configured, Checking
  <2> QED
    BY <2>2, <2>3 DEF CertInv
<1>2. CASE AcceptArguments
  <2>1. UNCHANGED <<job, cert, runs>> /\ next' = 1
        /\ pc' = IF job.mode \in CertModes THEN "check"
                 ELSE IF job.mode = "stage-crypto-sdk" THEN "remove" ELSE "copy"
    BY <1>2 DEF AcceptArguments, GoTo
  <2>2. CertTyped'
    BY <2>1
  <2>3. ASSUME job.mode \in CertModes PROVE Passed'
    <3>1. DOMAIN Checks[job] = 1..Len(Checks[job]) /\ Len(Checks[job]) \in Nat
      BY <2>3, ChecksOf
    <3> QED
      BY <2>1, <3>1 DEF Passed
  <2>4. Certified'
    BY <2>1, <2>3 DEF Certified
  <2>5. Configured'
    <3> SUFFICES ASSUME Checking', CurrentCheck'[1] = "providers" PROVE FALSE
      BY DEF Configured
    <3>1. job.mode \in CertModes /\ 1 \in DOMAIN Checks[job] /\ Checks[job][1][1] = "providers"
      BY <2>1 DEF Checking, CurrentCheck
    <3> QED
      BY <3>1, ProvidersLast
  <2> QED
    BY <2>2, <2>4, <2>5 DEF CertInv
<1>3. ASSUME UNCHANGED <<job, cert, runs>>, next' \in Nat \ {0}, pc' \notin {"check", "certificate"}
      PROVE  CertInv'
  <2>1. CertTyped'
    BY <1>3
  <2>2. Certified' /\ Configured'
    BY <1>3 DEF Certified, Configured, Checking
  <2> QED
    BY <2>1, <2>2 DEF CertInv
<1>4. CASE Kill
  BY <1>3, <1>4 DEF Kill
<1>5. CASE RefuseArguments
  BY <1>3, <1>5 DEF RefuseArguments, GiveUp, Fail
<1>6. CASE RemoveTree
  BY <1>3, <1>6 DEF RemoveTree, GoTo
<1>7. CASE RemoveFails
  BY <1>3, <1>7 DEF RemoveFails, GiveUp, Fail
<1>8. CASE OpenDestination \/ CopyContents
  BY <1>3, <1>8 DEF OpenDestination, CopyContents
<1>9. CASE CopyFails \/ CheckFails \/ CertificateFails
  BY <1>3, <1>9 DEF CopyFails, CheckFails, CertificateFails, GiveUp, Fail
<1>10. CASE Staged \/ Unwind
  BY <1>3, <1>10 DEF Staged, Unwind, GoTo
<1>11. CASE CheckPasses
  <2>1. /\ pc = "check" /\ next \in DOMAIN Checks[job] /\ Checks[job][next] \in job.holds
        /\ UNCHANGED <<job, pc, cert, runs>> /\ next' = next + 1
        /\ conf' = IF Checks[job][next][1] = "fipsinstall" THEN [by |-> runs, whole |-> TRUE] ELSE conf
    BY <1>11 DEF CheckPasses, Checking, CurrentCheck, Installed
  <2>2. job.mode \in CertModes /\ Passed
    BY <2>1 DEF Certified
  <2>3. DOMAIN Checks[job] = 1..Len(Checks[job]) /\ Len(Checks[job]) \in Nat
    BY <2>2, ChecksOf
  <2>4. CertTyped'
    BY <2>1
  <2>5. Passed'
    BY <2>1, <2>2, <2>3 DEF Passed
  <2>6. Certified'
    BY <2>1, <2>5 DEF Certified
  <2>7. Configured'
    <3> SUFFICES ASSUME Checking', CurrentCheck'[1] = "providers"
                 PROVE  conf' = [by |-> runs, whole |-> TRUE]
      BY <2>1 DEF Configured
    <3>1. next + 1 \in DOMAIN Checks[job] /\ Checks[job][next + 1][1] = "providers"
      BY <2>1 DEF Checking, CurrentCheck
    <3>2. next + 1 = 6 /\ Checks[job][5][1] = "fipsinstall"
      BY <2>2, <3>1, ProvidersLast
    <3>3. next = 5
      BY <3>2
    <3> QED
      BY <2>1, <3>2, <3>3
  <2> QED
    BY <2>4, <2>6, <2>7 DEF CertInv
<1>12. CASE TruncateCertificate
  <2>1. /\ pc = "check" /\ next > Len(Checks[job]) /\ UNCHANGED <<job, runs>>
        /\ pc' = "certificate" /\ next' = 1
        /\ cert' = [cert EXCEPT ![job.mode] = [job |-> job, by |-> runs, whole |-> FALSE]]
    BY <1>12 DEF TruncateCertificate, GoTo
  <2>2. job.mode \in CertModes /\ Passed
    BY <2>1 DEF Certified
  <2>3. Range(Checks[job]) \subseteq job.holds
    BY <2>1, <2>2, AllPassed
  <2>4. /\ DOMAIN cert' = CertModes
        /\ cert'[job.mode] = [job |-> job, by |-> runs, whole |-> FALSE]
        /\ \A m \in CertModes : m # job.mode => cert'[m] = cert[m]
    BY <2>1, <2>2
  <2>5. CertTyped'
    BY <2>1, <2>4
  <2>6. Certified'
    BY <2>1, <2>2, <2>3, <2>4 DEF Certified
  <2>7. Configured'
    BY <2>1 DEF Configured, Checking
  <2> QED
    BY <2>5, <2>6, <2>7 DEF CertInv
<1>13. CASE WriteCertificate
  <2>1. /\ pc = "certificate" /\ UNCHANGED <<job, runs>>
        /\ pc' \in {"unwind", "exit"} /\ next' = 1
        /\ cert' = [cert EXCEPT ![job.mode].whole = TRUE]
    BY <1>13 DEF WriteCertificate, GoTo
  <2>2. /\ job.mode \in CertModes
        /\ Range(Checks[job]) \subseteq job.holds
        /\ cert[job.mode] \in [job : {job}, by : Nat, whole : BOOLEAN]
    BY <2>1 DEF Certified
  <2>3. /\ DOMAIN cert' = CertModes
        /\ cert'[job.mode] \in [job : {job}, by : Nat, whole : BOOLEAN]
        /\ \A m \in CertModes : m # job.mode => cert'[m] = cert[m]
    BY <2>1, <2>2
  <2>4. CertTyped'
    <3>1. [job : {job}, by : Nat, whole : BOOLEAN] \subseteq [job : Jobs, by : Nat, whole : BOOLEAN]
      OBVIOUS
    <3>2. \A m \in CertModes : cert'[m] # Absent => cert'[m] \in [job : Jobs, by : Nat, whole : BOOLEAN]
      <4> TAKE m \in CertModes
      <4>1. CASE m = job.mode
        BY <2>3, <3>1, <4>1
      <4>2. CASE m # job.mode
        BY <2>3, <4>2
      <4> QED
        BY <4>1, <4>2
    <3>3. job' \in Jobs /\ next' \in Nat \ {0} /\ DOMAIN cert' = CertModes /\ runs' \in Nat
      BY <2>1, <2>3
    <3> QED
      BY <3>2, <3>3, Zenon DEF CertTyped
  <2>5. cert'[job.mode].job = job
    BY <2>3
  <2>6. Certified'
    BY <2>1, <2>2, <2>3, <2>5 DEF Certified
  <2>7. Configured'
    BY <2>1 DEF Configured, Checking
  <2> QED
    BY <2>4, <2>6, <2>7 DEF CertInv
<1>14. CASE UNCHANGED vars
  <2>1. UNCHANGED <<job, pc, next, cert, conf, runs>>
    BY <1>14 DEF vars
  <2> QED
    BY <2>1 DEF CertInv, Certified, Configured, Passed, Checking, CurrentCheck
<1> QED
  BY <1>1, <1>2, <1>4, <1>5, <1>6, <1>7, <1>8, <1>9, <1>10, <1>11, <1>12, <1>13, <1>14 DEF Next

\* A certificate that stands whole tells the truth of its job, and the
\* providers are listed under this run's configuration, for any jobs, any
\* faults and any number of runs (main.go of fips_artifact_validator).
THEOREM CertificatesAreTrue == Spec => []CertificatesTrue
<1>1. CertInv => CertificatesTrue
  BY DEF CertInv, Certified, Configured, CertificatesTrue
<1> QED
  BY CertInit, CertStep, <1>1, PTL DEF Spec

-----------------------------------------------------------------------------
(* The inductive invariant of staging.                                     *)

\* The record of a file that stands.
FileRecord == [from : Sources, by : Nat, whole : BOOLEAN, perm : Sources]

\* Types, and what a run that has come this far has been allowed.
StageTyped ==
  /\ pc \in {"idle", "arguments", "remove", "copy", "contents", "check", "certificate",
             "unwind", "exit", "killed"}
  /\ ok \in BOOLEAN /\ (ok \/ pc \in {"unwind", "exit", "killed"})
  /\ runs \in 0..MaxRuns /\ (Running => runs > 0)
  /\ conf = Absent \/ conf \in [by : 1..runs, whole : BOOLEAN]
  /\ \A m \in CertModes : cert[m] # Absent => cert[m].by \in 1..runs
  /\ DOMAIN files = Places
  /\ \A p \in Places : files[p] # Absent => files[p] \in FileRecord /\ files[p].by \in 1..runs
  /\ files[Elsewhere] = Absent
  /\ pc = "remove" => job.mode = "stage-crypto-sdk" /\ next \in {1, 2}
  /\ pc \in {"remove", "copy", "contents"} => ArgumentsOK(job) /\ job.mode \notin CertModes
  /\ pc = "contents" => next \in DOMAIN Tasks[job]
  /\ pc \in {"check", "certificate", "unwind"} => job.mode \in CertModes

\* What a run has not yet made does not stand as its own; the certificate it
\* has truncated does.
NothingEarly ==
  /\ Running /\ pc \notin {"copy", "contents"} =>
       \A p \in Places : files[p] # Absent => files[p].by # runs
  /\ Running /\ pc \notin {"certificate", "unwind"} =>
       \A m \in CertModes : cert[m] # Absent => cert[m].by # runs
  /\ pc = "certificate" => cert[job.mode] # Absent /\ cert[job.mode].by = runs

\* Tasks begun, the one in hand included.
InHand(i) == pc = "contents" /\ i = next
Begun == {i \in DOMAIN Tasks[job] : i < next \/ InHand(i)}
From(i) == Tasks[job][i].from
To(i) == Tasks[job][i].to

\* No task of those has been sent to the place of i after it.
Last(i, tasks) == \A l \in tasks : l > i => To(l) # To(i)

\* Every task begun was acceptable, and the last one that was sent to a place
\* stands there as this run copied it.
LatestStands ==
  pc \in {"copy", "contents"} =>
    \A i \in Begun :
      /\ ~Tasks[job][i].refused
      /\ files[To(i)] # Absent
      /\ Last(i, Begun) =>
           files[To(i)].from = From(i) /\ files[To(i)].by = runs /\ (files[To(i)].whole \/ InHand(i))

\* What this run has made stands where one of its tasks begun has sent it.
MadeByTask ==
  pc \in {"copy", "contents"} =>
    \A p \in Places : files[p] # Absent /\ files[p].by = runs =>
      \E i \in Begun : To(i) = p /\ From(i) = files[p].from /\ (files[p].whole \/ InHand(i))

\* The trees of an SDK hold nothing else, and what was sent to a place of its
\* own has its own permissions.
SdkPlaces == InTree("sdk") \cup InTree("runtime")
Undisputed(i) == \A l \in DOMAIN Tasks[job] \ {i} : To(l) # To(i)

TreesOwned ==
  job.mode = "stage-crypto-sdk" =>
    /\ pc = "remove" /\ next = 2 => \A p \in InTree("sdk") : files[p] = Absent
    /\ pc \in {"copy", "contents"} =>
         /\ \A p \in SdkPlaces : files[p] # Absent => \E i \in Begun : To(i) = p
         /\ \A i \in Begun : Undisputed(i) => files[To(i)].perm = From(i)

\* A run that is to succeed has what it was asked for.
EndsWell ==
  /\ pc \in {"unwind", "exit"} /\ ok => Asked \subseteq Have
  /\ StagedExactly

StageInv == StageTyped /\ NothingEarly /\ LatestStands /\ MadeByTask /\ TreesOwned /\ EndsWell

-----------------------------------------------------------------------------
(* What the tasks of an accepted job are.                                  *)

\* The strings of the tasks: any, and by name those that the program chooses,
\* because the provers do not know that a literal is a string.
Words ==
  STRING \cup
    {"", "elsewhere", "out", "sdk", "runtime", "include", "lib", "bin", "ssl", "lib/pkgconfig", "lib/ossl-modules",
     "libcrypto", "libssl", "openssl", "provider", "config", "activation",
     "libcrypto.a", "libssl.a", "fips.so", "openssl.cnf", "crypto-activate"}

Triples == Words \X Words \X Words

\* A task is refused exactly when it would lead out of its tree.
Staging == {t \in [from : Words, to : Triples, refused : BOOLEAN] :
              t.refused = (t.to = Elsewhere)}

\* One of stage-crypto-sdk leads into the trees that it has emptied.
SdkStaging == {t \in Staging : t.refused \/ t.to[1] \in {"sdk", "runtime"}}

\* The indices of a sequence, and where its elements are from.
LEMMA SequenceElements ==
  ASSUME NEW S, NEW s \in Seq(S)
  PROVE  DOMAIN s = 1..Len(s) /\ Len(s) \in Nat /\ \A i \in DOMAIN s : s[i] \in S
  OBVIOUS

\* A function on 1..n is a sequence of its values.
LEMMA SequenceOf ==
  ASSUME NEW S, NEW n \in Nat, NEW f, DOMAIN f = 1..n, f = [i \in 1..n |-> f[i]],
         \A i \in 1..n : f[i] \in S
  PROVE  f \in Seq(S)
  OBVIOUS

\* A task that is refused exactly when it leads elsewhere.
LEMMA StagingIs ==
  ASSUME NEW from \in Words, NEW to \in Triples, NEW refused \in BOOLEAN, refused = (to = Elsewhere)
  PROVE  /\ [from |-> from, to |-> to, refused |-> refused] \in Staging
         /\ refused \/ to[1] \in {"sdk", "runtime"} =>
              [from |-> from, to |-> to, refused |-> refused] \in SdkStaging
<1>1. [from |-> from, to |-> to, refused |-> refused] \in Staging
  BY DEF Staging
<1> QED
  BY <1>1 DEF SdkStaging

\* The places in a tree.
LEMMA TreePlace ==
  ASSUME NEW tree \in {"out", "sdk", "runtime"}, NEW directory \in Words, NEW name \in Words
  PROVE  /\ <<tree, directory, name>> \in Triples
         /\ <<tree, directory, name>> # Elsewhere
         /\ <<tree, directory, name>>[1] = tree
<1>1. tree \in Words /\ tree # "elsewhere"
  BY DEF Words
<1>2. <<tree, directory, name>> \in Triples
  BY <1>1, Zenon DEF Triples
<1>3. <<tree, directory, name>> # Elsewhere
  BY <1>1, Zenon DEF Elsewhere
<1>4. <<tree, directory, name>>[1] = tree
  OBVIOUS
<1> QED
  BY <1>2, <1>3, <1>4

\* Tasks for declared headers and pkg-config files.
LEMMA DeclaredAreStaging ==
  ASSUME NEW list \in Seq([name : STRING, inside : BOOLEAN]), NEW directory \in Words
  PROVE  DeclaredTasks(list, directory) \in Seq(SdkStaging)
<1> DEFINE task(i) ==
             [from |-> list[i].name, refused |-> Refused(list[i]),
              to |-> IF list[i].inside THEN <<"sdk", directory, list[i].name>> ELSE Elsewhere]
<1>1. DOMAIN list = 1..Len(list) /\ Len(list) \in Nat
      /\ \A i \in DOMAIN list : list[i] \in [name : STRING, inside : BOOLEAN]
  BY SequenceElements
<1>2. ASSUME NEW i \in 1..Len(list) PROVE task(i) \in SdkStaging
  <2>1. list[i].name \in Words /\ list[i].inside \in BOOLEAN
    BY <1>1 DEF Words
  <2>2. CASE list[i].inside
    <3>1. task(i) = [from |-> list[i].name, refused |-> FALSE, to |-> <<"sdk", directory, list[i].name>>]
      BY <2>2 DEF Refused
    <3>2. <<"sdk", directory, list[i].name>> \in Triples
          /\ <<"sdk", directory, list[i].name>> # Elsewhere
          /\ <<"sdk", directory, list[i].name>>[1] = "sdk"
      BY <2>1, TreePlace
    <3> HIDE DEF task
    <3> QED
      BY <2>1, <3>1, <3>2, StagingIs
  <2>3. CASE ~list[i].inside
    <3>1. task(i) = [from |-> list[i].name, refused |-> TRUE, to |-> Elsewhere]
      BY <2>3 DEF Refused
    <3>2. Elsewhere \in Triples
      <4>1. "elsewhere" \in Words /\ "" \in Words
        BY DEF Words
      <4> QED
        BY <4>1, Zenon DEF Elsewhere, Triples
    <3> HIDE DEF task
    <3> QED
      BY <2>1, <3>1, <3>2, StagingIs
  <2> QED
    BY <2>1, <2>2, <2>3
<1>3. DeclaredTasks(list, directory) = [i \in 1..Len(list) |-> task(i)]
  BY <1>1 DEF DeclaredTasks
<1> HIDE DEF task
<1> QED
  BY <1>1, <1>2, <1>3

\* One task to a place in a tree.
LEMMA TaskIsStaging ==
  ASSUME NEW from \in Words, NEW tree \in {"out", "sdk", "runtime"}, NEW directory \in Words, NEW name \in Words
  PROVE  /\ Task(from, <<tree, directory, name>>) \in Staging
         /\ tree # "out" => Task(from, <<tree, directory, name>>) \in SdkStaging
<1>1. /\ <<tree, directory, name>> \in Triples
      /\ <<tree, directory, name>> # Elsewhere
      /\ <<tree, directory, name>>[1] = tree
  BY TreePlace
<1>2. Task(from, <<tree, directory, name>>) = [from |-> from, to |-> <<tree, directory, name>>, refused |-> FALSE]
  BY DEF Task
<1> QED
  BY <1>1, <1>2, StagingIs

\* The files every SDK has.
LEMMA FixedAreStaging == FixedTasks \in Seq(SdkStaging)
<1>1. /\ Task("libcrypto", <<"sdk", "lib", "libcrypto.a">>) \in SdkStaging
      /\ Task("libssl", <<"sdk", "lib", "libssl.a">>) \in SdkStaging
      /\ Task("openssl", <<"sdk", "bin", "openssl">>) \in SdkStaging
      /\ Task("provider", <<"sdk", "lib/ossl-modules", "fips.so">>) \in SdkStaging
      /\ Task("config", <<"sdk", "ssl", "openssl.cnf">>) \in SdkStaging
      /\ Task("activation", <<"sdk", "bin", "crypto-activate">>) \in SdkStaging
  <2>1. \A from, directory, name \in Words : Task(from, <<"sdk", directory, name>>) \in SdkStaging
    BY TaskIsStaging
  <2>2. {"libcrypto", "libssl", "openssl", "provider", "config", "activation", "lib", "bin", "lib/ossl-modules", "ssl",
         "libcrypto.a", "libssl.a", "fips.so", "openssl.cnf", "crypto-activate"} \subseteq Words
    BY DEF Words
  <2> QED
    BY <2>1, <2>2
<1>2. ASSUME NEW S, NEW a \in S, NEW b \in S, NEW c \in S, NEW d \in S, NEW e \in S, NEW f \in S
      PROVE  <<a, b, c, d, e, f>> \in Seq(S)
  OBVIOUS
<1> QED
  BY <1>1, <1>2 DEF FixedTasks

\* A name in a directory.
LEMMA AppendToPair ==
  ASSUME NEW S, NEW a \in S, NEW b \in S, NEW c \in S
  PROVE  Append(<<a, b>>, c) = <<a, b, c>>
<1>1. <<a, b>> \in Seq(S) /\ Len(<<a, b>>) = 2 /\ <<a, b>>[1] = a /\ <<a, b>>[2] = b
  OBVIOUS
<1> DEFINE t == Append(<<a, b>>, c)
<1>2. t \in Seq(S) /\ Len(t) = 3 /\ t[3] = c /\ t[1] = a /\ t[2] = b
  BY <1>1, AppendProperties
<1> HIDE DEF t
<1>3. t = <<t[1], t[2], t[3]>>
  BY <1>2
<1>4. t = <<a, b, c>>
  BY <1>2, <1>3
<1> QED
  BY <1>4 DEF t

\* The runtime of an SDK whose destinations are basenames.
LEMMA RuntimeAreStaging ==
  ASSUME NEW pairs \in Seq([from : STRING, name : STRING, base : BOOLEAN]), Normalized(pairs)
  PROVE  RuntimeTasks(pairs) \in Seq(SdkStaging)
<1> DEFINE pair(k) == pairs[(k + 1) \div 2]
           directory(k) == IF k % 2 = 1 THEN <<"runtime", "">> ELSE <<"sdk", "lib">>
           task(k) == Task(pair(k).from, IF pair(k).base THEN Append(directory(k), pair(k).name) ELSE Elsewhere)
<1>1. DOMAIN pairs = 1..Len(pairs) /\ Len(pairs) \in Nat
      /\ \A i \in DOMAIN pairs : pairs[i] \in [from : STRING, name : STRING, base : BOOLEAN]
  BY SequenceElements
<1>2. ASSUME NEW k \in 1..(2 * Len(pairs)) PROVE task(k) \in SdkStaging
  <2>1. (k + 1) \div 2 \in 1..Len(pairs)
    <3>1. \A n \in Nat : \A i \in 1..(2 * n) : (i + 1) \div 2 \in 1..n
      OBVIOUS
    <3> QED
      BY <1>1, <3>1, Zenon
  <2>2. pair(k).from \in Words /\ pair(k).name \in Words /\ pair(k).base
    BY <1>1, <2>1 DEF Normalized, Words
  <2>3. "" \in Words /\ "lib" \in Words /\ "sdk" \in Words /\ "runtime" \in Words
    BY DEF Words
  <2>4. task(k) = IF k % 2 = 1 THEN Task(pair(k).from, <<"runtime", "", pair(k).name>>)
                  ELSE Task(pair(k).from, <<"sdk", "lib", pair(k).name>>)
    BY <2>2, <2>3, AppendToPair, Zenon
  <2> HIDE DEF task, pair
  <2> QED
    BY <2>2, <2>3, <2>4, TaskIsStaging
<1>3. RuntimeTasks(pairs) = [k \in 1..(2 * Len(pairs)) |-> task(k)]
  BY Zenon DEF RuntimeTasks
<1> HIDE DEF task
<1> QED
  BY <1>1, <1>2, <1>3

\* The tasks of an accepted job of any mode.
LEMMA AcceptedTasks ==
  ASSUME NEW j \in Jobs, ArgumentsOK(j)
  PROVE  /\ Tasks[j] \in Seq(Staging)
         /\ j.mode = "stage-crypto-sdk" => Tasks[j] \in Seq(SdkStaging)
<1>0. /\ j.mode \in Modes
      /\ j.runtime \in Seq([from : STRING, name : STRING, base : BOOLEAN])
      /\ j.headers \in Seq([name : STRING, inside : BOOLEAN])
      /\ j.pkgconfig \in Seq([name : STRING, inside : BOOLEAN])
  BY ArtifactValidatorAssumption
<1>1. CASE j.mode = "stage-runtime"
  <2> DEFINE task(i) == Task(j.runtime[i].from, <<"out", "", j.runtime[i].name>>)
  <2>1. DOMAIN j.runtime = 1..Len(j.runtime) /\ Len(j.runtime) \in Nat
        /\ \A i \in DOMAIN j.runtime : j.runtime[i] \in [from : STRING, name : STRING, base : BOOLEAN]
    BY <1>0, SequenceElements
  <2>2. ASSUME NEW i \in 1..Len(j.runtime) PROVE task(i) \in Staging
    <3>1. j.runtime[i].from \in Words /\ j.runtime[i].name \in Words /\ "" \in Words
      BY <2>1 DEF Words
    <3> QED
      BY <3>1, TaskIsStaging
  <2>3. Tasks[j] = [i \in 1..Len(j.runtime) |-> task(i)]
    BY <1>1, <2>1 DEF Tasks
  <2> HIDE DEF task
  <2> QED
    BY <1>1, <2>1, <2>2, <2>3
<1>2. CASE j.mode = "stage-crypto-sdk"
  <2>1. Tasks[j] = DeclaredTasks(j.headers, "include") \o DeclaredTasks(j.pkgconfig, "lib/pkgconfig")
                     \o FixedTasks \o RuntimeTasks(j.runtime)
    BY <1>2 DEF Tasks
  <2>2. Normalized(j.runtime)
    BY <1>2 DEF ArgumentsOK
  <2>3. \A s, t \in Seq(SdkStaging) : s \o t \in Seq(SdkStaging)
    OBVIOUS
  <2>4. Tasks[j] \in Seq(SdkStaging)
    <3>0. "include" \in Words /\ "lib/pkgconfig" \in Words
      BY DEF Words
    <3>1. DeclaredTasks(j.headers, "include") \in Seq(SdkStaging)
      BY <1>0, <3>0, DeclaredAreStaging
    <3>2. DeclaredTasks(j.pkgconfig, "lib/pkgconfig") \in Seq(SdkStaging)
      BY <1>0, <3>0, DeclaredAreStaging
    <3>3. RuntimeTasks(j.runtime) \in Seq(SdkStaging)
      BY <1>0, <2>2, RuntimeAreStaging
    <3> QED
      BY <2>1, <2>3, <3>1, <3>2, <3>3, FixedAreStaging, Zenon
  <2>5. Seq(SdkStaging) \subseteq Seq(Staging)
    <3>1. SdkStaging \subseteq Staging
      BY DEF SdkStaging
    <3> QED
      BY <3>1
  <2> QED
    BY <2>4, <2>5
<1>3. CASE j.mode \in CertModes
  <2>1. Tasks[j] = <<>>
    BY <1>3 DEF Tasks, CertModes
  <2>2. \A S : <<>> \in Seq(S)
    OBVIOUS
  <2> QED
    BY <1>3, <2>1, <2>2 DEF CertModes
<1> QED
  BY <1>0, <1>1, <1>2, <1>3 DEF Modes, CertModes

-----------------------------------------------------------------------------
(* What an accepted job asks for.                                          *)

\* The tasks of the job in hand, once its arguments are accepted.
LEMMA TasksOf ==
  ASSUME job \in Jobs, ArgumentsOK(job)
  PROVE  /\ DOMAIN Tasks[job] = 1..Len(Tasks[job]) /\ Len(Tasks[job]) \in Nat
         /\ \A i \in DOMAIN Tasks[job] :
              /\ From(i) \in Sources /\ To(i) \in Places
              /\ Tasks[job][i].refused \in BOOLEAN /\ (Tasks[job][i].refused <=> To(i) = Elsewhere)
              /\ job.mode = "stage-crypto-sdk" /\ ~Tasks[job][i].refused => To(i) \in SdkPlaces
         /\ \A a, b \in DOMAIN Tasks[job] :
              From(a) = From(b) /\ To(a) = To(b) /\ To(a) # Elsewhere => a = b
<1>1. /\ DOMAIN Tasks[job] = 1..Len(Tasks[job]) /\ Len(Tasks[job]) \in Nat
      /\ \A i \in DOMAIN Tasks[job] : Tasks[job][i] \in Staging
  BY AcceptedTasks, SequenceElements
<1>2. job.mode = "stage-crypto-sdk" => \A i \in DOMAIN Tasks[job] : Tasks[job][i] \in SdkStaging
  BY AcceptedTasks, SequenceElements
<1>3. /\ \A i \in DOMAIN Tasks[job] : To(i) \in Places
      /\ \A a, b \in DOMAIN Tasks[job] : Tasks[job][a] = Tasks[job][b] /\ To(a) # Elsewhere => a = b
  BY TasksAssumption DEF To
<1>4. \A i \in DOMAIN Tasks[job] : From(i) \in Sources
  BY DEF From, Sources, Range
<1>5. ASSUME NEW i \in DOMAIN Tasks[job]
      PROVE  /\ Tasks[job][i].refused \in BOOLEAN /\ (Tasks[job][i].refused <=> To(i) = Elsewhere)
             /\ job.mode = "stage-crypto-sdk" /\ ~Tasks[job][i].refused => To(i) \in SdkPlaces
  <2>1. Tasks[job][i].refused \in BOOLEAN /\ (Tasks[job][i].refused <=> To(i) = Elsewhere)
    BY <1>1 DEF Staging, To
  <2>2. job.mode = "stage-crypto-sdk" /\ ~Tasks[job][i].refused => To(i)[1] \in {"sdk", "runtime"}
    BY <1>2 DEF SdkStaging, To
  <2> QED
    BY <1>3, <2>1, <2>2 DEF SdkPlaces, InTree
<1>6. ASSUME NEW a \in DOMAIN Tasks[job], NEW b \in DOMAIN Tasks[job],
             From(a) = From(b), To(a) = To(b), To(a) # Elsewhere
      PROVE  a = b
  <2>1. ~Tasks[job][a].refused /\ ~Tasks[job][b].refused
    BY <1>5, <1>6
  <2>2. ASSUME NEW t \in Staging PROVE t = [from |-> t.from, to |-> t.to, refused |-> t.refused]
    BY DEF Staging
  <2>3. \A t \in Staging : t.refused \in BOOLEAN
    BY DEF Staging
  <2>4. \A t, u \in Staging : t.from = u.from /\ t.to = u.to /\ ~t.refused /\ ~u.refused => t = u
    BY <2>2, <2>3
  <2>5. Tasks[job][a] = Tasks[job][b]
    BY <1>1, <1>6, <2>1, <2>4 DEF From, To
  <2> QED
    BY <1>3, <1>6, <2>5
<1> QED
  BY <1>1, <1>3, <1>4, <1>5, <1>6

\* A job that checks stages nothing, and one that stages checks nothing.
LEMMA AskedOf ==
  ASSUME job \in Jobs
  PROVE  /\ job.mode \in CertModes => Expected[job] = {}
         /\ job.mode \notin CertModes => Range(Checks[job]) = {}
<1>1. ASSUME job.mode \in CertModes PROVE Expected[job] = {}
  <2>1. DOMAIN Tasks[job] = {}
    BY <1>1 DEF Tasks, CertModes
  <2> QED
    BY <2>1 DEF Expected
<1>2. ASSUME job.mode \notin CertModes PROVE Range(Checks[job]) = {}
  <2>1. DOMAIN Checks[job] = {}
    BY <1>2 DEF Checks, CertModes
  <2> QED
    BY <2>1 DEF Range
<1> QED
  BY <1>1, <1>2

\* A nonempty set of indices has a largest.
LEMMA LargestIndex ==
  ASSUME NEW n \in Nat, NEW S, S \subseteq 1..n, S # {}
  PROVE  \E m \in S : \A k \in S : k <= m
<1> DEFINE T == {n - k : k \in S}
<1>1. T \subseteq Nat /\ T # {}
  <2>1. \A k \in S : n - k \in Nat
    OBVIOUS
  <2> QED
    BY <2>1
<1>2. \E x \in T : \A y \in T : ~(<<y, x>> \in OpToRel(<, Nat))
  BY <1>1, NatLessThanWellFounded, WFMin, Zenon
<1>3. PICK x \in T : \A y \in T : ~(y < x)
  BY <1>1, <1>2, Zenon DEF OpToRel
<1>4. PICK m \in S : x = n - m
  BY <1>3
<1>5. ASSUME NEW k \in S PROVE k <= m
  <2>1. ~(n - k < n - m)
    BY <1>3, <1>4
  <2>2. k \in 1..n /\ m \in 1..n
    BY <1>4
  <2> QED
    BY <2>1, <2>2
<1> QED
  BY <1>5

\* What is expected at a place is its last task, and a place that has a task
\* has a last one.
LEMMA ExpectedIsLast ==
  ASSUME job \in Jobs, ArgumentsOK(job)
  PROVE  /\ \A t \in Expected[job] : \E i \in DOMAIN Tasks[job] : t = Tasks[job][i] /\ Last(i, DOMAIN Tasks[job])
         /\ \A i \in DOMAIN Tasks[job] : \E t \in Expected[job] : t.to = To(i)
<1>1. Expected[job] = {Tasks[job][i] : i \in {k \in DOMAIN Tasks[job] : Last(k, DOMAIN Tasks[job])}}
  BY DEF Expected, Last, To
<1>2. ASSUME NEW i \in DOMAIN Tasks[job] PROVE \E t \in Expected[job] : t.to = To(i)
  <2> DEFINE S == {k \in DOMAIN Tasks[job] : To(k) = To(i)}
  <2>1. DOMAIN Tasks[job] = 1..Len(Tasks[job]) /\ Len(Tasks[job]) \in Nat
    BY TasksOf
  <2>2. PICK m \in S : \A k \in S : k <= m
    BY <2>1, LargestIndex
  <2>3. m \in DOMAIN Tasks[job] /\ To(m) = To(i) /\ Last(m, DOMAIN Tasks[job])
    BY <2>1, <2>2 DEF Last
  <2>4. Tasks[job][m] \in Expected[job]
    BY <1>1, <2>3
  <2> QED
    BY <2>3, <2>4 DEF To
<1> QED
  BY <1>1, <1>2

-----------------------------------------------------------------------------
(* Every step keeps what staging relies on.                                *)

\* Initially no file stands.
LEMMA StageInit == Init => StageInv
<1> SUFFICES ASSUME Init PROVE StageInv
  OBVIOUS
<1>1. /\ files = [p \in Places |-> Absent] /\ \A p \in Places : files[p] = Absent
      /\ \A m \in CertModes : cert[m] = Absent
  BY DEF Init
<1>2. StageTyped
  BY <1>1, ArtifactValidatorAssumption, TasksAssumption DEF Init, StageTyped, Running
<1>3. NothingEarly /\ LatestStands /\ MadeByTask
  BY <1>1 DEF Init, NothingEarly, LatestStands, MadeByTask, Running
<1>4. TreesOwned /\ EndsWell
  BY <1>1 DEF Init, TreesOwned, EndsWell, StagedExactly, Succeeded
<1> QED
  BY <1>2, <1>3, <1>4 DEF StageInv

\* A run that has failed or was killed leaves the rest as it is, but for files
\* that it has removed and the module configuration.
LEMMA StageFails ==
  ASSUME CertInv, StageInv, UNCHANGED <<job, cert, runs>>, next' \in Nat \ {0},
         \/ pc' = "killed" /\ UNCHANGED ok
         \/ pc' \in {"exit", "unwind"} /\ ok' = FALSE,
         pc' = "unwind" => job.mode \in CertModes,
         DOMAIN files' = Places, \A p \in Places : files'[p] # Absent => files'[p] = files[p],
         conf' = conf \/ (Running /\ conf' = [by |-> runs, whole |-> FALSE]), Running
  PROVE  StageInv'
<1>1. StageTyped'
  <2>1. files'[Elsewhere] = Absent
    BY TasksAssumption DEF StageInv, StageTyped
  <2>2. conf' = Absent \/ conf' \in [by : 1..runs, whole : BOOLEAN]
    <3>1. conf = Absent \/ conf \in [by : 1..runs, whole : BOOLEAN]
      BY DEF StageInv, StageTyped
    <3>2. runs \in 1..runs
      BY DEF StageInv, StageTyped
    <3>3. \A S : \A n \in S : [by |-> n, whole |-> FALSE] \in [by : S, whole : BOOLEAN]
      OBVIOUS
    <3>4. [by |-> runs, whole |-> FALSE] \in [by : 1..runs, whole : BOOLEAN]
      BY <3>2, <3>3, Zenon
    <3> QED
      BY <3>1, <3>4, Zenon
  <2>3. \A p \in Places : files'[p] # Absent => files'[p] \in FileRecord /\ files'[p].by \in 1..runs
    BY DEF StageInv, StageTyped
  <2> QED
    BY <2>1, <2>2, <2>3 DEF StageInv, StageTyped, Running
<1>2. NothingEarly'
  BY DEF StageInv, StageTyped, NothingEarly, Running
<1>3. LatestStands' /\ MadeByTask' /\ TreesOwned'
  BY DEF LatestStands, MadeByTask, TreesOwned
<1>4. EndsWell'
  BY DEF EndsWell, StagedExactly, Succeeded
<1> QED
  BY <1>1, <1>2, <1>3, <1>4 DEF StageInv

\* A run begins with nothing of its own.
LEMMA StageStarts ==
  ASSUME CertInv, StageInv, NEW j \in Jobs, NEW cleared \in BOOLEAN, Start(j, cleared)
  PROVE  StageInv'
<1>1. /\ runs \in Nat /\ runs < MaxRuns /\ MaxRuns \in Nat
      /\ pc' = "arguments" /\ ok' = TRUE /\ next' = 1 /\ runs' = runs + 1 /\ UNCHANGED conf
      /\ files' = [p \in Places |-> Absent] \/ files' = files
      /\ cert' = [m \in CertModes |-> Absent] \/ cert' = cert
  BY ArtifactValidatorAssumption DEF Start, StageInv, StageTyped
<1>2. /\ DOMAIN files' = Places /\ files'[Elsewhere] = Absent
      /\ \A p \in Places : files'[p] # Absent => files'[p] = files[p]
      /\ \A m \in CertModes : cert'[m] # Absent => cert'[m] = cert[m]
  BY <1>1, TasksAssumption DEF StageInv, StageTyped
<1>3. /\ \A p \in Places : files'[p] # Absent => files'[p] \in FileRecord /\ files'[p].by \in 1..runs
      /\ \A m \in CertModes : cert'[m] # Absent => cert'[m].by \in 1..runs
      /\ conf = Absent \/ conf \in [by : 1..runs, whole : BOOLEAN]
  BY <1>2 DEF StageInv, StageTyped
<1>4. 1..runs \subseteq 1..runs' /\ runs' \notin 1..runs /\ runs' \in 0..MaxRuns /\ runs' > 0
  BY <1>1
<1>5. [by : 1..runs, whole : BOOLEAN] \subseteq [by : 1..runs', whole : BOOLEAN]
  BY <1>4
<1>6. StageTyped'
  BY <1>1, <1>2, <1>3, <1>4, <1>5 DEF StageTyped
<1>7. NothingEarly'
  BY <1>1, <1>3, <1>4 DEF NothingEarly
<1>8. LatestStands' /\ MadeByTask' /\ TreesOwned'
  BY <1>1 DEF LatestStands, MadeByTask, TreesOwned
<1>9. EndsWell'
  BY <1>1 DEF EndsWell, StagedExactly, Succeeded
<1> QED
  BY <1>6, <1>7, <1>8, <1>9 DEF StageInv

\* Steps between arguments and exit that touch neither files nor certificates.
LEMMA StageProceeds ==
  ASSUME CertInv, StageInv, UNCHANGED <<job, ok, files, cert, runs>>, next' \in Nat \ {0},
         conf' = conf \/ conf' = Absent \/ conf' = [by |-> runs, whole |-> TRUE],
         \/ AcceptArguments
         \/ CheckPasses
         \/ Unwind
  PROVE  StageInv'
<1>0. job \in Jobs /\ job.mode \in Modes /\ StageTyped /\ NothingEarly /\ Running
  BY ArtifactValidatorAssumption
     DEF CertInv, CertTyped, StageInv, AcceptArguments, CheckPasses, Checking, Unwind, Running
<1>1. \/ pc = "arguments" /\ next' = 1 /\ ArgumentsOK(job)
         /\ pc' = IF job.mode \in CertModes THEN "check"
                  ELSE IF job.mode = "stage-crypto-sdk" THEN "remove" ELSE "copy"
      \/ pc = "check" /\ pc' = pc
      \/ pc = "unwind" /\ pc' = "exit"
  BY DEF AcceptArguments, CheckPasses, Checking, Unwind, GoTo
<1>2. StageTyped'
  <2>1. conf' = Absent \/ conf' \in [by : 1..runs, whole : BOOLEAN]
    <3>1. conf = Absent \/ conf \in [by : 1..runs, whole : BOOLEAN]
      BY <1>0 DEF StageTyped
    <3>2. runs \in 1..runs
      BY <1>0 DEF StageTyped
    <3>3. \A S : \A n \in S : [by |-> n, whole |-> TRUE] \in [by : S, whole : BOOLEAN]
      OBVIOUS
    <3>4. [by |-> runs, whole |-> TRUE] \in [by : 1..runs, whole : BOOLEAN]
      BY <3>2, <3>3, Zenon
    <3> QED
      BY <3>1, <3>4, Zenon
  <2> QED
    BY <1>0, <1>1, <2>1 DEF StageTyped, Running
<1>3. NothingEarly'
  BY <1>0, <1>1 DEF NothingEarly, Running
<1>4. pc' \in {"copy", "contents"} =>
        /\ pc' = "copy" /\ next' = 1 /\ job.mode # "stage-crypto-sdk" /\ Begun' = {}
        /\ \A p \in Places : files[p] # Absent => files[p].by # runs
  <2> SUFFICES ASSUME pc' \in {"copy", "contents"} PROVE
          /\ pc' = "copy" /\ next' = 1 /\ job.mode # "stage-crypto-sdk" /\ Begun' = {}
          /\ \A p \in Places : files[p] # Absent => files[p].by # runs
    OBVIOUS
  <2>1. pc = "arguments" /\ ArgumentsOK(job) /\ pc' = "copy" /\ next' = 1 /\ job.mode # "stage-crypto-sdk"
    BY <1>1
  <2>2. DOMAIN Tasks[job] = 1..Len(Tasks[job]) /\ Len(Tasks[job]) \in Nat
    BY <1>0, <2>1, TasksOf
  <2>3. Begun' = {}
    BY <2>1, <2>2 DEF Begun, InHand
  <2> QED
    BY <1>0, <2>1, <2>3 DEF NothingEarly
<1>5. LatestStands' /\ MadeByTask' /\ TreesOwned'
  BY <1>1, <1>4 DEF LatestStands, MadeByTask, TreesOwned
<1>6. EndsWell'
  <2>1. pc' = "exit" \/ pc' = "unwind" => pc = "unwind" /\ job.mode \in CertModes
    BY <1>0, <1>1 DEF StageTyped
  <2>2. Asked' = Asked /\ Have' = Have
    BY DEF Asked, Have, Stands
  <2>3. pc \in {"unwind", "exit"} /\ ok => Asked \subseteq Have
    BY DEF StageInv, EndsWell
  <2> QED
    BY <2>1, <2>2, <2>3 DEF EndsWell, StagedExactly, Succeeded, CertModes
<1> QED
  BY <1>2, <1>3, <1>5, <1>6 DEF StageInv

\* Emptying a tree takes its files out.
LEMMA StageRemoves ==
  ASSUME CertInv, StageInv, RemoveTree
  PROVE  StageInv'
<1>0. job \in Jobs /\ StageTyped /\ NothingEarly /\ TreesOwned
  BY DEF CertInv, CertTyped, StageInv
<1>1. /\ pc = "remove" /\ job.mode = "stage-crypto-sdk" /\ next \in {1, 2} /\ ArgumentsOK(job)
      /\ UNCHANGED <<job, ok, cert, conf, runs>>
  BY <1>0 DEF RemoveTree, GoTo, StageTyped
<1>2. \/ next = 1 /\ next' = 2 /\ pc' = "remove" /\ files' = Without(InTree("sdk"))
      \/ next = 2 /\ next' = 1 /\ pc' = "copy" /\ files' = Without(InTree("runtime"))
  <2>1. Len(Trees) = 2 /\ Trees[1] = "sdk" /\ Trees[2] = "runtime"
    BY DEF Trees
  <2> QED
    BY <1>1, <2>1 DEF RemoveTree, GoTo
<1>3. /\ DOMAIN files' = Places
      /\ \A p \in Places : files'[p] # Absent => files'[p] = files[p]
      /\ \A p \in InTree("sdk") : files'[p] = Absent
      /\ next = 2 => \A p \in SdkPlaces : files'[p] = Absent
  <2>1. \A tree : InTree(tree) \subseteq Places
    BY DEF InTree
  <2>2. CASE next = 1
    BY <1>2, <2>1, <2>2 DEF Without
  <2>3. CASE next = 2
    <3>1. /\ files' = [p \in Places |-> IF p \in InTree("runtime") THEN Absent ELSE files[p]]
          /\ \A p \in InTree("sdk") : files[p] = Absent
      BY <1>0, <1>1, <1>2, <2>3 DEF Without, TreesOwned
    <3> QED
      BY <2>1, <3>1 DEF SdkPlaces
  <2> QED
    BY <1>1, <2>2, <2>3
<1>4. StageTyped'
  <2>1. files'[Elsewhere] = Absent
    BY <1>0, <1>3, TasksAssumption DEF StageTyped
  <2> QED
    BY <1>0, <1>1, <1>2, <1>3, <2>1 DEF StageTyped, Running
<1>5. /\ \A p \in Places : files'[p] # Absent => files'[p].by # runs
      /\ \A m \in CertModes : cert[m] # Absent => cert[m].by # runs
  BY <1>0, <1>1, <1>3 DEF NothingEarly, Running
<1>6. NothingEarly'
  BY <1>1, <1>2, <1>5 DEF NothingEarly
<1>7. pc' = "copy" => Begun' = {}
  <2>1. DOMAIN Tasks[job] = 1..Len(Tasks[job]) /\ Len(Tasks[job]) \in Nat
    BY <1>0, <1>1, TasksOf
  <2> QED
    BY <1>1, <1>2, <2>1 DEF Begun, InHand
<1>8. LatestStands' /\ MadeByTask'
  BY <1>1, <1>2, <1>5, <1>7 DEF LatestStands, MadeByTask
<1>9. TreesOwned'
  BY <1>1, <1>2, <1>3, <1>7 DEF TreesOwned, SdkPlaces, InTree
<1>10. EndsWell'
  BY <1>2 DEF EndsWell, StagedExactly, Succeeded
<1> QED
  BY <1>4, <1>6, <1>8, <1>9, <1>10 DEF StageInv

\* What a run that stages relies on.
LEMMA StagingFacts ==
  ASSUME CertInv, StageInv, pc \in {"copy", "contents"}
  PROVE  /\ job \in Jobs /\ ArgumentsOK(job) /\ job.mode \notin CertModes /\ next \in Nat \ {0} /\ Running
         /\ runs \in 1..runs /\ DOMAIN files = Places /\ files[Elsewhere] = Absent
         /\ DOMAIN Tasks[job] = 1..Len(Tasks[job]) /\ Len(Tasks[job]) \in Nat
         /\ \A m \in CertModes : cert[m] # Absent => cert[m].by # runs
         /\ LatestStands /\ MadeByTask /\ TreesOwned
<1>1. /\ job \in Jobs /\ ArgumentsOK(job) /\ job.mode \notin CertModes /\ next \in Nat \ {0}
      /\ Running /\ DOMAIN files = Places /\ files[Elsewhere] = Absent
      /\ LatestStands /\ MadeByTask /\ TreesOwned
  BY DEF CertInv, CertTyped, StageInv, StageTyped, Running
<1>2. runs \in 1..runs
  BY <1>1 DEF StageInv, StageTyped
<1>3. \A m \in CertModes : cert[m] # Absent => cert[m].by # runs
  BY <1>1 DEF StageInv, NothingEarly
<1> QED
  BY <1>1, <1>2, <1>3, TasksOf

\* OpenDestination begins the task in hand, and leaves every other place.
LEMMA Opened ==
  ASSUME CertInv, StageInv, OpenDestination
  PROVE  /\ next \in DOMAIN Tasks[job] /\ To(next) \in Places \ {Elsewhere} /\ From(next) \in Sources
         /\ ~Tasks[job][next].refused
         /\ pc = "copy" /\ pc' = "contents" /\ UNCHANGED <<job, ok, next, cert, conf, runs>>
         /\ DOMAIN files' = Places /\ \A p \in Places : p # To(next) => files'[p] = files[p]
         /\ files'[To(next)] \in FileRecord /\ files'[To(next)] # Absent
         /\ files'[To(next)].from = From(next) /\ files'[To(next)].by = runs /\ ~files'[To(next)].whole
         /\ files[To(next)] = Absent => files'[To(next)].perm = From(next)
         /\ Begun = {i \in DOMAIN Tasks[job] : i < next} /\ Begun' = Begun \cup {next}
<1>1. /\ pc = "copy" /\ pc' = "contents" /\ UNCHANGED <<job, ok, next, cert, conf, runs>>
      /\ next \in DOMAIN Tasks[job] /\ ~Tasks[job][next].refused
      /\ files' = [files EXCEPT ![To(next)] =
                     [from |-> From(next), by |-> runs, whole |-> FALSE,
                      perm |-> IF files[To(next)] = Absent THEN From(next) ELSE files[To(next)].perm]]
  BY Zenon DEF OpenDestination, Copying, CurrentTask, From, To
<1>2. /\ DOMAIN files = Places /\ runs \in Nat /\ DOMAIN Tasks[job] = 1..Len(Tasks[job]) /\ Len(Tasks[job]) \in Nat
      /\ To(next) \in Places \ {Elsewhere} /\ From(next) \in Sources
  BY <1>1, StagingFacts, TasksOf
<1>3. files[To(next)] # Absent => files[To(next)].perm \in Sources
  BY <1>1, <1>2 DEF StageInv, StageTyped, FileRecord
<1> DEFINE perm == IF files[To(next)] = Absent THEN From(next) ELSE files[To(next)].perm
<1>4. perm \in Sources
  BY <1>2, <1>3
<1>5. files' = [files EXCEPT ![To(next)] = [from |-> From(next), by |-> runs, whole |-> FALSE, perm |-> perm]]
  BY <1>1
<1>6. files[To(next)] = Absent => perm = From(next)
  OBVIOUS
<1> HIDE DEF perm
<1>7. /\ DOMAIN files' = Places /\ \A p \in Places : p # To(next) => files'[p] = files[p]
      /\ files'[To(next)] = [from |-> From(next), by |-> runs, whole |-> FALSE, perm |-> perm]
  BY <1>2, <1>5
<1>8. files'[To(next)] \in FileRecord
  BY <1>2, <1>4, <1>7 DEF FileRecord
<1>9. files'[To(next)] # Absent
  BY <1>8, TasksAssumption DEF FileRecord
<1>10. /\ Begun = {i \in DOMAIN Tasks[job] : i < next}
       /\ Begun' = {i \in DOMAIN Tasks[job] : i < next \/ i = next}
  BY <1>1 DEF Begun, InHand
<1>11. Begun' = Begun \cup {next}
  BY <1>1, <1>10
<1> QED
  BY <1>1, <1>2, <1>6, <1>7, <1>8, <1>9, <1>10, <1>11

\* A destination that is opened is there as the latest task has it.
LEMMA StageOpens ==
  ASSUME CertInv, StageInv, OpenDestination
  PROVE  StageInv'
<1>0. StageTyped /\ LatestStands /\ MadeByTask /\ TreesOwned /\ pc = "copy"
  BY DEF StageInv, OpenDestination, Copying
<1>1. StageTyped'
  <2>1. files'[Elsewhere] = Absent
    BY <1>0, Opened, TasksAssumption DEF StageTyped
  <2>2. \A p \in Places : files'[p] # Absent => files'[p] \in FileRecord /\ files'[p].by \in 1..runs
    BY <1>0, Opened, StagingFacts DEF StageTyped
  <2> QED
    BY <1>0, <2>1, <2>2, Opened, StagingFacts DEF StageTyped, Running
<1>2. NothingEarly'
  BY <1>0, Opened, StagingFacts DEF NothingEarly
<1>3. \A i \in Begun : i \in DOMAIN Tasks[job] /\ i < next /\ i # next /\ To(i) \in Places
  BY <1>0, Opened, StagingFacts, TasksOf
<1>4. To(next)' = To(next) /\ From(next)' = From(next) /\ \A i : To(i)' = To(i) /\ From(i)' = From(i)
  BY Opened DEF To, From
<1>5. LatestStands'
  <2> SUFFICES ASSUME NEW i \in Begun'
               PROVE  /\ ~Tasks[job][i].refused
                      /\ files'[To(i)] # Absent
                      /\ (\A l \in Begun' : l > i => To(l) # To(i)) =>
                           /\ files'[To(i)].from = From(i) /\ files'[To(i)].by = runs
                           /\ files'[To(i)].whole \/ i = next
    BY Opened, <1>4 DEF LatestStands, Last, InHand
  <2>1. CASE i = next
    BY <2>1, Opened
  <2>2. CASE i # next
    <3>1. i \in Begun /\ i < next /\ To(i) \in Places
      BY <1>3, <2>2, Opened
    <3>2. /\ ~Tasks[job][i].refused /\ files[To(i)] # Absent
          /\ (\A l \in Begun : l > i => To(l) # To(i)) =>
               files[To(i)].from = From(i) /\ files[To(i)].by = runs /\ files[To(i)].whole
      BY <1>0, <3>1 DEF LatestStands, Last, InHand
    <3>3. CASE To(i) = To(next)
      <4>1. next \in Begun' /\ next > i
        BY <1>3, <3>1, Opened, StagingFacts, <1>0
      <4> QED
        BY <3>2, <3>3, <4>1, Opened
    <3>4. CASE To(i) # To(next)
      BY <3>1, <3>2, <3>4, Opened
    <3> QED
      BY <3>3, <3>4
  <2> QED
    BY <2>1, <2>2
<1>6. MadeByTask'
  <2> SUFFICES ASSUME NEW p \in Places, files'[p] # Absent, files'[p].by = runs
               PROVE  \E i \in Begun' : To(i) = p /\ From(i) = files'[p].from /\ (files'[p].whole \/ i = next)
    BY Opened, <1>4 DEF MadeByTask, InHand
  <2>1. CASE p = To(next)
    BY <2>1, Opened
  <2>2. CASE p # To(next)
    <3>1. files'[p] = files[p]
      BY <2>2, Opened
    <3>2. PICK i \in Begun : To(i) = p /\ From(i) = files[p].from /\ files[p].whole
      BY <1>0, <3>1 DEF MadeByTask, InHand
    <3> QED
      BY <3>1, <3>2, Opened
  <2> QED
    BY <2>1, <2>2
<1>7. TreesOwned'
  <2> SUFFICES ASSUME job.mode = "stage-crypto-sdk"
               PROVE  /\ \A p \in SdkPlaces : files'[p] # Absent => \E i \in Begun' : To(i) = p
                      /\ \A i \in Begun' : Undisputed(i) => files'[To(i)].perm = From(i)
    BY Opened, <1>4 DEF TreesOwned, Undisputed, SdkPlaces, InTree
  <2>1. /\ \A p \in SdkPlaces : files[p] # Absent => \E i \in Begun : To(i) = p
        /\ \A i \in Begun : Undisputed(i) => files[To(i)].perm = From(i)
    BY <1>0 DEF TreesOwned
  <2>2. ASSUME NEW p \in SdkPlaces, files'[p] # Absent PROVE \E i \in Begun' : To(i) = p
    <3>1. p \in Places
      BY DEF SdkPlaces, InTree
    <3> QED
      BY <2>1, <2>2, <3>1, Opened
  <2>3. ASSUME NEW i \in Begun', Undisputed(i) PROVE files'[To(i)].perm = From(i)
    <3>1. CASE i = next
      <4>1. To(next) \in SdkPlaces
        BY <1>0, Opened, StagingFacts, TasksOf
      <4>2. \A l \in Begun : To(l) # To(next)
        BY <1>3, <2>3, <3>1 DEF Undisputed
      <4>3. files[To(next)] = Absent
        BY <2>1, <4>1, <4>2
      <4> QED
        BY <3>1, <4>3, Opened
    <3>2. CASE i # next
      <4>1. i \in Begun /\ To(i) \in Places /\ To(i) # To(next)
        BY <1>3, <2>3, <3>2, Opened DEF Undisputed
      <4> QED
        BY <2>1, <2>3, <4>1, Opened
    <3> QED
      BY <3>1, <3>2
  <2> QED
    BY <2>2, <2>3
<1>8. EndsWell'
  BY Opened DEF EndsWell, StagedExactly, Succeeded
<1> QED
  BY <1>1, <1>2, <1>5, <1>6, <1>7, <1>8 DEF StageInv

\* CopyContents completes the task in hand.
LEMMA Completed ==
  ASSUME CertInv, StageInv, CopyContents
  PROVE  /\ next \in DOMAIN Tasks[job] /\ next \in Begun /\ To(next) \in Places \ {Elsewhere} /\ From(next) \in Sources
         /\ pc = "contents" /\ pc' = "copy" /\ next' = next + 1 /\ UNCHANGED <<job, ok, cert, conf, runs>>
         /\ DOMAIN files' = Places /\ \A p \in Places : p # To(next) => files'[p] = files[p]
         /\ files[To(next)] # Absent /\ files[To(next)].from = From(next) /\ files[To(next)].by = runs
         /\ files'[To(next)] \in FileRecord /\ files'[To(next)] # Absent
         /\ files'[To(next)].from = From(next) /\ files'[To(next)].by = runs /\ files'[To(next)].whole
         /\ files'[To(next)].perm = files[To(next)].perm
         /\ Begun = {i \in DOMAIN Tasks[job] : i <= next} /\ Begun' = Begun
<1>1. /\ pc = "contents" /\ pc' = "copy" /\ next' = next + 1 /\ UNCHANGED <<job, ok, cert, conf, runs>>
      /\ files' = [files EXCEPT ![To(next)].whole = TRUE]
  BY Zenon DEF CopyContents, CurrentTask, To
<1>2. /\ next \in DOMAIN Tasks[job] /\ next \in Nat /\ DOMAIN files = Places
      /\ DOMAIN Tasks[job] = 1..Len(Tasks[job]) /\ Len(Tasks[job]) \in Nat
      /\ To(next) \in Places /\ From(next) \in Sources
      /\ LatestStands
      /\ Tasks[job][next].refused <=> To(next) = Elsewhere
  BY <1>1, StagingFacts, TasksOf DEF StageInv, StageTyped
<1>3. Begun = {i \in DOMAIN Tasks[job] : i <= next} /\ Begun' = {i \in DOMAIN Tasks[job] : i < next + 1}
  BY <1>1, <1>2 DEF Begun, InHand
<1>4. Begun' = Begun /\ next \in Begun /\ Last(next, Begun)
  BY <1>2, <1>3 DEF Last
<1>5. /\ ~Tasks[job][next].refused
      /\ files[To(next)] # Absent /\ files[To(next)].from = From(next) /\ files[To(next)].by = runs
  BY <1>1, <1>2, <1>4 DEF LatestStands
<1>6. files[To(next)] \in FileRecord
  BY <1>2, <1>5 DEF StageInv, StageTyped
<1>7. /\ DOMAIN files' = Places /\ \A p \in Places : p # To(next) => files'[p] = files[p]
      /\ files'[To(next)] = [files[To(next)] EXCEPT !.whole = TRUE]
  BY <1>1, <1>2
<1>8. /\ files'[To(next)] \in FileRecord /\ files'[To(next)].whole
      /\ files'[To(next)].from = files[To(next)].from /\ files'[To(next)].by = files[To(next)].by
      /\ files'[To(next)].perm = files[To(next)].perm
  BY <1>6, <1>7 DEF FileRecord
<1>9. files'[To(next)] # Absent
  BY <1>8, TasksAssumption DEF FileRecord
<1> QED
  BY <1>1, <1>2, <1>3, <1>4, <1>5, <1>7, <1>8, <1>9

\* A file that is completed stands whole.
LEMMA StageCompletes ==
  ASSUME CertInv, StageInv, CopyContents
  PROVE  StageInv'
<1>0. StageTyped /\ LatestStands /\ MadeByTask /\ TreesOwned /\ pc = "contents"
  BY DEF StageInv, CopyContents
<1>1. StageTyped'
  <2>1. files'[Elsewhere] = Absent
    BY <1>0, Completed, TasksAssumption DEF StageTyped
  <2>2. \A p \in Places : files'[p] # Absent => files'[p] \in FileRecord /\ files'[p].by \in 1..runs
    BY <1>0, Completed, StagingFacts DEF StageTyped
  <2> QED
    BY <1>0, <2>1, <2>2, Completed, StagingFacts DEF StageTyped, Running
<1>2. NothingEarly'
  BY <1>0, Completed, StagingFacts DEF NothingEarly
<1>3. \A i \in Begun : i \in DOMAIN Tasks[job] /\ i <= next /\ To(i) \in Places
  BY <1>0, Completed, StagingFacts, TasksOf
<1>4. \A i : To(i)' = To(i) /\ From(i)' = From(i)
  BY Completed DEF To, From
<1>5. LatestStands'
  <2> SUFFICES ASSUME NEW i \in Begun
               PROVE  /\ ~Tasks[job][i].refused
                      /\ files'[To(i)] # Absent
                      /\ (\A l \in Begun : l > i => To(l) # To(i)) =>
                           files'[To(i)].from = From(i) /\ files'[To(i)].by = runs /\ files'[To(i)].whole
    BY Completed, <1>4 DEF LatestStands, Last, InHand
  <2>1. /\ ~Tasks[job][i].refused /\ files[To(i)] # Absent
        /\ (\A l \in Begun : l > i => To(l) # To(i)) =>
             files[To(i)].from = From(i) /\ files[To(i)].by = runs /\ (files[To(i)].whole \/ i = next)
    BY <1>0 DEF LatestStands, Last, InHand
  <2>2. CASE To(i) = To(next)
    <3>1. i = next \/ next > i
      BY <1>0, <1>3, Completed, StagingFacts
    <3> QED
      BY <2>1, <2>2, <3>1, Completed
  <2>3. CASE To(i) # To(next)
    <3>1. To(i) \in Places /\ i # next
      BY <1>3, <2>3
    <3> QED
      BY <2>1, <2>3, <3>1, Completed
  <2> QED
    BY <2>2, <2>3
<1>6. MadeByTask'
  <2> SUFFICES ASSUME NEW p \in Places, files'[p] # Absent, files'[p].by = runs
               PROVE  \E i \in Begun : To(i) = p /\ From(i) = files'[p].from /\ files'[p].whole
    BY Completed, <1>4 DEF MadeByTask, InHand
  <2>1. CASE p = To(next)
    BY <2>1, Completed
  <2>2. CASE p # To(next)
    <3>1. files'[p] = files[p]
      BY <2>2, Completed
    <3>2. PICK i \in Begun : To(i) = p /\ From(i) = files[p].from /\ (files[p].whole \/ i = next)
      BY <1>0, <3>1, Completed DEF MadeByTask, InHand
    <3> QED
      BY <2>2, <3>1, <3>2
  <2> QED
    BY <2>1, <2>2
<1>7. TreesOwned'
  <2> SUFFICES ASSUME job.mode = "stage-crypto-sdk"
               PROVE  /\ \A p \in SdkPlaces : files'[p] # Absent => \E i \in Begun : To(i) = p
                      /\ \A i \in Begun : Undisputed(i) => files'[To(i)].perm = From(i)
    BY Completed, <1>4 DEF TreesOwned, Undisputed, SdkPlaces, InTree
  <2>1. /\ \A p \in SdkPlaces : files[p] # Absent => \E i \in Begun : To(i) = p
        /\ \A i \in Begun : Undisputed(i) => files[To(i)].perm = From(i)
    BY <1>0 DEF TreesOwned
  <2>2. ASSUME NEW p \in SdkPlaces, files'[p] # Absent PROVE \E i \in Begun : To(i) = p
    <3>1. p \in Places
      BY DEF SdkPlaces, InTree
    <3> QED
      BY <2>1, <2>2, <3>1, Completed
  <2>3. ASSUME NEW i \in Begun, Undisputed(i) PROVE files'[To(i)].perm = From(i)
    <3>1. files'[To(i)].perm = files[To(i)].perm
      BY <1>3, Completed
    <3> QED
      BY <2>1, <2>3, <3>1
  <2> QED
    BY <2>2, <2>3
<1>8. EndsWell'
  BY Completed DEF EndsWell, StagedExactly, Succeeded
<1> QED
  BY <1>1, <1>2, <1>5, <1>6, <1>7, <1>8 DEF StageInv

\* When no task is left, each place that was asked for holds its last task,
\* and the trees of an SDK nothing else.
LEMMA AllStaged ==
  ASSUME CertInv, StageInv, Staged
  PROVE  /\ Asked \subseteq Have
         /\ job.mode = "stage-crypto-sdk" =>
              /\ {p \in SdkPlaces : files[p] # Absent} = {t.to : t \in Expected[job]}
              /\ \A i \in DOMAIN Tasks[job] : Undisputed(i) => files[To(i)].perm = From(i)
<1>1. pc = "copy" /\ next > Len(Tasks[job])
  BY DEF Staged
<1>2. /\ job \in Jobs /\ ArgumentsOK(job) /\ job.mode \notin CertModes /\ next \in Nat
      /\ DOMAIN Tasks[job] = 1..Len(Tasks[job]) /\ Len(Tasks[job]) \in Nat
      /\ LatestStands /\ TreesOwned
  BY <1>1, StagingFacts
<1>3. Begun = DOMAIN Tasks[job]
  BY <1>1, <1>2 DEF Begun, InHand
<1>4. ASSUME NEW t \in Expected[job]
      PROVE  Stands(t) /\ \E i \in DOMAIN Tasks[job] : t.to = To(i)
  <2>1. PICK i \in DOMAIN Tasks[job] : t = Tasks[job][i] /\ Last(i, DOMAIN Tasks[job])
    BY <1>2, <1>4, ExpectedIsLast
  <2>2. /\ files[To(i)] # Absent /\ files[To(i)].from = From(i) /\ files[To(i)].by = runs
        /\ files[To(i)].whole
    BY <1>1, <1>2, <1>3, <2>1 DEF LatestStands, InHand
  <2>3. t.to = To(i) /\ t.from = From(i)
    BY <2>1 DEF To, From
  <2> QED
    BY <2>2, <2>3 DEF Stands
<1>5. Asked \subseteq Have
  <2>1. Range(Checks[job]) = {} /\ CertModes \cap {job.mode} = {}
    BY <1>2, AskedOf
  <2>2. Asked = {<<"file", t>> : t \in Expected[job]}
    BY <2>1, Zenon DEF Asked
  <2>3. \A t \in Expected[job] : <<"file", t>> \in Have
    BY <1>4 DEF Have
  <2> QED
    BY <2>2, <2>3
<1>6. ASSUME job.mode = "stage-crypto-sdk"
      PROVE  /\ {p \in SdkPlaces : files[p] # Absent} = {t.to : t \in Expected[job]}
             /\ \A i \in DOMAIN Tasks[job] : Undisputed(i) => files[To(i)].perm = From(i)
  <2>1. ASSUME NEW p \in SdkPlaces, files[p] # Absent PROVE \E t \in Expected[job] : t.to = p
    <3>1. PICK i \in DOMAIN Tasks[job] : To(i) = p
      BY <1>1, <1>2, <1>3, <1>6, <2>1 DEF TreesOwned
    <3> QED
      BY <1>2, <3>1, ExpectedIsLast
  <2>2. ASSUME NEW t \in Expected[job] PROVE t.to \in SdkPlaces /\ files[t.to] # Absent
    <3>1. PICK i \in DOMAIN Tasks[job] : t.to = To(i)
      BY <1>4
    <3>2. ~Tasks[job][i].refused
      BY <1>1, <1>2, <1>3 DEF LatestStands
    <3>3. To(i) \in SdkPlaces
      BY <1>2, <1>6, <3>2, TasksOf
    <3> QED
      BY <1>4, <3>1, <3>3 DEF Stands
  <2>3. \A i \in DOMAIN Tasks[job] : Undisputed(i) => files[To(i)].perm = From(i)
    BY <1>1, <1>2, <1>3, <1>6 DEF TreesOwned
  <2> QED
    BY <2>1, <2>2, <2>3
<1> QED
  BY <1>5, <1>6

\* A run that has staged everything ends well.
LEMMA StageEnds ==
  ASSUME CertInv, StageInv, Staged
  PROVE  StageInv'
<1>1. /\ pc = "copy" /\ pc' = "exit" /\ next' = 1 /\ UNCHANGED <<job, ok, files, cert, conf, runs>>
      /\ StageTyped
  BY DEF Staged, GoTo, StageInv
<1>2. StageTyped'
  BY <1>1 DEF StageTyped, Running
<1>3. NothingEarly' /\ LatestStands' /\ MadeByTask' /\ TreesOwned'
  BY <1>1 DEF NothingEarly, LatestStands, MadeByTask, TreesOwned, Running
<1>4. Asked' = Asked /\ Have' = Have
  BY <1>1 DEF Asked, Have, Stands
<1>5. StagedExactly'
  <2> SUFFICES ASSUME job.mode = "stage-crypto-sdk"
               PROVE  /\ {p \in InTree("sdk") \cup InTree("runtime") : files[p] # Absent}
                           = {t.to : t \in Expected[job]}
                      /\ \A i \in DOMAIN Tasks[job] :
                           (\A l \in DOMAIN Tasks[job] \ {i} : Tasks[job][l].to # Tasks[job][i].to) =>
                             files[Tasks[job][i].to].perm = Tasks[job][i].from
    BY <1>1, Zenon DEF StagedExactly, InTree
  <2> QED
    BY AllStaged DEF SdkPlaces, Undisputed, To, From
<1>6. EndsWell'
  BY <1>4, <1>5, AllStaged DEF EndsWell
<1> QED
  BY <1>2, <1>3, <1>6 DEF StageInv

\* The certificate that is truncated is this run's.
LEMMA StageTruncates ==
  ASSUME CertInv, StageInv, TruncateCertificate
  PROVE  StageInv'
<1>1. /\ pc = "check" /\ pc' = "certificate" /\ next' = 1 /\ UNCHANGED <<job, ok, files, conf, runs>>
      /\ cert' = [cert EXCEPT ![job.mode] = [job |-> job, by |-> runs, whole |-> FALSE]]
      /\ StageTyped /\ NothingEarly
  BY DEF TruncateCertificate, GoTo, StageInv
<1>2. job \in Jobs /\ job.mode \in CertModes /\ DOMAIN cert = CertModes /\ runs \in Nat /\ runs \in 1..runs /\ Running
  BY <1>1 DEF CertInv, CertTyped, StageTyped, Running
<1>3. [job |-> job, by |-> runs, whole |-> FALSE] # Absent
  <2>1. [job |-> job, by |-> runs, whole |-> FALSE] \in [job : Jobs, by : Nat, whole : BOOLEAN]
    BY <1>2
  <2> QED
    BY <2>1, ArtifactValidatorAssumption
<1>4. /\ cert'[job.mode] # Absent /\ cert'[job.mode].by = runs
      /\ \A m \in CertModes : m # job.mode => cert'[m] = cert[m]
  BY <1>1, <1>2, <1>3
<1>5. StageTyped'
  <2>1. \A m \in CertModes : cert'[m] # Absent => cert'[m].by \in 1..runs
    BY <1>1, <1>2, <1>4 DEF StageTyped
  <2> QED
    BY <1>1, <1>2, <2>1 DEF StageTyped, Running
<1>6. NothingEarly'
  BY <1>1, <1>2, <1>4 DEF NothingEarly
<1>7. LatestStands' /\ MadeByTask' /\ TreesOwned' /\ EndsWell'
  BY <1>1 DEF LatestStands, MadeByTask, TreesOwned, EndsWell, StagedExactly, Succeeded
<1> QED
  BY <1>5, <1>6, <1>7 DEF StageInv

\* A certificate is completed over checks that hold: nothing else was asked.
LEMMA StageCertifies ==
  ASSUME CertInv, StageInv, WriteCertificate
  PROVE  StageInv'
<1>1. /\ pc = "certificate" /\ pc' \in {"unwind", "exit"} /\ next' = 1
      /\ UNCHANGED <<job, ok, files, conf, runs>>
      /\ cert' = [cert EXCEPT ![job.mode].whole = TRUE]
      /\ StageTyped /\ NothingEarly
  BY DEF WriteCertificate, GoTo, StageInv
<1>2. /\ job \in Jobs /\ job.mode \in CertModes /\ DOMAIN cert = CertModes /\ Running
      /\ cert[job.mode] # Absent /\ cert[job.mode].by = runs
      /\ cert[job.mode] \in [job : {job}, by : Nat, whole : BOOLEAN]
      /\ Range(Checks[job]) \subseteq job.holds
  BY <1>1 DEF CertInv, CertTyped, Certified, Running, NothingEarly
<1>3. /\ cert'[job.mode] = [cert[job.mode] EXCEPT !.whole = TRUE]
      /\ \A m \in CertModes : m # job.mode => cert'[m] = cert[m]
  BY <1>1, <1>2
<1>4. /\ cert'[job.mode] \in [job : {job}, by : Nat, whole : BOOLEAN]
      /\ cert'[job.mode].by = runs /\ cert'[job.mode].whole
  BY <1>2, <1>3
<1>5. cert'[job.mode] # Absent
  <2>1. [job : {job}, by : Nat, whole : BOOLEAN] \subseteq [job : Jobs, by : Nat, whole : BOOLEAN]
    BY <1>2
  <2> QED
    BY <1>4, <2>1, ArtifactValidatorAssumption
<1>6. StageTyped'
  <2>1. \A m \in CertModes : cert'[m] # Absent => cert'[m].by \in 1..runs
    BY <1>1, <1>2, <1>3, <1>4 DEF StageTyped
  <2> QED
    BY <1>1, <1>2, <2>1 DEF StageTyped, Running
<1>7. NothingEarly' /\ LatestStands' /\ MadeByTask' /\ TreesOwned'
  BY <1>1, <1>2 DEF NothingEarly, LatestStands, MadeByTask, TreesOwned, Running
<1>8. Asked' \subseteq Have'
  <2>1. Asked' = {<<"check", c>> : c \in Range(Checks[job])} \cup {<<"certificate", job.mode>>}
    <3>1. Expected[job] = {} /\ CertModes \cap {job.mode} = {job.mode}
      BY <1>2, AskedOf
    <3>2. Asked = {<<"check", c>> : c \in Range(Checks[job])} \cup {<<"certificate", job.mode>>}
      BY <3>1 DEF Asked
    <3>3. Asked' = Asked
      BY <1>1 DEF Asked
    <3> QED
      BY <3>2, <3>3
  <2>2. Range(Checks[job]) \cap job.holds = Range(Checks[job])
    BY <1>2
  <2>3. /\ {<<"check", c>> : c \in Range(Checks[job]) \cap job.holds} \subseteq Have'
        /\ <<"certificate", job.mode>> \in Have'
    BY <1>1, <1>2, <1>4, <1>5 DEF Have
  <2> QED
    BY <2>1, <2>2, <2>3
<1>9. EndsWell'
  BY <1>1, <1>2, <1>8 DEF EndsWell, StagedExactly, CertModes
<1> QED
  BY <1>6, <1>7, <1>9 DEF StageInv

\* Every step keeps the invariant of staging.
LEMMA StageStep == CertInv /\ StageInv /\ [Next]_vars => StageInv'
<1> SUFFICES ASSUME CertInv, StageInv, [Next]_vars PROVE StageInv'
  OBVIOUS
<1>0. /\ next \in Nat \ {0} /\ next + 1 \in Nat \ {0} /\ 1 \in Nat \ {0} /\ DOMAIN files = Places /\ StageTyped
  BY DEF CertInv, CertTyped, StageInv, StageTyped
<1>1. ASSUME NEW j \in Jobs, NEW cleared \in BOOLEAN, Start(j, cleared) PROVE StageInv'
  BY <1>1, StageStarts
<1>2. CASE Kill
  BY <1>0, <1>2, StageFails DEF Kill
<1>3. CASE AcceptArguments
  BY <1>0, <1>3, StageProceeds DEF AcceptArguments, GoTo
<1>4. ASSUME GiveUp, UNCHANGED <<job, cert, runs>>,
             pc \in {"arguments", "remove", "copy", "contents", "check", "certificate"},
             DOMAIN files' = Places, \A p \in Places : files'[p] # Absent => files'[p] = files[p],
             conf' = conf \/ conf' = [by |-> runs, whole |-> FALSE]
      PROVE  StageInv'
  <2>1. ok' = FALSE /\ next' = 1 /\ pc' \in {"exit", "unwind"} /\ (pc' = "unwind" => job.mode \in CertModes)
    BY <1>4 DEF GiveUp, Fail, Unwinding, CertModes
  <2>2. Running
    BY <1>4 DEF Running
  <2> QED
    BY <1>0, <1>4, <2>1, <2>2, StageFails
<1>5. CASE RefuseArguments
  BY <1>0, <1>4, <1>5 DEF RefuseArguments
<1>6. CASE RemoveTree
  BY <1>6, StageRemoves
<1>7. CASE RemoveFails
  <2>1. DOMAIN files' = Places /\ \A p \in Places : files'[p] # Absent => files'[p] = files[p]
    BY <1>0, <1>7 DEF RemoveFails, Without
  <2> QED
    BY <1>4, <1>7, <2>1 DEF RemoveFails
<1>8. CASE OpenDestination
  BY <1>8, StageOpens
<1>9. CASE CopyContents
  BY <1>9, StageCompletes
<1>10. CASE CopyFails
  BY <1>0, <1>4, <1>10 DEF CopyFails, Copying
<1>11. CASE Staged
  BY <1>11, StageEnds
<1>12. CASE CheckPasses
  BY <1>0, <1>12, StageProceeds DEF CheckPasses, Installed
<1>13. CASE CheckFails
  BY <1>0, <1>4, <1>13 DEF CheckFails, Checking
<1>14. CASE TruncateCertificate
  BY <1>14, StageTruncates
<1>15. CASE WriteCertificate
  BY <1>15, StageCertifies
<1>16. CASE CertificateFails
  BY <1>0, <1>4, <1>16 DEF CertificateFails
<1>17. CASE Unwind
  BY <1>0, <1>17, StageProceeds DEF Unwind, GoTo
<1>18. CASE UNCHANGED vars
  <2>1. UNCHANGED <<job, pc, ok, next, files, cert, conf, runs>>
    BY <1>18 DEF vars
  <2>2. StageTyped' /\ NothingEarly'
    BY <2>1 DEF StageInv, StageTyped, NothingEarly, Running
  <2>3. LatestStands' /\ MadeByTask' /\ TreesOwned'
    BY <2>1 DEF StageInv, LatestStands, MadeByTask, TreesOwned, Begun, InHand, Last, Undisputed, To, From,
                SdkPlaces, InTree
  <2>4. EndsWell'
    BY <2>1 DEF StageInv, EndsWell, Asked, Have, Stands, StagedExactly, Succeeded, InTree
  <2> QED
    BY <2>2, <2>3, <2>4 DEF StageInv
<1> QED
  BY <1>1, <1>2, <1>3, <1>5, <1>6, <1>7, <1>8, <1>9, <1>10, <1>11, <1>12, <1>13, <1>14, <1>15, <1>16, <1>17,
     <1>18 DEF Next

\* The certificates and the staged files keep to their invariants together.
LEMMA ValidatorInvariant == Spec => [](CertInv /\ StageInv)
  BY CertInit, CertStep, StageInit, StageStep, PTL DEF Spec

-----------------------------------------------------------------------------
(* The theorems of staging and of the contract.                            *)

\* Types, and the order of the steps: a failed run only leaves, and what a
\* running one has truncated it is writing (main of fips_artifact_validator).
THEOREM TypeCorrect == Spec => []TypeOK
<1>1. CertInv /\ StageInv => TypeOK
  <2> SUFFICES ASSUME CertInv, StageInv PROVE TypeOK
    OBVIOUS
  <2>1. CertTyped /\ StageTyped /\ NothingEarly /\ MadeByTask
    BY DEF CertInv, StageInv
  <2>2. ASSUME NEW p \in Places, files[p] # Absent
        PROVE  files[p].by \in 1..runs /\ (Running /\ files[p].by = runs /\ ~files[p].whole => pc = "contents")
    BY <2>1, <2>2 DEF StageTyped, NothingEarly, MadeByTask, InHand
  <2>3. \A m \in CertModes : cert[m] # Absent => cert[m].job \in Jobs /\ cert[m].by \in 1..runs
    BY <2>1 DEF CertTyped, StageTyped
  <2> QED
    BY <2>1, <2>2, <2>3 DEF TypeOK, CertTyped, StageTyped
<1> QED
  BY <1>1, ValidatorInvariant, PTL

\* After a successful stage-crypto-sdk both trees hold the declared files and
\* nothing else, with their own permissions, whatever earlier runs have left,
\* for any jobs (stageCryptoSDK).
THEOREM SdkStagedExactly == Spec => []StagedExactly
<1>1. StageInv => StagedExactly
  BY DEF StageInv, EndsWell
<1> QED
  BY <1>1, ValidatorInvariant, PTL

\* No step writes outside the declared trees, and an SDK with a destination
\* that is not a basename stops before it has changed a file (copyRelative
\* and normalizeRuntime).
THEOREM WritesAreConfined == Spec => WritesConfined
<1>1. ASSUME CertInv, StageInv, StageInv', [Next]_vars
      PROVE  [/\ files'[Elsewhere] = files[Elsewhere]
              /\ Running /\ job.mode = "stage-crypto-sdk" /\ (\E i \in DOMAIN job.runtime : ~job.runtime[i].base)
                   => files' = files]_vars
  <2>1. files'[Elsewhere] = files[Elsewhere]
    BY <1>1 DEF StageInv, StageTyped
  <2>2. ASSUME Running, job.mode = "stage-crypto-sdk", NEW i \in DOMAIN job.runtime, ~job.runtime[i].base, Next
        PROVE  files' = files
    <3>1. ~ArgumentsOK(job)
      BY <2>2 DEF ArgumentsOK, Normalized
    <3>2. pc \notin {"remove", "copy", "contents"}
      BY <1>1, <3>1 DEF StageInv, StageTyped
    <3> QED
      BY <2>2, <3>2 DEF Next, Start, Kill, AcceptArguments, RefuseArguments, RemoveTree, RemoveFails,
           OpenDestination, CopyContents, CopyFails, Staged, CheckPasses, CheckFails, TruncateCertificate,
           WriteCertificate, CertificateFails, Unwind, Copying
  <2> QED
    BY <1>1, <2>1, <2>2
<1> QED
  BY <1>1, ValidatorInvariant, PTL DEF Spec, WritesConfined

\* While a run goes on it keeps its job and its number, and its steps are
\* those below the start.
LEMMA RunGoesOn ==
  ASSUME Running, Next
  PROVE  /\ UNCHANGED <<job, runs>>
         /\ UNCHANGED files \/ RemoveTree \/ RemoveFails \/ OpenDestination \/ CopyContents
         /\ UNCHANGED cert \/ TruncateCertificate \/ WriteCertificate
  BY DEF Next, Start, Kill, AcceptArguments, RefuseArguments, RemoveTree, RemoveFails, OpenDestination,
         CopyContents, CopyFails, Staged, CheckPasses, CheckFails, TruncateCertificate, WriteCertificate,
         CertificateFails, Unwind

\* A file that stands as asked is not taken back by the run that has staged it:
\* no later task goes to the place of one that is expected.
LEMMA StandsStays ==
  ASSUME CertInv, StageInv, Running, Next, NEW t \in Expected[job], Stands(t)
  PROVE  Stands(t)'
<1>0. UNCHANGED <<job, runs>> /\ t \in Expected[job] /\ files[t.to] # Absent /\ files[t.to].by = runs
  BY RunGoesOn DEF Stands
<1>1. CASE UNCHANGED files
  BY <1>0, <1>1 DEF Stands
<1>2. CASE RemoveTree \/ RemoveFails
  <2>1. pc = "remove" /\ job \in Jobs /\ ArgumentsOK(job)
    BY <1>2 DEF RemoveTree, RemoveFails, StageInv, StageTyped, CertInv, CertTyped
  <2>2. PICK i \in DOMAIN Tasks[job] : t = Tasks[job][i]
    BY <2>1, ExpectedIsLast
  <2>3. t.to \in Places
    BY <2>1, <2>2, TasksOf DEF To
  <2> QED
    BY <1>0, <2>1, <2>3 DEF StageInv, NothingEarly, Running
<1>3. CASE OpenDestination
  <2>1. pc = "copy" /\ job \in Jobs /\ ArgumentsOK(job)
    BY <1>3, Opened, StagingFacts
  <2>2. PICK k \in DOMAIN Tasks[job] : t = Tasks[job][k] /\ Last(k, DOMAIN Tasks[job])
    BY <2>1, ExpectedIsLast
  <2>3. t.to = To(k) /\ t.from = From(k) /\ To(k) \in Places
    BY <2>1, <2>2, TasksOf DEF To, From
  <2>4. To(k) # To(next)
    <3> SUFFICES ASSUME To(k) = To(next) PROVE FALSE
      OBVIOUS
    <3>1. PICK i \in Begun : To(i) = t.to /\ From(i) = files[t.to].from
      BY <1>0, <2>1, <2>3 DEF StageInv, MadeByTask
    <3>2. i \in DOMAIN Tasks[job] /\ i < next /\ next \in DOMAIN Tasks[job] /\ To(next) # Elsewhere
      BY <1>3, <3>1, Opened
    <3>3. From(i) = From(k) /\ To(i) = To(k)
      BY <2>3, <3>1 DEF Stands
    <3>4. i = k
      BY <2>1, <3>2, <3>3, TasksOf
    <3> QED
      BY <2>2, <3>2, <3>4 DEF Last
  <2>5. files'[t.to] = files[t.to]
    BY <1>3, <2>3, <2>4, Opened
  <2> QED
    BY <1>0, <2>5 DEF Stands
<1>4. CASE CopyContents
  <2>1. pc = "contents" /\ job \in Jobs /\ ArgumentsOK(job)
    BY <1>4, Completed, StagingFacts
  <2>2. PICK k \in DOMAIN Tasks[job] : t = Tasks[job][k]
    BY <2>1, ExpectedIsLast
  <2>3. t.to \in Places
    BY <2>1, <2>2, TasksOf DEF To
  <2>4. CASE t.to = To(next)
    BY <1>0, <1>4, <2>4, Completed DEF Stands
  <2>5. CASE t.to # To(next)
    BY <1>0, <1>4, <2>3, <2>5, Completed DEF Stands
  <2> QED
    BY <2>4, <2>5
<1> QED
  BY <1>1, <1>2, <1>3, <1>4, RunGoesOn

\* A certificate that stands whole stays while the run goes on.
LEMMA CertificateStays ==
  ASSUME CertInv, StageInv, Running, Next,
         NEW m \in CertModes, cert[m] # Absent, cert[m].by = runs, cert[m].whole
  PROVE  cert'[m] # Absent /\ cert'[m].by = runs' /\ cert'[m].whole
<1>0. UNCHANGED <<job, runs>> /\ DOMAIN cert = CertModes
  BY RunGoesOn DEF CertInv, CertTyped
<1>1. CASE UNCHANGED cert
  BY <1>0, <1>1
<1>2. CASE TruncateCertificate
  <2>1. pc = "check"
    BY <1>2 DEF TruncateCertificate
  <2> QED
    BY <2>1 DEF StageInv, NothingEarly
<1>3. CASE WriteCertificate
  <2>1. /\ job \in Jobs /\ job.mode \in CertModes /\ cert' = [cert EXCEPT ![job.mode].whole = TRUE]
        /\ cert[job.mode] \in [job : {job}, by : Nat, whole : BOOLEAN]
    BY <1>3 DEF WriteCertificate, CertInv, CertTyped, Certified
  <2>2. CASE m = job.mode
    <3>1. cert'[m] = [cert[m] EXCEPT !.whole = TRUE]
      BY <1>0, <2>1, <2>2
    <3>2. cert'[m] \in [job : Jobs, by : Nat, whole : BOOLEAN] /\ cert'[m].by = cert[m].by /\ cert'[m].whole
      BY <2>1, <2>2, <3>1
    <3> QED
      BY <1>0, <3>2, ArtifactValidatorAssumption
  <2>3. CASE m # job.mode
    BY <1>0, <2>1, <2>3
  <2> QED
    BY <2>2, <2>3
<1> QED
  BY <1>1, <1>2, <1>3, RunGoesOn

\* Every step of the validator is one of the contract, or leaves it as it is.
LEMMA DeliveryStep ==
  ASSUME CertInv, StageInv, StageInv', Next
  PROVE  Delivery!Next
<1>1. CASE Running
  <2>1. UNCHANGED <<job, runs>> /\ Asked' = Asked
    BY <1>1, RunGoesOn DEF Asked
  <2>2. Have \subseteq Have'
    <3>1. ASSUME NEW t \in Expected[job], Stands(t) PROVE Stands(t)'
      BY <1>1, <3>1, StandsStays
    <3>2. \A m \in CertModes : cert[m] # Absent /\ cert[m].by = runs /\ cert[m].whole =>
            cert'[m] # Absent /\ cert'[m].by = runs' /\ cert'[m].whole
      BY <1>1, CertificateStays
    <3>3. {e \in Expected[job] : Stands(e)} \subseteq {e \in Expected[job] : Stands(e)'}
      BY <3>1
    <3>4. {n \in CertModes : cert[n] # Absent /\ cert[n].by = runs /\ cert[n].whole} \subseteq
          {n \in CertModes : cert'[n] # Absent /\ cert'[n].by = runs' /\ cert'[n].whole}
      BY <3>2
    <3>5. Have' = {<<"check", c>> : c \in Range(Checks[job]) \cap job.holds}
                  \cup {<<"file", t>> : t \in {e \in Expected[job] : Stands(e)'}}
                  \cup {<<"certificate", m>> : m \in
                         {n \in CertModes : cert'[n] # Absent /\ cert'[n].by = runs' /\ cert'[n].whole}}
      BY <2>1 DEF Have
    <3> QED
      BY <3>3, <3>4, <3>5 DEF Have
  <2>3. Outcome = "running"
    BY <1>1 DEF Outcome, Running
  <2>4. Outcome' \in {"running", "failure"} \/ (Outcome' = "success" /\ Succeeded')
    BY <1>1 DEF Outcome, Running, Next, Start, Kill, AcceptArguments, RefuseArguments, RemoveTree, RemoveFails,
                OpenDestination, CopyContents, CopyFails, Staged, CheckPasses, CheckFails, TruncateCertificate,
                WriteCertificate, CertificateFails, Unwind, GiveUp, Fail, GoTo
  <2>5. Succeeded' => Asked' \subseteq Have'
    BY DEF StageInv, EndsWell, Succeeded
  <2> QED
    BY <2>1, <2>2, <2>3, <2>4, <2>5
    DEF Delivery!Next, Delivery!Keep, Delivery!Advance, Delivery!Succeed, Delivery!Fail
<1>2. CASE ~Running
  <2>1. \E j \in Jobs, cleared \in BOOLEAN : Start(j, cleared)
    BY <1>2 DEF Running, Next, Kill, AcceptArguments, RefuseArguments, RemoveTree, RemoveFails,
                OpenDestination, CopyContents, CopyFails, Staged, CheckPasses, CheckFails, TruncateCertificate,
                WriteCertificate, CertificateFails, Unwind, Copying, Checking
  <2>2. Outcome # "running" /\ Outcome' = "running"
    BY <1>2, <2>1 DEF Start, Outcome, Running
  <2> QED
    BY <2>2 DEF Delivery!Next, Delivery!Begin
<1> QED
  BY <1>1, <1>2

\* The validator implements the delivery contract: a run that reports success
\* has made every check it was asked for, each holds, and has staged every
\* file whole, for any jobs, faults and number of runs.
THEOREM ValidatorImplementsDelivery == Spec => ImplementsDelivery
<1>1. Init => Delivery!Init
  BY DEF Init, Delivery!Init, Outcome, Running
<1>2. CertInv /\ StageInv /\ StageInv' /\ [Next]_vars => [Delivery!Next]_Delivery!contractVars
  <2>1. UNCHANGED vars => UNCHANGED Delivery!contractVars
    BY DEF vars, Delivery!contractVars, Outcome, Asked, Have, Stands, Succeeded, Running
  <2> QED
    BY <2>1, DeliveryStep
<1> QED
  BY <1>1, <1>2, ValidatorInvariant, PTL DEF Spec, ImplementsDelivery, Delivery!Spec
=============================================================================
