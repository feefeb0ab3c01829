------------------------ MODULE PackagedLaunch_proofs ------------------------
(***************************************************************************)
(* Theorems about packaged launches, for any number of launchers, starts,  *)
(* copies and configurations.                                              *)
(***************************************************************************)
EXTENDS PackagedLaunch, WellFoundedInduction, TLAPS

(***************************************************************************)
(* Types.                                                                  *)
(***************************************************************************)

\* The elements of a sequence.
LEMMA SequenceElements ==
  ASSUME NEW S, NEW s \in Seq(S)
  PROVE  DOMAIN s = 1..Len(s) /\ Len(s) \in Nat /\ \A i \in DOMAIN s : s[i] \in S
  OBVIOUS

\* The configuration of a launch is well formed.
LEMMA ConfigTyped ==
  ASSUME config \in Configs
  PROVE  /\ config.copies \in Seq([source : Files, destination : Files, below : BOOLEAN])
         /\ config.activation \in BOOLEAN
         /\ DOMAIN config.copies = 1..Len(config.copies)
         /\ Len(config.copies) \in Nat
         /\ \A i \in DOMAIN config.copies :
              config.copies[i].source \in Files /\ config.copies[i].destination \in Files
<1>1. config.copies \in Seq([source : Files, destination : Files, below : BOOLEAN]) /\ config.activation \in BOOLEAN
  BY PackagedLaunchAssumption
<1>2. /\ DOMAIN config.copies = 1..Len(config.copies) /\ Len(config.copies) \in Nat
      /\ \A i \in DOMAIN config.copies : config.copies[i] \in [source : Files, destination : Files, below : BOOLEAN]
  BY <1>1, SequenceElements
<1> QED
  BY <1>1, <1>2

\* The initial states are well typed and satisfy the invariant.
LEMMA LaunchInit == Init => TypeOK /\ LaunchInv
<1> SUFFICES ASSUME Init PROVE TypeOK /\ LaunchInv
  OBVIOUS
<1>1. PICK kept \in SUBSET StateFiles :
        file = [f \in Files |-> IF f \in ReleaseFiles THEN "release"
                                ELSE IF f \in kept THEN "edited" ELSE Absent]
  BY DEF Init
<1>2. file \in [Files -> Contents]
  BY <1>1 DEF Contents
<1>3. TypeOK
  BY <1>2, ConfigTyped, PackagedLaunchAssumption DEF Init, TypeOK, Contents, OrphanStates
<1>4. Ordered
  BY DEF Init, Ordered
<1>5. \A f \in Untouched : file[f] = "release"
  BY <1>1 DEF Files, Untouched
<1>6. ReleaseIntact
  BY <1>5 DEF Init, ReleaseIntact
<1>7. \A f \in Files : file[f] # Partial
  BY <1>1, PackagedLaunchAssumption
<1>8. Written \subseteq Files
  BY ConfigTyped DEF Init, Written, Destinations, Files, RootFiles
<1>9. TornHasWriter
  BY <1>7, <1>8 DEF TornHasWriter
<1> QED
  BY <1>3, <1>4, <1>6, <1>9 DEF LaunchInv

\* Every step preserves the types.
LEMMA LaunchTyped == TypeOK /\ Ordered /\ [Next]_vars => TypeOK'
<1> SUFFICES ASSUME TypeOK, Ordered, [Next]_vars PROVE TypeOK'
  OBVIOUS
<1> USE PackagedLaunchAssumption DEF TypeOK, Contents
<1>0. /\ config \in Configs
      /\ Len(config.copies) \in Nat
      /\ DOMAIN config.copies = 1..Len(config.copies)
      /\ \A i \in DOMAIN config.copies :
           config.copies[i].source \in Files /\ config.copies[i].destination \in Files
  BY ConfigTyped
<1>1. ASSUME NEW p \in Launchers, Start(p) PROVE TypeOK'
  <2>1. boots' \in [Launchers -> 0..MaxBoots]
    BY <1>1 DEF Start
  <2>2. index'[p] = 1 /\ 1 \in 1..(Len(config.copies) + 1)
    BY <1>0, <1>1 DEF Start
  <2> QED
    BY <1>0, <1>1, <2>1, <2>2 DEF Start, GoTo, Busy, AtWork
<1>2. ASSUME NEW p \in Launchers, Launcher(p) PROVE TypeOK'
  <2>1. CASE Prepare(p) \/ RefusePrepare(p) \/ Activated(p) \/ ExecRuntime(p) \/ CopyFails(p)
    BY <2>1 DEF Prepare, RefusePrepare, Activated, ExecRuntime, CopyFails, GoTo
  <2>2. CASE StartChild(p) \/ ActivationFails(p)
    BY <2>2 DEF StartChild, ActivationFails, GoTo
  <2>3. CASE ReadSource(p)
    <3>1. index[p] \in DOMAIN config.copies
      BY <1>0, <2>3 DEF ReadSource, AllCopied
    <3>2. file[Copy(p).source] \in Contents
      BY <1>0, <3>1 DEF Copy
    <3> QED
      BY <2>3, <3>2 DEF ReadSource, GoTo
  <2>4. CASE Truncate(p)
    BY <2>4 DEF Truncate, GoTo
  <2>5. CASE WriteContents(p)
    <3>1. index[p] + 1 \in 1..(Len(config.copies) + 1)
      BY <1>0, <2>5 DEF WriteContents, Ordered, At
    <3> QED
      BY <2>5, <3>1 DEF WriteContents, GoTo
  <2> QED
    BY <1>2, <2>1, <2>2, <2>3, <2>4, <2>5 DEF Launcher
<1>3. ASSUME NEW p \in Launchers, Child(p) PROVE TypeOK'
  BY <1>3 DEF Child, ChildOpens, ChildWrites
<1>4. ASSUME NEW p \in Launchers, Kill(p) PROVE TypeOK'
  BY <1>4 DEF Kill, GoTo, OrphanStates
<1>5. ASSUME NEW p \in Launchers, Stop(p) PROVE TypeOK'
  BY <1>5 DEF Stop, GoTo
<1>6. ASSUME NEW p \in Launchers, NEW f \in StateFiles, Edit(p, f) PROVE TypeOK'
  BY <1>6 DEF Edit
<1>7. CASE Orphan
  <2>1. orphans' \in [OrphanStates -> Nat]
    BY <1>7 DEF Orphan, OrphanOpens, OrphanWrites, OrphanFails, OrphanStates
  <2>2. file' \in [Files -> Contents]
    BY <1>7 DEF Orphan, OrphanOpens, OrphanWrites, OrphanFails
  <2> QED
    BY <1>7, <2>1, <2>2 DEF Orphan, OrphanOpens, OrphanWrites, OrphanFails
<1>8. CASE UNCHANGED vars
  BY <1>8 DEF vars
<1> QED
  BY <1>1, <1>2, <1>3, <1>4, <1>5, <1>6, <1>7, <1>8 DEF Next

(***************************************************************************)
(* The inductive invariant.                                                *)
(***************************************************************************)

\* Every step keeps the launchers in order.
LEMMA OrderedStep == TypeOK /\ Ordered /\ [Next]_vars => Ordered'
<1> SUFFICES ASSUME TypeOK, Ordered, [Next]_vars PROVE Ordered'
  OBVIOUS
<1> USE DEF TypeOK, Ordered, At, GoTo
<1>0. /\ config \in Configs
      /\ Len(config.copies) \in Nat
  BY ConfigTyped
<1>1. ASSUME NEW p \in Launchers, Start(p) PROVE Ordered'
  BY <1>1 DEF Start, Busy, DestinationsWithin
<1>2. ASSUME NEW p \in Launchers, Launcher(p) PROVE Ordered'
  <2>1. CASE Prepare(p)
    BY <2>1 DEF Prepare, DestinationsWithin
  <2>2. CASE RefusePrepare(p) \/ CopyFails(p)
    BY <2>2 DEF RefusePrepare, CopyFails, DestinationsWithin
  <2>3. CASE StartChild(p)
    BY <2>3 DEF StartChild, DestinationsWithin
  <2>4. CASE Activated(p) \/ ActivationFails(p)
    BY <2>4 DEF Activated, ActivationFails, DestinationsWithin
  <2>5. CASE ReadSource(p)
    BY <1>0, <2>5 DEF ReadSource, AllCopied, DestinationsWithin
  <2>6. CASE Truncate(p) \/ WriteContents(p)
    BY <2>6 DEF Truncate, WriteContents, DestinationsWithin
  <2>7. CASE ExecRuntime(p)
    BY <2>7 DEF ExecRuntime, DestinationsWithin
  <2> QED
    BY <1>2, <2>1, <2>2, <2>3, <2>4, <2>5, <2>6, <2>7 DEF Launcher
<1>3. ASSUME NEW p \in Launchers, Child(p) PROVE Ordered'
  BY <1>3 DEF Child, ChildOpens, ChildWrites, DestinationsWithin
<1>4. ASSUME NEW p \in Launchers, Kill(p) \/ Stop(p) PROVE Ordered'
  BY <1>4 DEF Kill, Stop, DestinationsWithin
<1>5. ASSUME NEW p \in Launchers, NEW f \in StateFiles, Edit(p, f) PROVE Ordered'
  BY <1>5 DEF Edit, DestinationsWithin
<1>6. CASE Orphan
  BY <1>6 DEF Orphan, OrphanOpens, OrphanWrites, OrphanFails, DestinationsWithin
<1>7. CASE UNCHANGED vars
  BY <1>7 DEF vars, DestinationsWithin
<1> QED
  BY <1>1, <1>2, <1>3, <1>4, <1>5, <1>6, <1>7 DEF Next

\* The file a launcher writes next is one that a copy goes to, and every path
\* was checked.
LEMMA DestinationChecked ==
  ASSUME TypeOK, Ordered, NEW p \in Launchers, pc[p] \in {"truncate", "write"}
  PROVE  /\ index[p] \in DOMAIN config.copies
         /\ Copy(p).destination \in Destinations
         /\ DestinationsWithin
<1>1. index[p] \in DOMAIN config.copies
  BY ConfigTyped DEF TypeOK, Ordered
<1>2. DestinationsWithin
  BY DEF Ordered
<1> QED
  BY <1>1, <1>2 DEF Destinations, Copy

\* A step changes no file outside the activation root but one that a copy goes
\* to, when every path was checked.
LEMMA RootWritten ==
  ASSUME TypeOK, Ordered, [Next]_vars, NEW f \in Files \ RootFiles
  PROVE  file'[f] = file[f] \/ (DestinationsWithin /\ f \in Destinations)
<1> USE DEF TypeOK
<1>0. f # ModuleConf /\ f \notin StateFiles
  BY DEF RootFiles
<1>1. CASE \E p \in Launchers : Truncate(p) \/ WriteContents(p)
  <2>1. PICK p \in Launchers : Truncate(p) \/ WriteContents(p)
    BY <1>1
  <2>2. Copy(p).destination \in Destinations /\ DestinationsWithin
    BY <2>1, DestinationChecked DEF Truncate, WriteContents, At
  <2>3. CASE Copy(p).destination = f
    BY <2>2, <2>3
  <2>4. CASE Copy(p).destination # f
    BY <2>1, <2>4 DEF Truncate, WriteContents
  <2> QED
    BY <2>3, <2>4
<1>2. CASE \E p \in Launchers, g \in StateFiles : Edit(p, g)
  BY <1>0, <1>2 DEF Edit
<1>3. CASE \E p \in Launchers : Child(p)
  BY <1>0, <1>3 DEF Child, ChildOpens, ChildWrites
<1>4. CASE Orphan
  BY <1>0, <1>4 DEF Orphan, OrphanOpens, OrphanWrites, OrphanFails
<1>5. CASE UNCHANGED file
  BY <1>5
<1> QED
  BY <1>1, <1>2, <1>3, <1>4, <1>5 DEF Next, vars, Launcher, Start, Kill, Stop, Prepare, RefusePrepare,
     StartChild, Activated, ActivationFails, ReadSource, CopyFails, ExecRuntime

\* A step changes neither the configuration nor what follows from it alone.
LEMMA ConfigUnchanged ==
  ASSUME [Next]_vars
  PROVE  /\ config' = config
         /\ Destinations' = Destinations
         /\ Written' = Written
         /\ Untouched' = Untouched
         /\ SourcesImmutable' = SourcesImmutable
<1>1. config' = config
  BY DEF Next, vars, Launcher, Start, Kill, Stop, Prepare, RefusePrepare, StartChild, Activated,
     ActivationFails, ReadSource, Truncate, WriteContents, CopyFails, ExecRuntime, Child, ChildOpens,
     ChildWrites, Edit, Orphan, OrphanOpens, OrphanWrites, OrphanFails
<1> QED
  BY <1>1 DEF Destinations, Written, Untouched, SourcesImmutable

\* Every step leaves the release, and what was read from it, intact.
LEMMA IntactStep == TypeOK /\ Ordered /\ ReleaseIntact /\ [Next]_vars => ReleaseIntact'
<1> SUFFICES ASSUME TypeOK, Ordered, ReleaseIntact, [Next]_vars PROVE ReleaseIntact'
  OBVIOUS
<1>1. \A f \in Untouched : f \in Files \ RootFiles /\ f \notin Destinations
  BY PackagedLaunchAssumption DEF Files, Untouched
<1>2. \A f \in Untouched : file'[f] = "release"
  BY <1>1, RootWritten DEF ReleaseIntact
<1>3. Untouched' = Untouched /\ SourcesImmutable' = SourcesImmutable
  BY ConfigUnchanged
<1>4. ASSUME SourcesImmutable, NEW q \in Launchers, pc'[q] \in {"truncate", "write"}
      PROVE  buffer'[q] = "release"
  <2>1. CASE \E p \in Launchers : ReadSource(p)
    <3>1. PICK p \in Launchers : ReadSource(p)
      BY <2>1
    <3>2. index[p] \in DOMAIN config.copies
      BY <3>1, ConfigTyped DEF ReadSource, AllCopied, TypeOK
    <3>3. file[Copy(p).source] = "release"
      BY <1>4, <3>2 DEF SourcesImmutable, Copy, ReleaseIntact
    <3> QED
      BY <1>4, <3>1, <3>3 DEF ReadSource, GoTo, At, TypeOK, ReleaseIntact
  <2>2. CASE ~ \E p \in Launchers : ReadSource(p)
    <3>1. pc[q] \in {"truncate", "write"} /\ buffer'[q] = buffer[q]
      BY <1>4, <2>2 DEF Next, vars, Launcher, Start, Kill, Stop, Prepare, RefusePrepare, StartChild,
         Activated, ActivationFails, Truncate, WriteContents, CopyFails, ExecRuntime, Child, ChildOpens,
         ChildWrites, Edit, Orphan, OrphanOpens, OrphanWrites, OrphanFails, GoTo, At, TypeOK
    <3> QED
      BY <1>4, <3>1 DEF ReleaseIntact
  <2> QED
    BY <2>1, <2>2
<1> QED
  BY <1>2, <1>3, <1>4 DEF ReleaseIntact

\* A launcher's own step that leaves the file f alone or truncated leaves the
\* launcher behind with f, unless the step wrote f in full.
LEMMA StaysBehind ==
  ASSUME TypeOK, Ordered, NEW p \in Launchers, NEW f \in Written, Behind(p, f),
         Start(p) \/ Launcher(p) \/ Child(p) \/ Kill(p)
  PROVE  \/ Behind(p, f)'
         \/ WriteContents(p) /\ Copy(p).destination = f
         \/ ChildWrites(p) /\ f = ModuleConf
<1> USE DEF TypeOK, At, GoTo
<1>0. /\ config' = config /\ Destinations' = Destinations
      /\ Len(config.copies) \in Nat /\ DOMAIN config.copies = 1..Len(config.copies)
      /\ index \in [Launchers -> 1..(Len(config.copies) + 1)]
      /\ config.activation \in BOOLEAN
  <2>1. [Next]_vars
    BY DEF Next
  <2> QED
    BY <2>1, ConfigTyped, ConfigUnchanged
<1>1. CASE Start(p) \/ Kill(p) \/ RefusePrepare(p) \/ ActivationFails(p) \/ CopyFails(p)
  BY <1>0, <1>1 DEF Start, Kill, RefusePrepare, ActivationFails, CopyFails, Behind
<1>2. CASE Prepare(p)
  <2>1. CASE config.activation
    BY <1>0, <1>2, <2>1 DEF Prepare, Behind, Ordered
  <2>2. CASE ~config.activation
    <3>1. PICK i \in DOMAIN config.copies : config.copies[i].destination = f
      BY <2>2 DEF Written, Destinations
    <3>2. i >= index'[p] /\ pc'[p] = "read"
      BY <1>0, <1>2, <2>2, <3>1 DEF Prepare, Ordered
    <3> QED
      BY <1>0, <3>1, <3>2 DEF Behind
  <2> QED
    BY <1>0, <2>1, <2>2
<1>3. CASE StartChild(p) \/ ChildOpens(p)
  BY <1>0, <1>3 DEF StartChild, ChildOpens, Behind, Ordered
<1>4. CASE ChildWrites(p)
  <2>1. pc'[p] = "activate"
    BY <1>4 DEF ChildWrites, Ordered
  <2>2. f \in Destinations \/ f = ModuleConf
    BY DEF Written
  <2> QED
    BY <1>0, <1>4, <2>1, <2>2 DEF Behind
<1>5. CASE Activated(p)
  <2>1. f \in Destinations
    BY <1>5 DEF Activated, Behind
  <2>2. PICK i \in DOMAIN config.copies : config.copies[i].destination = f
    BY <2>1 DEF Destinations
  <2>3. i >= index'[p] /\ pc'[p] = "read"
    BY <1>0, <1>5, <2>2 DEF Activated, Ordered
  <2> QED
    BY <1>0, <2>2, <2>3 DEF Behind
<1>6. CASE ReadSource(p) \/ Truncate(p)
  BY <1>0, <1>6 DEF ReadSource, Truncate, Behind
<1>7. CASE WriteContents(p)
  <2>1. PICK i \in DOMAIN config.copies : i >= index[p] /\ config.copies[i].destination = f
    BY <1>7 DEF WriteContents, Behind
  <2>2. CASE i = index[p]
    BY <1>7, <2>1, <2>2 DEF Copy
  <2>3. CASE i # index[p]
    <3>1. i >= index'[p] /\ pc'[p] = "read"
      BY <1>0, <1>7, <2>1, <2>3 DEF WriteContents
    <3> QED
      BY <1>0, <2>1, <3>1 DEF Behind
  <2> QED
    BY <2>2, <2>3
<1>8. CASE ExecRuntime(p)
  <2>1. PICK i \in DOMAIN config.copies : i >= index[p]
    BY <1>8 DEF ExecRuntime, Behind
  <2> QED
    BY <1>0, <1>8, <2>1 DEF ExecRuntime, AllCopied
<1> QED
  BY <1>1, <1>2, <1>3, <1>4, <1>5, <1>6, <1>7, <1>8 DEF Launcher, Child

\* Every step leaves a truncated file with somebody to write it again.
LEMMA TornStep ==
  TypeOK /\ Ordered /\ ReleaseIntact /\ TornHasWriter /\ [Next]_vars => TornHasWriter'
<1> SUFFICES ASSUME TypeOK, Ordered, ReleaseIntact, TornHasWriter, [Next]_vars, SourcesImmutable,
                    NEW f \in Written, file'[f] = Partial
             PROVE  TornByOrphan(f)' \/ \E p \in Launchers : Behind(p, f)'
  BY ConfigUnchanged DEF TornHasWriter
<1> USE DEF TypeOK
<1>0. /\ Partial \notin {"module", "release", "edited"}
      /\ config' = config /\ Destinations' = Destinations
  BY PackagedLaunchAssumption, ConfigUnchanged
<1>1. f \in Files
  <2>1. Destinations \subseteq Files
    BY ConfigTyped DEF Destinations
  <2> QED
    BY <2>1 DEF Written, Files, RootFiles
<1>2. file[f] = Partial => TornByOrphan(f) \/ \E p \in Launchers : Behind(p, f)
  BY DEF TornHasWriter
<1>3. ASSUME NEW p \in Launchers, Start(p) \/ Launcher(p) \/ Child(p) \/ Kill(p)
      PROVE  TornByOrphan(f)' \/ \E q \in Launchers : Behind(q, f)'
  <2>1. ~(WriteContents(p) /\ Copy(p).destination = f)
    <3> SUFFICES ASSUME WriteContents(p), Copy(p).destination = f PROVE FALSE
      OBVIOUS
    <3>1. buffer[p] = "release"
      BY DEF WriteContents, At, ReleaseIntact
    <3> QED
      BY <1>0, <1>1, <3>1 DEF WriteContents
  <2>2. ~(ChildWrites(p) /\ f = ModuleConf)
    BY <1>0, <1>1 DEF ChildWrites
  <2>3. CASE Truncate(p) /\ Copy(p).destination = f
    <3>1. index[p] \in DOMAIN config.copies /\ index[p] \in Nat
      BY <2>3, DestinationChecked, ConfigTyped DEF Truncate, At
    <3>2. pc'[p] = "write" /\ index'[p] = index[p] /\ config.copies[index[p]].destination = f
      BY <2>3 DEF Truncate, GoTo, Copy
    <3>3. Behind(p, f)'
      BY <1>0, <3>1, <3>2 DEF Behind
    <3> QED
      BY <3>3
  <2>4. CASE ChildOpens(p) /\ f = ModuleConf
    <3>1. pc'[p] = "activate" /\ child'[p] = "opened"
      BY <2>4 DEF ChildOpens, Ordered
    <3>2. Behind(p, f)'
      BY <3>1 DEF Behind
    <3> QED
      BY <3>2
  <2>5. CASE ~(Truncate(p) /\ Copy(p).destination = f) /\ ~(ChildOpens(p) /\ f = ModuleConf)
    <3>1. file[f] = Partial
      BY <1>1, <1>3, <2>1, <2>2, <2>5 DEF Start, Kill, Launcher, Prepare, RefusePrepare, StartChild,
         Activated, ActivationFails, ReadSource, Truncate, WriteContents, CopyFails, ExecRuntime, Child,
         ChildOpens, ChildWrites
    <3>2. TornByOrphan(f) => TornByOrphan(f)'
      <4>1. CASE Kill(p) /\ child[p] \in {"started", "opened"}
        <5>1. \A s \in OrphanStates : orphans'[s] \in Nat /\ orphans'[s] >= orphans[s]
          BY <4>1 DEF Kill
        <5> QED
          BY <5>1 DEF TornByOrphan, OrphanStates
      <4>2. CASE ~(Kill(p) /\ child[p] \in {"started", "opened"})
        <5>1. orphans' = orphans
          BY <1>3, <4>2 DEF Start, Kill, Launcher, Prepare, RefusePrepare, StartChild, Activated,
             ActivationFails, ReadSource, Truncate, WriteContents, CopyFails, ExecRuntime, Child,
             ChildOpens, ChildWrites
        <5> QED
          BY <5>1 DEF TornByOrphan
      <4> QED
        BY <4>1, <4>2
    <3>3. ASSUME NEW q \in Launchers, Behind(q, f) PROVE Behind(q, f)'
      <4>1. CASE q = p
        BY <1>3, <2>1, <2>2, <3>3, <4>1, StaysBehind
      <4>2. CASE q # p
        <5>1. pc'[q] = pc[q] /\ index'[q] = index[q] /\ child'[q] = child[q]
          BY <1>3, <4>2 DEF Start, Kill, Launcher, Prepare, RefusePrepare, StartChild,
             Activated, ActivationFails, ReadSource, Truncate, WriteContents, CopyFails, ExecRuntime,
             Child, ChildOpens, ChildWrites, GoTo
        <5> QED
          BY <1>0, <3>3, <5>1 DEF Behind
      <4> QED
        BY <4>1, <4>2
    <3> QED
      BY <1>2, <3>1, <3>2, <3>3
  <2> QED
    BY <2>3, <2>4, <2>5
<1>4. ASSUME NEW p \in Launchers, Stop(p)
      PROVE  TornByOrphan(f)' \/ \E q \in Launchers : Behind(q, f)'
  <2>1. pc'[p] = "idle"
    BY <1>4 DEF Stop, GoTo
  <2> QED
    BY <2>1 DEF Behind
<1>5. ASSUME NEW p \in Launchers, NEW g \in StateFiles, Edit(p, g)
      PROVE  TornByOrphan(f)' \/ \E q \in Launchers : Behind(q, f)'
  <2>1. file[f] = Partial
    BY <1>0, <1>1, <1>5 DEF Edit
  <2>2. TornByOrphan(f)' = TornByOrphan(f) /\ \A q \in Launchers : Behind(q, f)' = Behind(q, f)
    BY <1>0, <1>5 DEF Edit, TornByOrphan, Behind
  <2> QED
    BY <1>2, <2>1, <2>2
<1>6. CASE Orphan
  <2>1. \A q \in Launchers : Behind(q, f)' = Behind(q, f)
    BY <1>0, <1>6 DEF Orphan, OrphanOpens, OrphanWrites, OrphanFails, Behind
  <2>0. orphans' \in [OrphanStates -> Nat]
    BY LaunchTyped
  <2>2. CASE OrphanOpens
    <3>1. orphans'["opened"] = orphans["opened"] + 1 /\ orphans'["failed"] = orphans["failed"]
      BY <2>2 DEF OrphanOpens, OrphanStates
    <3>2. CASE f = ModuleConf
      BY <3>1, <3>2 DEF TornByOrphan, OrphanStates
    <3>3. CASE f # ModuleConf
      BY <1>1, <1>2, <2>1, <2>2, <3>3 DEF OrphanOpens, TornByOrphan
    <3> QED
      BY <3>2, <3>3
  <2>3. CASE OrphanWrites
    <3>1. f # ModuleConf
      BY <1>0, <1>1, <2>3 DEF OrphanWrites
    <3> QED
      BY <1>1, <1>2, <2>1, <2>3, <3>1 DEF OrphanWrites, TornByOrphan
  <2>4. CASE OrphanFails
    <3>1. orphans'["opened"] + orphans'["failed"] = orphans["opened"] + orphans["failed"]
      BY <2>4 DEF OrphanFails, OrphanStates
    <3>2. TornByOrphan(f) => TornByOrphan(f)'
      BY <3>1 DEF TornByOrphan
    <3> QED
      BY <1>2, <2>1, <2>4, <3>2 DEF OrphanFails
  <2> QED
    BY <1>6, <2>2, <2>3, <2>4 DEF Orphan
<1>7. CASE UNCHANGED vars
  BY <1>2, <1>7 DEF vars, TornByOrphan, Behind, Destinations
<1> QED
  BY <1>3, <1>4, <1>5, <1>6, <1>7 DEF Next

(***************************************************************************)
(* A launch that has the activation root to itself.                        *)
(***************************************************************************)

Launching(p) == pc[p] \in {"prepare", "activate", "read", "truncate", "write"}
Alone(p) == Launching(p) /\ ~shared[p]
Writing(p, f) == pc[p] = "write" /\ Copy(p).destination = f

\* Nothing runs beside it: no launcher, no runtime, no orphan.
NobodyElse ==
  \A p \in Launchers : Alone(p) => ~AtWork /\ \A q \in Launchers \ {p} : ~Busy(q)

\* Only what a launch writes is ever torn, and an orphan comes from an activation.
TornIsWritten ==
  /\ \A f \in Files : file[f] = Partial => f \in Written
  /\ AtWork => config.activation

\* What fipsinstall wrote stands until a copy goes over it.
ModuleStands ==
  \A p \in Launchers :
    /\ Alone(p) /\ child[p] = "done" /\ config.activation
    /\ \A i \in DOMAIN config.copies : i < index[p] => config.copies[i].destination # ModuleConf
    /\ ~Writing(p, ModuleConf)
    => file[ModuleConf] = "module"

\* Copy i is the latest one to its destination that is done.
Copied(p, i) ==
  /\ pc[p] \in {"read", "truncate", "write"}
  /\ i < index[p] /\ ~Writing(p, config.copies[i].destination)
  /\ \A j \in DOMAIN config.copies :
       j < index[p] /\ config.copies[j].destination = config.copies[i].destination => j <= i

\* What was copied stands, and what is about to be written is what it should be.
CopiesStand ==
  \A p \in Launchers : Alone(p) =>
    /\ \A i \in DOMAIN config.copies : Copied(p, i) => Landed(i, file[config.copies[i].destination])
    /\ pc[p] \in {"truncate", "write"} => Landed(index[p], buffer[p])

\* A launch that copies the file its own activation generates does not get far.
GeneratedUnread ==
  (\E i \in DOMAIN config.copies : config.copies[i].source = ModuleConf) =>
    /\ file[ModuleConf] = Absent
    /\ \A p \in Launchers : pc[p] \in {"idle", "prepare", "exit78"}
    /\ orphans["started"] = 0 /\ orphans["opened"] = 0

ExecInv == NobodyElse /\ TornIsWritten /\ ModuleStands /\ CopiesStand /\ GeneratedUnread

\* A non-empty set of numbers up to n has a largest one.
LEMMA LargestIndex ==
  ASSUME NEW n \in Nat, NEW S, S \subseteq 1..n, S # {}
  PROVE  \E m \in S : \A k \in S : k <= m
<1> DEFINE T == {n - k : k \in S}
<1>1. T \subseteq Nat /\ T # {}
  <2>1. \A k \in S : n - k \in Nat
    OBVIOUS
  <2> QED
    BY <2>1
<1>2. \E x \in T : \A y \in T : ~(<<y, x>> \in OpToRel(<, Nat))
  BY <1>1, NatLessThanWellFounded, WFMin, Zenon
<1>3. PICK x \in T : \A y \in T : ~(y < x)
  BY <1>1, <1>2, Zenon DEF OpToRel
<1>4. PICK m \in S : x = n - m
  BY <1>3
<1>5. ASSUME NEW k \in S PROVE k <= m
  <2>1. ~(n - k < n - m)
    BY <1>3, <1>4
  <2>2. k \in 1..n /\ m \in 1..n
    BY <1>4
  <2> QED
    BY <2>1, <2>2
<1> QED
  BY <1>5

\* Initially nobody is launching.
LEMMA ExecInit == Init => ExecInv
<1> SUFFICES ASSUME Init PROVE ExecInv
  OBVIOUS
<1>1. \A p \in Launchers : pc[p] = "idle" /\ ~Alone(p)
  BY DEF Init, Alone, Launching
<1>2. TypeOK /\ \A f \in Files : file[f] # Partial
  <2>1. \A f \in Files : file[f] \in {"release", "edited", Absent}
    BY DEF Init
  <2> QED
    BY <2>1, LaunchInit, PackagedLaunchAssumption
<1>3. orphans["started"] = 0 /\ orphans["opened"] = 0
  BY DEF Init, OrphanStates
<1>4. file[ModuleConf] = Absent
  BY PackagedLaunchAssumption DEF Init, Files, RootFiles
<1> QED
  BY <1>1, <1>2, <1>3, <1>4 DEF ExecInv, NobodyElse, TornIsWritten, ModuleStands, CopiesStand,
     GeneratedUnread, AtWork

\* A launch that is alone after a step has just begun, or made the step itself.
LEMMA AloneMoves ==
  ASSUME TypeOK, Ordered, NobodyElse, [Next]_vars, NEW p \in Launchers, Alone(p)'
  PROVE  \/ Start(p) /\ ~AtWork /\ \A q \in Launchers \ {p} : ~Busy(q)
         \/ Alone(p) /\ (Launcher(p) \/ Child(p) \/ UNCHANGED vars)
<1> USE DEF TypeOK, Alone, Launching, GoTo, At
<1>1. ASSUME Start(p) PROVE ~AtWork /\ \A q \in Launchers \ {p} : ~Busy(q)
  BY <1>1 DEF Start
<1>2. ASSUME NEW q \in Launchers, q # p, Start(q) PROVE FALSE
  <2>1. pc'[p] = pc[p] /\ shared'[p] = (shared[p] \/ Busy(p))
    BY <1>2 DEF Start
  <2> QED
    BY <2>1 DEF Busy
<1>3. ASSUME ~ \E q \in Launchers : Start(q) PROVE shared' = shared
  BY <1>3 DEF Next, vars, Launcher, Kill, Stop, Prepare, RefusePrepare, StartChild, Activated,
     ActivationFails, ReadSource, Truncate, WriteContents, CopyFails, ExecRuntime, Child, ChildOpens,
     ChildWrites, Edit, Orphan, OrphanOpens, OrphanWrites, OrphanFails
<1>4. ASSUME Launcher(p) \/ Child(p) \/ UNCHANGED vars PROVE Alone(p)
  <2>1. shared'[p] = shared[p]
    BY <1>4 DEF vars, Launcher, Prepare, RefusePrepare, StartChild, Activated,
       ActivationFails, ReadSource, Truncate, WriteContents, CopyFails, ExecRuntime, Child, ChildOpens,
       ChildWrites
  <2>2. Launching(p)
    BY <1>4 DEF vars, Launcher, Prepare, RefusePrepare, StartChild, Activated,
       ActivationFails, ReadSource, Truncate, WriteContents, CopyFails, ExecRuntime, Child, ChildOpens,
       ChildWrites
  <2> QED
    BY <2>1, <2>2
<1>5. ASSUME Kill(p) \/ Stop(p) \/ \E f \in StateFiles : Edit(p, f) PROVE FALSE
  BY <1>5 DEF Kill, Stop, Edit
<1>6. ASSUME NEW q \in Launchers, q # p,
             Launcher(q) \/ Child(q) \/ Kill(q) \/ Stop(q) \/ \E f \in StateFiles : Edit(q, f)
      PROVE  FALSE
  <2>1. Busy(q)
    BY <1>6 DEF Busy, Launcher, Kill, Stop, Prepare, RefusePrepare, StartChild, Activated,
       ActivationFails, ReadSource, Truncate, WriteContents, CopyFails, ExecRuntime, Child, ChildOpens,
       ChildWrites, Edit, Ordered
  <2>2. pc'[p] = pc[p] /\ shared'[p] = shared[p]
    BY <1>6 DEF Launcher, Kill, Stop, Prepare, RefusePrepare, StartChild, Activated,
       ActivationFails, ReadSource, Truncate, WriteContents, CopyFails, ExecRuntime, Child, ChildOpens,
       ChildWrites, Edit
  <2> QED
    BY <1>6, <2>1, <2>2 DEF NobodyElse
<1>7. ASSUME Orphan PROVE FALSE
  <2>1. AtWork
    BY <1>7 DEF Orphan, OrphanOpens, OrphanWrites, OrphanFails, AtWork, OrphanStates
  <2>2. Alone(p)
    BY <1>7 DEF Orphan, OrphanOpens, OrphanWrites, OrphanFails
  <2> QED
    BY <2>1, <2>2 DEF NobodyElse
<1> QED
  BY <1>1, <1>2, <1>4, <1>5, <1>6, <1>7 DEF Next

\* Every step keeps others away from a launch that is alone.
LEMMA NobodyElseStep == TypeOK /\ Ordered /\ NobodyElse /\ [Next]_vars => NobodyElse'
<1> SUFFICES ASSUME TypeOK, Ordered, NobodyElse, [Next]_vars, NEW p \in Launchers, Alone(p)'
             PROVE  ~AtWork' /\ \A q \in Launchers \ {p} : ~Busy(q)'
  BY DEF NobodyElse
<1>1. ~AtWork /\ \A q \in Launchers \ {p} : ~Busy(q)
  BY AloneMoves DEF NobodyElse
<1>2. /\ orphans' = orphans
      /\ \A q \in Launchers \ {p} : pc'[q] = pc[q]
  BY AloneMoves DEF TypeOK, GoTo, vars, Start, Launcher, Prepare, RefusePrepare, StartChild, Activated,
     ActivationFails, ReadSource, Truncate, WriteContents, CopyFails, ExecRuntime, Child, ChildOpens,
     ChildWrites
<1> QED
  BY <1>1, <1>2 DEF AtWork, Busy

\* Every step tears only what a launch writes.
LEMMA TornIsWrittenStep == TypeOK /\ Ordered /\ TornIsWritten /\ [Next]_vars => TornIsWritten'
<1> SUFFICES ASSUME TypeOK, Ordered, TornIsWritten, [Next]_vars PROVE TornIsWritten'
  OBVIOUS
<1> USE DEF TypeOK
<1>0. config' = config /\ Written' = Written
  BY ConfigUnchanged
<1>1. ASSUME AtWork' PROVE config.activation
  <2>1. ASSUME NEW p \in Launchers, Kill(p), child[p] \in {"started", "opened"} PROVE config.activation
    BY <2>1 DEF Ordered
  <2>2. CASE AtWork
    BY <2>2 DEF TornIsWritten
  <2>3. CASE Orphan
    <3>1. AtWork
      BY <2>3 DEF Orphan, OrphanOpens, OrphanWrites, OrphanFails, AtWork, OrphanStates
    <3> QED
      BY <3>1 DEF TornIsWritten
  <2>4. CASE orphans' = orphans
    BY <1>1, <2>2, <2>4 DEF AtWork
  <2> QED
    BY <2>1, <2>3, <2>4 DEF Next, vars, Launcher, Start, Kill, Stop, Prepare, RefusePrepare, StartChild,
       Activated, ActivationFails, ReadSource, Truncate, WriteContents, CopyFails, ExecRuntime, Child,
       ChildOpens, ChildWrites, Edit
<1>2. ASSUME NEW f \in Files, file'[f] = Partial, file[f] # Partial PROVE f \in Written
  <2>0. Partial # "module" /\ Partial # "edited"
    BY PackagedLaunchAssumption
  <2>1. ASSUME NEW p \in Launchers, Truncate(p) \/ WriteContents(p) PROVE f \in Written
    <3>1. index[p] \in DOMAIN config.copies /\ f = Copy(p).destination
      BY <1>2, <2>1, DestinationChecked DEF Truncate, WriteContents, At
    <3> QED
      BY <3>1 DEF Written, Destinations, Copy
  <2>2. ASSUME NEW p \in Launchers, Child(p) PROVE f \in Written
    <3>1. f = ModuleConf
      BY <1>2, <2>2 DEF Child, ChildOpens, ChildWrites
    <3>2. config.activation
      BY <2>2 DEF Child, ChildOpens, ChildWrites, Ordered
    <3> QED
      BY <3>1, <3>2 DEF Written
  <2>3. ASSUME Orphan PROVE f \in Written
    <3>1. f = ModuleConf
      BY <1>2, <2>3 DEF Orphan, OrphanOpens, OrphanWrites, OrphanFails
    <3>2. AtWork
      BY <2>3 DEF Orphan, OrphanOpens, OrphanWrites, OrphanFails, AtWork, OrphanStates
    <3> QED
      BY <3>1, <3>2 DEF Written, TornIsWritten
  <2>4. ASSUME NEW p \in Launchers, NEW g \in StateFiles, Edit(p, g) PROVE FALSE
    BY <1>2, <2>0, <2>4 DEF Edit
  <2>5. file' # file
    BY <1>2
  <2> QED
    BY <2>1, <2>2, <2>3, <2>4, <2>5 DEF Next, vars, Launcher, Start, Kill, Stop, Prepare, RefusePrepare,
       StartChild, Activated, ActivationFails, ReadSource, CopyFails, ExecRuntime
<1> QED
  BY <1>0, <1>1, <1>2 DEF TornIsWritten

\* Every step leaves what fipsinstall wrote, or goes over it by a copy.
LEMMA ModuleStandsStep ==
  TypeOK /\ Ordered /\ NobodyElse /\ ModuleStands /\ [Next]_vars => ModuleStands'
<1> SUFFICES ASSUME TypeOK, Ordered, NobodyElse, ModuleStands, [Next]_vars,
                    NEW p \in Launchers, Alone(p)', child'[p] = "done", config.activation,
                    \A i \in DOMAIN config.copies :
                      i < index'[p] => config.copies[i].destination # ModuleConf,
                    ~Writing(p, ModuleConf)'
             PROVE  file'[ModuleConf] = "module"
  BY ConfigUnchanged DEF ModuleStands
<1> USE DEF TypeOK, GoTo, At
<1>0. /\ config' = config /\ ModuleConf \in Files
      /\ Len(config.copies) \in Nat /\ DOMAIN config.copies = 1..Len(config.copies)
      /\ index \in [Launchers -> 1..(Len(config.copies) + 1)]
  BY ConfigUnchanged, ConfigTyped DEF Files, RootFiles
<1>1. CASE Start(p)
  BY <1>1 DEF Start
<1>2. ASSUME Alone(p), child[p] = "done",
             \A i \in DOMAIN config.copies : i < index[p] => config.copies[i].destination # ModuleConf,
             ~Writing(p, ModuleConf)
      PROVE  file[ModuleConf] = "module"
  BY <1>2 DEF ModuleStands
<1>3. CASE Alone(p) /\ Launcher(p)
  <2>1. CASE Prepare(p) \/ StartChild(p)
    BY <2>1 DEF Prepare, StartChild, Ordered
  <2>2. CASE RefusePrepare(p) \/ ActivationFails(p) \/ CopyFails(p) \/ ExecRuntime(p)
    BY <2>2 DEF RefusePrepare, ActivationFails, CopyFails, ExecRuntime, Alone, Launching
  <2>3. CASE Activated(p) \/ ReadSource(p)
    BY <1>2, <1>3, <2>3 DEF Activated, ReadSource, Writing
  <2>4. CASE Truncate(p)
    <3>1. Copy(p).destination # ModuleConf
      BY <1>0, <2>4 DEF Truncate, Writing, Copy
    <3> QED
      BY <1>0, <1>2, <1>3, <2>4, <3>1 DEF Truncate, Writing
  <2>5. CASE WriteContents(p)
    <3>1. index[p] \in DOMAIN config.copies /\ index'[p] = index[p] + 1
      BY <1>0, <2>5, DestinationChecked DEF WriteContents
    <3>2. Copy(p).destination # ModuleConf
      BY <1>0, <3>1 DEF Copy
    <3>3. \A i \in DOMAIN config.copies : i < index[p] => config.copies[i].destination # ModuleConf
      BY <1>0, <3>1
    <3>4. file'[ModuleConf] = file[ModuleConf] /\ child' = child
      BY <1>0, <2>5, <3>2 DEF WriteContents
    <3> QED
      BY <1>2, <1>3, <3>2, <3>3, <3>4 DEF Writing
  <2> QED
    BY <1>3, <2>1, <2>2, <2>3, <2>4, <2>5 DEF Launcher
<1>4. CASE Child(p)
  BY <1>0, <1>4 DEF Child, ChildOpens, ChildWrites
<1>5. CASE Alone(p) /\ UNCHANGED vars
  BY <1>2, <1>5 DEF vars, Writing, Copy
<1> QED
  BY <1>1, <1>3, <1>4, <1>5, AloneMoves

\* A launch that is alone and whose copies read nothing that is written later
\* reads a whole file.
LEMMA SourceWhole ==
  ASSUME TypeOK, TornIsWritten, CopiesStand, GeneratedUnread, ReadsSettled,
         NEW p \in Launchers, Alone(p), ReadSource(p)
  PROVE  file[Copy(p).source] # Partial
<1> DEFINE k == index[p]
           s == Copy(p).source
           before == {j \in DOMAIN config.copies : config.copies[j].destination = s}
<1> SUFFICES ASSUME file[s] = Partial PROVE FALSE
  OBVIOUS
<1>0. /\ Len(config.copies) \in Nat /\ DOMAIN config.copies = 1..Len(config.copies)
      /\ \A i \in DOMAIN config.copies : config.copies[i].source \in Files
      /\ pc[p] = "read"
  BY ConfigTyped DEF TypeOK, ReadSource, At
<1>1. k \in DOMAIN config.copies /\ k \in Nat
  BY <1>0 DEF TypeOK, ReadSource, AllCopied
<1>2. s \in Written
  BY <1>0, <1>1 DEF TornIsWritten, Copy
<1>3. s # ModuleConf
  BY <1>0, <1>1 DEF GeneratedUnread, Copy
<1>4. before # {} /\ before \subseteq 1..Len(config.copies)
  BY <1>0, <1>2, <1>3 DEF Written, Destinations
<1>5. \A j \in before : j < k
  BY <1>1 DEF ReadsSettled, Copy
<1> HIDE DEF before
<1>6. PICK m \in before : \A j \in before : j <= m
  BY <1>0, <1>4, LargestIndex
<1>7. m \in DOMAIN config.copies /\ config.copies[m].destination = s
  BY <1>6 DEF before
<1>8. Copied(p, m)
  <2>1. \A j \in DOMAIN config.copies : config.copies[j].destination = s => j <= m
    BY <1>6 DEF before
  <2> QED
    BY <1>0, <1>5, <1>6, <1>7, <2>1 DEF Copied, Writing
<1>9. Landed(m, file[s])
  BY <1>7, <1>8 DEF CopiesStand
<1> QED
  BY <1>9, PackagedLaunchAssumption DEF Landed

\* Every step keeps what is copied, and copies what it should.
LEMMA CopiesStandStep ==
  TypeOK /\ Ordered /\ ReleaseIntact /\ ExecInv /\ [Next]_vars => CopiesStand'
<1> SUFFICES ASSUME TypeOK, Ordered, ReleaseIntact, ExecInv, [Next]_vars,
                    NEW p \in Launchers, Alone(p)'
             PROVE  /\ \A i \in DOMAIN config.copies :
                         Copied(p, i)' => Landed(i, file[config.copies[i].destination])'
                    /\ pc'[p] \in {"truncate", "write"} => Landed(index[p], buffer[p])'
  BY ConfigUnchanged DEF CopiesStand
<1> USE DEF TypeOK, GoTo, At
<1>0. /\ config' = config /\ ReadsSettled' = ReadsSettled /\ Untouched' = Untouched
      /\ Len(config.copies) \in Nat /\ DOMAIN config.copies = 1..Len(config.copies)
      /\ index \in [Launchers -> 1..(Len(config.copies) + 1)]
      /\ \A i \in DOMAIN config.copies : config.copies[i].destination \in Files
  BY ConfigUnchanged, ConfigTyped DEF ReadsSettled
<1>1. CASE Start(p) \/ Child(p) \/ Prepare(p) \/ StartChild(p) \/ Activated(p)
  <2>1. pc'[p] \notin {"truncate", "write"} /\ \A i \in DOMAIN config.copies : ~Copied(p, i)'
    BY <1>0, <1>1 DEF Start, Child, ChildOpens, ChildWrites, Prepare, StartChild, Activated, Ordered, Copied
  <2> QED
    BY <2>1
<1>2. CASE RefusePrepare(p) \/ ActivationFails(p) \/ CopyFails(p) \/ ExecRuntime(p)
  BY <1>2 DEF RefusePrepare, ActivationFails, CopyFails, ExecRuntime, Alone, Launching
<1>3. CASE Alone(p) /\ ReadSource(p)
  <2>1. ASSUME NEW i \in DOMAIN config.copies, Copied(p, i)'
        PROVE  Landed(i, file[config.copies[i].destination])'
    <3>1. Copied(p, i)
      BY <1>0, <1>3, <2>1 DEF ReadSource, Copied, Writing
    <3>2. Landed(i, file[config.copies[i].destination])
      BY <1>3, <3>1 DEF ExecInv, CopiesStand
    <3> QED
      BY <1>0, <1>3, <3>2 DEF ReadSource, Landed
  <2>2. Landed(index[p], buffer[p])'
    <3>1. index[p] \in DOMAIN config.copies /\ index' = index /\ buffer'[p] = file[Copy(p).source]
      BY <1>0, <1>3 DEF ReadSource, AllCopied
    <3>2. Copy(p).source \in Untouched => file[Copy(p).source] = "release"
      BY DEF ReleaseIntact
    <3>3. ReadsSettled => file[Copy(p).source] # Partial
      BY <1>3, SourceWhole DEF ExecInv
    <3> QED
      BY <1>0, <3>1, <3>2, <3>3 DEF Landed, Copy
  <2> QED
    BY <2>1, <2>2
<1>4. CASE Alone(p) /\ Truncate(p)
  <2>1. ASSUME NEW i \in DOMAIN config.copies, Copied(p, i)'
        PROVE  Landed(i, file[config.copies[i].destination])'
    <3>1. config.copies[i].destination # Copy(p).destination
      BY <1>0, <1>4, <2>1 DEF Truncate, Copied, Writing, Copy
    <3>2. Copied(p, i)
      BY <1>0, <1>4, <2>1 DEF Truncate, Copied, Writing
    <3>3. Landed(i, file[config.copies[i].destination])
      BY <1>4, <3>2 DEF ExecInv, CopiesStand
    <3>4. file'[config.copies[i].destination] = file[config.copies[i].destination]
      BY <1>0, <1>4, <3>1 DEF Truncate
    <3> QED
      BY <1>0, <3>3, <3>4 DEF Landed
  <2>2. Landed(index[p], buffer[p])
    BY <1>4 DEF Truncate, ExecInv, CopiesStand
  <2>3. Landed(index[p], buffer[p])'
    BY <1>0, <1>4, <2>2 DEF Truncate, Landed
  <2> QED
    BY <2>1, <2>3
<1>5. CASE Alone(p) /\ WriteContents(p)
  <2>1. index[p] \in DOMAIN config.copies /\ index'[p] = index[p] + 1 /\ pc'[p] = "read"
    BY <1>0, <1>5, DestinationChecked DEF WriteContents
  <2>2. /\ index[p] \in Nat /\ index[p] < index[p] + 1
        /\ \A j \in DOMAIN config.copies : j \in Nat /\ (j < index[p] => j < index[p] + 1)
    BY <1>0, <2>1
  <2>3. ASSUME NEW i \in DOMAIN config.copies, Copied(p, i)'
        PROVE  Landed(i, file[config.copies[i].destination])'
    <3>1. i < index[p] + 1
          /\ \A j \in DOMAIN config.copies : j < index[p] + 1
               /\ config.copies[j].destination = config.copies[i].destination => j <= i
      BY <1>0, <2>1, <2>3 DEF Copied
    <3>2. CASE config.copies[i].destination = Copy(p).destination
      <4>1. i = index[p]
        <5>1. index[p] <= i
          BY <2>1, <2>2, <3>1, <3>2 DEF Copy
        <5> QED
          BY <2>2, <3>1, <5>1
      <4>2. file'[config.copies[i].destination] = buffer[p]
        BY <1>0, <1>5, <3>2 DEF WriteContents
      <4>3. Landed(index[p], buffer[p])
        BY <1>5 DEF WriteContents, ExecInv, CopiesStand
      <4> QED
        BY <1>0, <4>1, <4>2, <4>3 DEF Landed
    <3>3. CASE config.copies[i].destination # Copy(p).destination
      <4>1. i < index[p]
        BY <1>0, <2>1, <3>1, <3>3 DEF Copy
      <4>2. \A j \in DOMAIN config.copies : j < index[p]
               /\ config.copies[j].destination = config.copies[i].destination => j <= i
        BY <2>2, <3>1
      <4>3. Copied(p, i)
        BY <1>5, <3>3, <4>1, <4>2 DEF WriteContents, Copied, Writing
      <4>4. Landed(i, file[config.copies[i].destination])
        BY <1>5, <4>3 DEF ExecInv, CopiesStand
      <4>5. file'[config.copies[i].destination] = file[config.copies[i].destination]
        BY <1>0, <1>5, <3>3 DEF WriteContents
      <4> QED
        BY <1>0, <4>4, <4>5 DEF Landed
    <3> QED
      BY <3>2, <3>3
  <2> QED
    BY <2>1, <2>3
<1>6. CASE Alone(p) /\ UNCHANGED vars
  <2>1. \A i \in DOMAIN config.copies : Copied(p, i)' = Copied(p, i)
    BY <1>6 DEF vars, Copied, Writing, Copy
  <2>2. \A i \in DOMAIN config.copies : Copied(p, i) => Landed(i, file[config.copies[i].destination])
    BY <1>6 DEF ExecInv, CopiesStand
  <2>3. pc[p] \in {"truncate", "write"} => Landed(index[p], buffer[p])
    BY <1>6 DEF ExecInv, CopiesStand
  <2> QED
    BY <1>0, <1>6, <2>1, <2>2, <2>3 DEF vars, Landed
<1> QED
  BY <1>1, <1>2, <1>3, <1>4, <1>5, <1>6, AloneMoves DEF Launcher, ExecInv

\* Every step keeps a launch that copies its generated file from its activation.
LEMMA GeneratedUnreadStep == TypeOK /\ Ordered /\ GeneratedUnread /\ [Next]_vars => GeneratedUnread'
<1> DEFINE Generated == \E i \in DOMAIN config.copies : config.copies[i].source = ModuleConf
           Unstarted == /\ file[ModuleConf] = Absent
                        /\ \A p \in Launchers : pc[p] \in {"idle", "prepare", "exit78"}
                        /\ orphans["started"] = 0 /\ orphans["opened"] = 0
<1> SUFFICES ASSUME TypeOK, Ordered, Unstarted, Generated, [Next]_vars PROVE Unstarted'
  BY ConfigUnchanged DEF GeneratedUnread
<1> USE DEF TypeOK, GoTo, At
<1>1. ASSUME NEW p \in Launchers PROVE child[p] \notin {"started", "opened"} /\ ~Prepare(p)
  BY <1>1 DEF Ordered, Prepare, SourcesRegular
<1>2. ASSUME NEW p \in Launchers, Start(p) \/ Launcher(p) \/ Child(p) \/ Kill(p) \/ Stop(p)
      PROVE  Unstarted'
  BY <1>1, <1>2 DEF Start, Launcher, RefusePrepare, StartChild, Activated, ActivationFails,
     ReadSource, Truncate, WriteContents, CopyFails, ExecRuntime, Child, ChildOpens, ChildWrites,
     Kill, Stop
<1>3. ASSUME NEW p \in Launchers, NEW f \in StateFiles, Edit(p, f) PROVE Unstarted'
  BY <1>3 DEF Edit
<1>4. ~Orphan
  BY DEF Orphan, OrphanOpens, OrphanWrites, OrphanFails
<1>5. CASE UNCHANGED vars
  BY <1>5 DEF vars
<1> QED
  BY <1>2, <1>3, <1>4, <1>5 DEF Next

(***************************************************************************)
(* Theorems.                                                               *)
(***************************************************************************)

\* Every reachable state is well typed and satisfies the invariant: launchers
\* do their steps in order, the release stays intact, and a truncated file
\* always has a launcher that writes it again before it runs.
THEOREM LaunchInvariant == Spec => [](TypeOK /\ LaunchInv)
<1>1. Init => TypeOK /\ LaunchInv
  BY LaunchInit
<1>2. TypeOK /\ LaunchInv /\ [Next]_vars => (TypeOK /\ LaunchInv)'
  BY LaunchTyped, OrderedStep, IntactStep, TornStep DEF LaunchInv
<1> QED
  BY <1>1, <1>2, PTL DEF Spec

\* Overlapping launches, kills and restarts leave no file truncated once every
\* launcher has reached its runtime, but for a module configuration torn by a
\* killed launcher's child.
THEOREM NothingLeftTorn == Spec => []SettledComplete
<1>1. TypeOK /\ LaunchInv => SettledComplete
  <2> SUFFICES ASSUME TornHasWriter, SourcesImmutable, \A p \in Launchers : At(p, "running"),
                      NEW f \in Written, file[f] = Partial
               PROVE  TornByOrphan(f)
    BY DEF SettledComplete, LaunchInv
  <2>1. \A p \in Launchers : ~Behind(p, f)
    BY DEF Behind, At
  <2> QED
    BY <2>1 DEF TornHasWriter
<1> QED
  BY <1>1, LaunchInvariant, PTL

\* Files, processes and counters have the types they are read with.
THEOREM TypeCorrect == Spec => []TypeOK
<1> QED
  BY LaunchInvariant, PTL

\* A runtime runs only on an activation that was waited for and succeeded.
THEOREM ActivationPrecedes == Spec => []ActivatedBeforeRunning
<1>1. TypeOK /\ LaunchInv => ActivatedBeforeRunning
  BY DEF LaunchInv, Ordered, ActivatedBeforeRunning, At
<1> QED
  BY <1>1, LaunchInvariant, PTL

\* No step writes a file outside the activation root, but where a link below the
\* root leads a copy there and the paths of all destinations are below the root.
THEOREM WritesStayInRoot == Spec => OnlyRootWritten
<1>1. TypeOK /\ LaunchInv /\ [Next]_vars =>
        [\A f \in Files \ RootFiles :
           file'[f] # file[f] => DestinationsWithin /\ f \in Destinations]_vars
  BY RootWritten DEF LaunchInv
<1> QED
  BY <1>1, LaunchInvariant, PTL DEF OnlyRootWritten, Spec

\* What a launch that is alone has done so far stands.
LEMMA ExecInvariant == Spec => []ExecInv
<1>1. TypeOK /\ LaunchInv /\ ExecInv /\ [Next]_vars => ExecInv'
  BY NobodyElseStep, TornIsWrittenStep, ModuleStandsStep, CopiesStandStep, GeneratedUnreadStep
     DEF ExecInv, LaunchInv
<1> QED
  BY <1>1, ExecInit, LaunchInvariant, PTL DEF Spec

\* A launch that copies the file its own activation generates never starts.
THEOREM GeneratedNeverBoots == Spec => []GeneratedSourceNeverBoots
<1>1. ExecInv => GeneratedSourceNeverBoots
  BY DEF ExecInv, GeneratedUnread, GeneratedSourceNeverBoots, At
<1> QED
  BY <1>1, ExecInvariant, PTL

\* A launch that had the activation root to itself runs on the state that its
\* configuration asks for, whatever was killed, edited or left there before.
THEOREM StateCompleteAtExec == Spec => CompleteAtExec
<1>1. TypeOK /\ LaunchInv /\ ExecInv /\ [Next]_vars =>
        [\A p \in Launchers :
           At(p, "read") /\ pc'[p] = "running" /\ ~shared[p] => \A f \in Written : AsConfigured(f)]_vars
  <2> SUFFICES ASSUME TypeOK, LaunchInv, ExecInv, Next, NEW p \in Launchers,
                      At(p, "read"), pc'[p] = "running", ~shared[p], NEW f \in Written
               PROVE  AsConfigured(f)
    OBVIOUS
  <2> DEFINE writers == {i \in DOMAIN config.copies : config.copies[i].destination = f}
             last == CHOOSE i \in writers : \A j \in writers : j <= i
  <2>0. /\ Len(config.copies) \in Nat /\ DOMAIN config.copies = 1..Len(config.copies)
        /\ Alone(p) /\ pc[p] = "read"
    BY ConfigTyped DEF TypeOK, Alone, Launching, At
  <2>1. index[p] > Len(config.copies) /\ index[p] \in Nat
    <3> USE DEF TypeOK, At, GoTo
    <3>1. ASSUME NEW q \in Launchers, Start(q) \/ Child(q) \/ Kill(q) \/ Stop(q) PROVE FALSE
      BY <2>0, <3>1 DEF Start, Child, ChildOpens, ChildWrites, Kill, Stop
    <3>2. ASSUME NEW q \in Launchers, NEW g \in StateFiles, Edit(q, g) PROVE FALSE
      BY <2>0, <3>2 DEF Edit
    <3>3. ~Orphan
      BY <2>0 DEF Orphan, OrphanOpens, OrphanWrites, OrphanFails
    <3>4. PICK q \in Launchers : Launcher(q)
      BY <3>1, <3>2, <3>3 DEF Next
    <3>5. q = p /\ ExecRuntime(p)
      BY <2>0, <3>4 DEF Launcher, Prepare, RefusePrepare, StartChild, Activated, ActivationFails,
         ReadSource, Truncate, WriteContents, CopyFails, ExecRuntime
    <3> QED
      BY <2>0, <3>5 DEF ExecRuntime, AllCopied, TypeOK
  <2>2. CASE writers = {}
    <3>1. f = ModuleConf /\ config.activation
      BY <2>2 DEF Written, Destinations
    <3>2. child[p] = "done"
      BY <2>0, <3>1 DEF LaunchInv, Ordered
    <3>3. file[ModuleConf] = "module"
      BY <2>0, <2>2, <3>1, <3>2 DEF ExecInv, ModuleStands, Writing
    <3> QED
      BY <2>2, <3>1, <3>3 DEF AsConfigured
  <2>3. CASE writers # {}
    <3>1. \E i \in writers : \A j \in writers : j <= i
      <4>1. writers \subseteq 1..Len(config.copies)
        BY <2>0
      <4> HIDE DEF writers
      <4> QED
        BY <2>0, <2>3, <4>1, LargestIndex
    <3>2. last \in writers /\ \A j \in writers : j <= last
      BY <3>1, Zenon
    <3>3. /\ last \in DOMAIN config.copies /\ config.copies[last].destination = f
          /\ \A j \in DOMAIN config.copies : config.copies[j].destination = f => j <= last
      BY <3>2
    <3> HIDE DEF last
    <3>4. last < index[p]
      BY <2>0, <2>1, <3>3
    <3>5. Copied(p, last)
      BY <2>0, <3>3, <3>4 DEF Copied, Writing
    <3>6. Landed(last, file[f])
      BY <2>0, <3>3, <3>5 DEF ExecInv, CopiesStand
    <3> QED
      BY <2>3, <3>6 DEF AsConfigured, last
  <2> QED
    BY <2>2, <2>3
<1> QED
  BY <1>1, LaunchInvariant, ExecInvariant, PTL DEF CompleteAtExec, Spec
=============================================================================
