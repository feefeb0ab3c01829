------------------------- MODULE ForeignBuild_proofs -------------------------
(***************************************************************************)
(* Theorems about foreign builds, for any configurations, destinations and *)
(* number of runs.                                                         *)
(***************************************************************************)
EXTENDS ForeignBuild, TLAPS

-----------------------------------------------------------------------------
(* The inductive invariant.                                                *)

\* Types the provers need: TypeOK without its bounds.
DriverTyped ==
  /\ config \in Configs
  /\ next \in Nat \ {0}
  /\ runs \in Nat /\ (pc # "idle" => runs > 0)
  /\ staged \in [DOMAIN config.entries -> Nat]
  /\ out \in [Paths -> [kind : Kinds, built : Nat, whole : BOOLEAN] \cup {Absent}]
  /\ errors # {} => pc \in {"clean", "exit", "killed"}
  /\ \A p \in Paths : out[p] # Absent /\ out[p].kind = "dir" => out[p].whole

\* The entry stands at its destination, as this run installed it.
Placed(i) ==
  LET entry == config.entries[i] IN
  /\ out[entry.path] # Absent
  /\ out[entry.path].kind = entry.kind
  /\ out[entry.path].whole
  /\ Single(i) => out[entry.path].built = runs

\* Only directories share their place with an entry already copied.
Alone(i) ==
  \A j \in DOMAIN config.entries :
    Single(i) /\ j # i /\ j < next => config.entries[j].path # config.entries[i].path

\* What is below the work directory once it was reset is of this run.
StagedNow ==
  pc \in {"make dirs", "configure", "make", "copy", "write"} =>
    \A i \in DOMAIN config.entries : staged[i] \in {0, runs}

\* The entries before the one in hand stand as they are to stand.
CopiedSoFar ==
  pc \in {"copy", "write"} =>
    \A i \in DOMAIN config.entries : i < next => Placed(i) /\ Alone(i)

\* The file in hand is an output of this run, still open.
WritingOne ==
  pc = "write" =>
    /\ next \in DOMAIN config.entries
    /\ Entry.kind = "file"
    /\ staged[next] # 0
    /\ out[Entry.path] = Standing(FALSE)

\* A driver that goes on has resolved its configuration, and one that is
\* about to succeed has delivered everything.
OnItsWay ==
  /\ pc \in {"reset", "make dirs", "configure", "make", "copy", "write"} => Resolves(config)
  /\ pc = "clean" /\ errors = {} =>
       Resolves(config) /\ \A i \in DOMAIN config.entries : Delivered(i)
  /\ Succeeded => config.paths = {"inside"} /\ \A i \in DOMAIN config.entries : Delivered(i)

DriverInv == DriverTyped /\ StagedNow /\ CopiedSoFar /\ WritingOne /\ OnItsWay

-----------------------------------------------------------------------------
\* The elements of a sequence.
LEMMA SequenceElements ==
  ASSUME NEW S, NEW s \in Seq(S)
  PROVE  DOMAIN s = 1..Len(s) /\ Len(s) \in Nat /\ \A i \in DOMAIN s : s[i] \in S
  OBVIOUS

\* The configuration is well formed.
LEMMA ConfigTyped ==
  ASSUME config \in Configs
  PROVE  /\ DOMAIN config.entries = 1..Len(config.entries) /\ Len(config.entries) \in Nat
         /\ DOMAIN config.targets = 1..Len(config.targets) /\ Len(config.targets) \in Nat
         /\ \A i \in DOMAIN config.entries :
              config.entries[i].path \in Paths /\ config.entries[i].kind \in Kinds
<1>1. /\ config.entries \in Seq([path : Paths, kind : Kinds, by : Nat, local : BOOLEAN])
      /\ config.targets \in Seq({"target", ""})
  BY ForeignBuildAssumption
<1>2. DOMAIN config.targets = 1..Len(config.targets) /\ Len(config.targets) \in Nat
  BY <1>1, SequenceElements
<1>3. /\ DOMAIN config.entries = 1..Len(config.entries) /\ Len(config.entries) \in Nat
      /\ \A i \in DOMAIN config.entries :
           config.entries[i] \in [path : Paths, kind : Kinds, by : Nat, local : BOOLEAN]
  BY <1>1, SequenceElements
<1> QED
  BY <1>2, <1>3

\* What is put at a destination.
LEMMA StandingTyped ==
  ASSUME DriverTyped, next \in DOMAIN config.entries, NEW whole \in BOOLEAN
  PROVE  /\ Standing(whole) \in [kind : Kinds, built : Nat, whole : BOOLEAN]
         /\ Standing(whole) # Absent
         /\ Standing(whole).kind = Entry.kind /\ Standing(whole).whole = whole
         /\ Standing(whole).built = staged[next]
<1>1. Entry.kind \in Kinds /\ staged[next] \in Nat
  BY ConfigTyped DEF DriverTyped, Entry
<1>2. Standing(whole) \in [kind : Kinds, built : Nat, whole : BOOLEAN]
  BY <1>1 DEF Standing
<1> QED
  BY <1>2, ForeignBuildAssumption DEF Standing

\* Initially the driver is idle.
LEMMA DriverInit == Init => DriverInv
<1> SUFFICES ASSUME Init PROVE DriverInv
  OBVIOUS
<1>1. DriverTyped
  BY DEF Init, DriverTyped, Nothing
<1> QED
  BY <1>1 DEF Init, DriverInv, StagedNow, CopiedSoFar, WritingOne, OnItsWay, Succeeded

-----------------------------------------------------------------------------
(* What any step does to the outputs.                                      *)

\* A finished output is only ever cleared, and only when a run begins.
LEMMA FinishedStep ==
  ASSUME DriverInv, [Next]_vars, NEW p \in Paths, out[p] # Absent, out[p].whole
  PROVE  out'[p] = out[p] \/ runs' # runs
<1> USE DEF DriverInv, DriverTyped
<1>1. ASSUME NEW cleared \in BOOLEAN, Start(cleared) PROVE runs' # runs
  BY <1>1 DEF Start
<1>2. CASE CopyDirectory
  BY <1>2 DEF CopyDirectory
<1>3. CASE CopySymlink
  BY <1>3 DEF CopySymlink
<1>4. CASE CreateFile
  BY <1>4 DEF CreateFile
<1>5. CASE WriteFile
  <2>1. ~Standing(FALSE).whole
    BY DEF Standing
  <2>2. p # Entry.path
    BY <1>5, <2>1 DEF WriteFile, WritingOne
  <2> QED
    BY <1>5, <2>2 DEF WriteFile
<1>6. CASE CopyFails
  BY <1>6 DEF CopyFails
<1>7. CASE UNCHANGED out
  BY <1>7
<1> QED
  BY <1>1, <1>2, <1>3, <1>4, <1>5, <1>6, <1>7
     DEF Next, vars, Kill, ReadConfig, Reset, ResetFails, MakeDirs, Configure, MakeTarget,
         MakeFails, Copied, Clean, CleanFails

\* What is placed stays so while a run goes on.
LEMMA PlacedStays ==
  ASSUME DriverInv, [Next]_vars, runs' = runs, config' = config,
         NEW i \in DOMAIN config.entries, Placed(i)
  PROVE  Placed(i)'
<1>1. config.entries[i].path \in Paths
  BY ConfigTyped DEF DriverInv, DriverTyped
<1>2. out'[config.entries[i].path] = out[config.entries[i].path]
  BY <1>1, FinishedStep DEF Placed
<1> QED
  BY <1>2 DEF Placed, Single

\* The configuration is read once for all.
LEMMA ConfigStays == [Next]_vars => config' = config
  BY DEF Next, vars, Start, Kill, ReadConfig, Reset, ResetFails, MakeDirs, Configure, MakeTarget,
         MakeFails, CopyDirectory, CopySymlink, CreateFile, WriteFile, CopyFails, Copied, Clean, CleanFails

\* Only the start of a run counts as one.
LEMMA RunsStay == [Next]_vars /\ Running => runs' = runs
  BY DEF Next, vars, Start, Kill, ReadConfig, Reset, ResetFails, MakeDirs, Configure, MakeTarget,
         MakeFails, CopyDirectory, CopySymlink, CreateFile, WriteFile, CopyFails, Copied, Clean, CleanFails

-----------------------------------------------------------------------------
(* Every step preserves the invariant.                                     *)

\* The types.
LEMMA TypedStep == DriverInv /\ [Next]_vars => DriverTyped'
<1> SUFFICES ASSUME DriverInv, [Next]_vars PROVE DriverTyped'
  OBVIOUS
<1>0. /\ DOMAIN config.entries = 1..Len(config.entries) /\ Len(config.entries) \in Nat
      /\ \A i \in DOMAIN config.entries :
           config.entries[i].path \in Paths /\ config.entries[i].kind \in Kinds
      /\ next \in Nat \ {0} /\ next + 1 \in Nat \ {0} /\ runs \in Nat /\ (pc # "idle" => runs > 0)
      /\ staged \in [DOMAIN config.entries -> Nat]
      /\ out \in [Paths -> [kind : Kinds, built : Nat, whole : BOOLEAN] \cup {Absent}]
      /\ \A p \in Paths : out[p] # Absent /\ out[p].kind = "dir" => out[p].whole
      /\ errors # {} => pc \in {"clean", "exit", "killed"}
  BY ConfigTyped DEF DriverTyped, DriverInv
<1>1. ASSUME NEW cleared \in BOOLEAN, Start(cleared) PROVE DriverTyped'
  BY <1>1 DEF Start, DriverTyped, DriverInv
<1>2. CASE Kill
  BY <1>2 DEF Kill, Running, DriverTyped, DriverInv
<1>3. ASSUME pc # "idle", UNCHANGED <<config, out, runs>>, next' \in Nat \ {0},
             staged' \in [DOMAIN config.entries -> Nat],
             errors' # {} => pc' \in {"clean", "exit", "killed"}
      PROVE  DriverTyped'
  BY <1>3 DEF DriverTyped, DriverInv
<1>4. CASE ReadConfig \/ MakeDirs \/ Configure \/ Copied \/ CleanFails
  <2>1. /\ pc # "idle" /\ UNCHANGED <<config, out, runs, staged>> /\ next' = 1
        /\ errors' # {} => pc' \in {"clean", "exit", "killed"}
    BY <1>0, <1>4 DEF ReadConfig, MakeDirs, Configure, Copied, CleanFails, GoTo, Fail
  <2> QED
    BY <1>0, <1>3, <2>1
<1>5. CASE Reset \/ ResetFails \/ Clean
  <2>1. staged' \in [DOMAIN config.entries -> Nat]
    <3>1. CASE Reset \/ Clean
      <4>1. Nothing \in [DOMAIN config.entries -> Nat]
        BY DEF Nothing
      <4> QED
        BY <3>1, <4>1 DEF Reset, Clean
    <3>2. CASE ResetFails
      BY <1>0, <3>2 DEF ResetFails
    <3> QED
      BY <1>5, <3>1, <3>2
  <2>2. /\ pc # "idle" /\ UNCHANGED <<config, out, runs>> /\ next' = 1
        /\ errors' # {} => pc' \in {"clean", "exit", "killed"}
    BY <1>0, <1>5 DEF Reset, ResetFails, Clean, GoTo, Fail
  <2> QED
    BY <1>3, <2>1, <2>2
<1>6. CASE MakeTarget \/ MakeFails
  <2>1. PICK some : Install(some)
    BY <1>6 DEF MakeTarget, MakeFails
  <2>2. staged' \in [DOMAIN config.entries -> Nat]
    BY <1>0, <2>1 DEF Install
  <2>3. /\ pc # "idle" /\ UNCHANGED <<config, out, runs>> /\ next' \in {1, next + 1}
        /\ errors' # {} => pc' \in {"clean", "exit", "killed"}
    BY <1>0, <1>6 DEF MakeTarget, MakeFails, GoTo, Fail
  <2> QED
    BY <1>0, <1>3, <2>2, <2>3
<1>7. CASE CopyDirectory \/ CopySymlink \/ CreateFile \/ WriteFile
  <2>1. next \in DOMAIN config.entries /\ Entry.path \in Paths /\ Entry.kind \in Kinds
    BY <1>0, <1>7 DEF CopyDirectory, CopySymlink, CreateFile, WriteFile, WritingOne, Entry, DriverInv
  <2>2. \A whole \in BOOLEAN :
          /\ Standing(whole) \in [kind : Kinds, built : Nat, whole : BOOLEAN]
          /\ Standing(whole).kind = Entry.kind /\ Standing(whole).whole = whole
    BY <2>1, StandingTyped DEF DriverInv
  <2>3. PICK s \in [kind : Kinds, built : Nat, whole : BOOLEAN] :
          (s.kind = "dir" => s.whole) /\ out' \in {out, [out EXCEPT ![Entry.path] = s]}
    <3>1. CASE CopyDirectory
      <4>1. CASE out[Entry.path] = Absent
        BY <2>2, <3>1, <4>1 DEF CopyDirectory
      <4>2. CASE out[Entry.path] # Absent
        BY <1>0, <2>1, <3>1, <4>2 DEF CopyDirectory
      <4> QED
        BY <4>1, <4>2
    <3>2. CASE CopySymlink \/ WriteFile
      BY <2>2, <3>2 DEF CopySymlink, WriteFile
    <3>3. CASE CreateFile
      BY <2>2, <3>3 DEF CreateFile
    <3> QED
      BY <1>7, <3>1, <3>2, <3>3
  <2>4. /\ out' \in [Paths -> [kind : Kinds, built : Nat, whole : BOOLEAN] \cup {Absent}]
        /\ \A p \in Paths : out'[p] # Absent /\ out'[p].kind = "dir" => out'[p].whole
    BY <1>0, <2>1, <2>3
  <2>5. UNCHANGED <<config, errors, staged, runs>> /\ pc' \in {"copy", "write"} /\ next' \in Nat \ {0}
        /\ pc \in {"copy", "write"}
    BY <1>0, <1>7 DEF CopyDirectory, CopySymlink, CreateFile, WriteFile
  <2> QED
    BY <1>0, <2>4, <2>5 DEF DriverTyped, DriverInv
<1>8. CASE CopyFails
  <2> DEFINE made == [kind |-> "dir", built |-> runs, whole |-> TRUE]
  <2>1. made \in [kind : Kinds, built : Nat, whole : BOOLEAN] /\ made.whole
    BY <1>0 DEF Kinds
  <2>2. /\ out' \in {out, [out EXCEPT ![Entry.path] = made]}
        /\ UNCHANGED <<config, staged, runs>> /\ pc' = "clean" /\ next' = 1 /\ pc # "idle"
    BY <1>8 DEF CopyFails, Fail
  <2> HIDE DEF made
  <2>3. /\ out' \in [Paths -> [kind : Kinds, built : Nat, whole : BOOLEAN] \cup {Absent}]
        /\ \A p \in Paths : out'[p] # Absent /\ out'[p].kind = "dir" => out'[p].whole
    BY <1>0, <2>1, <2>2
  <2> QED
    BY <1>0, <2>2, <2>3 DEF DriverTyped, DriverInv
<1>9. CASE UNCHANGED vars
  BY <1>9 DEF vars, DriverTyped, DriverInv
<1> QED
  BY <1>1, <1>2, <1>4, <1>5, <1>6, <1>7, <1>8, <1>9 DEF Next

\* What is installed is of this run.
LEMMA StagedStep == DriverInv /\ [Next]_vars => StagedNow'
<1> SUFFICES ASSUME DriverInv, [Next]_vars PROVE StagedNow'
  OBVIOUS
<1> USE DEF DriverInv, DriverTyped, StagedNow
<1>1. CASE Reset
  BY <1>1 DEF Reset, GoTo, Nothing
<1>2. CASE MakeTarget \/ MakeFails
  BY <1>2 DEF MakeTarget, MakeFails, GoTo, Fail, Install
<1>3. ASSUME NEW cleared \in BOOLEAN, Start(cleared) PROVE StagedNow'
  BY <1>3 DEF Start
<1>4. CASE Kill \/ ResetFails \/ Clean \/ CleanFails \/ CopyFails \/ Copied
  BY <1>4 DEF Kill, ResetFails, Clean, CleanFails, CopyFails, Copied, GoTo, Fail
<1>5. CASE ReadConfig \/ MakeDirs \/ Configure
  BY <1>5 DEF ReadConfig, MakeDirs, Configure, GoTo, Fail
<1>6. CASE CopyDirectory \/ CopySymlink \/ CreateFile \/ WriteFile
  BY <1>6 DEF CopyDirectory, CopySymlink, CreateFile, WriteFile
<1>7. CASE UNCHANGED vars
  BY <1>7 DEF vars
<1> QED
  BY <1>1, <1>2, <1>3, <1>4, <1>5, <1>6, <1>7 DEF Next

\* The file in hand.
LEMMA WritingStep == DriverInv /\ [Next]_vars => WritingOne'
<1> SUFFICES ASSUME DriverInv, [Next]_vars PROVE WritingOne'
  OBVIOUS
<1> USE DEF DriverInv, DriverTyped, WritingOne
<1>1. CASE CreateFile
  <2>1. Entry.path \in Paths
    BY <1>1, ConfigTyped DEF CreateFile, Entry
  <2> QED
    BY <1>1, <2>1 DEF CreateFile, Entry, Standing
<1>2. CASE UNCHANGED vars
  BY <1>2 DEF vars, Entry, Standing
<1>3. ASSUME pc' # "write" PROVE WritingOne'
  BY <1>3
<1> QED
  BY <1>1, <1>2, <1>3
     DEF Next, Start, Kill, ReadConfig, Reset, ResetFails, MakeDirs, Configure, MakeTarget, MakeFails,
         CopyDirectory, CopySymlink, WriteFile, CopyFails, Copied, Clean, CleanFails, GoTo, Fail

\* An entry that is copied joins those that stand, alone where it has to be.
LEMMA OneMore ==
  ASSUME DriverInv, [Next]_vars, runs' = runs, config' = config,
         pc \in {"copy", "write"}, NEW n \in DOMAIN config.entries, n = next, next' = next + 1,
         Placed(n)',
         \A j \in DOMAIN config.entries :
           j < n /\ (Single(j) \/ Single(n)) => config.entries[j].path # config.entries[n].path
  PROVE  \A i \in DOMAIN config.entries : i < next' => Placed(i)' /\ Alone(i)'
<1>0. DOMAIN config.entries = 1..Len(config.entries) /\ Len(config.entries) \in Nat /\ next \in Nat
  BY ConfigTyped DEF DriverInv, DriverTyped
<1> SUFFICES ASSUME NEW i \in DOMAIN config.entries, i < next' PROVE Placed(i)' /\ Alone(i)'
  OBVIOUS
<1>1. i < n \/ i = n
  BY <1>0
<1>2. Placed(i)'
  <2>1. CASE i < n
    BY <2>1, PlacedStays DEF DriverInv, CopiedSoFar
  <2>2. CASE i = n
    BY <2>2
  <2> QED
    BY <1>1, <2>1, <2>2
<1>3. Alone(i)'
  <2> SUFFICES ASSUME NEW j \in DOMAIN config.entries, Single(i), j # i, j < next'
               PROVE  config.entries[j].path # config.entries[i].path
    BY DEF Alone, Single
  <2>1. j < n \/ j = n
    BY <1>0
  <2>2. CASE i = n
    BY <2>1, <2>2
  <2>3. CASE i < n /\ j = n
    BY <2>3
  <2>4. CASE i < n /\ j < n
    BY <2>4 DEF DriverInv, CopiedSoFar, Alone
  <2> QED
    BY <1>1, <2>1, <2>2, <2>3, <2>4
<1> QED
  BY <1>2, <1>3

\* Entries are copied one by one, and each of them finds its place.
LEMMA CopiedStep == DriverInv /\ [Next]_vars => CopiedSoFar'
<1> SUFFICES ASSUME DriverInv, [Next]_vars PROVE CopiedSoFar'
  OBVIOUS
<1>0. /\ DOMAIN config.entries = 1..Len(config.entries) /\ Len(config.entries) \in Nat
      /\ \A i \in DOMAIN config.entries :
           config.entries[i].path \in Paths /\ config.entries[i].kind \in Kinds
      /\ next \in Nat \ {0}
      /\ \A i \in DOMAIN config.entries :
           pc \in {"copy", "write"} /\ i < next => Placed(i) /\ Alone(i)
  BY ConfigTyped DEF DriverInv, DriverTyped, CopiedSoFar
<1>1. CASE pc' \notin {"copy", "write"}
  BY <1>1 DEF CopiedSoFar
<1>2. ASSUME next' = 1, config' = config PROVE CopiedSoFar'
  BY <1>0, <1>2 DEF CopiedSoFar
<1>3. CASE CopyDirectory
  <2> DEFINE n == next
  <2>1. /\ pc = "copy" /\ n \in DOMAIN config.entries /\ config.entries[n].kind = "dir"
        /\ out[config.entries[n].path] # Absent => out[config.entries[n].path].kind = "dir"
        /\ out' = [out EXCEPT ![config.entries[n].path] = IF @ = Absent THEN Standing(TRUE) ELSE @]
        /\ next' = next + 1 /\ UNCHANGED <<config, pc, runs>>
    BY <1>3 DEF CopyDirectory, Entry
  <2>2. PICK d \in DOMAIN config.entries : d = n
    BY <2>1
  <2>3. ASSUME NEW j \in DOMAIN config.entries, j < d, Single(j) \/ Single(d)
        PROVE  config.entries[j].path # config.entries[d].path
    BY <1>0, <2>1, <2>2, <2>3 DEF Placed, Single
  <2>4. Placed(d)'
    <3>1. config.entries[d].path \in Paths
      BY <1>0
    <3>2. Standing(TRUE).kind = "dir" /\ Standing(TRUE).whole /\ Standing(TRUE) # Absent
      BY <2>1, StandingTyped DEF Entry, DriverInv
    <3> QED
      BY <2>1, <2>2, <3>1, <3>2 DEF Placed, Single, DriverInv, DriverTyped
  <2> QED
    BY <2>1, <2>2, <2>3, <2>4, OneMore DEF CopiedSoFar
<1>4. CASE CopySymlink \/ WriteFile
  <2>1. /\ pc \in {"copy", "write"} /\ next \in DOMAIN config.entries
        /\ staged[next] = runs
        /\ out' = [out EXCEPT ![Entry.path] = Standing(TRUE)]
        /\ next' = next + 1 /\ UNCHANGED <<config, runs>>
    BY <1>4 DEF CopySymlink, WriteFile, DriverInv, WritingOne, StagedNow
  <2>2. PICK d \in DOMAIN config.entries : d = next
    BY <2>1
  <2>3. Entry = config.entries[d] /\ Entry.path \in Paths
    BY <1>0, <2>2 DEF Entry
  <2>4. Placed(d)'
    <3>1. /\ Standing(TRUE).kind = Entry.kind /\ Standing(TRUE).whole /\ Standing(TRUE) # Absent
          /\ Standing(TRUE).built = runs
      BY <2>1, StandingTyped DEF DriverInv
    <3> QED
      BY <2>1, <2>3, <3>1 DEF Placed, Single, DriverInv, DriverTyped
  <2>5. out[Entry.path] = Absent \/ ~out[Entry.path].whole
    BY <1>4, <2>1, StandingTyped DEF CopySymlink, WriteFile, DriverInv, WritingOne
  <2>6. ASSUME NEW j \in DOMAIN config.entries, j < d
        PROVE  config.entries[j].path # config.entries[d].path
    BY <1>0, <2>1, <2>2, <2>3, <2>5, <2>6 DEF Placed
  <2> QED
    BY <2>1, <2>2, <2>4, <2>6, OneMore DEF CopiedSoFar
<1>5. CASE CreateFile
  <2>1. /\ pc \in {"copy", "write"} /\ UNCHANGED <<config, next, runs>>
    BY <1>5 DEF CreateFile
  <2>2. ASSUME NEW i \in DOMAIN config.entries, i < next PROVE Placed(i)' /\ Alone(i)'
    BY <1>0, <2>1, <2>2, PlacedStays DEF Alone, Single
  <2> QED
    BY <2>1, <2>2 DEF CopiedSoFar
<1>6. CASE UNCHANGED vars
  BY <1>6 DEF vars, DriverInv, CopiedSoFar, Placed, Alone, Single
<1>7. CASE MakeTarget
  <2>1. next' = 1 \/ pc' = "make"
    BY <1>7 DEF MakeTarget, GoTo
  <2> QED
    BY <1>1, <1>2, <1>7, <2>1 DEF MakeTarget
<1> QED
  BY <1>1, <1>2, <1>3, <1>4, <1>5, <1>6, <1>7
     DEF Next, Start, Kill, ReadConfig, Reset, ResetFails, MakeDirs, Configure, MakeFails,
         CopyFails, Copied, Clean, CleanFails, GoTo, Fail

\* A driver that is about to succeed has what it was asked for.
LEMMA OnItsWayStep == DriverInv /\ [Next]_vars => OnItsWay'
<1> SUFFICES ASSUME DriverInv, [Next]_vars PROVE OnItsWay'
  OBVIOUS
<1>0. config' = config /\ (Resolves(config)' <=> Resolves(config))
  BY ConfigStays DEF Resolves
<1>1. CASE ReadConfig
  BY <1>0, <1>1 DEF ReadConfig, GoTo, Fail, OnItsWay, Succeeded
<1>2. CASE Reset \/ MakeDirs \/ Configure
  BY <1>0, <1>2 DEF Reset, MakeDirs, Configure, GoTo, Fail, OnItsWay, Succeeded, DriverInv
<1>3. CASE MakeTarget
  BY <1>0, <1>3 DEF MakeTarget, GoTo, OnItsWay, Succeeded, DriverInv
<1>4. CASE MakeFails \/ CopyFails \/ ResetFails \/ CleanFails
  BY <1>0, <1>4 DEF MakeFails, CopyFails, ResetFails, CleanFails, Fail, OnItsWay, Succeeded, DriverInv
<1>5. CASE CopyDirectory \/ CopySymlink \/ CreateFile \/ WriteFile
  BY <1>0, <1>5 DEF CopyDirectory, CopySymlink, CreateFile, WriteFile, OnItsWay, Succeeded, DriverInv
<1>6. CASE Copied
  <2>1. /\ pc = "copy" /\ next > Len(config.entries) /\ pc' = "clean" /\ UNCHANGED <<config, out, runs>>
    BY <1>6 DEF Copied, GoTo
  <2>2. Resolves(config)
    BY <2>1 DEF DriverInv, OnItsWay
  <2>3. ASSUME NEW i \in DOMAIN config.entries PROVE Delivered(i)'
    <3>1. i < next /\ \A j \in DOMAIN config.entries : j < next
      BY <2>1, ConfigTyped DEF DriverInv, DriverTyped
    <3>2. Placed(i) /\ Alone(i)
      BY <2>1, <3>1 DEF DriverInv, CopiedSoFar
    <3> QED
      BY <2>1, <2>2, <3>1, <3>2 DEF Placed, Alone, Delivered, Resolves, Single
  <2> QED
    BY <1>0, <2>1, <2>2, <2>3 DEF OnItsWay, Succeeded
<1>7. CASE Clean
  <2>1. pc = "clean" /\ pc' = "exit" /\ UNCHANGED <<config, errors, out, runs>>
    BY <1>7 DEF Clean, GoTo
  <2>2. CASE errors # {}
    BY <2>1, <2>2 DEF OnItsWay, Succeeded
  <2>3. CASE errors = {}
    BY <2>1, <2>3 DEF DriverInv, OnItsWay, Succeeded, Resolves, Delivered, Single
  <2> QED
    BY <2>2, <2>3
<1>8. ASSUME NEW cleared \in BOOLEAN, Start(cleared) PROVE OnItsWay'
  BY <1>8 DEF Start, OnItsWay, Succeeded
<1>9. CASE Kill
  BY <1>9 DEF Kill, OnItsWay, Succeeded
<1>10. CASE UNCHANGED vars
  BY <1>10 DEF vars, DriverInv, OnItsWay, Succeeded, Resolves, Delivered, Single
<1> QED
  BY <1>1, <1>2, <1>3, <1>4, <1>5, <1>6, <1>7, <1>8, <1>9, <1>10 DEF Next

-----------------------------------------------------------------------------
\* The invariant holds throughout, whatever is killed, fails or was left by
\* earlier runs of foreign_build_driver.
THEOREM DriverInvariant == Spec => []DriverInv
<1>1. DriverInv /\ [Next]_vars => DriverInv'
  BY TypedStep, StagedStep, CopiedStep, WritingStep, OnItsWayStep DEF DriverInv
<1> QED
  BY <1>1, DriverInit, PTL DEF Spec

\* A step forward among m or n things stays within their number.
LEMMA StepsWithin ==
  ASSUME NEW m \in Nat, NEW n \in Nat, NEW k \in 1..(m + n + 1)
  PROVE  /\ 1 \in 1..(m + n + 1)
         /\ k \in 1..m \/ k \in 1..n => k + 1 \in 1..(m + n + 1)
OBVIOUS

\* What a run within the bound makes.
Made == [kind : Kinds, built : 1..MaxRuns, whole : BOOLEAN]

\* Types of the driver's state, with the bounds of its counters.
THEOREM TypeCorrect == Spec => []TypeOK
<1>1. Init => TypeOK
  <2> SUFFICES ASSUME Init PROVE TypeOK
    OBVIOUS
  <2>1. Len(config.entries) \in Nat /\ Len(config.targets) \in Nat
    BY ConfigTyped DEF Init
  <2>2. 1 \in 1..(Len(config.entries) + Len(config.targets) + 1) /\ 0 \in 0..MaxRuns
    <3>1. MaxRuns \in Nat
      BY ForeignBuildAssumption
    <3>2. \A m, n \in Nat : 1 \in 1..(m + n + 1)
      OBVIOUS
    <3>3. 1 \in 1..(Len(config.entries) + Len(config.targets) + 1)
      BY <2>1, <3>2, Zenon
    <3>4. 0 \in 0..MaxRuns
      BY <3>1
    <3> QED
      BY <3>3, <3>4
  <2>3. staged \in [DOMAIN config.entries -> 0..MaxRuns]
    BY <2>2 DEF Init, Nothing
  <2> QED
    BY <2>2, <2>3 DEF Init, TypeOK
<1>2. TypeOK /\ DriverInv /\ [Next]_vars => TypeOK'
  <2> SUFFICES ASSUME TypeOK, DriverInv, [Next]_vars PROVE TypeOK'
    OBVIOUS
  <2>0. /\ DOMAIN config.entries = 1..Len(config.entries) /\ Len(config.entries) \in Nat
        /\ DOMAIN config.targets = 1..Len(config.targets) /\ Len(config.targets) \in Nat
    BY ConfigTyped DEF TypeOK
  <2>8. MaxRuns \in Nat /\ runs \in 0..MaxRuns /\ staged \in [DOMAIN config.entries -> 0..MaxRuns]
    BY ForeignBuildAssumption DEF TypeOK
  <2>9. pc # "idle" => runs \in 1..MaxRuns
    <3>1. pc # "idle" => runs > 0
      BY DEF DriverInv, DriverTyped
    <3> QED
      BY <2>8, <3>1
  <2>1. config' \in Configs /\ config' = config
    BY ConfigStays DEF TypeOK
  <2>2. /\ pc' \in {"idle", "config", "reset", "make dirs", "configure", "make", "copy", "write",
                    "clean", "exit", "killed"}
        /\ errors' \subseteq {"config", "reset", "make dirs", "configure", "make", "copy", "clean"}
        /\ work' \in {"empty", "used"}
    BY DEF TypeOK, Next, vars, Start, Kill, ReadConfig, Reset, ResetFails, MakeDirs, Configure,
           MakeTarget, MakeFails, CopyDirectory, CopySymlink, CreateFile, WriteFile, CopyFails, Copied,
           Clean, CleanFails, GoTo, Fail
  <2>3. runs' \in 0..MaxRuns
    <3>1. runs' = runs \/ (runs < MaxRuns /\ runs' = runs + 1)
      BY DEF Next, vars, Start, Kill, ReadConfig, Reset, ResetFails, MakeDirs, Configure,
           MakeTarget, MakeFails, CopyDirectory, CopySymlink, CreateFile, WriteFile, CopyFails, Copied,
           Clean, CleanFails
    <3> QED
      BY <2>8, <3>1
  <2>4. next' \in 1..(Len(config.entries) + Len(config.targets) + 1)
    <3>1. \/ next' \in {1, next}
          \/ next' = next + 1 /\ next \in DOMAIN config.entries \cup DOMAIN config.targets
      BY DEF Next, vars, Start, Kill, ReadConfig, Reset, ResetFails, MakeDirs, Configure,
           MakeTarget, MakeFails, CopyDirectory, CopySymlink, CreateFile, WriteFile, CopyFails, Copied,
           Clean, CleanFails, GoTo, Fail, DriverInv, WritingOne
    <3>2. next \in 1..(Len(config.entries) + Len(config.targets) + 1)
      BY DEF TypeOK
    <3>3. CASE next' \in {1, next}
      BY <2>0, <3>2, <3>3, StepsWithin
    <3>4. CASE next' = next + 1 /\ next \in DOMAIN config.entries \cup DOMAIN config.targets
      BY <2>0, <3>2, <3>4, StepsWithin
    <3> QED
      BY <3>1, <3>3, <3>4
  <2>5. staged' \in [DOMAIN config.entries -> 0..MaxRuns]
    <3>1. CASE UNCHANGED staged
      BY <2>8, <3>1
    <3>2. CASE staged' = Nothing
      BY <2>8, <3>2 DEF Nothing
    <3>3. ASSUME NEW some, Install(some) PROVE staged' \in [DOMAIN config.entries -> 0..MaxRuns]
      BY <2>8, <3>3 DEF Install
    <3>4. CASE ResetFails
      BY <2>8, <3>4 DEF ResetFails
    <3> QED
      BY <3>1, <3>2, <3>3, <3>4
         DEF Next, vars, Start, Kill, ReadConfig, Reset, MakeDirs, Configure, MakeTarget, MakeFails,
             CopyDirectory, CopySymlink, CreateFile, WriteFile, CopyFails, Copied, Clean, CleanFails
  <2>6. out' \in [Paths -> Made \cup {Absent}]
    <3>0. out \in [Paths -> Made \cup {Absent}]
      BY DEF TypeOK, Made
    <3>1. CASE UNCHANGED out
      BY <3>0, <3>1
    <3>2. ASSUME NEW cleared \in BOOLEAN, Start(cleared) PROVE out' \in [Paths -> Made \cup {Absent}]
      BY <3>0, <3>2 DEF Start
    <3>3. CASE CopyDirectory \/ CopySymlink \/ CreateFile \/ WriteFile
      <4>1. next \in DOMAIN config.entries /\ staged[next] # 0 /\ Entry.kind \in Kinds /\ Entry.path \in Paths
        BY <3>3, ConfigTyped
           DEF CopyDirectory, CopySymlink, CreateFile, WriteFile, DriverInv, DriverTyped, WritingOne, Entry
      <4>2. staged[next] \in 1..MaxRuns
        BY <2>8, <4>1
      <4>3. Standing(TRUE) \in Made /\ Standing(FALSE) \in Made
        BY <4>1, <4>2 DEF Standing, Made
      <4>4. CASE CopyDirectory
        BY <3>0, <4>1, <4>3, <4>4 DEF CopyDirectory
      <4>5. CASE CopySymlink \/ WriteFile
        BY <3>0, <4>1, <4>3, <4>5 DEF CopySymlink, WriteFile
      <4>6. CASE CreateFile
        BY <3>0, <4>1, <4>3, <4>6 DEF CreateFile
      <4> QED
        BY <3>3, <4>4, <4>5, <4>6
    <3>4. CASE CopyFails
      <4> DEFINE made == [kind |-> "dir", built |-> runs, whole |-> TRUE]
      <4>1. made \in Made
        BY <2>9, <3>4 DEF CopyFails, Kinds, Made
      <4>2. out' = out \/ out' = [out EXCEPT ![Entry.path] = made]
        BY <3>4 DEF CopyFails
      <4> HIDE DEF made
      <4> QED
        BY <3>0, <4>1, <4>2
    <3> QED
      BY <3>1, <3>2, <3>3, <3>4
         DEF Next, vars, Kill, ReadConfig, Reset, ResetFails, MakeDirs, Configure, MakeTarget, MakeFails,
             Copied, Clean, CleanFails
  <2>7. errors' # {} => pc' \in {"clean", "exit", "killed"}
    BY TypedStep DEF DriverTyped
  <2> QED
    BY <2>1, <2>2, <2>3, <2>4, <2>5, <2>6, <2>7 DEF TypeOK, Made
<1> QED
  BY <1>1, <1>2, DriverInvariant, PTL DEF Spec

\* The work directory, a declared output, is left empty on every way out after
\* the first reset (the deferred reset of the driver).
THEOREM LeavesWorkEmpty == Spec => []WorkLeftEmpty
<1>1. Init => WorkLeftEmpty
  BY DEF Init, WorkLeftEmpty
<1>2. WorkLeftEmpty /\ [Next]_vars => WorkLeftEmpty'
  <2> SUFFICES ASSUME WorkLeftEmpty, [Next]_vars, pc' = "exit",
                      errors' \cap {"config", "reset", "clean"} = {}
               PROVE  work' = "empty"
    BY DEF WorkLeftEmpty
  <2>1. CASE Clean
    BY <2>1 DEF Clean
  <2>2. CASE ReadConfig \/ ResetFails \/ CleanFails
    BY <2>2 DEF ReadConfig, ResetFails, CleanFails, GoTo, Fail
  <2>3. CASE UNCHANGED vars
    BY <2>3 DEF vars, WorkLeftEmpty
  <2> QED
    BY <2>1, <2>2, <2>3
       DEF Next, Start, Kill, Reset, MakeDirs, Configure, MakeTarget, MakeFails, CopyDirectory,
           CopySymlink, CreateFile, WriteFile, CopyFails, Copied, GoTo, Fail
<1> QED
  BY <1>1, <1>2, PTL DEF Spec

\* A finished output is never written again by the driver.
THEOREM FinishedStaysFinal == Spec => FinishedIsFinal
<1>1. DriverInv /\ [Next]_vars =>
        [\A p \in Paths : out[p] # Absent /\ out[p].whole => out'[p] = out[p] \/ runs' # runs]_vars
  BY FinishedStep
<1> QED
  BY <1>1, DriverInvariant, PTL DEF Spec, FinishedIsFinal

-----------------------------------------------------------------------------
(* The refinement of the contract.                                         *)

\* A running driver keeps what it has delivered.
LEMMA HaveGrows ==
  ASSUME DriverInv, [Next]_vars, Running
  PROVE  Have \subseteq Have' /\ Asked' = Asked
<1>1. config' = config /\ runs' = runs
  BY ConfigStays, RunsStay
<1>2. ASSUME NEW i \in DOMAIN config.entries, Delivered(i) PROVE Delivered(i)'
  <2>1. Placed(i)
    BY <1>2 DEF Delivered, Placed
  <2>2. Placed(i)'
    BY <1>1, <2>1, PlacedStays
  <2> QED
    BY <1>1, <1>2, <2>2 DEF Delivered, Placed, Single
<1> QED
  BY <1>1, <1>2 DEF Have, Asked

\* Every step of the driver is one of the contract, or a stutter.
LEMMA DeliveryStep ==
  DriverInv /\ DriverInv' /\ [Next]_vars => [Delivery!Next]_<<Outcome, Asked, Have>>
<1> SUFFICES ASSUME DriverInv, DriverInv', [Next]_vars, ~UNCHANGED <<Outcome, Asked, Have>>
             PROVE  Delivery!Next
  OBVIOUS
<1>1. CASE Running
  <2>1. Have \subseteq Have' /\ Asked' = Asked
    BY <1>1, HaveGrows
  <2>2. Outcome = "running"
    BY <1>1 DEF Outcome, Running
  <2>3. Delivery!Keep
    BY <2>1, <2>2 DEF Delivery!Keep
  <2>4. pc' # "idle"
    BY <1>1 DEF Running, Next, vars, Start, Kill, ReadConfig, Reset, ResetFails, MakeDirs, Configure,
                MakeTarget, MakeFails, CopyDirectory, CopySymlink, CreateFile, WriteFile, CopyFails,
                Copied, Clean, CleanFails, GoTo, Fail
  <2>5. CASE Running'
    <3>1. Outcome' = "running"
      BY <2>5 DEF Outcome, Running
    <3> QED
      BY <2>2, <2>3, <3>1 DEF Delivery!Next, Delivery!Advance
  <2>6. CASE ~Running' /\ Succeeded'
    <3>1. Outcome' = "success"
      BY <2>4, <2>6 DEF Outcome
    <3>2. Asked' \subseteq Have'
      BY <2>6 DEF DriverInv, OnItsWay, Asked, Have
    <3> QED
      BY <2>1, <2>3, <3>1, <3>2 DEF Delivery!Next, Delivery!Succeed
  <2>7. CASE ~Running' /\ ~Succeeded'
    <3>1. Outcome' = "failure"
      BY <2>4, <2>7 DEF Outcome
    <3> QED
      BY <2>3, <3>1 DEF Delivery!Next, Delivery!Fail
  <2> QED
    BY <2>5, <2>6, <2>7
<1>2. CASE ~Running
  <2>1. PICK cleared \in BOOLEAN : Start(cleared)
    <3>1. ~UNCHANGED vars
      BY DEF vars, Outcome, Asked, Have, Running, Succeeded, Delivered, Single
    <3> QED
      BY <1>2, <3>1 DEF Running, Next, Kill, ReadConfig, Reset, ResetFails, MakeDirs, Configure,
                  MakeTarget, MakeFails, CopyDirectory, CopySymlink, CreateFile, WriteFile, CopyFails,
                  Copied, Clean, CleanFails
  <2>2. Outcome # "running" /\ Outcome' = "running"
    BY <1>2, <2>1 DEF Start, Outcome, Running
  <2> QED
    BY <2>2 DEF Delivery!Next, Delivery!Begin
<1> QED
  BY <1>1, <1>2

\* The driver implements the delivery contract: a run that reports success has
\* delivered every declared output, whole and of this run.
THEOREM BuildImplementsDelivery == Spec => ImplementsDelivery
<1>1. Init => Delivery!Init
  BY DEF Init, Delivery!Init, Outcome, Running
<1>2. DriverInv /\ DriverInv' /\ [Next]_vars => [Delivery!Next]_Delivery!contractVars
  BY DeliveryStep DEF Delivery!contractVars
<1> QED
  BY <1>1, <1>2, DriverInvariant, PTL DEF Spec, ImplementsDelivery, Delivery!Spec
=============================================================================
