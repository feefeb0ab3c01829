------------------------ MODULE PathCandidates_proofs ------------------------
(***************************************************************************)
(* Theorems about the paths that a runtime launcher looks up, for any      *)
(* files, links, directories, values of PATH and number of launches.       *)
(***************************************************************************)
EXTENDS PathCandidates, TLAPS, SequenceTheorems, WellFoundedInduction

\* The components that a path may have.
Words == STRING \cup {"/", "_main"}

(***************************************************************************)
(* Paths.                                                                  *)
(***************************************************************************)

\* A list with an element for each number.
LEMMA ListOf ==
  ASSUME NEW S, NEW n \in Nat, NEW f \in [1..n -> S]
  PROVE  f \in Seq(S) /\ Len(f) = n
  OBVIOUS

\* A path of strings is a path of words.
LEMMA PathOfWords ==
  ASSUME NEW path \in Seq(STRING)
  PROVE  path \in Seq(Words)
<1>1. STRING \subseteq Words
  BY DEF Words
<1> QED
  BY <1>1, SeqMonotonic

\* A set of numbers has a least one.
LEMMA MinIs ==
  ASSUME NEW S, S \subseteq Nat, S # {}
  PROVE  Min(S) \in S /\ \A k \in S : Min(S) <= k
<1>1. \E x \in S : \A y \in S : ~(<<y, x>> \in OpToRel(<, Nat))
  BY NatLessThanWellFounded, WFMin, Zenon
<1>2. PICK x \in S : \A y \in S : ~(y < x)
  BY <1>1, Zenon DEF OpToRel
<1>3. \E m \in S : \A k \in S : m <= k
  BY <1>2
<1> DEFINE m == CHOOSE m \in S : \A k \in S : m <= k
<1>4. m \in S /\ \A k \in S : m <= k
  BY <1>3, Zenon
<1>5. Min(S) = m
  BY DEF Min
<1> QED
  BY <1>4, <1>5

\* A path that goes on from a directory.
LEMMA Goes ==
  ASSUME NEW d \in Seq(Words), NEW p \in Seq(Words)
  PROVE  /\ d \o p \in Seq(Words)
         /\ d # <<>> => d \o p # <<>> /\ (d \o p)[1] = d[1]
         /\ IsPrefix(d, d \o p)
<1>1. /\ d \o p \in Seq(Words) /\ Len(d \o p) = Len(d) + Len(p)
      /\ \A i \in 1..(Len(d) + Len(p)) : (d \o p)[i] = IF i <= Len(d) THEN d[i] ELSE p[i - Len(d)]
  BY ConcatProperties
<1>2. Len(d) \in Nat /\ Len(p) \in Nat
  BY LenProperties
<1>3. ASSUME d # <<>> PROVE d \o p # <<>> /\ (d \o p)[1] = d[1]
  <2>1. Len(d) >= 1 /\ 1 \in 1..(Len(d) + Len(p))
    BY <1>2, <1>3
  <2> QED
    BY <1>1, <1>2, <2>1
<1>4. IsPrefix(d, d \o p)
  <2> DEFINE s == SubSeq(d \o p, 1, Len(d))
  <2>1. \A i \in 1..Len(d) : i \in 1..(Len(d) + Len(p)) /\ i <= Len(d) /\ d[i] \in Words
    BY <1>2, LenProperties
  <2>2. \A i \in 1..Len(d) : (d \o p)[i] = d[i] /\ (d \o p)[i] \in Words
    BY <1>1, <2>1
  <2>3. /\ s \in Seq(Words) /\ Len(s) = IF 1 <= Len(d) THEN Len(d) - 1 + 1 ELSE 0
        /\ \A i \in 1..(Len(d) - 1 + 1) : s[i] = (d \o p)[1 + i - 1]
    BY <1>2, <2>2, SubSeqProperties
  <2>4. Len(s) = Len(d) /\ \A i \in 1..Len(d) : s[i] = d[i]
    BY <1>2, <2>2, <2>3
  <2>5. s = d
    BY <2>3, <2>4, SeqEqual
  <2>6. SubSeq(d, 1, Len(d)) = d
    BY SubSeqFull
  <2> QED
    BY <1>1, <1>2, <2>5, <2>6 DEF IsPrefix
<1> QED
  BY <1>1, <1>3, <1>4

\* A file exists, as does a directory that leads to it.
LEMMA WayExists ==
  ASSUME NEW d \in Seq(Words), NEW p \in Seq(Words), d \o p \in DOMAIN Files
  PROVE  Exists(d) /\ Exists(d \o p)
<1>1. IsPrefix(d, d \o p)
  BY Goes
<1>2. IsPrefix(d \o p, d \o p)
  BY Goes DEF IsPrefix
<1> QED
  BY <1>1, <1>2 DEF Exists

\* The absent value is not a path.
LEMMA NoneIsNoPath ==
  /\ \A p \in Seq(Words) : p # None
  /\ None \notin [file : Seq(Words), argument : Seq(Words), emulator : Seq(Words) \cup {None}]
<1>1. None \notin Seq(Words) \cup [file : Seq(Words), argument : Seq(Words), emulator : Seq(Words) \cup {None}]
  BY PathCandidatesAssumption DEF Words
<1> QED
  BY <1>1

\* Absolute paths.
AbsPaths == {p \in Seq(Words) : p # <<>> /\ p[1] = "/"}

\* A directory's path followed by another path is absolute.
LEMMA GoesAbsolute ==
  ASSUME NEW d \in AbsPaths, NEW p \in Seq(Words)
  PROVE  d \o p \in AbsPaths
  BY Goes DEF AbsPaths

\* What an absolute path starts with is absolute.
LEMMA FirstsAbsolute ==
  ASSUME NEW path \in AbsPaths, NEW k \in 1..Len(path)
  PROVE  SubSeq(path, 1, k) \in AbsPaths /\ Len(SubSeq(path, 1, k)) = k
<1>0. path \in Seq(Words) /\ path[1] = "/" /\ Len(path) \in Nat /\ k \in Nat /\ k >= 1
  BY LenProperties DEF AbsPaths
<1> DEFINE s == SubSeq(path, 1, k)
<1>1. \A i \in 1..k : path[i] \in Words
  BY <1>0, LenProperties
<1>2. /\ s \in Seq(Words) /\ Len(s) = IF 1 <= k THEN k - 1 + 1 ELSE 0
      /\ \A i \in 1..(k - 1 + 1) : s[i] = path[1 + i - 1]
  BY <1>0, <1>1, SubSeqProperties
<1> HIDE DEF s
<1>3. Len(s) = k /\ 1 \in 1..(k - 1 + 1) /\ 1 + 1 - 1 = 1
  BY <1>0, <1>2
<1>4. s[1] = "/"
  BY <1>0, <1>2, <1>3
<1>5. s # <<>>
  BY <1>0, <1>3
<1>6. s \in AbsPaths /\ Len(s) = k
  BY <1>2, <1>3, <1>4, <1>5 DEF AbsPaths
<1> QED
  BY <1>6 DEF s

\* The roots that a path gives away are absolute.
LEMMA RootsOfPath ==
  ASSUME NEW path \in AbsPaths
  PROVE  /\ \A S : Before(path, S) = <<>>
                   \/ (Before(path, S) \in AbsPaths /\ Len(Before(path, S)) + 1 \in 1..Len(path))
         /\ ExecutionRootFromPath(path) \in Seq(AbsPaths)
         /\ RunfilesRootFromPath(path) \in Seq(AbsPaths)
<1>0. path \in Seq(Words) /\ Len(path) \in Nat
  BY LenProperties DEF AbsPaths
<1>1. ASSUME NEW S, Before(path, S) # <<>>
      PROVE  Before(path, S) \in AbsPaths /\ Len(Before(path, S)) + 1 \in 1..Len(path)
  <2> DEFINE at == {i \in 2..(Len(path) - 1) : path[i] \in S}
  <2>1. at # {}
    BY <1>1 DEF Before
  <2>2. at \subseteq Nat
    BY <1>0
  <2>3. Min(at) \in at
    BY <2>1, <2>2, MinIs
  <2>4. Min(at) - 1 \in 1..Len(path) /\ (Min(at) - 1) + 1 \in 1..Len(path)
    BY <1>0, <2>3
  <2>5. Before(path, S) = SubSeq(path, 1, Min(at) - 1)
    BY <2>1 DEF Before
  <2> HIDE DEF at
  <2> QED
    BY <2>4, <2>5, FirstsAbsolute
<1>2. ExecutionRootFromPath(path) \in Seq(AbsPaths)
  <2>1. \A root \in AbsPaths : <<root>> \in Seq(AbsPaths)
    OBVIOUS
  <2>2. <<>> \in Seq(AbsPaths) /\ ~(Len(<<>>) > 1)
    OBVIOUS
  <2> QED
    BY <1>1, <2>1, <2>2 DEF ExecutionRootFromPath
<1>3. RunfilesRootFromPath(path) \in Seq(AbsPaths)
  <2>1. \A root \in AbsPaths : <<root>> \in Seq(AbsPaths)
    OBVIOUS
  <2>2. <<>> \in Seq(AbsPaths)
    OBVIOUS
  <2> QED
    BY <1>1, <2>1, <2>2, FirstsAbsolute DEF RunfilesRootFromPath
<1> QED
  BY <1>1, <1>2, <1>3

(***************************************************************************)
(* Candidates.                                                             *)
(***************************************************************************)

\* The environment has its variables, with values that are paths.
EnvTyped ==
  /\ cwd \in Dirs /\ config \in Configs
  /\ DOMAIN env = {"path", "file", "emulator", "runfiles"}
  /\ Len(env.path) \in Nat /\ DOMAIN env.path = 1..Len(env.path)
  /\ \A i \in DOMAIN env.path : env.path[i] \in Seq(Words)
  /\ env.file \in Seq(Words) /\ env.file # <<>>
  /\ env.emulator \in Seq(Words) /\ env.emulator # <<>>
  /\ env.runfiles \in Runfiles \cup {None}

\* The launcher at work is an executable file, started by some name.
SelfTyped ==
  /\ self.file \in DOMAIN Files /\ Executable(self.file)
  /\ self.argv0 \in Seq(Words) /\ self.argv0 # <<>>

\* Files and directories are absolute.
LEMMA PlacesAbsolute ==
  /\ \A f \in DOMAIN Files : f \in AbsPaths
  /\ \A d \in Dirs \cup Runfiles : d \in AbsPaths
  BY PathCandidatesAssumption, PathOfWords DEF AbsPaths

\* A path that was joined with the working directory is absolute.
LEMMA JoinAbsolute ==
  ASSUME cwd \in Dirs, NEW p \in Seq(Words)
  PROVE  Join(cwd, p) \in AbsPaths
<1>1. cwd \in AbsPaths
  BY PlacesAbsolute
<1>2. Absolute(p) => p \in AbsPaths
  BY DEF Absolute, AbsPaths
<1> QED
  BY <1>1, <1>2, GoesAbsolute DEF Join

\* The roots are absolute, the working directory the first of them.
LEMMA RootsTyped ==
  ASSUME EnvTyped, SelfTyped
  PROVE  /\ Roots \in Seq(AbsPaths) /\ Len(Roots) >= 1 /\ Roots[1] = cwd
         /\ RunfilesRoots \in Seq(AbsPaths)
<1>1. /\ cwd \in AbsPaths /\ Join(cwd, self.argv0) \in AbsPaths
      /\ Files[self.file].real \in AbsPaths
  BY PlacesAbsolute, JoinAbsolute, PathCandidatesAssumption DEF EnvTyped, SelfTyped
<1>2. <<cwd>> \in Seq(AbsPaths) /\ Len(<<cwd>>) = 1 /\ <<cwd>>[1] = cwd
  BY <1>1
<1> DEFINE a == ExecutionRootFromPath(Join(cwd, self.argv0))
           b == ExecutionRootFromPath(Files[self.file].real)
<1>3. a \in Seq(AbsPaths) /\ b \in Seq(AbsPaths) /\ Len(a) \in Nat /\ Len(b) \in Nat
  BY <1>1, RootsOfPath
<1> HIDE DEF a, b
<1>4. /\ <<cwd>> \o a \in Seq(AbsPaths) /\ Len(<<cwd>> \o a) = 1 + Len(a)
      /\ \A i \in 1..(1 + Len(a)) :
           (<<cwd>> \o a)[i] = IF i <= 1 THEN <<cwd>>[i] ELSE a[i - 1]
  BY <1>2, <1>3, ConcatProperties
<1>5. Len(<<cwd>> \o a) >= 1 /\ Len(<<cwd>> \o a) \in Nat /\ (<<cwd>> \o a)[1] = cwd
  BY <1>2, <1>3, <1>4
<1> DEFINE c == <<cwd>> \o a
<1> HIDE DEF c
<1>6. c \in Seq(AbsPaths) /\ Len(c) >= 1 /\ Len(c) \in Nat /\ c[1] = cwd
  BY <1>4, <1>5 DEF c
<1>7. /\ c \o b \in Seq(AbsPaths) /\ Len(c \o b) = Len(c) + Len(b)
      /\ \A i \in 1..(Len(c) + Len(b)) : (c \o b)[i] = IF i <= Len(c) THEN c[i] ELSE b[i - Len(c)]
  BY <1>3, <1>6, ConcatProperties
<1>8. Len(c \o b) >= 1 /\ (c \o b)[1] = cwd
  BY <1>3, <1>6, <1>7
<1>9. RunfilesRoots \in Seq(AbsPaths)
  <2> DEFINE r == IF env.runfiles = None THEN <<>> ELSE <<env.runfiles>>
             x == RunfilesRootFromPath(Files[self.file].real)
             y == RunfilesRootFromPath(Join(cwd, self.argv0))
             z == RunfilesRootFromPath(cwd)
  <2>1. r \in Seq(AbsPaths)
    BY PlacesAbsolute DEF EnvTyped
  <2>2. x \in Seq(AbsPaths) /\ y \in Seq(AbsPaths) /\ z \in Seq(AbsPaths)
    BY <1>1, RootsOfPath
  <2> HIDE DEF r, x, y, z
  <2>3. r \o x \o y \o z \in Seq(AbsPaths)
    BY <2>1, <2>2, ConcatProperties
  <2> QED
    BY <2>3 DEF RunfilesRoots, r, x, y, z
<1> QED
  BY <1>7, <1>8, <1>9 DEF Roots, a, b, c

\* A runfiles tree keeps a path under a path.
LEMMA InRunfilesTyped ==
  ASSUME NEW path \in Seq(Words), path # <<>>, InRunfiles(path) # None
  PROVE  InRunfiles(path) \in Seq(Words)
<1>0. Len(path) \in Nat
  BY LenProperties
<1>1. Tail(path) \in Seq(Words)
  BY HeadTailProperties
<1>2. \A s \in Seq(Words) : <<"_main">> \o s \in Seq(Words)
  <2>1. <<"_main">> \in Seq(Words)
    BY DEF Words
  <2> QED
    BY <2>1, ConcatProperties
<1> DEFINE bin == {i \in 2..(Len(path) - 1) : path[i] = "bin"}
<1>3. ASSUME bin # {} PROVE SubSeq(path, Min(bin) + 1, Len(path)) \in Seq(Words)
  <2>1. bin \subseteq Nat
    BY <1>0
  <2>2. Min(bin) \in bin
    BY <1>3, <2>1, MinIs
  <2> DEFINE k == Min(bin)
  <2>3. k \in 2..(Len(path) - 1)
    BY <2>2
  <2> HIDE DEF bin, k
  <2>4. k + 1 \in Int /\ \A i \in (k + 1)..Len(path) : i \in 1..Len(path)
    BY <1>0, <2>3
  <2>5. \A i \in (k + 1)..Len(path) : path[i] \in Words
    BY <2>4, LenProperties
  <2>6. SubSeq(path, k + 1, Len(path)) \in Seq(Words)
    BY <1>0, <2>4, <2>5, SubSeqProperties
  <2> QED
    BY <2>6 DEF k
<1> QED
  BY <1>1, <1>2, <1>3 DEF InRunfiles

\* The candidates of a path are absolute.  An absolute path is the only one of
\* its own; for another the first is below the working directory.
LEMMA CandidatesTyped ==
  ASSUME EnvTyped, SelfTyped, NEW path \in Seq(Words), path # <<>>
  PROVE  /\ Candidates(path) \in Seq(AbsPaths) /\ Len(Candidates(path)) >= 1
         /\ Candidates(path)[1] = Join(cwd, path)
<1>1. CASE Absolute(path)
  <2>1. path \in AbsPaths
    BY <1>1 DEF Absolute, AbsPaths
  <2>2. Candidates(path) = <<path>> /\ Join(cwd, path) = path
    BY <1>1 DEF Candidates, Join
  <2>3. <<path>> \in Seq(AbsPaths) /\ Len(<<path>>) = 1 /\ <<path>>[1] = path
    BY <2>1
  <2> QED
    BY <2>2, <2>3
<1>2. CASE ~Absolute(path)
  <2> DEFINE a == [i \in DOMAIN Roots |-> Roots[i] \o path]
             b == IF InRunfiles(path) = None THEN <<>>
                  ELSE [i \in DOMAIN RunfilesRoots |-> RunfilesRoots[i] \o InRunfiles(path)]
  <2>0. /\ Roots \in Seq(AbsPaths) /\ Len(Roots) >= 1 /\ Roots[1] = cwd
        /\ RunfilesRoots \in Seq(AbsPaths)
        /\ Len(Roots) \in Nat /\ DOMAIN Roots = 1..Len(Roots)
        /\ Len(RunfilesRoots) \in Nat /\ DOMAIN RunfilesRoots = 1..Len(RunfilesRoots)
    BY RootsTyped, LenProperties
  <2>1. a \in Seq(AbsPaths) /\ Len(a) = Len(Roots) /\ a[1] = cwd \o path
    <3>1. \A i \in 1..Len(Roots) : Roots[i] \in AbsPaths
      BY <2>0, LenProperties
    <3>2. \A i \in 1..Len(Roots) : Roots[i] \o path \in AbsPaths
      BY <3>1, GoesAbsolute
    <3>3. a = [i \in 1..Len(Roots) |-> Roots[i] \o path]
      BY <2>0
    <3> HIDE DEF a
    <3>4. a \in [1..Len(Roots) -> AbsPaths] /\ 1 \in 1..Len(Roots)
      BY <2>0, <3>2, <3>3
    <3>5. a \in Seq(AbsPaths) /\ Len(a) = Len(Roots)
      BY <2>0, <3>4, ListOf
    <3> QED
      BY <2>0, <3>3, <3>4, <3>5
  <2>2. b \in Seq(AbsPaths)
    <3>1. ASSUME InRunfiles(path) # None PROVE b \in Seq(AbsPaths)
      <4>1. InRunfiles(path) \in Seq(Words)
        BY <3>1, InRunfilesTyped
      <4>2. \A i \in 1..Len(RunfilesRoots) : RunfilesRoots[i] \in AbsPaths
        BY <2>0, LenProperties
      <4>3. \A i \in 1..Len(RunfilesRoots) : RunfilesRoots[i] \o InRunfiles(path) \in AbsPaths
        BY <4>1, <4>2, GoesAbsolute
      <4>4. b = [i \in 1..Len(RunfilesRoots) |-> RunfilesRoots[i] \o InRunfiles(path)]
        BY <2>0, <3>1
      <4> HIDE DEF b
      <4>5. b \in [1..Len(RunfilesRoots) -> AbsPaths]
        BY <4>3, <4>4
      <4> QED
        BY <2>0, <4>5
    <3>2. <<>> \in Seq(AbsPaths)
      OBVIOUS
    <3> QED
      BY <3>1, <3>2
  <2>3. Candidates(path) = a \o b /\ Join(cwd, path) = cwd \o path
    BY <1>2 DEF Candidates, Join
  <2> HIDE DEF a, b
  <2>4. /\ a \o b \in Seq(AbsPaths) /\ Len(a \o b) = Len(a) + Len(b)
        /\ \A i \in 1..(Len(a) + Len(b)) : (a \o b)[i] = IF i <= Len(a) THEN a[i] ELSE b[i - Len(a)]
    BY <2>1, <2>2, ConcatProperties
  <2>5. Len(a) \in Nat /\ Len(b) \in Nat /\ Len(a) >= 1
    BY <2>0, <2>1, <2>2, LenProperties
  <2>6. Len(a \o b) >= 1 /\ (a \o b)[1] = a[1]
    BY <2>4, <2>5
  <2> QED
    BY <2>1, <2>3, <2>4, <2>6
<1> QED
  BY <1>1, <1>2

\* What a path is resolved to is absolute; it is the path itself below the
\* working directory when this exists, and the path itself when absolute.
LEMMA AbsoluteBeforeChdirIs ==
  ASSUME EnvTyped, SelfTyped, NEW path \in Seq(Words), path # <<>>
  PROVE  /\ AbsoluteBeforeChdir(path) \in AbsPaths
         /\ Absolute(path) \/ Exists(Join(cwd, path)) => AbsoluteBeforeChdir(path) = Join(cwd, path)
<1> DEFINE candidates == Candidates(path)
           found == {i \in DOMAIN candidates : Exists(candidates[i])}
           first == IF found = {} THEN 1 ELSE Min(found)
<1>1. /\ candidates \in Seq(AbsPaths) /\ Len(candidates) >= 1 /\ candidates[1] = Join(cwd, path)
      /\ Len(candidates) \in Nat /\ DOMAIN candidates = 1..Len(candidates)
      /\ \A i \in 1..Len(candidates) : candidates[i] \in AbsPaths
  BY CandidatesTyped, LenProperties
<1>2. AbsoluteBeforeChdir(path) = candidates[first]
  BY DEF AbsoluteBeforeChdir
<1>3. found \subseteq Nat
  BY <1>1
<1>4. found # {} => Min(found) \in found /\ \A k \in found : Min(found) <= k
  BY <1>3, MinIs
<1>5. first \in 1..Len(candidates)
  BY <1>1, <1>4
<1>6. ASSUME Exists(Join(cwd, path)) PROVE first = 1
  <2>1. 1 \in found
    BY <1>1, <1>6
  <2>2. Min(found) <= 1 /\ Min(found) \in 1..Len(candidates)
    BY <1>1, <1>4, <2>1
  <2> HIDE DEF found
  <2> QED
    BY <1>1, <2>1, <2>2
<1>7. ASSUME Absolute(path) PROVE first = 1
  <2>1. Len(candidates) = 1
    BY <1>7 DEF Candidates
  <2> HIDE DEF first, candidates
  <2> QED
    BY <1>5, <2>1
<1> HIDE DEF candidates, first
<1> QED
  BY <1>1, <1>2, <1>5, <1>6, <1>7

\* A declared executable is absolute.
LEMMA DeclaredExecutableIs ==
  ASSUME EnvTyped, SelfTyped, NEW path \in Seq(Words), path # <<>>
  PROVE  DeclaredExecutable(path) \in AbsPaths \cup {None}
<1> DEFINE candidates == Candidates(path)
           found == {i \in DOMAIN candidates : Executable(candidates[i])}
<1>1. /\ DOMAIN candidates = 1..Len(candidates)
      /\ \A i \in 1..Len(candidates) : candidates[i] \in AbsPaths
  BY CandidatesTyped, LenProperties
<1>2. found \subseteq Nat
  BY <1>1
<1>3. found # {} => Min(found) \in found
  BY <1>2, MinIs
<1> QED
  BY <1>1, <1>3 DEF DeclaredExecutable

(***************************************************************************)
(* The inductive invariant.                                                *)
(***************************************************************************)

\* The system started the launcher at work by a path or by its name.
InvokedAs ==
  \/ Len(self.argv0) > 1 /\ Join(cwd, self.argv0) = self.file
  \/ self.argv0 = <<Name>> /\ \E i \in DOMAIN env.path : OnRawPath(i) = self.file

\* What a launch handed over is absolute.
Handed ==
  run # None => Absolute(run.file) /\ (Rewritten(config.argument) => Absolute(run.argument))

PathInv ==
  /\ EnvTyped
  /\ stage \in {"program", "owner", "prepare", "exit78"} /\ (stage = "exit78") = (why # None)
  /\ depth \in 0..MaxDepth
  /\ stage \in {"owner", "prepare"} => SelfTyped
  /\ stage \in {"owner", "prepare"} => InvokedAs
  /\ OwnerIsWhatRan
  /\ Handed

\* The invariant gives the types.
LEMMA PathTyped == PathInv => TypeOK
<1> SUFFICES ASSUME PathInv PROVE stage = "prepare" => Absolute(owner)
  BY DEF PathInv, TypeOK, EnvTyped, Handed
<1>1. \A p \in AbsPaths : Absolute(p)
  BY DEF AbsPaths, Absolute
<1> QED
  BY <1>1, PlacesAbsolute DEF PathInv, OwnerIsWhatRan, SelfTyped

\* What the constants are, besides paths.
LEMMA Basics ==
  /\ MaxDepth \in Nat
  /\ None \notin {"owner", "path", "not found"}
  /\ <<Name>> \in Seq(Words) /\ <<Name>> # <<>> /\ Len(<<Name>>) = 1
<1>1. Name \in STRING
  BY PathCandidatesAssumption
<1>2. Name \in Words
  BY <1>1 DEF Words
<1>3. MaxDepth \in Nat
  BY PathCandidatesAssumption
<1>4. None \notin {"owner", "path", "not found"}
  BY PathCandidatesAssumption
<1>5. <<Name>> \in Seq(Words) /\ Len(<<Name>>) = 1
  BY <1>2
<1>6. <<Name>> # <<>>
  BY <1>5, EmptySeq
<1> QED
  BY <1>2, <1>3, <1>4, <1>5, <1>6

\* How deep launches nest.
LEMMA Depths == MaxDepth \in Nat
BY PathCandidatesAssumption

\* The depth stays within its bound.
LEMMA Deeper ==
  ASSUME NEW m \in Nat, NEW d \in 0..m
  PROVE  0 \in 0..m /\ (d < m => d + 1 \in 0..m)
OBVIOUS

\* A number beyond one.
LEMMA BeyondOne == \A k \in Nat : k # 0 /\ k # 1 => k > 1
  OBVIOUS

\* The values of PATH are lists of paths.
LEMMA PathsTyped ==
  ASSUME NEW p \in Paths
  PROVE  Len(p) \in Nat /\ DOMAIN p = 1..Len(p) /\ \A i \in DOMAIN p : p[i] \in Seq(Words)
<1>1. p \in Seq(Seq(STRING))
  BY PathCandidatesAssumption
<1>2. Len(p) \in Nat /\ DOMAIN p = 1..Len(p) /\ p \in [1..Len(p) -> Seq(STRING)]
  BY <1>1, LenProperties
<1>3. \A i \in DOMAIN p : p[i] \in Seq(STRING)
  BY <1>2
<1> QED
  BY <1>2, <1>3, PathOfWords

\* Declared paths are relative.
LEMMA MeansTyped == \A p \in DOMAIN Means : p \in Seq(Words) /\ p # <<>> /\ ~Absolute(p)
  BY PathCandidatesAssumption, PathOfWords DEF Absolute

\* Initially no launcher is at work.
LEMMA PathInit == Init => PathInv
<1> SUFFICES ASSUME Init PROVE PathInv
  OBVIOUS
<1>1. PICK p \in Paths : env = [path |-> p, file |-> config.file, emulator |-> config.emulator, runfiles |-> None]
  BY DEF Init
<1>4. config \in Configs /\ config.file \in DOMAIN Means /\ config.emulator \in DOMAIN Means
  BY PathCandidatesAssumption DEF Init
<1>5. EnvTyped
  BY <1>1, <1>4, PathsTyped, MeansTyped DEF EnvTyped, Init
<1>6. stage = "program" /\ why = None /\ run = None /\ depth = 0
  BY DEF Init
<1>7. depth \in 0..MaxDepth
  BY <1>6, Depths
<1>8. OwnerIsWhatRan /\ Handed
  BY <1>6 DEF OwnerIsWhatRan, Handed
<1> QED
  BY <1>5, <1>6, <1>7, <1>8 DEF PathInv

\* A launcher that is started is what its name leads to.
LEMMA SpawnIdentifies ==
  ASSUME PathInv, NEW argv0 \in Seq(Words), argv0 # <<>>, NEW file \in DOMAIN Files,
         Executable(file), Spawn(argv0, file),
         \/ Len(argv0) > 1 /\ Join(cwd, argv0) = file
         \/ argv0 = <<Name>> /\ \E i \in DOMAIN env.path : OnRawPath(i) = file
  PROVE  PathInv'
<1>1. self' = [argv0 |-> argv0, file |-> file] /\ UNCHANGED <<cwd, env, config, owner, run, why>>
  BY DEF Spawn
<1>2. EnvTyped' /\ Handed'
  BY <1>1 DEF PathInv, EnvTyped, Handed
<1>3. SelfTyped'
  BY <1>1 DEF SelfTyped, Executable, Regular
<1>4. InvokedAs'
  BY <1>1 DEF InvokedAs, Join, OnRawPath
<1>5. stage = "program" /\ stage' = "owner" /\ why' = why /\ depth < MaxDepth /\ depth' = depth + 1
  BY DEF Spawn
<1>6. depth \in 0..MaxDepth /\ (stage = "exit78") = (why # None)
  BY DEF PathInv
<1>7. depth' \in 0..MaxDepth
  BY <1>5, <1>6, Depths, Deeper
<1> QED
  BY <1>2, <1>3, <1>4, <1>5, <1>6, <1>7 DEF PathInv, OwnerIsWhatRan

\* The first file that the system finds on PATH.
LEMMA SpawnByNameStep == PathInv /\ SpawnByName => PathInv'
<1> SUFFICES ASSUME PathInv, SpawnByName PROVE PathInv'
  OBVIOUS
<1> DEFINE found == {i \in DOMAIN env.path : Executable(OnRawPath(i))}
           k == Min(found)
<1>1. found # {} /\ Spawn(<<Name>>, OnRawPath(k))
  BY DEF SpawnByName
<1>2. found \subseteq Nat
  BY DEF PathInv, EnvTyped
<1>3. k \in found
  BY <1>1, <1>2, MinIs
<1>4. k \in DOMAIN env.path /\ Executable(OnRawPath(k))
  BY <1>3
<1> HIDE DEF k
<1> QED
  BY <1>1, <1>4, Basics, SpawnIdentifies DEF Executable, Regular

\* The path of a file from a directory above it leads back to the file.
LEMMA RelativePath ==
  ASSUME NEW file \in DOMAIN Files, cwd \in Dirs, IsPrefix(cwd, file), Len(file) > Len(cwd) + 1
  PROVE  /\ SubSeq(file, Len(cwd) + 1, Len(file)) \in Seq(Words)
         /\ Len(SubSeq(file, Len(cwd) + 1, Len(file))) > 1
         /\ Join(cwd, SubSeq(file, Len(cwd) + 1, Len(file))) = file
<1> DEFINE n == Len(cwd)
           rest == SubSeq(file, n + 1, Len(file))
<1>1. /\ file \in Seq(Words) /\ cwd \in Seq(Words) /\ cwd # <<>>
      /\ Len(file) \in Nat /\ n \in Nat /\ n >= 1 /\ n + 1 < Len(file)
  BY PlacesAbsolute, LenProperties DEF AbsPaths
<1>2. SubSeq(cwd, 1, n) = cwd /\ cwd = SubSeq(file, 1, n)
  BY <1>1, SubSeqFull DEF IsPrefix
<1>3. ASSUME NEW i \in 1..n PROVE cwd[i] = file[i]
  <2>1. \A j \in 1..n : j \in 1..Len(file) /\ file[j] \in Words
    BY <1>1, LenProperties
  <2>2. \A j \in 1..(n - 1 + 1) : SubSeq(file, 1, n)[j] = file[1 + j - 1]
    BY <1>1, <2>1, SubSeqProperties
  <2>3. i \in 1..(n - 1 + 1) /\ 1 + i - 1 = i
    BY <1>1, <1>3
  <2> QED
    BY <1>2, <2>2, <2>3
<1> HIDE DEF n
<1>4. /\ rest \in Seq(Words) /\ Len(rest) = Len(file) - n
      /\ \A i \in 1..(Len(file) - n) : rest[i] = file[n + i]
  <2>1. n + 1 \in Int /\ Len(file) \in Int /\ \A i \in (n + 1)..Len(file) : i \in 1..Len(file)
    BY <1>1
  <2>2. \A i \in (n + 1)..Len(file) : file[i] \in Words
    BY <1>1, <2>1, LenProperties
  <2>3. /\ rest \in Seq(Words)
        /\ Len(rest) = IF n + 1 <= Len(file) THEN Len(file) - (n + 1) + 1 ELSE 0
        /\ \A i \in 1..(Len(file) - (n + 1) + 1) : rest[i] = file[n + 1 + i - 1]
    BY <2>1, <2>2, SubSeqProperties
  <2>4. Len(rest) = Len(file) - n
    BY <1>1, <2>3
  <2>5. ASSUME NEW i \in 1..(Len(file) - n) PROVE rest[i] = file[n + i]
    <3>1. i \in 1..(Len(file) - (n + 1) + 1) /\ n + 1 + i - 1 = n + i
      BY <1>1, <2>5
    <3> QED
      BY <2>3, <3>1
  <2> QED
    BY <2>3, <2>4, <2>5
<1>5. Len(rest) > 1
  BY <1>1, <1>4
<1>6. ~Absolute(rest)
  <2>1. rest[1] = file[n + 1]
    BY <1>1, <1>4
  <2>2. n + 1 \in 2..Len(file)
    BY <1>1
  <2> QED
    BY <2>1, <2>2, PathCandidatesAssumption DEF Absolute
<1> HIDE DEF rest
<1>7. /\ cwd \o rest \in Seq(Words) /\ Len(cwd \o rest) = n + Len(rest)
      /\ \A i \in 1..(n + Len(rest)) :
           (cwd \o rest)[i] = IF i <= n THEN cwd[i] ELSE rest[i - n]
  BY <1>1, <1>4, ConcatProperties DEF n
<1>8. Len(cwd \o rest) = Len(file)
  BY <1>1, <1>4, <1>7
<1>9. ASSUME NEW i \in 1..Len(file) PROVE (cwd \o rest)[i] = file[i]
  <2>0. (cwd \o rest)[i] = IF i <= n THEN cwd[i] ELSE rest[i - n]
    BY <1>7, <1>8, <1>9
  <2>1. CASE i <= n
    <3>1. i \in 1..n
      BY <1>1, <2>1
    <3> QED
      BY <1>3, <2>0, <2>1, <3>1
  <2>2. CASE ~(i <= n)
    <3>1. i - n \in 1..(Len(file) - n) /\ n + (i - n) = i
      BY <1>1, <2>2
    <3> QED
      BY <1>4, <2>0, <2>2, <3>1
  <2> QED
    BY <2>1, <2>2
<1>10. cwd \o rest = file
  BY <1>1, <1>7, <1>8, <1>9, SeqEqual
<1> QED
  BY <1>4, <1>5, <1>6, <1>10 DEF Join, rest, n

\* A launcher that is started by a path is the file at this path.
LEMMA SpawnByPathStep ==
  ASSUME PathInv, NEW file \in DOMAIN Files, SpawnByPath(file)
  PROVE  PathInv'
<1>0. Executable(file) /\ file \in AbsPaths /\ cwd \in Dirs
  BY PlacesAbsolute DEF SpawnByPath, PathInv, EnvTyped
<1>1. CASE Spawn(file, file)
  <2>1. file \in Seq(Words) /\ file # <<>> /\ Join(cwd, file) = file /\ file[1] = "/"
    BY <1>0 DEF AbsPaths, Join, Absolute
  <2>2. Len(file) # 1
    BY <2>1, PathCandidatesAssumption DEF SpawnByPath, Last
  <2>3. Len(file) \in Nat /\ Len(file) # 0
    BY <2>1, LenProperties
  <2>4. Len(file) > 1
    BY <2>2, <2>3, BeyondOne
  <2> QED
    BY <1>0, <1>1, <2>1, <2>4, SpawnIdentifies
<1>2. ASSUME IsPrefix(cwd, file), Len(file) > Len(cwd) + 1,
             Spawn(SubSeq(file, Len(cwd) + 1, Len(file)), file)
      PROVE  PathInv'
  <2> DEFINE rest == SubSeq(file, Len(cwd) + 1, Len(file))
  <2>1. rest \in Seq(Words) /\ Len(rest) > 1 /\ Join(cwd, rest) = file
    BY <1>0, <1>2, RelativePath
  <2>2. Spawn(rest, file)
    BY <1>2
  <2> HIDE DEF rest
  <2>3. rest # <<>>
    BY <2>1
  <2> QED
    BY <1>0, <2>1, <2>2, <2>3, SpawnIdentifies
<1> QED
  BY <1>1, <1>2 DEF SpawnByPath

\* A launcher that was started by its name finds the file that the system
\* found, because the working directory is the first root it looks below.
LEMMA NameFindsSelf ==
  ASSUME EnvTyped, SelfTyped, InvokedAs, Bare, PathReadable
  PROVE  self.file \in Matched
<1>1. self.argv0 = <<Name>>
  BY DEF InvokedAs, Bare
<1>2. PICK i \in DOMAIN env.path : OnRawPath(i) = self.file
  BY DEF InvokedAs, Bare
<1> DEFINE p == env.path[i]
<1>3. p \in Seq(Words) /\ p # <<>> /\ <<Name>> \in Seq(Words)
  BY Basics DEF EnvTyped, PathReadable
<1>4. Join(cwd, p) \in Seq(Words)
  BY <1>3, JoinAbsolute DEF EnvTyped, AbsPaths
<1>5. Join(cwd, p) \o <<Name>> = self.file
  BY <1>2 DEF OnRawPath
<1>6. Exists(Join(cwd, p))
  BY <1>3, <1>4, <1>5, WayExists DEF SelfTyped
<1>7. AbsoluteBeforeChdir(p) = Join(cwd, p)
  BY <1>3, <1>6, AbsoluteBeforeChdirIs
<1>8. OnPath(i) = self.file
  BY <1>1, <1>5, <1>7 DEF OnPath
<1> QED
  BY <1>8 DEF Matched, SelfTyped

\* The owner that a launcher finds is the launcher itself.
LEMMA FindOwnerStep == PathInv /\ FindOwner => PathInv'
<1> SUFFICES ASSUME PathInv, FindOwner PROVE PathInv'
  OBVIOUS
<1>0. EnvTyped /\ SelfTyped /\ InvokedAs /\ self.file \in AbsPaths /\ self.file \in Seq(Words) /\ self.file # <<>>
  BY PlacesAbsolute DEF PathInv, FindOwner, SelfTyped, AbsPaths
<1>1. owner' = self.file
  <2>1. CASE Bare
    <3>1. PathReadable /\ \E p \in Matched : Matched = {p}
      BY <2>1 DEF FindOwner, OwnerFound
    <3>2. self.file \in Matched
      BY <1>0, <2>1, <3>1, NameFindsSelf
    <3>3. Matched = {self.file}
      BY <3>1, <3>2
    <3>4. (CHOOSE p \in Matched : TRUE) = self.file
      BY <3>3
    <3>5. Absolute(self.file) /\ Join(cwd, self.file) = self.file
      BY <1>0 DEF AbsPaths, Absolute, Join
    <3>6. AbsoluteBeforeChdir(self.file) = self.file
      BY <1>0, <3>5, AbsoluteBeforeChdirIs
    <3> QED
      BY <2>1, <3>4, <3>6 DEF FindOwner
  <2>2. CASE ~Bare
    <3>1. Join(cwd, self.argv0) = self.file
      BY <1>0, <2>2, Basics DEF InvokedAs, Bare
    <3>2. Exists(self.file)
      BY <1>0 DEF Exists, SelfTyped, IsPrefix
    <3>3. AbsoluteBeforeChdir(self.argv0) = self.file
      BY <1>0, <3>1, <3>2, AbsoluteBeforeChdirIs DEF SelfTyped
    <3> QED
      BY <2>2, <3>3 DEF FindOwner
  <2> QED
    BY <2>1, <2>2
<1>2. EnvTyped' /\ Handed' /\ SelfTyped' /\ InvokedAs'
  BY <1>0 DEF FindOwner, PathInv, EnvTyped, Handed, SelfTyped, InvokedAs, Join, OnRawPath, Executable, Regular
<1> QED
  BY <1>1, <1>2 DEF PathInv, FindOwner, OwnerIsWhatRan

\* What a launch hands over, to its program and to the launches below, is
\* absolute.
LEMMA LaunchStep == PathInv /\ Launch => PathInv'
<1> SUFFICES ASSUME PathInv, Launch PROVE PathInv'
  OBVIOUS
<1>0. EnvTyped /\ SelfTyped /\ stage' = "program" /\ UNCHANGED <<cwd, config, self, owner, depth, why>>
  BY DEF PathInv, Launch
<1>a. \A p \in AbsPaths : Absolute(p) /\ p \in Seq(Words) /\ p # <<>>
  BY DEF AbsPaths, Absolute
<1>1. AbsoluteBeforeChdir(env.file) \in AbsPaths
  BY <1>0, AbsoluteBeforeChdirIs DEF EnvTyped
<1>2. config.foreign => DeclaredExecutable(env.emulator) \in AbsPaths
  <2>1. DeclaredExecutable(env.emulator) \in AbsPaths \cup {None}
    BY <1>0, DeclaredExecutableIs DEF EnvTyped
  <2>2. config.foreign => DeclaredExecutable(env.emulator) # None
    BY DEF Launch, Found
  <2> QED
    BY <2>1, <2>2
<1>3. Rewritten(config.argument) => ResolveArgument(config.argument) \in AbsPaths
  <2>1. config.argument \in Seq(Words) /\ config.argument # <<>>
    BY <1>0, MeansTyped, PathCandidatesAssumption DEF EnvTyped
  <2> QED
    BY <1>0, <2>1, AbsoluteBeforeChdirIs DEF ResolveArgument
<1>4. config.names => \A i \in DOMAIN env.path : PathResolved[i] \in Seq(Words)
  <2> SUFFICES ASSUME config.names, NEW i \in DOMAIN env.path PROVE PathResolved[i] \in Seq(Words)
    OBVIOUS
  <2>1. env.path[i] \in Seq(Words) /\ env.path[i] # <<>>
    BY <1>0 DEF Launch, PathAccepted, EnvTyped
  <2>2. AbsoluteBeforeChdir(env.path[i]) \in Seq(Words)
    BY <1>0, <1>a, <2>1, AbsoluteBeforeChdirIs
  <2> QED
    BY <2>2 DEF PathResolved
<1>5. Len(PathResolved) = Len(env.path) /\ DOMAIN PathResolved = DOMAIN env.path
  BY <1>0 DEF PathResolved, EnvTyped
<1>6. /\ DOMAIN env' = DOMAIN env /\ env'.runfiles = env.runfiles
      /\ env'.path = IF config.names THEN PathResolved ELSE env.path
      /\ env'.file = AbsoluteBeforeChdir(env.file)
      /\ env'.emulator = IF config.foreign THEN DeclaredExecutable(env.emulator) ELSE env.emulator
  BY <1>0 DEF Launch, EnvTyped
<1>7. EnvTyped'
  BY <1>0, <1>a, <1>1, <1>2, <1>4, <1>5, <1>6 DEF EnvTyped
<1>8. Handed'
  <2>1. /\ run'.file = AbsoluteBeforeChdir(env.file)
        /\ run'.argument = ResolveArgument(config.argument)
    BY DEF Launch
  <2> QED
    BY <1>0, <1>a, <1>1, <1>3, <2>1 DEF Handed
<1> QED
  BY <1>0, <1>7, <1>8 DEF PathInv, OwnerIsWhatRan, Launch

\* Every step preserves the invariant.
LEMMA PathStep == PathInv /\ [Next]_vars => PathInv'
<1> SUFFICES ASSUME PathInv, [Next]_vars PROVE PathInv'
  OBVIOUS
<1>1. ASSUME NEW reason \in {"owner", "path", "not found"}, GiveUp(reason) PROVE PathInv'
  BY <1>1, Basics DEF PathInv, GiveUp, EnvTyped, OwnerIsWhatRan, Handed
<1>2. ASSUME NEW d \in Dirs, ChangeDirectory(d) PROVE PathInv'
  BY <1>2 DEF PathInv, ChangeDirectory, EnvTyped, OwnerIsWhatRan, Handed
<1>3. ASSUME NEW r \in Runfiles \cup {None}, SetRunfiles(r) PROVE PathInv'
  BY <1>3 DEF PathInv, SetRunfiles, EnvTyped, OwnerIsWhatRan, Handed
<1>4. CASE UNCHANGED vars
  BY <1>4 DEF vars, PathInv, EnvTyped, SelfTyped, InvokedAs, Join, OnRawPath, OwnerIsWhatRan, Handed,
     Executable, Regular
<1> QED
  BY <1>1, <1>2, <1>3, <1>4, FindOwnerStep, LaunchStep, SpawnByNameStep, SpawnByPathStep
  DEF Next, RefuseOwner, RefusePath, RefuseNotFound

(***************************************************************************)
(* Where declared files are found.                                         *)
(***************************************************************************)

\* A path is a directory and what follows it.
LEMMA Follows ==
  ASSUME NEW d \in Seq(Words), NEW p \in Seq(Words)
  PROVE  From(Len(d) + 1, d \o p) = p
<1> DEFINE path == d \o p
           n == Len(d)
           s == SubSeq(path, n + 1, Len(path))
<1>1. /\ path \in Seq(Words) /\ Len(path) = n + Len(p)
      /\ \A i \in 1..(n + Len(p)) : path[i] = IF i <= n THEN d[i] ELSE p[i - n]
  BY ConcatProperties
<1>2. n \in Nat /\ Len(p) \in Nat /\ \A i \in 1..Len(path) : path[i] \in Words
  BY <1>1, LenProperties
<1> HIDE DEF path, n
<1>3. /\ s \in Seq(Words)
      /\ Len(s) = IF n + 1 <= Len(path) THEN Len(path) - (n + 1) + 1 ELSE 0
      /\ \A i \in 1..(Len(path) - (n + 1) + 1) : s[i] = path[n + 1 + i - 1]
  <2>1. \A i \in (n + 1)..Len(path) : path[i] \in Words
    BY <1>1, <1>2
  <2>2. n + 1 \in Int /\ Len(path) \in Int
    BY <1>1, <1>2
  <2> QED
    BY <2>1, <2>2, SubSeqProperties
<1> HIDE DEF s
<1>4. Len(s) = Len(p)
  BY <1>1, <1>2, <1>3
<1>5. ASSUME NEW i \in 1..Len(s) PROVE s[i] = p[i]
  <2>1. i \in 1..(Len(path) - (n + 1) + 1) /\ n + 1 + i - 1 = n + i /\ n + i \in 1..(n + Len(p))
        /\ ~(n + i <= n) /\ (n + i) - n = i
    BY <1>1, <1>2, <1>4
  <2> QED
    BY <1>1, <1>3, <2>1
<1>6. s = p
  BY <1>3, <1>4, <1>5, SeqEqual
<1> QED
  BY <1>6 DEF s, path, n, From

\* What two paths have in common, and what follows it, is all of a path.
LEMMA Rejoined ==
  ASSUME NEW path \in Seq(Words), NEW i \in 0..Len(path)
  PROVE  /\ SubSeq(path, 1, i) \in Seq(Words) /\ Len(SubSeq(path, 1, i)) = i
         /\ From(i + 1, path) \in Seq(Words) /\ Len(From(i + 1, path)) = Len(path) - i
         /\ SubSeq(path, 1, i) \o From(i + 1, path) = path
<1> DEFINE a == SubSeq(path, 1, i)
           b == SubSeq(path, i + 1, Len(path))
<1>0. Len(path) \in Nat /\ i \in Nat /\ i <= Len(path) /\ \A j \in 1..Len(path) : path[j] \in Words
  BY LenProperties
<1>1. a \in Seq(Words) /\ Len(a) = i /\ \A j \in 1..i : a[j] = path[j]
  <2>1. \A j \in 1..i : path[j] \in Words
    BY <1>0
  <2>2. /\ a \in Seq(Words) /\ Len(a) = IF 1 <= i THEN i - 1 + 1 ELSE 0
        /\ \A j \in 1..(i - 1 + 1) : a[j] = path[1 + j - 1]
    BY <1>0, <2>1, SubSeqProperties
  <2> HIDE DEF a
  <2>3. \A j \in 1..i : j \in 1..(i - 1 + 1) /\ 1 + j - 1 = j
    BY <1>0
  <2>4. Len(a) = i
    BY <1>0, <2>2
  <2> QED
    BY <2>2, <2>3, <2>4
<1>2. b \in Seq(Words) /\ Len(b) = Len(path) - i /\ \A j \in 1..(Len(path) - i) : b[j] = path[i + j]
  <2>1. \A j \in (i + 1)..Len(path) : path[j] \in Words
    BY <1>0
  <2>2. /\ b \in Seq(Words) /\ Len(b) = IF i + 1 <= Len(path) THEN Len(path) - (i + 1) + 1 ELSE 0
        /\ \A j \in 1..(Len(path) - (i + 1) + 1) : b[j] = path[i + 1 + j - 1]
    BY <1>0, <2>1, SubSeqProperties
  <2> HIDE DEF b
  <2>3. \A j \in 1..(Len(path) - i) : j \in 1..(Len(path) - (i + 1) + 1) /\ i + 1 + j - 1 = i + j
    BY <1>0
  <2>4. Len(b) = Len(path) - i
    BY <1>0, <2>2
  <2> QED
    BY <2>2, <2>3, <2>4
<1> HIDE DEF a, b
<1>3. /\ a \o b \in Seq(Words) /\ Len(a \o b) = i + (Len(path) - i)
      /\ \A j \in 1..(i + (Len(path) - i)) : (a \o b)[j] = IF j <= i THEN a[j] ELSE b[j - i]
  BY <1>1, <1>2, ConcatProperties
<1>4. Len(a \o b) = Len(path)
  BY <1>0, <1>3
<1>5. ASSUME NEW j \in 1..Len(path) PROVE (a \o b)[j] = path[j]
  <2>1. j \in 1..(i + (Len(path) - i)) /\ (j <= i => j \in 1..i)
        /\ (~(j <= i) => j - i \in 1..(Len(path) - i) /\ i + (j - i) = j)
    BY <1>0
  <2> QED
    BY <1>1, <1>2, <1>3, <2>1
<1>6. a \o b = path
  BY <1>3, <1>4, <1>5, SeqEqual
<1> QED
  BY <1>1, <1>2, <1>6 DEF a, b, From

\* The first component of a kind is where a path is cut.
LEMMA BeforeFirst ==
  ASSUME NEW path \in AbsPaths, NEW S
  PROVE  /\ \A i : First(i, S, path) => Before(path, S) = SubSeq(path, 1, i - 1)
         /\ Before(path, S) # <<>> => \E i : First(i, S, path) /\ Before(path, S) = SubSeq(path, 1, i - 1)
<1> DEFINE at == {i \in 2..(Len(path) - 1) : path[i] \in S}
<1>0. Len(path) \in Nat
  BY LenProperties DEF AbsPaths
<1>1. at \subseteq Nat
  BY <1>0
<1>2. at # {} => Min(at) \in at /\ \A k \in at : Min(at) <= k
  BY <1>1, MinIs
<1>3. Before(path, S) = IF at = {} THEN <<>> ELSE SubSeq(path, 1, Min(at) - 1)
  BY DEF Before
<1>4. ASSUME NEW i, First(i, S, path) PROVE at # {} /\ Min(at) = i
  <2>1. i \in at
    BY <1>4 DEF First
  <2>2. Min(at) \in at /\ Min(at) <= i
    BY <1>2, <2>1
  <2>3. ~(Min(at) \in 2..(i - 1))
    BY <1>4, <2>2 DEF First
  <2> HIDE DEF at
  <2>4. Min(at) \in 2..(Len(path) - 1) /\ i \in 2..(Len(path) - 1)
    BY <2>1, <2>2 DEF at
  <2> DEFINE m == Min(at)
  <2>5. m \in 2..(Len(path) - 1) /\ m <= i /\ ~(m \in 2..(i - 1))
    BY <2>2, <2>3, <2>4
  <2> HIDE DEF m
  <2>6. m = i
    BY <1>0, <2>4, <2>5
  <2> QED
    BY <2>1, <2>6 DEF m
<1>5. ASSUME at # {} PROVE First(Min(at), S, path)
  <2> DEFINE m == Min(at)
  <2>1. m \in 2..(Len(path) - 1) /\ path[m] \in S /\ \A k \in at : m <= k
    BY <1>2, <1>5
  <2>2. ASSUME NEW j \in 2..(m - 1) PROVE path[j] \notin S
    <3>1. j \in 2..(Len(path) - 1) /\ ~(m <= j)
      <4> HIDE DEF m, at
      <4> QED
        BY <1>0, <2>1, <2>2
    <3> QED
      BY <2>1, <3>1
  <2> QED
    BY <2>1, <2>2 DEF First
<1> HIDE DEF at
<1> QED
  BY <1>3, <1>4, <1>5

\* The path below external/ is the rest of the path.
LEMMA BelowExternal ==
  ASSUME NEW p \in Seq(Words), Below("external", p)
  PROVE  /\ p = <<"external">> \o Tail(p) /\ Tail(p) # <<>> /\ Tail(p) \in Seq(Words)
         /\ \A path \in Seq(Words) : p = <<"external">> \o path => Tail(p) = path
<1>0. Len(p) \in Nat /\ Len(p) > 1 /\ p[1] = "external" /\ p # <<>> /\ p[1] \in Words
  BY LenProperties DEF Below
<1>1. Tail(p) \in Seq(Words) /\ Len(Tail(p)) = Len(p) - 1 /\ Tail(p) = SubSeq(p, 2, Len(p))
  BY <1>0, HeadTailProperties, TailIsSubSeq
<1>2. Tail(p) # <<>>
  <2>1. Tail(p)[1] = p[1 + 1] /\ Len(Tail(p)) # 0
    BY <1>0, <1>1, HeadTailProperties
  <2> QED
    BY <2>1, EmptySeq
<1>3. 1 \in 1..Len(p) /\ Len(p) \in 1..Len(p)
  BY <1>0
<1>4. p = <<p[1]>> \o SubSeq(p, 1 + 1, Len(p))
  BY <1>3, SubSeqRecursiveFirst, SubSeqFull
<1>5. p = <<"external">> \o Tail(p)
  BY <1>0, <1>1, <1>4
<1>6. <<"external">> \in Seq(Words) /\ Len(<<"external">>) = 1
  <2>1. "external" \in Words
    BY <1>0
  <2> QED
    BY <2>1
<1>7. ASSUME NEW path \in Seq(Words), p = <<"external">> \o path PROVE Tail(p) = path
  <2>1. From(1 + 1, <<"external">> \o path) = path
    BY <1>6, Follows
  <2> QED
    BY <1>1, <1>7, <2>1 DEF From
<1> QED
  BY <1>1, <1>2, <1>5, <1>7

\* The program knows where a runfiles tree has a file, unless it is an output of
\* another repository, which it looks for where older trees have it.
LEMMA InRunfilesIs ==
  ASSUME NEW p \in DOMAIN Means
  PROVE  /\ InRunfiles(p) # None /\ InRunfiles(p) \in Seq(Words) /\ InRunfiles(p) # <<>>
         /\ InRunfiles(p) \in {Kept(p), InMain(p)}
         /\ ~OutputOfRepository(p) => InRunfiles(p) = Kept(p)
<1>0. /\ p \in Seq(Words) /\ p # <<>> /\ Len(p) \in Nat /\ <<"_main">> \in Seq(Words) /\ <<"_main">> # <<>>
      /\ p[1] = "bazel-out" => Len(p) > 3 /\ p[2] # "bin" /\ p[3] = "bin"
      /\ \A path \in Seq(Words) : path # None
  <2>1. p[1] = "bazel-out" => Len(p) > 3 /\ p[2] # "bin" /\ p[3] = "bin"
    BY PathCandidatesAssumption
  <2>2. p \in Seq(Words) /\ p # <<>> /\ Len(p) \in Nat
    BY MeansTyped, LenProperties
  <2>3. <<"_main">> \in Seq(Words) /\ <<"_main">> # <<>>
    BY DEF Words
  <2> QED
    BY <2>1, <2>2, <2>3, NoneIsNoPath
<1>1. \A t \in Seq(Words) : <<"_main">> \o t \in Seq(Words) /\ <<"_main">> \o t # <<>>
  BY <1>0, Goes
<1>2. CASE Below("external", p)
  <2>1. Own(p) = p /\ InRunfiles(p) = Tail(p) /\ Kept(p) = Tail(p)
    BY <1>2 DEF Own, Kept, InRunfiles, Below
  <2>2. Tail(p) \in Seq(Words) /\ Tail(p) # <<>>
    BY <1>0, <1>2, BelowExternal
  <2> QED
    BY <1>0, <2>1, <2>2
<1>3. CASE Below("bazel-out", p)
  <2> DEFINE bin == {i \in 2..(Len(p) - 1) : p[i] = "bin"}
  <2>1. Len(p) > 3 /\ p[2] # "bin" /\ p[3] = "bin"
    BY <1>0, <1>3 DEF Below
  <2>2. 3 \in bin /\ bin \subseteq Nat
    BY <1>0, <2>1
  <2>3. Min(bin) \in bin /\ Min(bin) <= 3
    BY <2>2, MinIs
  <2>4. Min(bin) = 3
    <3> DEFINE m == Min(bin)
    <3>1. m \in 2..(Len(p) - 1) /\ p[m] = "bin" /\ m <= 3
      BY <2>3
    <3> HIDE DEF m
    <3>2. m \in Nat /\ m >= 2 /\ m <= 3 /\ m # 2
      BY <1>0, <2>1, <3>1
    <3>3. m = 3
      BY <3>2
    <3> QED
      BY <3>3 DEF m
  <2>5. InRunfiles(p) = <<"_main">> \o SubSeq(p, Min(bin) + 1, Len(p))
    BY <1>3, <2>2 DEF InRunfiles, Below
  <2> HIDE DEF bin
  <2>6. Own(p) = SubSeq(p, 4, Len(p)) /\ Min(bin) + 1 = 4
    BY <1>3, <2>4 DEF Own, From
  <2>7. InRunfiles(p) = InMain(p)
    BY <2>5, <2>6 DEF InMain
  <2>8. Own(p) \in Seq(Words)
    <3>1. 3 \in 0..Len(p) /\ 3 + 1 = 4
      BY <1>0, <2>1
    <3>2. From(3 + 1, p) \in Seq(Words)
      BY <1>0, <3>1, Rejoined
    <3> QED
      BY <1>3, <3>1, <3>2 DEF Own
  <2>9. InMain(p) \in Seq(Words) /\ InMain(p) # <<>>
    BY <1>1, <2>8 DEF InMain
  <2>10. ~OutputOfRepository(p) => Kept(p) = InMain(p)
    BY <1>3 DEF OutputOfRepository, Kept
  <2> QED
    BY <1>0, <2>7, <2>9, <2>10
<1>4. CASE ~Below("external", p) /\ ~Below("bazel-out", p)
  <2>1. Own(p) = p /\ InRunfiles(p) = InMain(p) /\ Kept(p) = InMain(p) /\ InMain(p) = <<"_main">> \o p
    BY <1>4 DEF Own, Kept, InRunfiles, InMain
  <2> QED
    BY <1>0, <1>1, <2>1
<1> QED
  BY <1>2, <1>3, <1>4

\* A root of a runfiles tree ends in a component that says so, and is the
\* directory that the outermost of these components leads to.
LEMMA RunfilesRootIs ==
  ASSUME NEW path \in AbsPaths
  PROVE  /\ \A i : First(i, Trees, path) => RunfilesRootFromPath(path) = <<SubSeq(path, 1, i)>>
         /\ \A r \in Range(RunfilesRootFromPath(path)) : r \in AbsPaths /\ Len(r) >= 2 /\ r[Len(r)] \in Trees
<1>0. path \in Seq(Words) /\ Len(path) \in Nat
  BY LenProperties DEF AbsPaths
<1>1. ASSUME NEW i, First(i, Trees, path)
      PROVE  /\ RunfilesRootFromPath(path) = <<SubSeq(path, 1, i)>>
             /\ SubSeq(path, 1, i) \in AbsPaths /\ Len(SubSeq(path, 1, i)) = i /\ i >= 2
             /\ SubSeq(path, 1, i)[i] \in Trees
  <2>1. i \in 2..(Len(path) - 1) /\ path[i] \in Trees
    BY <1>1 DEF First
  <2>2. /\ i \in Nat /\ i >= 2 /\ i - 1 \in 0..Len(path) /\ i \in 1..Len(path) /\ i - 1 + 1 = i
        /\ i \in 1..(i - 1 + 1) /\ 1 + i - 1 = i
    BY <1>0, <2>1
  <2>3. Before(path, Trees) = SubSeq(path, 1, i - 1) /\ Len(SubSeq(path, 1, i - 1)) = i - 1
    BY <1>0, <1>1, <2>2, BeforeFirst, Rejoined
  <2>4. Before(path, Trees) # <<>>
    BY <2>2, <2>3
  <2>5. RunfilesRootFromPath(path) = <<SubSeq(path, 1, i)>>
    BY <2>2, <2>3, <2>4 DEF RunfilesRootFromPath
  <2>6. SubSeq(path, 1, i) \in AbsPaths /\ Len(SubSeq(path, 1, i)) = i
    BY <2>2, FirstsAbsolute
  <2>7. \A j \in 1..i : path[j] \in Words
    BY <1>0, <2>2, LenProperties
  <2>8. \A j \in 1..(i - 1 + 1) : SubSeq(path, 1, i)[j] = path[1 + j - 1]
    BY <2>2, <2>7, SubSeqProperties
  <2>9. SubSeq(path, 1, i)[i] = path[i]
    BY <2>2, <2>8
  <2> QED
    BY <2>1, <2>2, <2>5, <2>6, <2>9
<1>2. Before(path, Trees) = <<>> => RunfilesRootFromPath(path) = <<>>
  BY DEF RunfilesRootFromPath
<1>3. Range(<<>>) = {} /\ \A r : Range(<<r>>) = {r}
  BY DEF Range
<1>4. CASE Before(path, Trees) = <<>>
  <2>1. \A i : ~First(i, Trees, path)
    <3> SUFFICES ASSUME NEW i, First(i, Trees, path) PROVE FALSE
      OBVIOUS
    <3>1. RunfilesRootFromPath(path) = <<>> /\ RunfilesRootFromPath(path) = <<SubSeq(path, 1, i)>>
      BY <1>1, <1>2, <1>4
    <3> QED
      BY <1>3, <3>1
  <2> QED
    BY <1>2, <1>3, <1>4, <2>1
<1>5. CASE Before(path, Trees) # <<>>
  <2>1. PICK i : First(i, Trees, path)
    BY <1>5, BeforeFirst
  <2>2. Range(RunfilesRootFromPath(path)) = {SubSeq(path, 1, i)}
    BY <1>1, <1>3, <2>1
  <2> QED
    BY <1>1, <2>1, <2>2
<1> QED
  BY <1>4, <1>5

\* The execution root is above the outermost bazel-out.
LEMMA ExecutionRootIs ==
  ASSUME NEW path \in AbsPaths, NEW i, First(i, {"bazel-out"}, path), i > 2
  PROVE  /\ ExecutionRootFromPath(path) = <<SubSeq(path, 1, i - 1)>>
         /\ SubSeq(path, 1, i - 1) \in AbsPaths /\ Len(SubSeq(path, 1, i - 1)) = i - 1
<1>0. Len(path) \in Nat /\ i \in 2..(Len(path) - 1)
  BY LenProperties DEF AbsPaths, First
<1>1. i - 1 \in 1..Len(path) /\ i - 1 > 1
  BY <1>0
<1>2. /\ Before(path, {"bazel-out"}) = SubSeq(path, 1, i - 1)
      /\ SubSeq(path, 1, i - 1) \in AbsPaths /\ Len(SubSeq(path, 1, i - 1)) = i - 1
  BY <1>1, BeforeFirst, FirstsAbsolute
<1>3. SubSeq(path, 1, i - 1) # <<>>
  BY <1>2 DEF AbsPaths
<1> QED
  BY <1>1, <1>2, <1>3 DEF ExecutionRootFromPath

\* Two lists of places make one.
LEMMA Joined ==
  ASSUME NEW s \in Seq(AbsPaths), NEW t \in Seq(AbsPaths)
  PROVE  s \o t \in Seq(AbsPaths) /\ Range(s \o t) = Range(s) \cup Range(t)
<1>1. s \o t \in Seq(AbsPaths)
  BY ConcatProperties
<1>2. Range(s \o t) = Range(s) \cup Range(t)
  BY RangeConcatenation
<1> QED
  BY <1>1, <1>2

\* The execution roots that are looked in, besides the working directory.
LEMMA RootsAre ==
  ASSUME EnvTyped, SelfTyped
  PROVE  Range(Roots) = {cwd} \cup Range(ExecutionRootFromPath(Join(cwd, self.argv0)))
                              \cup Range(ExecutionRootFromPath(Files[self.file].real))
<1>1. Join(cwd, self.argv0) \in AbsPaths /\ Files[self.file].real \in AbsPaths /\ cwd \in AbsPaths
  BY PlacesAbsolute, JoinAbsolute, PathCandidatesAssumption DEF EnvTyped, SelfTyped
<1> DEFINE a == ExecutionRootFromPath(Join(cwd, self.argv0))
           b == ExecutionRootFromPath(Files[self.file].real)
<1>2. a \in Seq(AbsPaths) /\ b \in Seq(AbsPaths) /\ <<cwd>> \in Seq(AbsPaths)
  BY <1>1, RootsOfPath
<1> HIDE DEF a, b
<1>3. Range(<<cwd>>) = {cwd}
  BY DEF Range
<1>4. <<cwd>> \o a \in Seq(AbsPaths) /\ Range(<<cwd>> \o a) = {cwd} \cup Range(a)
  BY <1>2, <1>3, Joined
<1>5. Range((<<cwd>> \o a) \o b) = Range(<<cwd>> \o a) \cup Range(b)
  BY <1>2, <1>4, Joined
<1> QED
  BY <1>4, <1>5 DEF Roots, a, b

\* The runfiles trees that are looked in.
LEMMA RunfilesRootsAre ==
  ASSUME EnvTyped, SelfTyped
  PROVE  /\ Range(RunfilesRootFromPath(Join(cwd, self.argv0))) \subseteq Range(RunfilesRoots)
         /\ Range(RunfilesRootFromPath(Files[self.file].real)) \subseteq Range(RunfilesRoots)
         /\ \A r \in Range(RunfilesRoots) : r \in AbsPaths /\ Len(r) >= 2 /\ r[Len(r)] \in Trees
<1>1. Join(cwd, self.argv0) \in AbsPaths /\ Files[self.file].real \in AbsPaths /\ cwd \in AbsPaths
  BY PlacesAbsolute, JoinAbsolute, PathCandidatesAssumption DEF EnvTyped, SelfTyped
<1> DEFINE r == IF env.runfiles = None THEN <<>> ELSE <<env.runfiles>>
           x == RunfilesRootFromPath(Files[self.file].real)
           y == RunfilesRootFromPath(Join(cwd, self.argv0))
           z == RunfilesRootFromPath(cwd)
<1>2. x \in Seq(AbsPaths) /\ y \in Seq(AbsPaths) /\ z \in Seq(AbsPaths)
  BY <1>1, RootsOfPath
<1>3. r \in Seq(AbsPaths) /\ Range(r) = IF env.runfiles = None THEN {} ELSE {env.runfiles}
  BY PlacesAbsolute DEF EnvTyped, Range
<1>4. ASSUME env.runfiles # None
      PROVE  env.runfiles \in AbsPaths /\ Len(env.runfiles) >= 2 /\ env.runfiles[Len(env.runfiles)] \in Trees
  <2>1. env.runfiles \in AbsPaths /\ env.runfiles[Len(env.runfiles)] \in Trees /\ "/" \notin Trees
    BY <1>4, PlacesAbsolute, PathCandidatesAssumption DEF EnvTyped
  <2>2. env.runfiles[1] = "/" /\ Len(env.runfiles) \in Nat /\ Len(env.runfiles) # 0
    BY <2>1, LenProperties, EmptySeq DEF AbsPaths
  <2>3. Len(env.runfiles) # 1
    BY <2>1, <2>2
  <2>4. \A n \in Nat : n # 0 /\ n # 1 => n >= 2
    OBVIOUS
  <2> QED
    BY <2>1, <2>2, <2>3, <2>4
<1>5. \A s \in Range(x) \cup Range(y) \cup Range(z) : s \in AbsPaths /\ Len(s) >= 2 /\ s[Len(s)] \in Trees
  BY <1>1, RunfilesRootIs
<1> HIDE DEF r, x, y, z
<1>6. r \o x \in Seq(AbsPaths) /\ Range(r \o x) = Range(r) \cup Range(x)
  BY <1>2, <1>3, Joined
<1>7. (r \o x) \o y \in Seq(AbsPaths) /\ Range((r \o x) \o y) = Range(r \o x) \cup Range(y)
  BY <1>2, <1>6, Joined
<1>8. Range(((r \o x) \o y) \o z) = Range((r \o x) \o y) \cup Range(z)
  BY <1>2, <1>7, Joined
<1>9. RunfilesRoots = ((r \o x) \o y) \o z
  BY DEF RunfilesRoots, r, x, y, z
<1> QED
  BY <1>3, <1>4, <1>5, <1>6, <1>7, <1>8, <1>9 DEF x, y

\* The candidates of a relative path.
LEMMA CandidatesAre ==
  ASSUME EnvTyped, SelfTyped, NEW path \in Seq(Words), path # <<>>, ~Absolute(path)
  PROVE  /\ \A i \in DOMAIN Candidates(path) :
              \/ \E r \in Range(Roots) : Candidates(path)[i] = r \o path
              \/ InRunfiles(path) # None /\ \E r \in Range(RunfilesRoots) : Candidates(path)[i] = r \o InRunfiles(path)
         /\ \A r \in Range(Roots) : \E i \in DOMAIN Candidates(path) : Candidates(path)[i] = r \o path
         /\ InRunfiles(path) # None => \A r \in Range(RunfilesRoots) :
              \E i \in DOMAIN Candidates(path) : Candidates(path)[i] = r \o InRunfiles(path)
<1> DEFINE a == [i \in DOMAIN Roots |-> Roots[i] \o path]
           b == IF InRunfiles(path) = None THEN <<>>
                ELSE [i \in DOMAIN RunfilesRoots |-> RunfilesRoots[i] \o InRunfiles(path)]
<1>1. /\ Roots \in Seq(AbsPaths) /\ RunfilesRoots \in Seq(AbsPaths)
      /\ Len(Roots) \in Nat /\ DOMAIN Roots = 1..Len(Roots) /\ \A i \in 1..Len(Roots) : Roots[i] \in AbsPaths
      /\ Len(RunfilesRoots) \in Nat /\ DOMAIN RunfilesRoots = 1..Len(RunfilesRoots)
      /\ \A i \in 1..Len(RunfilesRoots) : RunfilesRoots[i] \in AbsPaths
  BY RootsTyped, LenProperties
<1>2. a \in Seq(AbsPaths) /\ Range(a) = {r \o path : r \in Range(Roots)}
  <2>1. \A i \in 1..Len(Roots) : Roots[i] \o path \in AbsPaths
    BY <1>1, GoesAbsolute
  <2>2. a \in [1..Len(Roots) -> AbsPaths]
    BY <1>1, <2>1
  <2>3. a \in Seq(AbsPaths)
    BY <1>1, <2>2, ListOf
  <2>4. Range(a) = {r \o path : r \in Range(Roots)}
    BY <1>1 DEF Range
  <2> QED
    BY <2>3, <2>4
<1>3. CASE InRunfiles(path) = None
  <2>1. b = <<>>
    BY <1>3
  <2>2. Candidates(path) = a \o b
    BY DEF Candidates
  <2> HIDE DEF a, b
  <2>3. Candidates(path) = a
    BY <1>2, <2>1, <2>2, ConcatEmptySeq
  <2> QED
    BY <1>2, <1>3, <2>3 DEF Range
<1>4. CASE InRunfiles(path) # None
  <2>1. InRunfiles(path) \in Seq(Words)
    BY <1>4, InRunfilesTyped
  <2>2. \A i \in 1..Len(RunfilesRoots) : RunfilesRoots[i] \o InRunfiles(path) \in AbsPaths
    BY <1>1, <2>1, GoesAbsolute
  <2>3. b \in [1..Len(RunfilesRoots) -> AbsPaths]
    BY <1>1, <1>4, <2>2
  <2>4. b \in Seq(AbsPaths)
    BY <1>1, <2>3, ListOf
  <2>5. Range(b) = {r \o InRunfiles(path) : r \in Range(RunfilesRoots)}
    BY <1>1, <1>4 DEF Range
  <2>6. Candidates(path) = a \o b
    BY DEF Candidates
  <2> HIDE DEF a, b
  <2>7. Range(Candidates(path)) = Range(a) \cup Range(b)
    BY <1>2, <2>4, <2>6, RangeConcatenation
  <2>8. \A i \in DOMAIN Candidates(path) : Candidates(path)[i] \in Range(a) \cup Range(b)
    BY <2>7 DEF Range
  <2>9. \A c \in Range(a) \cup Range(b) : \E i \in DOMAIN Candidates(path) : Candidates(path)[i] = c
    BY <2>7 DEF Range
  <2> QED
    BY <1>2, <1>4, <2>5, <2>8, <2>9
<1> QED
  BY <1>3, <1>4

\* Every candidate of a declared path is one where the path may stand.
LEMMA CandidateStands ==
  ASSUME EnvTyped, SelfTyped, NEW p \in DOMAIN Means, NEW i \in DOMAIN Candidates(p)
  PROVE  Stands(p, Candidates(p)[i])
<1>0. p \in Seq(Words) /\ p # <<>> /\ ~Absolute(p)
  BY MeansTyped
<1> DEFINE c == Candidates(p)[i]
<1>1. ASSUME NEW r \in AbsPaths, NEW rest \in Seq(Words), rest # <<>>, c = r \o rest,
             rest = p \/ (r[Len(r)] \in Trees /\ rest \in {Kept(p), InMain(p)})
      PROVE  Stands(p, c)
  <2>1. r \in Seq(Words) /\ r # <<>> /\ Len(r) \in Nat /\ Len(r) # 0 /\ Len(rest) \in Nat /\ Len(rest) # 0
    BY <1>1, LenProperties, EmptySeq DEF AbsPaths
  <2>2. /\ Len(r \o rest) = Len(r) + Len(rest)
        /\ \A j \in 1..(Len(r) + Len(rest)) : (r \o rest)[j] = IF j <= Len(r) THEN r[j] ELSE rest[j - Len(r)]
    BY <2>1, ConcatProperties
  <2>3. Len(r) \in 1..(Len(r \o rest) - 1) /\ Len(r) \in 1..(Len(r) + Len(rest)) /\ Len(r) <= Len(r)
    BY <2>1, <2>2
  <2>4. From(Len(r) + 1, r \o rest) = rest /\ (r \o rest)[Len(r)] = r[Len(r)]
    BY <2>1, <2>2, <2>3, Follows
  <2> HIDE DEF c
  <2> QED
    BY <1>1, <2>3, <2>4 DEF Stands
<1>2. CASE \E r \in Range(Roots) : c = r \o p
  <2>1. Range(Roots) \subseteq AbsPaths
    BY RootsTyped, RangeOfSeq
  <2> QED
    BY <1>0, <1>1, <1>2, <2>1
<1>3. CASE InRunfiles(p) # None /\ \E r \in Range(RunfilesRoots) : c = r \o InRunfiles(p)
  <2>1. InRunfiles(p) \in Seq(Words) /\ InRunfiles(p) # <<>> /\ InRunfiles(p) \in {Kept(p), InMain(p)}
    BY InRunfilesIs
  <2> QED
    BY <1>1, <1>3, <2>1, RunfilesRootsAre
<1> QED
  BY <1>0, <1>2, <1>3, CandidatesAre

\* What exists where a declared path may stand is the file declared.
LEMMA StandsForFile ==
  ASSUME NEW p \in DOMAIN Means, NEW path \in AbsPaths, Stands(p, path), Exists(path)
  PROVE  path \in DOMAIN Files /\ Files[path].content = Means[p]
<1>1. PICK f \in DOMAIN Files : IsPrefix(path, f)
  BY DEF Exists
<1>2. f \in Seq(Words) /\ path \in Seq(Words) /\ path # <<>>
  BY PlacesAbsolute DEF AbsPaths
<1>3. Len(path) \in Nat /\ Len(path) # 0 /\ Len(f) \in Nat
  BY <1>2, LenProperties, EmptySeq
<1>4. Len(path) <= Len(f) /\ SubSeq(path, 1, Len(path)) = SubSeq(f, 1, Len(path))
  BY <1>1 DEF IsPrefix
<1>5. path = SubSeq(f, 1, Len(path)) /\ Len(path) \in 1..Len(f)
  BY <1>2, <1>3, <1>4, SubSeqFull
<1>6. Len(path) = Len(f) /\ Files[f].content = Means[p]
  BY <1>5, NoStrayCopies
<1>7. path = f
  BY <1>2, <1>5, <1>6, SubSeqFull
<1> QED
  BY <1>6, <1>7

\* A path that is anchored has a candidate that leads to the file declared.
LEMMA AnchoredHas ==
  ASSUME EnvTyped, SelfTyped, InvokedAs, NEW p \in DOMAIN Means, Anchored(p)
  PROVE  \E i \in DOMAIN Candidates(p) : Candidates(p)[i] \in DOMAIN Files /\ Serves(Candidates(p)[i], p)
<1>0. p \in Seq(Words) /\ p # <<>> /\ ~Absolute(p)
  BY MeansTyped
<1>1. \A f \in Places : f \in DOMAIN Files /\ f \in {Files[self.file].real, Join(cwd, self.argv0)}
  <2>1. Files[self.file].real \in DOMAIN Files /\ self.file \in DOMAIN Files
    BY PathCandidatesAssumption DEF SelfTyped
  <2>2. ~Bare => Join(cwd, self.argv0) = self.file
    BY Basics DEF InvokedAs, Bare
  <2> QED
    BY <2>1, <2>2 DEF Places
<1>2. PICK f \in Places : InRoot(f, p) \/ (InTree(f, p) /\ ~OutputOfRepository(p))
  BY DEF Anchored
<1>3. f \in AbsPaths /\ f \in Seq(Words) /\ Len(f) \in Nat /\ DOMAIN f = 1..Len(f)
  BY <1>1, PlacesAbsolute, LenProperties DEF AbsPaths
<1>4. ASSUME NEW i \in DOMAIN f, i > 2, First(i, {"bazel-out"}, f), NEW g \in Beside(f, i - 1),
             Serves(g, p), From(i, g) = p
      PROVE  \E j \in DOMAIN Candidates(p) : Candidates(p)[j] \in DOMAIN Files /\ Serves(Candidates(p)[j], p)
  <2> DEFINE r == SubSeq(f, 1, i - 1)
  <2>1. ExecutionRootFromPath(f) = <<r>>
    BY <1>3, <1>4, ExecutionRootIs
  <2>2. r \in Range(Roots)
    <3> HIDE DEF r
    <3>1. Range(<<r>>) = {r}
      BY DEF Range
    <3> QED
      BY <1>1, <2>1, <3>1, RootsAre
  <2>3. g \in DOMAIN Files /\ Len(g) > i - 1 /\ SubSeq(g, 1, i - 1) = r
    BY <1>4 DEF Beside
  <2>4. g \in Seq(Words) /\ Len(g) \in Nat
    BY <2>3, PlacesAbsolute, LenProperties DEF AbsPaths
  <2>5. i - 1 \in 0..Len(g) /\ i - 1 + 1 = i
    BY <1>3, <1>4, <2>3, <2>4
  <2>6. g = r \o p
    BY <1>4, <2>3, <2>4, <2>5, Rejoined
  <2> HIDE DEF r
  <2>7. PICK j \in DOMAIN Candidates(p) : Candidates(p)[j] = r \o p
    BY <1>0, <2>2, CandidatesAre
  <2> QED
    BY <1>4, <2>3, <2>6, <2>7
<1>5. ASSUME NEW i \in DOMAIN f, First(i, Trees, f), NEW g \in Beside(f, i),
             Serves(g, p), From(i + 1, g) = Kept(p), ~OutputOfRepository(p)
      PROVE  \E j \in DOMAIN Candidates(p) : Candidates(p)[j] \in DOMAIN Files /\ Serves(Candidates(p)[j], p)
  <2> DEFINE r == SubSeq(f, 1, i)
  <2>1. RunfilesRootFromPath(f) = <<r>>
    BY <1>3, <1>5, RunfilesRootIs
  <2>2. r \in Range(RunfilesRoots)
    <3> HIDE DEF r
    <3>1. Range(<<r>>) = {r}
      BY DEF Range
    <3> QED
      BY <1>1, <2>1, <3>1, RunfilesRootsAre
  <2>3. g \in DOMAIN Files /\ Len(g) > i /\ SubSeq(g, 1, i) = r
    BY <1>5 DEF Beside
  <2>4. g \in Seq(Words) /\ Len(g) \in Nat
    BY <2>3, PlacesAbsolute, LenProperties DEF AbsPaths
  <2>5. i \in 0..Len(g)
    BY <1>3, <1>5, <2>3, <2>4
  <2>6. g = r \o From(i + 1, g) /\ From(i + 1, g) \in Seq(Words)
    BY <2>3, <2>4, <2>5, Rejoined
  <2>8. InRunfiles(p) = From(i + 1, g) /\ InRunfiles(p) # None
    BY <1>5, InRunfilesIs
  <2> HIDE DEF r
  <2>9. PICK j \in DOMAIN Candidates(p) : Candidates(p)[j] = r \o InRunfiles(p)
    BY <1>0, <2>2, <2>8, CandidatesAre
  <2> QED
    BY <1>5, <2>3, <2>6, <2>8, <2>9
<1> QED
  BY <1>2, <1>4, <1>5 DEF InRoot, InTree

\* A declared path leads to the file declared when it leads anywhere, which it
\* does when it is anchored.
LEMMA DeclaredFound ==
  ASSUME EnvTyped, SelfTyped, InvokedAs, NEW p \in DOMAIN Means
  PROVE  /\ Exists(AbsoluteBeforeChdir(p)) =>
              AbsoluteBeforeChdir(p) \in DOMAIN Files /\ Files[AbsoluteBeforeChdir(p)].content = Means[p]
         /\ Anchored(p) => Exists(AbsoluteBeforeChdir(p))
<1> DEFINE candidates == Candidates(p)
           found == {i \in DOMAIN candidates : Exists(candidates[i])}
           first == IF found = {} THEN 1 ELSE Min(found)
<1>0. /\ p \in Seq(Words) /\ p # <<>>
      /\ Len(candidates) \in Nat /\ Len(candidates) >= 1 /\ DOMAIN candidates = 1..Len(candidates)
      /\ \A i \in 1..Len(candidates) : candidates[i] \in AbsPaths
  BY MeansTyped, CandidatesTyped, LenProperties
<1>1. AbsoluteBeforeChdir(p) = candidates[first]
  BY DEF AbsoluteBeforeChdir
<1>2. found # {} => Min(found) \in found
  <2>1. found \subseteq Nat
    BY <1>0
  <2> QED
    BY <2>1, MinIs
<1>3. first \in DOMAIN candidates /\ (found # {} => Exists(candidates[first]))
  BY <1>0, <1>2
<1>4. Stands(p, candidates[first]) /\ candidates[first] \in AbsPaths
  BY <1>0, <1>3, CandidateStands
<1>5. Anchored(p) => found # {}
  <2>1. \A f \in DOMAIN Files : Exists(f)
    BY DEF Exists, IsPrefix
  <2> QED
    BY <2>1, AnchoredHas
<1> HIDE DEF candidates, found, first
<1> QED
  BY <1>1, <1>3, <1>4, <1>5, StandsForFile

\* The same of an emulator, which must be executable.
LEMMA EmulatorFound ==
  ASSUME EnvTyped, SelfTyped, InvokedAs, NEW p \in DOMAIN Means, p \in {c.emulator : c \in Configs}
  PROVE  /\ DeclaredExecutable(p) # None =>
              /\ DeclaredExecutable(p) \in DOMAIN Files /\ Executable(DeclaredExecutable(p))
              /\ Files[DeclaredExecutable(p)].content = Means[p]
         /\ Anchored(p) => DeclaredExecutable(p) # None
<1> DEFINE candidates == Candidates(p)
           found == {i \in DOMAIN candidates : Executable(candidates[i])}
<1>0. /\ p \in Seq(Words) /\ p # <<>>
      /\ Len(candidates) \in Nat /\ DOMAIN candidates = 1..Len(candidates)
      /\ \A i \in 1..Len(candidates) : candidates[i] \in AbsPaths
  BY MeansTyped, CandidatesTyped, LenProperties
<1>1. DeclaredExecutable(p) = IF found = {} THEN None ELSE candidates[Min(found)]
  BY DEF DeclaredExecutable
<1>2. found # {} => Min(found) \in found
  <2>1. found \subseteq Nat
    BY <1>0
  <2> QED
    BY <2>1, MinIs
<1>3. ASSUME found # {}
      PROVE  /\ candidates[Min(found)] \in DOMAIN Files /\ Executable(candidates[Min(found)])
             /\ Files[candidates[Min(found)]].content = Means[p]
             /\ candidates[Min(found)] \in AbsPaths
  <2> DEFINE m == Min(found)
  <2>1. m \in DOMAIN candidates /\ Executable(candidates[m]) /\ candidates[m] \in AbsPaths
    BY <1>0, <1>2, <1>3
  <2>2. Stands(p, candidates[m])
    BY <2>1, CandidateStands
  <2> HIDE DEF m, candidates
  <2>3. candidates[m] \in DOMAIN Files /\ Exists(candidates[m])
    BY <2>1 DEF Executable, Regular, Exists, IsPrefix
  <2> QED
    BY <2>1, <2>2, <2>3, StandsForFile DEF m
<1>4. \A f \in DOMAIN Files : f # None
  BY PlacesAbsolute, NoneIsNoPath DEF AbsPaths
<1>5. Anchored(p) => found # {}
  <2>1. ASSUME Anchored(p) PROVE \E i \in DOMAIN candidates : Executable(candidates[i])
    BY <2>1, AnchoredHas DEF Serves, Executable, Regular
  <2> QED
    BY <2>1
<1> HIDE DEF candidates, found
<1> QED
  BY <1>1, <1>3, <1>4, <1>5

\* A path that is a whole path stays what it is.
LEMMA WholePath ==
  ASSUME EnvTyped, SelfTyped, NEW path \in DOMAIN Files
  PROVE  /\ AbsoluteBeforeChdir(path) = path
         /\ Executable(path) => DeclaredExecutable(path) = path
<1>0. path \in AbsPaths /\ path \in Seq(Words) /\ path # <<>> /\ Absolute(path)
  BY PlacesAbsolute DEF AbsPaths, Absolute
<1>1. AbsoluteBeforeChdir(path) = path
  BY <1>0, AbsoluteBeforeChdirIs DEF Join
<1>2. ASSUME Executable(path) PROVE DeclaredExecutable(path) = path
  <2> DEFINE candidates == Candidates(path)
             found == {i \in DOMAIN candidates : Executable(candidates[i])}
  <2>1. candidates = <<path>>
    BY <1>0 DEF Candidates
  <2> HIDE DEF candidates
  <2>2. DOMAIN candidates = {1} /\ candidates[1] = path
    BY <2>1
  <2>3. found = {1}
    BY <1>2, <2>2
  <2>4. Min(found) = 1
    BY <2>3, MinIs
  <2>5. DeclaredExecutable(path) = candidates[1]
    BY <2>3, <2>4 DEF DeclaredExecutable, candidates
  <2> QED
    BY <2>2, <2>5
<1> QED
  BY <1>1, <1>2

(***************************************************************************)
(* What launches hand over.                                                *)
(***************************************************************************)

\* Until a launch, launchers have the declared paths; the first is below none.
AsDeclared ==
  run = None => /\ env.file = config.file /\ env.emulator = config.emulator
                /\ stage = "program" => depth = 0
                /\ stage \in {"owner", "prepare"} => depth = 1

\* After it, they have the files that it found.
Resolved ==
  run # None => /\ run.file = env.file /\ Regular(env.file) /\ Files[env.file].content = Means[config.file]
                /\ config.foreign => /\ run.emulator = env.emulator /\ Executable(env.emulator)
                                     /\ Files[env.emulator].content = Means[config.emulator]

\* The argument is handed over once per launch, for the program below it.
ArgumentFound ==
  run # None /\ Rewritten(config.argument) =>
    /\ Regular(run.argument) => Files[run.argument].content = Means[config.argument]
    /\ stage = "program" /\ Anchored(config.argument) => Regular(run.argument)

NotFoundOnlyAway == why = "not found" => depth = 1 /\ \E p \in Needed : ~Anchored(p)

FoundInv == PathInv /\ AsDeclared /\ Resolved /\ ArgumentFound /\ NotFoundOnlyAway

\* The invariant gives the property.
LEMMA FoundMeans == FoundInv => DeclaredMeansOneFile
BY DEF FoundInv, Resolved, ArgumentFound, NotFoundOnlyAway, DeclaredMeansOneFile

\* What the configurations declare.
LEMMA Declared ==
  ASSUME EnvTyped
  PROVE  /\ config.file \in DOMAIN Means /\ config.argument \in DOMAIN Means
         /\ config.emulator \in DOMAIN Means /\ config.emulator \in {c.emulator : c \in Configs}
BY PathCandidatesAssumption DEF EnvTyped

\* Initially nothing has been launched.
LEMMA FoundInit == Init => FoundInv
<1> SUFFICES ASSUME Init PROVE FoundInv
  OBVIOUS
<1>1. /\ env.file = config.file /\ env.emulator = config.emulator /\ run = None /\ depth = 0
      /\ stage = "program" /\ why = None
  BY DEF Init
<1>2. None # "not found"
  BY Basics
<1> QED
  BY <1>1, <1>2, PathInit DEF FoundInv, AsDeclared, Resolved, ArgumentFound, NotFoundOnlyAway

\* A launcher at work finds its files unless it is the first and some file that it
\* needs is not anchored.
LEMMA FindsOrAway ==
  ASSUME FoundInv, stage = "prepare"
  PROVE  Found \/ (depth = 1 /\ \E p \in Needed : ~Anchored(p))
<1>0. EnvTyped /\ SelfTyped /\ InvokedAs
  BY DEF FoundInv, PathInv
<1>1. CASE run = None
  <2>1. env.file = config.file /\ env.emulator = config.emulator /\ depth = 1
    BY <1>1 DEF FoundInv, AsDeclared
  <2> QED
    BY <1>0, <2>1, Declared, DeclaredFound, EmulatorFound DEF Found, Needed
<1>2. CASE run # None
  <2>1. env.file \in DOMAIN Files /\ AbsoluteBeforeChdir(env.file) = env.file
    BY <1>0, <1>2, WholePath DEF FoundInv, Resolved, Regular
  <2>2. Exists(env.file)
    BY <2>1 DEF Exists, IsPrefix
  <2>3. ASSUME config.foreign PROVE DeclaredExecutable(env.emulator) # None
    <3>1. env.emulator \in DOMAIN Files /\ Executable(env.emulator)
      BY <1>2, <2>3 DEF FoundInv, Resolved, Executable, Regular
    <3>2. env.emulator # None
      BY <3>1, PlacesAbsolute, NoneIsNoPath DEF AbsPaths
    <3> QED
      BY <1>0, <3>1, <3>2, WholePath
  <2> QED
    BY <2>1, <2>2, <2>3 DEF Found
<1> QED
  BY <1>1, <1>2

\* A launch takes the files declared.
LEMMA LaunchFinds ==
  ASSUME FoundInv, Launch
  PROVE  AsDeclared' /\ Resolved' /\ ArgumentFound' /\ NotFoundOnlyAway'
<1>0. /\ EnvTyped /\ SelfTyped /\ InvokedAs /\ stage = "prepare" /\ stage' = "program" /\ Found
      /\ config' = config /\ self' = self /\ why' = why /\ depth' = depth
  BY DEF FoundInv, PathInv, Launch
<1> DEFINE file == AbsoluteBeforeChdir(env.file)
           emulator == DeclaredExecutable(env.emulator)
<1>1. /\ run'.file = file /\ run'.argument = ResolveArgument(config.argument)
      /\ config.foreign => run'.emulator = emulator
  BY DEF Launch
<1>2. env'.file = file /\ (config.foreign => env'.emulator = emulator)
  BY <1>0 DEF Launch, EnvTyped
<1>3. Regular(file) /\ Files[file].content = Means[config.file]
  <2>1. CASE run = None
    BY <1>0, <2>1, Declared, DeclaredFound DEF FoundInv, AsDeclared, Found, Regular
  <2>2. CASE run # None
    BY <1>0, <2>2, WholePath DEF FoundInv, Resolved, Regular
  <2> QED
    BY <2>1, <2>2
<1>4. ASSUME config.foreign PROVE Executable(emulator) /\ Files[emulator].content = Means[config.emulator]
  <2>1. CASE run = None
    BY <1>0, <1>4, <2>1, Declared, EmulatorFound DEF FoundInv, AsDeclared, Found
  <2>2. CASE run # None
    BY <1>0, <1>4, <2>2, WholePath DEF FoundInv, Resolved, Executable, Regular
  <2> QED
    BY <2>1, <2>2
<1>5. run' # None
  <2>1. \A p \in AbsPaths : p \in Seq(Words) /\ p # <<>>
    BY DEF AbsPaths
  <2>2. file \in Seq(Words)
    BY <1>0, <2>1, AbsoluteBeforeChdirIs DEF EnvTyped
  <2>3. config.argument \in Seq(Words) /\ config.argument # <<>>
    BY <1>0, Declared, MeansTyped
  <2>4. ResolveArgument(config.argument) \in Seq(Words)
    BY <1>0, <2>1, <2>3, AbsoluteBeforeChdirIs DEF ResolveArgument
  <2>5. emulator \in Seq(Words) \cup {None}
    BY <1>0, <2>1, DeclaredExecutableIs DEF EnvTyped
  <2>6. run' = [file |-> file, argument |-> ResolveArgument(config.argument),
                emulator |-> IF config.foreign THEN emulator ELSE None]
    BY DEF Launch
  <2>7. run' \in [file : Seq(Words), argument : Seq(Words), emulator : Seq(Words) \cup {None}]
    BY <2>2, <2>4, <2>5, <2>6
  <2>8. None \notin [file : Seq(Words), argument : Seq(Words), emulator : Seq(Words) \cup {None}]
    BY NoneIsNoPath
  <2> QED
    BY <2>7, <2>8
<1>6. Resolved'
  BY <1>0, <1>1, <1>2, <1>3, <1>4 DEF Resolved, Regular, Executable
<1>7. ArgumentFound'
  <2> DEFINE argument == ResolveArgument(config.argument)
  <2>1. ASSUME Rewritten(config.argument)
        PROVE  /\ Anchored(config.argument) => Regular(argument)
               /\ Regular(argument) => Files[argument].content = Means[config.argument]
    <3>1. argument = AbsoluteBeforeChdir(config.argument) /\ (Regular(argument) => Exists(argument))
      BY <2>1 DEF ResolveArgument, Regular, Exists, IsPrefix
    <3> QED
      BY <1>0, <3>1, Declared, DeclaredFound DEF Regular
  <2>2. Anchored(config.argument)' = Anchored(config.argument)
        /\ Rewritten(config.argument)' = Rewritten(config.argument)
    BY <1>0 DEF Anchored, Places, Bare
  <2> QED
    BY <1>0, <1>1, <2>1, <2>2 DEF ArgumentFound, Regular
<1>8. NotFoundOnlyAway'
  BY <1>0 DEF FoundInv, NotFoundOnlyAway, Anchored, Needed, Places, Bare
<1>9. AsDeclared'
  BY <1>5 DEF AsDeclared
<1> QED
  BY <1>6, <1>7, <1>8, <1>9

\* A launcher that starts has what the launches above it handed over.
LEMMA SpawnFinds ==
  ASSUME FoundInv, NEW argv0, NEW file, Spawn(argv0, file)
  PROVE  AsDeclared' /\ Resolved' /\ ArgumentFound' /\ NotFoundOnlyAway'
<1>0. /\ stage = "program" /\ stage' = "owner" /\ depth' = depth + 1
      /\ UNCHANGED <<cwd, env, config, run, why>>
  BY DEF Spawn
<1>1. why # "not found"
  <2>1. why = None
    BY <1>0 DEF FoundInv, PathInv
  <2> QED
    BY <2>1, Basics
<1>2. AsDeclared' /\ NotFoundOnlyAway' /\ ArgumentFound'
  <2>1. run = None => depth = 0
    BY <1>0 DEF FoundInv, AsDeclared
  <2>2. AsDeclared'
    BY <1>0, <2>1 DEF FoundInv, AsDeclared
  <2>3. NotFoundOnlyAway'
    BY <1>0, <1>1 DEF NotFoundOnlyAway
  <2>4. ArgumentFound'
    BY <1>0 DEF FoundInv, ArgumentFound, Regular
  <2> QED
    BY <2>2, <2>3, <2>4
<1>3. Resolved'
  BY <1>0 DEF FoundInv, Resolved, Regular, Executable
<1> QED
  BY <1>2, <1>3

\* Every step preserves the invariant.
LEMMA FoundStep == FoundInv /\ [Next]_vars => FoundInv'
<1> SUFFICES ASSUME FoundInv, [Next]_vars PROVE FoundInv'
  OBVIOUS
<1>0. PathInv'
  BY PathStep DEF FoundInv
<1> DEFINE Goal == AsDeclared' /\ Resolved' /\ ArgumentFound' /\ NotFoundOnlyAway'
<1>1. ASSUME FindOwner PROVE Goal
  BY <1>1 DEF FindOwner, FoundInv, AsDeclared, Resolved, ArgumentFound, NotFoundOnlyAway, Regular, Executable,
     Anchored, Needed, Places, Bare
<1>2. ASSUME NEW reason \in {"owner", "path"}, GiveUp(reason) PROVE Goal
  BY <1>2 DEF GiveUp, FoundInv, AsDeclared, Resolved, ArgumentFound, NotFoundOnlyAway, Regular, Executable
<1>3. ASSUME RefuseNotFound PROVE Goal
  <2>1. depth = 1 /\ \E p \in Needed : ~Anchored(p)
    BY <1>3, FindsOrAway DEF RefuseNotFound
  <2>2. /\ stage' = "exit78" /\ UNCHANGED <<env, config, self, run, depth>>
    BY <1>3 DEF RefuseNotFound, GiveUp
  <2> QED
    BY <2>1, <2>2 DEF FoundInv, AsDeclared, Resolved, ArgumentFound, NotFoundOnlyAway, Regular, Executable,
     Anchored, Needed, Places, Bare
<1>4. ASSUME Launch PROVE Goal
  BY <1>4, LaunchFinds
<1>5. ASSUME SpawnByName PROVE Goal
  BY <1>5, SpawnFinds DEF SpawnByName
<1>6. ASSUME NEW f \in DOMAIN Files, SpawnByPath(f) PROVE Goal
  BY <1>6, SpawnFinds DEF SpawnByPath
<1>7. ASSUME NEW d \in Dirs, ChangeDirectory(d) PROVE Goal
  BY <1>7 DEF ChangeDirectory, FoundInv, AsDeclared, Resolved, ArgumentFound, NotFoundOnlyAway, Regular, Executable,
     Anchored, Needed, Places, Bare
<1>8. ASSUME NEW r \in Runfiles \cup {None}, SetRunfiles(r) PROVE Goal
  <2>1. env'.file = env.file /\ env'.emulator = env.emulator
    BY <1>8 DEF SetRunfiles, FoundInv, PathInv, EnvTyped
  <2>2. UNCHANGED <<stage, config, self, run, depth, why>> /\ run # None
    BY <1>8 DEF SetRunfiles
  <2> QED
    BY <2>1, <2>2 DEF FoundInv, AsDeclared, Resolved, ArgumentFound, NotFoundOnlyAway, Regular, Executable,
     Anchored, Needed, Places, Bare
<1>9. ASSUME UNCHANGED vars PROVE Goal
  BY <1>9 DEF vars, FoundInv, AsDeclared, Resolved, ArgumentFound, NotFoundOnlyAway, Regular, Executable,
     Anchored, Needed, Places, Bare
<1>10. Goal
  BY <1>1, <1>2, <1>3, <1>4, <1>5, <1>6, <1>7, <1>8, <1>9 DEF Next, RefuseOwner, RefusePath
<1> QED
  BY <1>0, <1>10 DEF FoundInv

(***************************************************************************)
(* Theorems.                                                               *)
(***************************************************************************)

\* Whatever a launch hands over is absolute, and so is the owner it found
\* (absoluteBeforeChdir, declaredExecutable).
THEOREM TypeCorrect == Spec => []TypeOK
<1>1. Spec => []PathInv
  BY PathInit, PathStep, PTL DEF Spec
<1> QED
  BY <1>1, PathTyped, PTL

\* The file beside which a launcher looks for its sidecar is the launcher that
\* the system started: by name, when the launcher's own reading of PATH leaves
\* one candidate, or by a path (runtimeSidecarOwners, executableOnDeclaredPath).
THEOREM OwnerIsSelf == Spec => []OwnerIsWhatRan
<1>1. Spec => []PathInv
  BY PathInit, PathStep, PTL DEF Spec
<1>2. PathInv => OwnerIsWhatRan
  BY DEF PathInv
<1> QED
  BY <1>1, <1>2, PTL

\* What is found is the file declared, from every directory and with any
\* RUNFILES_DIR; and a launch fails only for want of a path that neither an
\* execution root nor a runfiles tree around the launcher has, or that is an
\* output of another repository in a runfiles tree, and only when no launch above
\* it has found it (declaredPathCandidates, absoluteBeforeChdir,
\* declaredExecutable, resolveActionArguments).
THEOREM OneFile == Spec => []DeclaredMeansOneFile
<1>1. Spec => []FoundInv
  BY FoundInit, FoundStep, PTL DEF Spec
<1> QED
  BY <1>1, FoundMeans, PTL
=============================================================================
