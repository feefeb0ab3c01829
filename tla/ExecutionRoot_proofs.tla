------------------------ MODULE ExecutionRoot_proofs ------------------------
(***************************************************************************)
(* Theorems about the execution root that the hermetic launchers find, for *)
(* any directories, launchers, arguments and number of steps.              *)
(***************************************************************************)
EXTENDS ExecutionRoot, TLAPS, SequenceTheorems, WellFoundedInduction

\* The components that a path may have.
Words == STRING \cup {"/", "bazel-out", "external", "tools"} \cup Kinds

-----------------------------------------------------------------------------
(* Paths.                                                                  *)

\* A path of strings is a path of words.
LEMMA PathOfWords ==
  ASSUME NEW path \in Seq(STRING)
  PROVE  path \in Seq(Words)
<1>1. STRING \subseteq Words
  BY DEF Words
<1> QED
  BY <1>1, SeqMonotonic

\* A number above one is not one.
LEMMA LongerThanName == \A n \in Nat : n > 1 => n # 1
  OBVIOUS

\* A root is absolute, and no other component of it is "/" or "bazel-out".
LEMMA RootsFacts ==
  ASSUME NEW r \in Roots
  PROVE  /\ r \in Seq(Words) /\ Len(r) \in Nat /\ Len(r) > 1
         /\ r[1] = "/" /\ r # <<>>
         /\ \A i \in 1..Len(r) : r[i] # "bazel-out"
         /\ \A i \in 2..Len(r) : r[i] # "/"
<1>1. r \in Seq(Words) /\ Len(r) \in Nat /\ Len(r) > 1 /\ r[1] = "/"
  BY ExecutionRootAssumption, PathOfWords
<1>2. DOMAIN r = 1..Len(r) /\ r # <<>>
  BY <1>1, LenProperties
<1>3. \A i \in 1..Len(r) : r[i] # "bazel-out"
  BY <1>2, ExecutionRootAssumption DEF ToSet
<1>4. ASSUME NEW i \in 2..Len(r) PROVE r[i] # "/"
  <2>1. /\ Tail(r) \in Seq(Words) /\ Len(Tail(r)) = Len(r) - 1
        /\ \A j \in 1..Len(Tail(r)) : Tail(r)[j] = r[j + 1]
    BY <1>1, <1>2, HeadTailProperties
  <2>2. i - 1 \in DOMAIN Tail(r) /\ Tail(r)[i - 1] = r[i]
    BY <1>1, <1>4, <2>1, LenProperties
  <2> QED
    BY <2>2, ExecutionRootAssumption DEF ToSet
<1> QED
  BY <1>1, <1>2, <1>3, <1>4

\* The execution root is one.
LEMMA RootFacts ==
  /\ Root \in Roots
  /\ Root \in Seq(Words) /\ Len(Root) \in Nat /\ Len(Root) > 1
  /\ Root[1] = "/" /\ Root # <<>>
  /\ \A i \in 1..Len(Root) : Root[i] # "bazel-out"
  /\ \A i \in 2..Len(Root) : Root[i] # "/"
<1>1. Root \in Roots
  BY DEF Roots
<1> QED
  BY <1>1, RootsFacts

\* A directory is an absolute path.
LEMMA DirFacts ==
  ASSUME NEW d \in Dirs
  PROVE  d \in Seq(Words) /\ d # <<>> /\ d[1] = "/" /\ Len(d) \in Nat /\ Len(d) > 0
<1>1. d \in Seq(Words) /\ d # <<>> /\ d[1] = "/"
  BY ExecutionRootAssumption, PathOfWords
<1> QED
  BY <1>1

\* A launcher lies in the output tree.
LEMMA LauncherFacts ==
  ASSUME NEW l \in Launchers
  PROVE  /\ l.path \in Seq(Words) /\ Len(l.path) \in Nat /\ Len(l.path) > 1
         /\ l.path[1] = "bazel-out"
         /\ \A i \in 1..Len(l.path) : l.path[i] # "/"
<1>1. l.path \in Seq(Words) /\ Len(l.path) \in Nat /\ Len(l.path) > 1 /\ l.path[1] = "bazel-out"
  BY ExecutionRootAssumption, PathOfWords
<1>2. DOMAIN l.path = 1..Len(l.path)
  BY <1>1, LenProperties
<1> QED
  BY <1>1, <1>2, ExecutionRootAssumption DEF ToSet

\* The first "bazel-out" of a path is its marker.
LEMMA MarkerIs ==
  ASSUME NEW path, Len(path) \in Nat, NEW k \in 2..(Len(path) - 1), path[k] = "bazel-out",
         \A i \in 2..(k - 1) : path[i] # "bazel-out"
  PROVE  Marker(path) = k
<1> DEFINE S == {i \in 2..(Len(path) - 1) : path[i] = "bazel-out"} \cup {Len(path)}
<1>1. k \in S /\ \A i \in S : i \in Nat /\ k <= i
  OBVIOUS
<1>2. \A m \in S : (\A i \in S : m <= i) => m = k
  BY <1>1
<1> HIDE DEF S
<1>3. Min(S) = k
  BY <1>1, <1>2 DEF Min
<1> QED
  BY <1>3 DEF Marker, S

\* A path without one is not marked.
LEMMA NotMarked ==
  ASSUME NEW path, Len(path) \in Nat, \A i \in 2..(Len(path) - 1) : path[i] # "bazel-out"
  PROVE  ~Marked(path)
<1> DEFINE S == {i \in 2..(Len(path) - 1) : path[i] = "bazel-out"} \cup {Len(path)}
<1>1. S = {Len(path)}
  OBVIOUS
<1> HIDE DEF S
<1>2. Min(S) = Len(path)
  BY <1>1 DEF Min
<1>3. Marker(path) = Len(path)
  BY <1>2 DEF Marker, S
<1> QED
  BY <1>3 DEF Marked

\* The root of a path in the output tree is found.
LEMMA RootBelow ==
  ASSUME NEW r \in Roots, NEW t \in Seq(Words), Len(t) > 1, t[1] = "bazel-out"
  PROVE  Marked(r \o t) /\ SubSeq(r \o t, 1, Marker(r \o t) - 1) = r
<1> DEFINE path == r \o t
           k == Len(r) + 1
<1>1. /\ path \in Seq(Words) /\ Len(path) = Len(r) + Len(t)
      /\ \A i \in 1..(Len(r) + Len(t)) : path[i] = IF i <= Len(r) THEN r[i] ELSE t[i - Len(r)]
  BY RootsFacts, ConcatProperties
<1>2. Len(path) \in Nat /\ k \in 2..(Len(path) - 1) /\ k \in 3..(Len(path) - 1)
  BY <1>1, RootsFacts
<1>3. path[k] = "bazel-out" /\ \A i \in 2..(k - 1) : path[i] # "bazel-out"
  <2>1. k \in 1..(Len(r) + Len(t)) /\ ~(k <= Len(r)) /\ k - Len(r) = 1
    BY RootsFacts
  <2>2. path[k] = t[1]
    BY <1>1, <2>1
  <2>3. ASSUME NEW i \in 2..(k - 1) PROVE path[i] # "bazel-out"
    <3>1. i \in 1..Len(r) /\ i \in 1..(Len(r) + Len(t)) /\ i <= Len(r)
      BY <2>3, RootsFacts
    <3> QED
      BY <1>1, <3>1, RootsFacts
  <2> QED
    BY <2>2, <2>3
<1> HIDE DEF path, k
<1>4. Marker(path) = k
  BY <1>2, <1>3, MarkerIs
<1>5. SubSeq(path, 1, Len(r)) = r
  <2>1. SubSeq(r \o t, 1, Len(r)) = SubSeq(r, 1, Len(r))
    BY RootsFacts, SubSeqOfConcat1
  <2> QED
    BY <2>1, RootsFacts, SubSeqFull DEF path
<1>6. k - 1 = Len(r)
  BY RootsFacts DEF k
<1> QED
  BY <1>2, <1>4, <1>5, <1>6 DEF Marked, path

\* A tool is where a root is.
LEMMA ToolFound ==
  ASSUME NEW root \in Seq(Words), NEW kind \in Kinds
  PROVE  Exists(Join(root, Embedded(kind))) <=> root \in Roots
<1>1. \A k \in Kinds : Embedded(k) \in Seq(Words) /\ Len(Embedded(k)) = 3
  BY DEF Embedded, Words
<1>2. ~Absolute(Embedded(kind))
  BY DEF Absolute, Embedded
<1>3. ASSUME NEW s \in Seq(Words), NEW k \in Kinds
      PROVE  /\ Len(s \o Embedded(k)) = Len(s) + 3
             /\ \A i \in 1..Len(s) : (s \o Embedded(k))[i] = s[i]
  <2>1. /\ Len(s \o Embedded(k)) = Len(s) + Len(Embedded(k))
        /\ \A i \in 1..(Len(s) + Len(Embedded(k))) :
             (s \o Embedded(k))[i] = IF i <= Len(s) THEN s[i] ELSE Embedded(k)[i - Len(s)]
    BY <1>1, <1>3, ConcatProperties
  <2>2. Len(s) \in Nat /\ Len(Embedded(k)) = 3
    BY <1>1, LenProperties
  <2>3. \A i \in 1..Len(s) : i \in 1..(Len(s) + Len(Embedded(k))) /\ i <= Len(s)
    BY <2>2
  <2> QED
    BY <2>1, <2>2, <2>3
<1>4. ASSUME NEW r \in Roots, NEW k \in Kinds, root \o Embedded(kind) = r \o Embedded(k) PROVE root = r
  <2>1. Len(root) = Len(r) /\ Len(root) \in Nat /\ r \in Seq(Words)
    BY <1>3, <1>4, RootsFacts
  <2>2. ASSUME NEW i \in 1..Len(root) PROVE root[i] = r[i]
    BY <1>3, <1>4, <2>1, RootsFacts
  <2> QED
    BY <2>1, <2>2, SeqEqual
<1> QED
  BY <1>2, <1>4 DEF Exists, Tools, Join

-----------------------------------------------------------------------------
(* The inductive invariant.                                                *)

\* The environment has its variables, with values that the launchers publish.
EnvTyped ==
  /\ DOMAIN env = {"root", "make", "pin"}
  /\ env.root \in Roots \cup {None}
  /\ env.make \in {None} \cup LauncherPaths
  /\ env.pin \in Pins \cup {None}
  /\ DOMAIN order = {"executable", "assigned"}
  /\ order.executable \in Executables \cup {None}
  /\ order.assigned \in UNION {[1..n -> Pins \cup {None}] : n \in 0..2}

\* A launcher is invoked by its whole path, from the directory that leads to
\* it, or by its name; and by $(MAKE) only by its whole path.
InvokedAs(l, argv0) ==
  \/ \E r \in Roots : argv0 = r \o l.path
  \/ ~Absolute(argv0) /\ (Len(argv0) = 1 \/ cwd \o argv0 = Root \o l.path)

\* The launcher at work was started by one of its names.
Invoked ==
  self # None =>
    /\ self.launcher \in Launchers /\ self.arguments \in Arguments \cup {<<>>}
    /\ self.argv0 \in Seq(Words) /\ self.argv0 # <<>>
    /\ InvokedAs(self.launcher, self.argv0)
    /\ self.via = "MAKE" => Absolute(self.argv0)

\* What a run of a tool was started with.
Typed ==
  /\ cwd \in Dirs
  /\ run # None => run.status \in {"running", "missing", "refused"} /\ run.cwd \in Dirs
  /\ Ran => run.tool \in Tools
  /\ steps \in 0..MaxSteps

\* The inductive invariant of the launchers.
RootInv == EnvTyped /\ Invoked /\ Typed /\ ToolsStayReachable /\ ArgumentsStayDeclared

\* The invariant gives the types.
LEMMA RootInvTyped == RootInv => TypeOK
<1> SUFFICES ASSUME RootInv PROVE env.root \in {None} \cup Seq(STRING)
  BY DEF RootInv, EnvTyped, Invoked, Typed, TypeOK
<1> QED
  BY ExecutionRootAssumption DEF RootInv, EnvTyped, Roots

\* The root that a launcher finds is a path.
LEMMA RootIsPath ==
  ASSUME EnvTyped, cwd \in Dirs, NEW argv0 \in Seq(Words)
  PROVE  RootOf(argv0) \in Seq(Words)
<1> DEFINE invoked == Join(cwd, argv0)
<1>1. invoked \in Seq(Words)
  BY DirFacts, ConcatProperties DEF Join
<1>2. CASE Published
  BY <1>2, RootsFacts DEF EnvTyped, Published, RootOf
<1>3. CASE ~Published /\ Marked(invoked)
  <2>1. Marker(invoked) \in 3..(Len(invoked) - 1)
    BY <1>3 DEF Marked
  <2>2. \A i \in 1..(Marker(invoked) - 1) : invoked[i] \in Words
    BY <1>1, <2>1, ElementOfSeq
  <2> HIDE DEF invoked
  <2>3. SubSeq(invoked, 1, Marker(invoked) - 1) \in Seq(Words)
    BY <1>1, <2>1, <2>2, SubSeqProperties
  <2> QED
    BY <1>3, <2>3 DEF RootOf, invoked
<1>4. CASE ~Published /\ ~Marked(invoked)
  BY <1>4, DirFacts DEF RootOf
<1> QED
  BY <1>2, <1>3, <1>4

\* The whole path of a launcher is absolute.
LEMMA LaunchersAbsolute ==
  ASSUME NEW r \in Roots, NEW l \in Launchers
  PROVE  Absolute(r \o l.path)
<1> QED
  BY RootsFacts, LauncherFacts, ConcatProperties, EmptySeq DEF Absolute

\* A launcher finds a root by what was published, by its whole
\* path, from the root, and from anywhere in the output tree.
LEMMA RootFound ==
  ASSUME EnvTyped, cwd \in Dirs, NEW l \in Launchers, NEW argv0 \in Seq(Words), argv0 # <<>>,
         InvokedAs(l, argv0),
         \/ env.root # None
         \/ Absolute(argv0)
         \/ Len(argv0) > 1
         \/ cwd = Root
         \/ IsPrefix(Append(Root, "bazel-out"), cwd)
  PROVE  RootOf(argv0) \in Roots
<1> DEFINE invoked == Join(cwd, argv0)
<1>1. CASE Published
  BY <1>1 DEF RootOf, EnvTyped, Published
<1>2. ASSUME ~Published, NEW r \in Roots, invoked = r \o l.path PROVE RootOf(argv0) \in Roots
  BY <1>2, RootBelow, LauncherFacts DEF RootOf
<1>3. ASSUME Absolute(argv0) PROVE \E r \in Roots : invoked = r \o l.path
  BY <1>3 DEF InvokedAs, Join
<1>4. ASSUME ~Absolute(argv0), Len(argv0) # 1 PROVE invoked = Root \o l.path
  <2> QED
    BY <1>4, LaunchersAbsolute DEF InvokedAs, Join
<1>5. ASSUME ~Published, ~Absolute(argv0), Len(argv0) = 1, cwd = Root PROVE RootOf(argv0) \in Roots
  <2>1. /\ invoked = Root \o argv0
        /\ Len(invoked) = Len(Root) + 1
        /\ \A i \in 1..Len(Root) : invoked[i] = Root[i]
    BY <1>5, RootFacts, ConcatProperties DEF Join
  <2>2. Len(invoked) \in Nat /\ \A i \in 2..(Len(invoked) - 1) : invoked[i] # "bazel-out"
    BY <2>1, RootFacts
  <2> HIDE DEF invoked
  <2>3. ~Marked(invoked)
    BY <2>2, NotMarked
  <2> QED
    BY <1>5, <2>3, RootFacts DEF RootOf, invoked
<1>6. ASSUME ~Published, ~Absolute(argv0), IsPrefix(Append(Root, "bazel-out"), cwd)
      PROVE  RootOf(argv0) \in Roots
  <2> DEFINE out == Append(Root, "bazel-out")
             k == Len(Root) + 1
  <2>1. /\ out \in Seq(Words) /\ Len(out) = k /\ out[k] = "bazel-out"
        /\ \A i \in 1..Len(Root) : out[i] = Root[i]
    BY RootFacts, AppendProperties DEF Words
  <2>2. cwd \in Seq(Words) /\ Len(cwd) \in Nat /\ Len(argv0) \in Nat /\ Len(argv0) > 0
    BY DirFacts
  <2>3. k \in Nat /\ k <= Len(cwd) /\ SubSeq(out, 1, k) = SubSeq(cwd, 1, k)
    BY <1>6, <2>1, RootFacts DEF IsPrefix
  <2>4. ASSUME NEW i \in 1..k PROVE cwd[i] = out[i]
    <3> HIDE DEF out
    <3>1. SubSeq(out, 1, k)[i] = out[i] /\ SubSeq(cwd, 1, k)[i] = cwd[i]
      <4>1. \A j \in 1..k : out[j] \in Words /\ cwd[j] \in Words
        BY <2>1, <2>2, <2>3, ElementOfSeq
      <4>2. /\ \A j \in 1..(k - 1 + 1) : SubSeq(out, 1, k)[j] = out[1 + j - 1]
            /\ \A j \in 1..(k - 1 + 1) : SubSeq(cwd, 1, k)[j] = cwd[1 + j - 1]
        BY <2>3, <4>1, SubSeqProperties
      <4> QED
        BY <2>3, <2>4, <4>2
    <3> QED
      BY <2>3, <3>1
  <2>5. /\ invoked \in Seq(Words) /\ Len(invoked) = Len(cwd) + Len(argv0)
        /\ \A i \in 1..Len(cwd) : invoked[i] = cwd[i]
    BY <1>6, <2>2, ConcatProperties DEF Join
  <2>6. /\ \A i \in 1..Len(Root) : invoked[i] = Root[i]
        /\ invoked[k] = "bazel-out"
    <3>1. k \in 1..k /\ k \in 1..Len(cwd)
      BY <2>2, <2>3, RootFacts
    <3>2. \A i \in 1..Len(Root) : i \in 1..k /\ i \in 1..Len(cwd)
      BY <2>2, <2>3, RootFacts
    <3> HIDE DEF k, invoked, out
    <3>3. invoked[k] = "bazel-out"
      BY <2>1, <2>4, <2>5, <3>1
    <3> QED
      BY <2>1, <2>4, <2>5, <3>2, <3>3
  <2>7. k \in 2..(Len(invoked) - 1) /\ k \in 3..(Len(invoked) - 1) /\ Len(invoked) \in Nat
    BY <2>2, <2>3, <2>5, RootFacts
  <2>8. \A i \in 2..(k - 1) : invoked[i] # "bazel-out"
    BY <2>6, RootFacts
  <2> HIDE DEF invoked
  <2>9. Marker(invoked) = k
    BY <2>6, <2>7, <2>8, MarkerIs
  <2>10. SubSeq(invoked, 1, Len(Root)) = Root
    <3>1. \A i \in 1..Len(Root) : invoked[i] \in Words
      BY <2>6, RootFacts, ElementOfSeq
    <3>2. /\ SubSeq(invoked, 1, Len(Root)) \in Seq(Words)
          /\ Len(SubSeq(invoked, 1, Len(Root))) = Len(Root)
          /\ \A i \in 1..Len(Root) : SubSeq(invoked, 1, Len(Root))[i] = invoked[i]
      BY <3>1, RootFacts, SubSeqProperties
    <3> QED
      BY <2>6, <3>2, RootFacts, SeqEqual
  <2>11. k - 1 = Len(Root)
    BY RootFacts
  <2> HIDE DEF k
  <2> QED
    BY <1>6, <2>7, <2>9, <2>10, <2>11, RootFacts DEF RootOf, Marked, invoked
<1>7. Len(argv0) \in Nat
  OBVIOUS
<1> HIDE DEF invoked
<1>8. CASE ~Published /\ (Absolute(argv0) \/ Len(argv0) # 1)
  BY <1>2, <1>3, <1>4, <1>8, RootFacts
<1>9. CASE ~Published /\ ~Absolute(argv0) /\ Len(argv0) = 1
  <2>1. cwd = Root \/ IsPrefix(Append(Root, "bazel-out"), cwd)
    BY <1>7, <1>9 DEF Published
  <2> QED
    BY <1>5, <1>6, <1>9, <2>1
<1> QED
  BY <1>1, <1>8, <1>9

\* What a program names a launcher by leads to it.
LEMMA Argv0Facts ==
  ASSUME cwd \in Dirs, NEW l \in Launchers, NEW v \in Argv0s(l)
  PROVE  v \in Seq(Words) /\ v # <<>> /\ InvokedAs(l, v)
<1> DEFINE path == Root \o l.path
           n == Len(path)
<1>1. /\ path \in Seq(Words) /\ n \in Nat /\ n = Len(Root) + Len(l.path) /\ n > 2 /\ path # <<>>
      /\ \A i \in 1..n : path[i] = IF i <= Len(Root) THEN Root[i] ELSE l.path[i - Len(Root)]
  BY RootFacts, LauncherFacts, ConcatProperties
<1>2. ASSUME NEW i \in 2..n PROVE path[i] # "/"
  <2>1. CASE i <= Len(Root)
    BY <1>1, <1>2, <2>1, RootFacts
  <2>2. CASE ~(i <= Len(Root))
    <3>1. i - Len(Root) \in 1..Len(l.path)
      BY <1>1, <1>2, <2>2, RootFacts, LauncherFacts
    <3> QED
      BY <1>1, <1>2, <2>2, <3>1, LauncherFacts
  <2> QED
    BY <2>1, <2>2
<1> HIDE DEF path, n
<1>3. CASE v = path
  BY <1>1, <1>3, RootFacts DEF InvokedAs, path
<1>4. CASE v = <<Last(path)>>
  <2>1. Last(path) = path[n] /\ n \in 2..n
    BY <1>1 DEF Last, n
  <2>2. v \in Seq(Words) /\ Len(v) = 1 /\ v[1] = path[n]
    BY <1>1, <1>4, <2>1, ElementOfSeq DEF n
  <2>3. path[n] # "/"
    BY <1>2, <2>1
  <2>4. v # <<>> /\ ~Absolute(v)
    BY <2>2, <2>3 DEF Absolute
  <2> QED
    BY <2>2, <2>4 DEF InvokedAs
<1>5. CASE v = SubSeq(path, Len(cwd) + 1, n) /\ IsStrictPrefix(cwd, path)
  <2> DEFINE m == Len(cwd)
  <2>1. /\ cwd \in Seq(Words) /\ m \in Nat /\ m > 0 /\ m <= n
        /\ SubSeq(cwd, 1, m) = SubSeq(path, 1, m)
    BY <1>5, DirFacts DEF IsStrictPrefix, IsPrefix, n
  <2>2. SubSeq(path, 1, m) = cwd
    BY <2>1, SubSeqFull
  <2>3. m < n
    <3>1. CASE m = n
      BY <1>1, <1>5, <2>2, <3>1, SubSeqFull DEF IsStrictPrefix, n
    <3> QED
      BY <1>1, <2>1, <3>1
  <2> HIDE DEF m
  <2>4. /\ v \in Seq(Words) /\ Len(v) = n - (m + 1) + 1
        /\ \A i \in 1..(n - (m + 1) + 1) : v[i] = path[m + 1 + i - 1]
    <3>1. \A i \in (m + 1)..n : path[i] \in Words
      BY <1>1, <2>1, ElementOfSeq DEF n
    <3> QED
      BY <1>1, <1>5, <2>1, <2>3, <3>1, SubSeqProperties DEF m
  <2>5. v # <<>> /\ v[1] = path[m + 1] /\ m + 1 \in 2..n
    BY <1>1, <2>1, <2>3, <2>4, EmptySeq
  <2>6. SubSeq(path, 1, m) \o SubSeq(path, m + 1, n) = SubSeq(path, 1, n)
    <3>1. 1 \in 1..(Len(path) + 1) /\ m \in (1 - 1)..Len(path) /\ n \in m..Len(path)
      BY <1>1, <2>1 DEF n
    <3> QED
      BY <1>1, <3>1, ConcatAdjacentSubSeq
  <2>7. cwd \o v = path
    BY <1>1, <1>5, <2>2, <2>6, SubSeqFull DEF m, n
  <2> QED
    BY <1>2, <2>4, <2>5, <2>7 DEF InvokedAs, Absolute, path
<1> QED
  BY <1>3, <1>4, <1>5 DEF Argv0s, path, n

\* Initially nothing is published.
LEMMA RootInit == Init => RootInv
<1> SUFFICES ASSUME Init PROVE RootInv
  OBVIOUS
<1>1. /\ cwd \in Dirs /\ self = None /\ run = None /\ steps = 0
      /\ env = [root |-> None, make |-> None, pin |-> None]
  BY ExecutionRootAssumption DEF Init
<1>2. EnvTyped
  BY <1>1 DEF Init, EnvTyped
<1>3. Invoked /\ Typed
  BY <1>1, ExecutionRootAssumption DEF Invoked, Typed, Ran
<1> QED
  BY <1>1, <1>2, <1>3 DEF RootInv, EnvTyped, ToolsStayReachable, ArgumentsStayDeclared, Ran

\* What a launcher finds, and whether its tool is there.
LEMMA Found ==
  ASSUME EnvTyped, Invoked, cwd \in Dirs, ~Idle, NEW kind \in Kinds
  PROVE  /\ Exists(ToolOf(kind)) <=> RootOf(self.argv0) \in Roots
         /\ Exists(ToolOf(kind)) => ToolOf(kind) \in Tools
         /\ (env.root # None \/ Absolute(self.argv0) \/ Len(self.argv0) > 1 \/ cwd = Root
             \/ IsPrefix(Append(Root, "bazel-out"), cwd)) => RootOf(self.argv0) \in Roots
<1>1. /\ self.launcher \in Launchers /\ self.argv0 \in Seq(Words) /\ self.argv0 # <<>>
      /\ InvokedAs(self.launcher, self.argv0)
  BY DEF Invoked, Idle
<1>2. Exists(ToolOf(kind)) <=> RootOf(self.argv0) \in Roots
  <2>1. RootOf(self.argv0) \in Seq(Words)
    BY <1>1, RootIsPath
  <2> QED
    BY <2>1, ToolFound DEF ToolOf
<1>3. Exists(ToolOf(kind)) => ToolOf(kind) \in Tools
  BY DEF Exists
<1>4. ASSUME \/ env.root # None
             \/ Absolute(self.argv0)
             \/ Len(self.argv0) > 1
             \/ cwd = Root
             \/ IsPrefix(Append(Root, "bazel-out"), cwd)
      PROVE  RootOf(self.argv0) \in Roots
  BY <1>1, <1>4, RootFound
<1> QED
  BY <1>2, <1>3, <1>4

\* A step of the programs in between, or the start of a launcher.
LEMMA Between ==
  ASSUME RootInv, UNCHANGED run,
         \/ \E l \in Launchers, a \in Arguments : \E v \in Argv0s(l) : Launch(l, v, a)
         \/ \E l \in Launchers : Remake(l)
         \/ \E d \in Dirs : ChangeDirectory(d)
         \/ CleanEnvironment
         \/ \E p \in Pins : Repin(p)
  PROVE  RootInv'
<1>0. EnvTyped /\ Invoked /\ Typed /\ ToolsStayReachable /\ ArgumentsStayDeclared
  BY DEF RootInv
<1>1. steps' \in 0..MaxSteps
  BY <1>0, ExecutionRootAssumption
     DEF Typed, Launch, Remake, ChangeDirectory, CleanEnvironment, Repin, Step
<1>2. cwd' \in Dirs
  BY <1>0 DEF Typed, Launch, Remake, ChangeDirectory, CleanEnvironment, Repin
<1>3. EnvTyped'
  <2>1. CASE env' = env /\ order' = order
    BY <1>0, <2>1 DEF EnvTyped
  <2>2. CASE \E p \in Pins : Repin(p)
    BY <1>0, <2>2 DEF Repin, EnvTyped
  <2>3. CASE CleanEnvironment
    <3>1. PICK kept \in SUBSET {"root", "make"} :
            env' = [v \in DOMAIN env |-> IF v \in kept THEN env[v] ELSE None]
      BY <2>3 DEF CleanEnvironment
    <3>2. /\ DOMAIN env' = {"root", "make", "pin"}
          /\ env'.root \in {None, env.root} /\ env'.make \in {None, env.make} /\ env'.pin = None
      BY <1>0, <3>1 DEF EnvTyped
    <3>3. /\ DOMAIN order' = {"executable", "assigned"}
          /\ order'.executable \in {None, order.executable} /\ order'.assigned = order.assigned
      BY <1>0, <2>3 DEF CleanEnvironment, EnvTyped
    <3> QED
      BY <1>0, <3>2, <3>3 DEF EnvTyped
  <2> QED
    BY <2>1, <2>2, <2>3 DEF Launch, Remake, ChangeDirectory
<1>4. Invoked'
  <2>1. ASSUME NEW l \in Launchers, NEW a \in Arguments, NEW v \in Argv0s(l), Launch(l, v, a)
        PROVE  Invoked'
    <3>1. v \in Seq(Words) /\ v # <<>> /\ InvokedAs(l, v)
      BY <1>0, Argv0Facts DEF Typed
    <3>2. self' = [launcher |-> l, argv0 |-> v, arguments |-> a, via |-> "path"] /\ cwd' = cwd
      BY <2>1 DEF Launch
    <3> QED
      BY <3>1, <3>2 DEF Invoked, InvokedAs
  <2>2. ASSUME NEW l \in Launchers, Remake(l) PROVE Invoked'
    <3>1. PICK r \in Roots : env.make = r \o l.path
      BY <2>2 DEF Remake
    <3>2. self' = [launcher |-> l, argv0 |-> r \o l.path, arguments |-> <<>>, via |-> "MAKE"]
      BY <2>2, <3>1 DEF Remake
    <3>3. r \o l.path \in Seq(Words) /\ r \o l.path # <<>>
      BY RootsFacts, LauncherFacts, ConcatProperties, ConcatEqualIffEmpty
    <3> QED
      BY <3>2, <3>3, LaunchersAbsolute DEF Invoked, InvokedAs
  <2>3. CASE self' = None
    BY <2>3 DEF Invoked
  <2>4. ASSUME self' = self, self = None PROVE Invoked'
    BY <2>4 DEF Invoked
  <2> QED
    BY <2>1, <2>2, <2>3, <2>4 DEF ChangeDirectory, CleanEnvironment, Repin, Idle
<1>5. Typed' /\ ToolsStayReachable' /\ ArgumentsStayDeclared'
  BY <1>0, <1>1, <1>2, <1>3
     DEF Typed, ToolsStayReachable, ArgumentsStayDeclared, Declares, Declared, Ran, EnvTyped
<1> QED
  BY <1>3, <1>4, <1>5 DEF RootInv

\* A musl tool is handed declared paths anchored in a root, or runs in it.
LEMMA RebasedIsDeclared ==
  ASSUME NEW r \in Roots, cwd \in Dirs, NEW argument, argument \in [form : Forms, path : Seq(STRING)],
         argument.form # "other", argument.path[1] \in {"bazel-out", "external"}
  PROVE  Join(cwd, Rebased(argument, r).path) = r \o argument.path
<1>1. argument.path \in Seq(Words)
  BY PathOfWords
<1>2. CASE cwd # r
  <2>1. Rebased(argument, r).path = r \o argument.path
    BY <1>2 DEF Rebased
  <2>2. /\ Len(r \o argument.path) = Len(r) + Len(argument.path) /\ r \o argument.path # <<>>
        /\ (r \o argument.path)[1] = "/"
    <3>1. /\ Len(r \o argument.path) = Len(r) + Len(argument.path)
          /\ \A i \in 1..(Len(r) + Len(argument.path)) : (r \o argument.path)[i] =
               IF i <= Len(r) THEN r[i] ELSE argument.path[i - Len(r)]
      BY <1>1, RootsFacts, ConcatProperties
    <3>2. Len(argument.path) \in Nat
      BY <1>1, LenProperties
    <3>3. 1 \in 1..(Len(r) + Len(argument.path)) /\ 1 <= Len(r)
      BY <3>2, RootsFacts
    <3> QED
      BY <1>1, <3>1, <3>3, RootsFacts, ConcatEqualIffEmpty
  <2> QED
    BY <2>1, <2>2 DEF Join, Absolute
<1>3. CASE cwd = r
  <2>1. Rebased(argument, r) = argument
    BY <1>3 DEF Rebased
  <2>2. ~Absolute(argument.path)
    BY DEF Absolute
  <2> QED
    BY <1>3, <2>1, <2>2 DEF Join
<1> QED
  BY <1>2, <1>3

\* A launcher hands over to its tool, or gives up.
LEMMA Starts ==
  ASSUME RootInv,
         \/ RunBash \/ RunBusyBox \/ RunMake \/ Missing \/ RefuseName \/ RunMuslTool
         \/ RunExec \/ MissingProgram \/ RefuseExec
  PROVE  RootInv'
<1>0. EnvTyped /\ Invoked /\ Typed /\ ToolsStayReachable /\ ArgumentsStayDeclared
  BY DEF RootInv
<1>1. ~Idle /\ self' = None /\ UNCHANGED <<cwd, order, steps>>
  BY DEF RunBash, RunBusyBox, RunMake, Missing, RefuseName, RunMuslTool, RunExec, MissingProgram,
     RefuseExec, Starting, HandOver, GiveUp
<1>2. /\ self.launcher \in Launchers /\ self.arguments \in Arguments \cup {<<>>}
      /\ self.argv0 \in Seq(Words) /\ self.argv0 # <<>>
      /\ InvokedAs(self.launcher, self.argv0)
      /\ self.via = "MAKE" => Absolute(self.argv0)
      /\ cwd \in Dirs
  BY <1>0, <1>1 DEF Invoked, Idle, Typed
<1>3. \A kind \in Kinds : Exists(ToolOf(kind)) =>
        RootOf(self.argv0) \in Roots /\ ToolOf(kind) \in Tools
  BY <1>0, <1>1, <1>2, Found
<1>4. EnvTyped'
  <2>1. CASE env' = env
    BY <1>0, <1>1, <2>1 DEF EnvTyped
  <2>2. CASE RunMake
    <3>1. PICK name \in MakeNames : env' = [env EXCEPT !.make = name]
      BY <2>2 DEF RunMake
    <3>2. name \in LauncherPaths
      BY <1>2 DEF MakeNames, LauncherPaths
    <3> QED
      BY <1>0, <1>1, <3>1, <3>2 DEF EnvTyped
  <2>3. CASE RunMuslTool
    <3>1. RootOf(self.argv0) \in Roots
      BY <1>3, <2>3 DEF RunMuslTool, Kinds
    <3> QED
      BY <1>0, <1>1, <2>3, <3>1 DEF RunMuslTool, EnvTyped
  <2>4. CASE RunExec
    <3>1. order.assigned # <<>> => Last(order.assigned) \in Pins \cup {None}
      <4>1. PICK n \in 0..2 : order.assigned \in [1..n -> Pins \cup {None}]
        BY <1>0 DEF EnvTyped
      <4>2. order.assigned \in Seq(Pins \cup {None}) /\ Len(order.assigned) = n
        BY <4>1
      <4> QED
        BY <4>2, EmptySeq, ElementOfSeq DEF Last
    <3>2. Assigned(env.pin) \in Pins \cup {None}
      BY <1>0, <3>1 DEF Assigned, EnvTyped
    <3>3. env' = [env EXCEPT !.pin = Assigned(env.pin)]
      BY <2>4 DEF RunExec
    <3> QED
      BY <1>0, <1>1, <3>2, <3>3 DEF EnvTyped
  <2> QED
    BY <2>1, <2>2, <2>3, <2>4 DEF RunBash, RunBusyBox, Missing, RefuseName, MissingProgram, RefuseExec, GiveUp
<1>5. ASSUME Missing
      PROVE  Typed' /\ ToolsStayReachable' /\ ArgumentsStayDeclared'
  <2>1. PICK kind \in Kinds \ {"exec"} : Starting(kind) /\ ~Exists(ToolOf(kind)) /\ GiveUp("missing")
    BY <1>5 DEF Missing
  <2>2. run' = [status |-> "missing", kind |-> self.launcher.kind, argv0 |-> self.argv0,
                via |-> self.via, root |-> env.root, executable |-> order.executable, cwd |-> cwd]
    BY <2>1 DEF GiveUp
  <2>3. /\ env.root = None /\ ~Absolute(self.argv0) /\ cwd # Root
        /\ ~IsPrefix(Append(Root, "bazel-out"), cwd)
    BY <1>0, <1>1, <1>2, <2>1, Found
  <2>4. self.via # "MAKE"
    BY <1>2, <2>3
  <2>5. run'.status = "missing" /\ run'.root = None /\ run'.argv0 = self.argv0 /\ run'.cwd = cwd
        /\ run'.via = self.via /\ run'.kind # "exec"
    BY <2>1, <2>2, <2>3 DEF Starting
  <2> QED
    BY <1>0, <1>1, <1>4, <2>3, <2>4, <2>5
       DEF Typed, ToolsStayReachable, ArgumentsStayDeclared, Ran, EnvTyped
<1>10. ASSUME MissingProgram
       PROVE  Typed' /\ ToolsStayReachable' /\ ArgumentsStayDeclared'
  <2>1. /\ run'.status = "missing" /\ run'.kind = "exec" /\ run'.cwd = cwd
        /\ run'.executable = order.executable
    BY <1>10 DEF MissingProgram, GiveUp, Starting
  <2>2. ~Exists(Join(cwd, order.executable))
    BY <1>10 DEF MissingProgram, Program
  <2>3. ~Exists(Join(Root, order.executable)) \/ (~Absolute(order.executable) /\ cwd # Root)
    BY <2>2 DEF Join
  <2>4. Typed' /\ ArgumentsStayDeclared'
    BY <1>0, <1>1, <2>1 DEF Typed, ArgumentsStayDeclared, Ran
  <2>5. ToolsStayReachable'
    BY <1>4, <2>1, <2>3 DEF ToolsStayReachable, EnvTyped, Exists, Join, Absolute
  <2> QED
    BY <2>4, <2>5
<1>6. ASSUME RefuseName \/ RefuseExec
      PROVE  Typed' /\ ToolsStayReachable' /\ ArgumentsStayDeclared'
  <2>1. run'.status = "refused" /\ run'.cwd = cwd
    BY <1>6 DEF RefuseName, RefuseExec, GiveUp
  <2> QED
    BY <1>0, <1>1, <1>4, <2>1 DEF Typed, ToolsStayReachable, ArgumentsStayDeclared, Ran, EnvTyped
<1>7. ASSUME NEW kind \in Kinds \ {"musl"}, Starting(kind), NEW tool, HandOver(tool, self.arguments),
             tool \in Tools
      PROVE  Typed' /\ ToolsStayReachable' /\ ArgumentsStayDeclared'
  <2>1. run'.status = "running" /\ run'.cwd = cwd /\ run'.tool = tool /\ run'.kind = kind
    BY <1>7 DEF HandOver, Starting
  <2> QED
    BY <1>0, <1>1, <1>4, <1>7, <2>1
       DEF Typed, ToolsStayReachable, ArgumentsStayDeclared, Ran, EnvTyped
<1>8. CASE RunBash \/ RunBusyBox \/ RunMake \/ RunExec
  <2>1. CASE RunExec
    <3>1. Program \in Tools
      BY <2>1 DEF RunExec, Exists
    <3> QED
      BY <1>4, <1>1, <1>7, <2>1, <3>1, <1>0 DEF RunExec, Kinds, RootInv, Invoked
  <2>2. CASE RunBash
    BY <1>0, <1>1, <1>3, <1>4, <1>7, <2>2 DEF RunBash, Kinds, RootInv, Invoked
  <2>3. CASE RunBusyBox
    BY <1>0, <1>1, <1>3, <1>4, <1>7, <2>3 DEF RunBusyBox, Kinds, RootInv, Invoked
  <2>4. CASE RunMake
    BY <1>0, <1>1, <1>3, <1>4, <1>7, <2>4 DEF RunMake, Kinds, RootInv, Invoked
  <2> QED
    BY <1>8, <2>1, <2>2, <2>3, <2>4
<1>9. ASSUME RunMuslTool
      PROVE  Typed' /\ ToolsStayReachable' /\ ArgumentsStayDeclared'
  <2> DEFINE root == RootOf(self.argv0)
             passed == [i \in DOMAIN self.arguments |-> Rebased(self.arguments[i], root)]
  <2>1. root \in Roots /\ ToolOf("musl") \in Tools
    BY <1>3, <1>9 DEF RunMuslTool, Kinds
  <2>2. run' = [status |-> "running", kind |-> self.launcher.kind, tool |-> ToolOf("musl"),
                arguments |-> passed, given |-> self.arguments, cwd |-> cwd, argv0 |-> self.argv0,
                wrapper |-> Join(root, self.argv0)]
    BY <1>9 DEF RunMuslTool, HandOver
  <2> HIDE DEF root
  <2>3. \A i \in DOMAIN self.arguments : self.arguments[i] \in [form : Forms, path : Seq(STRING)]
    <3>1. self.arguments \in Seq([form : Forms, path : Seq(STRING)])
      BY <1>2, ExecutionRootAssumption, EmptySeq
    <3> HIDE DEF passed
    <3> QED
      BY <3>1, LenProperties, ElementOfSeq
  <2>4. ASSUME NEW i \in DOMAIN self.arguments, self.arguments[i].form # "other",
               self.arguments[i].path[1] \in {"bazel-out", "external"}
        PROVE  Join(cwd, passed[i].path) = root \o self.arguments[i].path
    BY <1>2, <2>1, <2>3, <2>4, RebasedIsDeclared
  <2>8. ASSUME NEW i \in DOMAIN self.arguments, self.arguments[i].form = "other"
        PROVE  passed[i] = self.arguments[i]
    BY <2>8 DEF Rebased
  <2>5. ASSUME Absolute(self.argv0) \/ (cwd = Root /\ Len(self.argv0) > 1)
        PROVE  Join(root, self.argv0) \in LauncherPaths
    <3>1. CASE Absolute(self.argv0)
      BY <1>2, <3>1 DEF InvokedAs, Join, LauncherPaths
    <3>2. CASE ~Absolute(self.argv0)
      <4>1. cwd \o self.argv0 = Root \o self.launcher.path
        <5>1. Len(self.argv0) \in Nat
          BY <1>2, LenProperties
        <5>2. Len(self.argv0) # 1
          <6>1. Len(self.argv0) > 1
            BY <2>5, <3>2, Zenon
          <6> QED
            BY <5>1, <6>1, LongerThanName
        <5> QED
          BY <1>2, <3>2, <5>2, LaunchersAbsolute DEF InvokedAs
      <4>2. self.argv0 = self.launcher.path
        <5>1. Root \o self.argv0 = Root \o self.launcher.path
          BY <2>5, <3>2, <4>1
        <5> QED
          BY <1>2, <5>1, RootFacts, LauncherFacts, ConcatSimplifications
      <4> QED
        BY <1>2, <2>1, <3>2, <4>2 DEF Join, LauncherPaths
    <3> QED
      BY <3>1, <3>2
  <2> HIDE DEF passed
  <2>6. ArgumentsStayDeclared'
    BY <2>1, <2>2, <2>4, <2>5, <2>8 DEF ArgumentsStayDeclared, Declares, Declared
  <2>7. run'.status = "running" /\ run'.cwd = cwd /\ run'.tool = ToolOf("musl")
    BY <2>2
  <2> QED
    BY <1>0, <1>1, <1>4, <2>1, <2>6, <2>7 DEF Typed, ToolsStayReachable, Ran, EnvTyped
<1> QED
  BY <1>1, <1>4, <1>5, <1>6, <1>8, <1>9, <1>10 DEF RootInv, Invoked

-----------------------------------------------------------------------------
(* Theorems.                                                               *)

\* What the launchers publish and hand over is right in every reachable state.
LEMMA RootInvariant == Spec => []RootInv
<1>1. RootInv /\ [Next]_vars => RootInv'
  <2> SUFFICES ASSUME RootInv, [Next]_vars PROVE RootInv'
    OBVIOUS
  <2>1. CASE UNCHANGED vars
    <3>1. ArgumentsStayDeclared'
      BY <2>1 DEF vars, RootInv, ArgumentsStayDeclared, Declares, Declared, Ran
    <3>2. EnvTyped' /\ Invoked' /\ Typed' /\ ToolsStayReachable'
      BY <2>1 DEF vars, RootInv, EnvTyped, Invoked, InvokedAs, Typed, ToolsStayReachable, Ran
    <3> QED
      BY <3>1, <3>2 DEF RootInv
  <2>2. CASE \/ RunBash \/ RunBusyBox \/ RunMake \/ Missing \/ RefuseName \/ RunMuslTool
             \/ RunExec \/ MissingProgram \/ RefuseExec
    BY <2>2, Starts
  <2>3. CASE \/ \E l \in Launchers, a \in Arguments : \E v \in Argv0s(l) : Launch(l, v, a)
             \/ \E l \in Launchers : Remake(l)
             \/ \E d \in Dirs : ChangeDirectory(d)
             \/ CleanEnvironment
             \/ \E p \in Pins : Repin(p)
    <3>1. UNCHANGED run
      BY <2>3 DEF Launch, Remake, ChangeDirectory, CleanEnvironment, Repin
    <3> QED
      BY <2>3, <3>1, Between
  <2> QED
    BY <2>1, <2>2, <2>3 DEF Next
<1> QED
  BY <1>1, RootInit, PTL DEF Spec

\* Working directory, environment, launcher and outcome have their types.
THEOREM TypeCorrect == Spec => []TypeOK
<1> QED
  BY RootInvariant, RootInvTyped, PTL

\* A launcher publishes a root that has its tool and nothing else, and only one
\* that was invoked by a relative name, outside of the root and its output
\* tree and below a cleaned environment, can miss its tool; hermetic_exec only
\* a program that is not below the root, or that is named relative to it.
THEOREM ToolsAreReached == Spec => []ToolsStayReachable
<1>1. RootInv => ToolsStayReachable
  BY DEF RootInv
<1> QED
  BY <1>1, RootInvariant, PTL

\* A declared path that a compiler or linker is handed in one of the spellings
\* that the launcher rewrites is the declared file, from every directory, and in
\* any other spelling is what was given (resolveExecutionRootPaths).
THEOREM ArgumentsAreDeclared == Spec => []ArgumentsStayDeclared
<1>1. RootInv => ArgumentsStayDeclared
  BY DEF RootInv
<1> QED
  BY <1>1, RootInvariant, PTL
=============================================================================
