----------------------- MODULE VerifiedArchive_proofs -----------------------
(***************************************************************************)
(* Theorems about the repository rule, for archives of any shape, any      *)
(* attributes and any limit on the nesting.                                *)
(***************************************************************************)
EXTENDS VerifiedArchive, TLAPS, SequenceTheorems, WellFoundedInduction

(***************************************************************************)
(* Paths.                                                                  *)
(***************************************************************************)

\* A prefix agrees with the longer sequence.
LEMMA PrefixIs ==
  ASSUME NEW s \in Seq(Nodes), NEW t \in Seq(Nodes)
  PROVE  IsPrefix(s, t) <=> Len(s) <= Len(t) /\ \A i \in 1..Len(s) : s[i] = t[i]
<1>0. Len(s) \in Nat /\ Len(t) \in Nat /\ SubSeq(s, 1, Len(s)) = s
  BY LenProperties, SubSeqFull
<1>1. ASSUME Len(s) <= Len(t)
      PROVE  (SubSeq(s, 1, Len(s)) = SubSeq(t, 1, Len(s))) <=> (\A i \in 1..Len(s) : s[i] = t[i])
  <2> DEFINE u == SubSeq(t, 1, Len(s))
  <2>1. \A i \in 1..Len(s) : i \in 1..Len(t) /\ t[i] \in Nodes
    BY <1>0, <1>1, LenProperties
  <2>2. /\ u \in Seq(Nodes)
        /\ Len(u) = IF 1 <= Len(s) THEN Len(s) - 1 + 1 ELSE 0
        /\ \A i \in 1..(Len(s) - 1 + 1) : u[i] = t[1 + i - 1]
    BY <1>0, <2>1, SubSeqProperties
  <2>3. Len(u) = Len(s) /\ \A i \in 1..Len(s) : u[i] = t[i]
    BY <1>0, <2>2
  <2> HIDE DEF u
  <2>4. (s = u) <=> \A i \in 1..Len(s) : s[i] = u[i]
    BY <2>2, <2>3, SeqEqual
  <2> QED
    BY <1>0, <2>3, <2>4 DEF u
<1> QED
  BY <1>1 DEF IsPrefix

\* The first names of a path.
LEMMA FirstNames ==
  ASSUME NEW u \in Seq(Nodes), NEW k \in 0..Len(u)
  PROVE  /\ SubSeq(u, 1, k) \in Seq(Nodes)
         /\ Len(SubSeq(u, 1, k)) = k
         /\ \A i \in 1..k : SubSeq(u, 1, k)[i] = u[i]
<1>0. Len(u) \in Nat /\ k \in Nat
  BY LenProperties
<1>1. \A i \in 1..k : u[i] \in Nodes
  BY <1>0, LenProperties
<1>2. /\ SubSeq(u, 1, k) \in Seq(Nodes)
      /\ Len(SubSeq(u, 1, k)) = IF 1 <= k THEN k - 1 + 1 ELSE 0
      /\ \A i \in 1..(k - 1 + 1) : SubSeq(u, 1, k)[i] = u[1 + i - 1]
  BY <1>0, <1>1, SubSeqProperties
<1> QED
  BY <1>0, <1>2

\* Two prefixes of one path are prefixes of each other.
LEMMA PrefixesCompare ==
  ASSUME NEW s \in Seq(Nodes), NEW t \in Seq(Nodes), NEW u \in Seq(Nodes),
         IsPrefix(s, u), IsPrefix(t, u)
  PROVE  IsPrefix(s, t) \/ IsStrictPrefix(t, s)
<1>1. Len(s) \in Nat /\ Len(t) \in Nat /\ Len(u) \in Nat
  BY LenProperties
<1>2. /\ \A i \in 1..Len(s) : s[i] = u[i]
      /\ \A i \in 1..Len(t) : t[i] = u[i]
  BY PrefixIs
<1>3. CASE Len(s) <= Len(t)
  <2>1. \A i \in 1..Len(s) : i \in 1..Len(t)
    BY <1>1, <1>3
  <2> QED
    BY <1>2, <1>3, <2>1, PrefixIs
<1>4. CASE Len(t) < Len(s)
  <2>1. \A i \in 1..Len(t) : i \in 1..Len(s)
    BY <1>1, <1>4
  <2>2. Len(t) <= Len(s) /\ s # t
    BY <1>1, <1>4
  <2> QED
    BY <1>2, <2>1, <2>2, PrefixIs DEF IsStrictPrefix
<1> QED
  BY <1>1, <1>3, <1>4

\* What is a prefix of a prefix is a prefix.
LEMMA PrefixOfFirst ==
  ASSUME NEW s \in Seq(Nodes), NEW u \in Seq(Nodes), NEW k \in 0..Len(u),
         IsPrefix(s, SubSeq(u, 1, k))
  PROVE  IsPrefix(s, u)
<1>1. Len(s) \in Nat /\ Len(u) \in Nat /\ k \in Nat /\ k <= Len(u)
  BY LenProperties
<1>2. Len(s) <= k /\ \A i \in 1..Len(s) : s[i] = SubSeq(u, 1, k)[i]
  BY FirstNames, PrefixIs
<1>3. \A i \in 1..Len(s) : i \in 1..k
  BY <1>1, <1>2
<1>4. Len(s) <= Len(u) /\ \A i \in 1..Len(s) : s[i] = u[i]
  BY <1>1, <1>2, <1>3, FirstNames
<1> QED
  BY <1>4, PrefixIs

(***************************************************************************)
(* The archive.                                                            *)
(***************************************************************************)

\* What an entry's path says.
LEMMA NodeFacts ==
  ASSUME tree \in Trees, NEW n \in Nodes
  PROVE  /\ tree[n].path \in Seq(Nodes)
         /\ Len(tree[n].path) \in Nat /\ Len(tree[n].path) >= 1
         /\ tree[n].path[Len(tree[n].path)] = n
         /\ \A i \in 1..Len(tree[n].path) : tree[n].path[i] \in Nodes
         /\ \A i \in 1..(Len(tree[n].path) - 1) : tree[tree[n].path[i]].kind = "dir"
         /\ \A i \in 1..Len(tree[n].path) :
              tree[tree[n].path[i]].path = SubSeq(tree[n].path, 1, i)
<1> DEFINE path == tree[n].path
<1>1. /\ path \in Seq(Nodes) /\ path # <<>> /\ path[Len(path)] = n
      /\ \A i \in 1..(Len(path) - 1) :
           tree[path[i]].kind = "dir" /\ tree[path[i]].path = SubSeq(path, 1, i)
  BY VerifiedArchiveAssumption
<1> HIDE DEF path
<1>2. Len(path) \in Nat /\ Len(path) >= 1 /\ \A i \in 1..Len(path) : path[i] \in Nodes
  BY <1>1, LenProperties
<1>3. SubSeq(path, 1, Len(path)) = path /\ tree[n].path = path
  BY <1>1, SubSeqFull DEF path
<1>4. ASSUME NEW i \in 1..Len(path) PROVE tree[path[i]].path = SubSeq(path, 1, i)
  <2>1. CASE i = Len(path)
    BY <1>1, <1>3, <2>1
  <2>2. CASE i # Len(path)
    <3>1. i \in 1..(Len(path) - 1)
      BY <1>2, <2>2
    <3> QED
      BY <1>1, <3>1
  <2> QED
    BY <2>1, <2>2
<1> QED
  BY <1>1, <1>2, <1>4 DEF path

\* The entry that a path's first names lead to has these names for its path,
\* and lies in the one before it.
LEMMA AncestorFacts ==
  ASSUME tree \in Trees, NEW n \in Nodes, NEW i \in 1..Len(tree[n].path)
  PROVE  /\ tree[n].path[i] \in Nodes
         /\ tree[tree[n].path[i]].path \in Seq(Nodes)
         /\ Len(tree[tree[n].path[i]].path) = i
         /\ \A j \in 1..i : tree[tree[n].path[i]].path[j] = tree[n].path[j]
         /\ Holder(tree[n].path[i]) = Entry(tree[n].path, i - 1)
<1> DEFINE path == tree[n].path
           m == path[i]
<1>1. /\ path \in Seq(Nodes) /\ Len(path) \in Nat /\ i \in Nat /\ i >= 1 /\ i \in 0..Len(path)
      /\ m \in Nodes /\ tree[m].path = SubSeq(path, 1, i)
  BY NodeFacts
<1> HIDE DEF m, path
<1>2. /\ tree[m].path \in Seq(Nodes)
      /\ Len(tree[m].path) = i
      /\ \A j \in 1..i : tree[m].path[j] = path[j]
  BY <1>1, FirstNames
<1>3. Holder(m) = Entry(path, i - 1)
  <2>1. Holder(m) = Entry(tree[m].path, i - 1)
    BY <1>2 DEF Holder
  <2>2. i - 1 = 0 \/ i - 1 \in 1..i
    BY <1>1
  <2> QED
    BY <1>2, <2>1, <2>2 DEF Entry
<1> QED
  BY <1>1, <1>2, <1>3 DEF path, m

\* The entries below an entry are those whose path runs through it.
LEMMA BelowIsPrefix ==
  ASSUME tree \in Trees, NEW m \in Nodes, NEW n \in Nodes
  PROVE  n \in Subtree(m) <=> IsPrefix(tree[m].path, tree[n].path)
<1> DEFINE s == tree[m].path
           t == tree[n].path
<1>0. /\ s \in Seq(Nodes) /\ Len(s) \in Nat /\ Len(s) >= 1 /\ s[Len(s)] = m
      /\ t \in Seq(Nodes) /\ Len(t) \in Nat /\ Len(t) >= 1
  BY NodeFacts
<1>1. ASSUME NEW i \in 1..Len(t), t[i] = m PROVE IsPrefix(s, t)
  <2>1. Len(s) = i /\ (\A j \in 1..i : s[j] = t[j]) /\ i <= Len(t)
    BY <1>1, <1>0, AncestorFacts
  <2> QED
    BY <1>0, <2>1, PrefixIs
<1>2. ASSUME IsPrefix(s, t) PROVE \E i \in 1..Len(t) : t[i] = m
  <2>1. Len(s) <= Len(t) /\ \A i \in 1..Len(s) : s[i] = t[i]
    BY <1>0, <1>2, PrefixIs
  <2>2. Len(s) \in 1..Len(t) /\ Len(s) \in 1..Len(s)
    BY <1>0, <2>1
  <2> QED
    BY <1>0, <2>1, <2>2
<1> QED
  BY <1>1, <1>2 DEF Subtree

\* An entry that is not a link is where it leads.
LEMMA RealOfEntry ==
  ASSUME present \subseteq Nodes
  PROVE  /\ Real(Root) = Root
         /\ \A n \in present : tree[n].kind # "link" => Real(n) = n
<1>1. Root \in Stops
  BY VerifiedArchiveAssumption DEF Stops, Places
<1>2. ASSUME NEW n \in present, tree[n].kind # "link" PROVE n \in Stops
  BY <1>2 DEF Stops, Links
<1>3. ASSUME NEW n \in Stops PROVE n \notin Links
  BY <1>3 DEF Stops, Links
<1>4. ASSUME NEW n \in Stops PROVE Real(n) = n
  BY <1>3, <1>4 DEF Real
<1> QED
  BY <1>1, <1>2, <1>4

\* Whatever an entry leads to is there or is no entry.
LEMMA RealIsStop == \A place : Real(place) \in Stops
<1> SUFFICES ASSUME NEW place PROVE Real(place) \in Stops
  OBVIOUS
<1>1. Missing \in Stops
  BY VerifiedArchiveAssumption DEF Stops, Places
<1>2. Ends(place) \subseteq Stops
  BY DEF Ends
<1>3. ASSUME Ends(place) # {} PROVE (CHOOSE stop \in Ends(place) : TRUE) \in Stops
  BY <1>2, <1>3
<1> QED
  BY <1>1, <1>3 DEF Real

\* Nothing lies below what is no entry.
LEMMA NoSubtree == \A place : place \notin Nodes => (tree \in Trees => Subtree(place) = {})
  BY NodeFacts DEF Subtree

\* An entry holds what leads to it.
Standing ==
  /\ present \subseteq Nodes
  /\ \A n \in present : \A i \in 1..Len(tree[n].path) : tree[n].path[i] \in present

\* The directories on the way to an entry that is there are where their names
\* say.
LEMMA WayIsReal ==
  ASSUME tree \in Trees, Standing, NEW n \in present, NEW i \in 0..(Len(tree[n].path) - 1)
  PROVE  Real(Entry(tree[n].path, i)) = Entry(tree[n].path, i) /\ IsDir(Entry(tree[n].path, i))
<1> DEFINE path == tree[n].path
<1>0. n \in Nodes /\ present \subseteq Nodes /\ \A j \in 1..Len(path) : path[j] \in present
  BY DEF Standing
<1>1. CASE i = 0
  BY <1>0, <1>1, RealOfEntry DEF Entry, IsDir
<1>2. CASE i # 0
  <2>1. Len(path) \in Nat /\ i \in 1..(Len(path) - 1) /\ i \in 1..Len(path)
    BY <1>0, <1>2, NodeFacts
  <2>2. tree[path[i]].kind = "dir" /\ path[i] \in present
    BY <1>0, <2>1, NodeFacts
  <2>3. Real(path[i]) = path[i]
    BY <1>0, <2>2, RealOfEntry
  <2> QED
    BY <1>0, <1>2, <2>2, <2>3 DEF Entry, IsDir
<1> QED
  BY <1>1, <1>2

\* An entry that is there is found by its path.
LEMMA LocatedEntry ==
  ASSUME tree \in Trees, Standing, NEW n \in present
  PROVE  Located(tree[n].path) = n
<1> DEFINE path == tree[n].path
<1>0. n \in Nodes /\ \A j \in 1..Len(path) : path[j] \in present
  BY DEF Standing
<1>1. Len(path) \in Nat /\ Len(path) >= 1 /\ path[Len(path)] = n
  BY <1>0, NodeFacts
<1>2. ASSUME NEW i \in 1..Len(path)
      PROVE  IsDir(Entry(path, i - 1)) /\ path[i] \in Children(Real(Entry(path, i - 1)))
  <2>1. i - 1 \in 0..(Len(path) - 1)
    BY <1>1
  <2>2. Real(Entry(path, i - 1)) = Entry(path, i - 1) /\ IsDir(Entry(path, i - 1))
    BY <2>1, WayIsReal
  <2>3. Holder(path[i]) = Entry(path, i - 1)
    BY <1>0, AncestorFacts
  <2> QED
    BY <1>0, <2>2, <2>3 DEF Children
<1>3. Located(path) = Entry(path, Len(path))
  BY <1>2 DEF Located
<1>4. Entry(path, Len(path)) = n
  BY <1>1 DEF Entry
<1> QED
  BY <1>3, <1>4

\* An entry's path finds this entry or nothing.
LEMMA LocatedByPath ==
  ASSUME tree \in Trees, NEW n \in Nodes
  PROVE  Located(tree[n].path) \in {n, Missing}
<1>1. Entry(tree[n].path, Len(tree[n].path)) = n
  BY NodeFacts DEF Entry
<1> QED
  BY <1>1 DEF Located

\* A path has a least index at which it goes wrong.
LEMMA LeastIndex ==
  ASSUME NEW S, S \subseteq Nat, S # {}
  PROVE  \E m \in S : \A k \in S : ~(k < m)
<1>1. \E x \in S : \A y \in S : ~(<<y, x>> \in OpToRel(<, Nat))
  BY NatLessThanWellFounded, WFMin, Zenon
<1> QED
  BY <1>1, Zenon DEF OpToRel

\* The last index but one.
LEMMA OneLess == \A k \in Nat : k >= 1 /\ k # 1 => k - 1 \in 1..k /\ k - 1 # 0
  OBVIOUS

\* A path through real directories that names an entry is the entry's own.
LEMMA PlainIsOwn ==
  ASSUME tree \in Trees, present \subseteq Nodes, NEW p \in Seq(Nodes), p # <<>>,
         Plain(p), Located(p) # Missing
  PROVE  tree[p[Len(p)]].path = p
<1> DEFINE Wrong == {i \in 1..Len(p) : tree[p[i]].path # SubSeq(p, 1, i)}
<1>0. /\ Len(p) \in Nat /\ Len(p) >= 1 /\ SubSeq(p, 1, Len(p)) = p
      /\ \A i \in 1..Len(p) : p[i] \in Nodes
  BY LenProperties, SubSeqFull
<1>1. \A i \in 1..Len(p) : p[i] \in present /\ Holder(p[i]) = Real(Entry(p, i - 1))
  BY DEF Located, Children
<1>2. ASSUME NEW i \in 1..Len(p), \A k \in Wrong : ~(k < i)
      PROVE  tree[p[i]].path = SubSeq(p, 1, i)
  <2> DEFINE path == tree[p[i]].path
  <2>1. /\ path \in Seq(Nodes) /\ Len(path) \in Nat /\ Len(path) >= 1
        /\ path[Len(path)] = p[i]
        /\ \A j \in 1..Len(path) : path[j] \in Nodes
    BY <1>0, NodeFacts
  <2>2. /\ SubSeq(p, 1, i) \in Seq(Nodes) /\ Len(SubSeq(p, 1, i)) = i
        /\ \A j \in 1..i : SubSeq(p, 1, i)[j] = p[j]
    BY <1>0, FirstNames
  <2>3. i \in Nat /\ i >= 1
    BY <1>0
  <2>4. CASE i = 1
    <3>1. Holder(p[i]) = Root
      BY <1>1, <2>4, RealOfEntry DEF Entry
    <3>2. Len(path) = 1
      <4>1. ASSUME Len(path) # 1 PROVE FALSE
        <5>1. Len(path) - 1 \in 1..Len(path) /\ Len(path) - 1 # 0
          BY <2>1, <4>1, OneLess
        <5>2. Holder(p[i]) \in Nodes
          BY <2>1, <5>1 DEF Holder, Entry
        <5> QED
          BY <3>1, <5>2, VerifiedArchiveAssumption
      <4> QED
        BY <4>1
    <3>3. \A j \in 1..Len(path) : path[j] = SubSeq(p, 1, i)[j]
      BY <2>1, <2>2, <2>4, <3>2
    <3> QED
      BY <2>1, <2>2, <2>4, <3>2, <3>3, SeqEqual
  <2>5. CASE i # 1
    <3> DEFINE before == p[i - 1]
               L == Len(path)
    <3>1. i - 1 \in 1..Len(p) /\ i - 1 \in 1..(Len(p) - 1) /\ i - 1 # 0 /\ i - 1 < i
          /\ i - 1 \in 0..Len(p)
      BY <1>0, <2>3, <2>5
    <3>2. before \in present /\ before \in Nodes /\ tree[before].kind = "dir"
      BY <1>0, <1>1, <3>1 DEF Plain
    <3>3. Holder(p[i]) = before
      BY <1>1, <3>1, <3>2, RealOfEntry DEF Entry
    <3>4. L - 1 # 0
      <4>1. ASSUME L - 1 = 0 PROVE FALSE
        <5>1. Holder(p[i]) = Root
          BY <4>1 DEF Holder, Entry
        <5> QED
          BY <3>2, <3>3, <5>1, VerifiedArchiveAssumption
      <4> QED
        BY <4>1
    <3>5. L - 1 \in 1..Len(tree[p[i]].path) /\ path[L - 1] = before
      <4>1. L \in Nat /\ L >= 1 /\ L # 1
        BY <2>1, <3>4
      <4>2. L - 1 \in 1..L
        BY <4>1, OneLess
      <4> QED
        BY <3>3, <3>4, <4>2 DEF Holder, Entry
    <3>6. tree[before].path = SubSeq(p, 1, i - 1)
      BY <1>2, <3>1
    <3>7. Len(tree[before].path) = L - 1 /\ \A j \in 1..(L - 1) : tree[before].path[j] = path[j]
      BY <1>0, <3>5, AncestorFacts
    <3>8. Len(tree[before].path) = i - 1 /\ \A j \in 1..(i - 1) : tree[before].path[j] = p[j]
      BY <3>1, <3>6, FirstNames
    <3>9. L = i
      BY <2>1, <2>3, <3>7, <3>8
    <3>10. ASSUME NEW j \in 1..L PROVE path[j] = SubSeq(p, 1, i)[j]
      <4>1. CASE j = i
        BY <2>1, <2>2, <3>9, <4>1
      <4>2. CASE j # i
        <5>1. j \in 1..(i - 1) /\ j \in 1..(L - 1) /\ j \in 1..i
          BY <2>3, <3>9, <4>2
        <5> QED
          BY <2>2, <3>7, <3>8, <5>1
      <4> QED
        BY <4>1, <4>2
    <3> QED
      BY <2>1, <2>2, <3>9, <3>10, SeqEqual
  <2> QED
    BY <2>4, <2>5
<1>3. Wrong = {}
  <2>1. ASSUME Wrong # {} PROVE FALSE
    <3>1. Wrong \subseteq Nat
      BY <1>0
    <3>2. PICK i \in Wrong : \A k \in Wrong : ~(k < i)
      BY <2>1, <3>1, LeastIndex
    <3> QED
      BY <1>2, <3>2
  <2> QED
    BY <2>1
<1>4. Len(p) \in 1..Len(p)
  BY <1>0
<1> QED
  BY <1>0, <1>3, <1>4

(***************************************************************************)
(* The inductive invariant.                                                *)
(***************************************************************************)

\* The rule goes through its stages; the loops count their levels.
InOrder ==
  /\ tree \in Trees /\ retain \in Retains /\ remove \in Removes
  /\ stage \in {"fetch", "prune", "remove", "validate", "done", "failed"}
  /\ level \in 0..MaxLevels
  /\ (stage = "failed") = (why # None)
  /\ stage = "fetch" => level = 0 /\ present = Nodes /\ next_pending = {}
  /\ stage = "prune" => retain # {} /\ (entries \cup next_pending # {} => level < MaxLevels)

\* What the loops have in hand.
InHand ==
  /\ stage = "prune" =>
       /\ pending \cup entries \cup next_pending \subseteq Seq(Nodes)
       /\ <<>> \notin entries
  /\ stage = "remove" => pending = {} /\ next_pending = {} /\ entries \subseteq remove
  /\ stage \in {"validate", "done"} => pending \subseteq present \cup {Root}

\* A directory to which the entry's own path leads is still to be read, or an
\* entry on its path still to be pruned.
ToPrune(n) ==
  \/ \E i \in 0..(Len(tree[n].path) - 1) : SubSeq(tree[n].path, 1, i) \in pending \cup next_pending
  \/ \E i \in 1..Len(tree[n].path) : SubSeq(tree[n].path, 1, i) \in entries

\* Whatever is there is kept, or pruning has yet to reach it.
Pruning ==
  /\ stage = "prune" =>
       \A n \in present :
         KeepEntire(tree[n].path) \/ KeepParent(tree[n].path) \/ ToPrune(n)
  /\ stage \in {"remove", "validate", "done"} /\ retain # {} =>
       \A n \in present : KeepEntire(tree[n].path) \/ KeepParent(tree[n].path)

RetainPlain == \A p \in retain : Plain(p)
BothPlain == RetainPlain /\ \A p \in remove : Plain(p)

\* The entry that a path's last name names has this path for its own.
OwnPath(p) == tree[p[Len(p)]].path = p

\* Where retained paths run through real directories, so does pruning.
OwnPaths ==
  RetainPlain =>
    /\ stage \in {"prune", "remove", "validate", "done"} => \A p \in retain : OwnPath(p)
    /\ stage = "prune" =>
         /\ \A q \in pending \cup next_pending :
              q = <<>> \/ (OwnPath(q) /\ tree[q[Len(q)]].kind = "dir")
         /\ \A q \in entries : OwnPath(q)

\* What is to be kept is there at every stage.
Whole ==
  BothPlain /\ stage \in {"prune", "remove", "validate", "done"} =>
    \A p \in retain : \A n \in Subtree(p[Len(p)]) :
      (\A r \in remove : ~IsPrefix(r, tree[n].path)) => n \in present

\* An entry that escapes has yet to be looked at.
Validated ==
  /\ stage = "validate" =>
       \A n \in present :
         ~Escaping(n) \/ \E i \in 0..(Len(tree[n].path) - 1) : Entry(tree[n].path, i) \in pending
  /\ stage = "done" => \A n \in present : ~Escaping(n)

\* How deep the loops have come: what they hold lies as deep as they count, and
\* on the way to a retained path.
Counted ==
  /\ stage = "prune" =>
       /\ \A q \in pending : Len(q) = level /\ KeepParent(q)
       /\ \A q \in entries : Len(q) = level + 1
       /\ \A q \in next_pending : Len(q) = level + 1 /\ KeepParent(q)
  /\ stage = "validate" =>
       /\ \A n \in pending : IF n = Root THEN level = 0
                             ELSE tree[n].kind = "dir" /\ Len(tree[n].path) = level
       /\ level > 1 => \E n \in present : tree[n].kind = "dir" /\ Len(tree[n].path) + 1 = level

\* What a retained path through real directories leads to is there until it is
\* removed.
Kept == RetainPlain /\ stage = "prune" => \A p \in retain : p[Len(p)] \in present

ArchiveInv ==
  /\ InOrder /\ Standing /\ InHand /\ Pruning /\ OwnPaths /\ Whole /\ Validated
  /\ Counted /\ Kept /\ RefusedForCause

\* The invariant gives the types.
LEMMA ArchiveTyped == InOrder /\ Standing /\ InHand => TypeOK
<1> SUFFICES ASSUME InOrder, Standing, InHand PROVE TypeOK
  OBVIOUS
<1>1. DOMAIN tree = Nodes
  BY VerifiedArchiveAssumption DEF InOrder
<1>2. remove \subseteq Seq(Nodes)
  BY VerifiedArchiveAssumption DEF InOrder
<1>3. stage \in {"prune", "remove"} => pending \cup entries \cup next_pending \subseteq Seq(Nodes)
  BY <1>2 DEF InHand
<1> QED
  BY <1>1, <1>3 DEF InOrder, Standing, InHand, TypeOK

\* Initially the whole archive is there and nothing is in hand.
LEMMA ArchiveInit == Init => ArchiveInv
<1> SUFFICES ASSUME Init PROVE ArchiveInv
  OBVIOUS
<1> USE DEF Init
<1>1. InOrder
  BY VerifiedArchiveAssumption DEF InOrder
<1>2. Standing
  BY NodeFacts DEF Standing
<1>3. why = None /\ None \notin Reasons
  BY VerifiedArchiveAssumption
<1>4. RefusedForCause
  BY <1>3 DEF RefusedForCause, Reasons
<1> QED
  BY <1>1, <1>2, <1>4 DEF ArchiveInv, InHand, Pruning, OwnPaths, Whole, Validated, Counted, Kept

\* No step changes the archive or the attributes.
LEMMA AttributesStay == [Next]_vars => UNCHANGED <<tree, retain, remove>>
  BY DEF Next, vars, Fail, RefuseDownload, RetainedMissing, Extracted, ReadDirectory, DirectoryGone,
     PruneEntry, NextLevel, Pruned, PrunedTooDeep, RemovePath, Removed, ValidateLevel, RejectLink,
     RejectNesting, Accept, RefuseBuildFile

\* A step deletes an entry and what is below it, or nothing.
LEMMA StepDeletes ==
  [Next]_vars => present' = present \/ \E path \in entries : present' = present \ Deleted(path)
  BY DEF Next, vars, Fail, RefuseDownload, RetainedMissing, Extracted, ReadDirectory, DirectoryGone,
     PruneEntry, NextLevel, Pruned, PrunedTooDeep, RemovePath, Removed, ValidateLevel, RejectLink,
     RejectNesting, Accept, RefuseBuildFile

\* A rule that fails says why.
LEMMA FailedInOrder ==
  ASSUME InOrder, NEW reason \in Reasons, Fail(reason)
  PROVE  InOrder'
  BY VerifiedArchiveAssumption DEF InOrder, Fail

\* Every step keeps the order of the stages.
LEMMA InOrderStep == InOrder /\ [Next]_vars => InOrder'
<1> SUFFICES ASSUME InOrder, [Next]_vars PROVE InOrder'
  OBVIOUS
<1> USE VerifiedArchiveAssumption
<1>1. CASE RefuseDownload \/ RetainedMissing \/ PrunedTooDeep \/ RejectLink \/ RejectNesting
           \/ RefuseBuildFile \/ \E item \in pending : DirectoryGone(item)
  BY <1>1, FailedInOrder DEF RefuseDownload, RetainedMissing, PrunedTooDeep, RejectLink,
     RejectNesting, RefuseBuildFile, DirectoryGone, Reasons
<1>2. CASE Extracted
  BY <1>2 DEF InOrder, Extracted
<1>3. ASSUME NEW item \in pending, ReadDirectory(item) PROVE InOrder'
  BY <1>3 DEF InOrder, ReadDirectory
<1>4. ASSUME NEW entry \in entries, PruneEntry(entry) PROVE InOrder'
  BY <1>4 DEF InOrder, PruneEntry
<1>5. CASE NextLevel
  BY <1>5 DEF InOrder, NextLevel
<1>6. CASE Pruned \/ Removed \/ Accept
  BY <1>6 DEF InOrder, Pruned, Removed, Accept
<1>7. ASSUME NEW p \in entries, RemovePath(p) PROVE InOrder'
  BY <1>7 DEF InOrder, RemovePath
<1>8. CASE ValidateLevel
  BY <1>8 DEF InOrder, ValidateLevel
<1>9. CASE UNCHANGED vars
  BY <1>9 DEF InOrder, vars
<1> QED
  BY <1>1, <1>2, <1>3, <1>4, <1>5, <1>6, <1>7, <1>8, <1>9 DEF Next

\* What is deleted takes everything below it along.
LEMMA DeletedBelow ==
  ASSUME tree \in Trees, NEW path, NEW n \in Nodes, NEW i \in 1..Len(tree[n].path),
         tree[n].path[i] \in Deleted(path)
  PROVE  n \in Deleted(path)
<1> DEFINE m == tree[n].path[i]
<1>1. PICK j \in 1..Len(tree[m].path) : tree[m].path[j] = Located(path)
  BY DEF Deleted, Subtree
<1>2. Len(tree[m].path) = i /\ \A k \in 1..i : tree[m].path[k] = tree[n].path[k]
  BY AncestorFacts
<1>3. j \in 1..Len(tree[n].path) /\ tree[n].path[j] = Located(path)
  <2>1. Len(tree[n].path) \in Nat
    BY NodeFacts
  <2>2. j \in 1..i /\ j \in 1..Len(tree[n].path)
    BY <1>2, <2>1
  <2> QED
    BY <1>1, <1>2, <2>2
<1> QED
  BY <1>3 DEF Deleted, Subtree

\* Every step leaves a tree.
LEMMA StandingStep == InOrder /\ Standing /\ [Next]_vars => Standing'
<1> SUFFICES ASSUME InOrder, Standing, [Next]_vars PROVE Standing'
  OBVIOUS
<1>1. tree' = tree /\ tree \in Trees
  BY AttributesStay DEF InOrder
<1>2. CASE present' = present
  BY <1>1, <1>2 DEF Standing
<1>3. ASSUME NEW path \in entries, present' = present \ Deleted(path) PROVE Standing'
  <2>1. ASSUME NEW n \in present', NEW i \in 1..Len(tree[n].path) PROVE tree[n].path[i] \in present'
    <3>1. n \in Nodes /\ n \notin Deleted(path) /\ tree[n].path[i] \in present
      BY <1>3, <2>1 DEF Standing
    <3> QED
      BY <1>1, <1>3, <3>1, DeletedBelow
  <2>2. present' \subseteq Nodes
    BY <1>3 DEF Standing
  <2> QED
    BY <1>1, <2>1, <2>2 DEF Standing
<1> QED
  BY <1>2, <1>3, StepDeletes

\* Every step keeps track of what the loops have in hand.
LEMMA InHandStep == InOrder /\ Standing /\ InHand /\ [Next]_vars => InHand'
<1> SUFFICES ASSUME InOrder, Standing, InHand, [Next]_vars PROVE InHand'
  OBVIOUS
<1>1. ASSUME NEW reason, Fail(reason) PROVE InHand'
  BY <1>1 DEF InHand, Fail
<1>2. CASE Extracted
  <2>1. CASE retain = {}
    BY <1>2, <2>1 DEF InHand, InOrder, Extracted
  <2>2. CASE retain # {}
    <3>1. <<>> \in Seq(Nodes)
      OBVIOUS
    <3> QED
      BY <1>2, <2>2, <3>1 DEF InHand, InOrder, Extracted
  <2> QED
    BY <2>1, <2>2
<1>3. ASSUME NEW item \in pending, ReadDirectory(item) PROVE InHand'
  <2>1. item \in Seq(Nodes)
    BY <1>3 DEF InHand, ReadDirectory
  <2>2. \A n \in Nodes : Append(item, n) \in Seq(Nodes) /\ Append(item, n) # <<>>
    BY <2>1, AppendProperties
  <2>3. Children(Real(Located(item))) \subseteq Nodes
    BY DEF Children, Standing
  <2>4. entries' \subseteq Seq(Nodes) /\ <<>> \notin entries'
    BY <1>3, <2>2, <2>3 DEF ReadDirectory
  <2> QED
    BY <1>3, <2>4 DEF InHand, ReadDirectory
<1>4. ASSUME NEW entry \in entries, PruneEntry(entry) PROVE InHand'
  BY <1>4 DEF InHand, PruneEntry
<1>5. CASE NextLevel
  BY <1>5 DEF InHand, NextLevel
<1>6. CASE Pruned
  BY <1>6 DEF InHand, Pruned
<1>7. ASSUME NEW p \in entries, RemovePath(p) PROVE InHand'
  BY <1>7 DEF InHand, RemovePath
<1>8. CASE Removed
  BY <1>8 DEF InHand, Removed
<1>9. CASE ValidateLevel
  BY <1>9 DEF InHand, ValidateLevel, Read
<1>10. CASE Accept \/ UNCHANGED vars
  BY <1>10 DEF InHand, Accept, vars
<1> QED
  BY <1>1, <1>2, <1>3, <1>4, <1>5, <1>6, <1>7, <1>8, <1>9, <1>10
  DEF Next, RefuseDownload, RetainedMissing, PrunedTooDeep, RejectLink, RejectNesting,
      RefuseBuildFile, DirectoryGone

-----------------------------------------------------------------------------
(* Pruning reaches everything.                                             *)

\* The first names of the path of an entry that is there find the entry that
\* they name.
LEMMA LocatedFirst ==
  ASSUME tree \in Trees, Standing, NEW n \in present, NEW i \in 0..Len(tree[n].path)
  PROVE  Located(SubSeq(tree[n].path, 1, i)) = Entry(tree[n].path, i)
<1>0. /\ n \in Nodes /\ tree[n].path \in Seq(Nodes) /\ Len(tree[n].path) \in Nat
      /\ \A j \in 1..Len(tree[n].path) : tree[n].path[j] \in present
  BY NodeFacts DEF Standing
<1>1. CASE i = 0
  <2>1. Len(SubSeq(tree[n].path, 1, i)) = 0
    BY <1>0, <1>1, FirstNames
  <2> QED
    BY <1>1, <2>1 DEF Located, Entry
<1>2. CASE i # 0
  <2>1. i \in 1..Len(tree[n].path)
    BY <1>0, <1>2
  <2>2. tree[tree[n].path[i]].path = SubSeq(tree[n].path, 1, i) /\ tree[n].path[i] \in present
    BY <1>0, <2>1, NodeFacts
  <2>3. Located(tree[tree[n].path[i]].path) = tree[n].path[i]
    BY <2>2, LocatedEntry
  <2> QED
    BY <1>2, <2>2, <2>3 DEF Entry
<1> QED
  BY <1>1, <1>2

\* One more name of a path.
LEMMA NextName ==
  ASSUME NEW u \in Seq(Nodes), NEW i \in 0..(Len(u) - 1)
  PROVE  Append(SubSeq(u, 1, i), u[i + 1]) = SubSeq(u, 1, i + 1)
<1> DEFINE s == SubSeq(u, 1, i)
           t == SubSeq(u, 1, i + 1)
<1>1. Len(u) \in Nat /\ i \in Nat /\ i \in 0..Len(u) /\ i + 1 \in 0..Len(u) /\ i + 1 \in 1..Len(u)
  BY LenProperties
<1>2. s \in Seq(Nodes) /\ Len(s) = i /\ \A j \in 1..i : s[j] = u[j]
  BY <1>1, FirstNames
<1>3. t \in Seq(Nodes) /\ Len(t) = i + 1 /\ \A j \in 1..(i + 1) : t[j] = u[j]
  BY <1>1, FirstNames
<1>4. u[i + 1] \in Nodes
  BY <1>1, LenProperties
<1> DEFINE v == Append(s, u[i + 1])
<1>5. /\ v \in Seq(Nodes) /\ Len(v) = Len(s) + 1
      /\ (\A j \in 1..Len(s) : v[j] = s[j]) /\ v[Len(s) + 1] = u[i + 1]
  BY <1>2, <1>4, AppendProperties
<1> HIDE DEF s, t, v
<1>6. Len(v) = i + 1 /\ (\A j \in 1..i : v[j] = u[j]) /\ v[i + 1] = u[i + 1]
  BY <1>2, <1>5
<1>7. \A j \in 1..(i + 1) : j \in 1..i \/ j = i + 1
  BY <1>1
<1>8. \A j \in 1..Len(v) : v[j] = t[j]
  BY <1>3, <1>6, <1>7
<1>9. v = t
  BY <1>3, <1>5, <1>6, <1>8, SeqEqual
<1> QED
  BY <1>9 DEF v, s, t

\* A directory that is read hands its entries over.
LEMMA ReadReaches ==
  ASSUME tree \in Trees, Standing, NEW n \in present, NEW i \in 0..(Len(tree[n].path) - 1),
         NEW item, item = SubSeq(tree[n].path, 1, i)
  PROVE  SubSeq(tree[n].path, 1, i + 1)
           \in {Append(item, m) : m \in Children(Real(Located(item)))}
<1> DEFINE path == tree[n].path
<1>0. /\ n \in Nodes /\ path \in Seq(Nodes) /\ Len(path) \in Nat
      /\ \A j \in 1..Len(path) : path[j] \in present
  BY NodeFacts DEF Standing
<1>1. i \in Nat /\ i \in 0..Len(path) /\ i + 1 \in 1..Len(path) /\ (i + 1) - 1 = i
  BY <1>0
<1>2. Real(Located(item)) = Entry(path, i)
  BY <1>1, LocatedFirst, WayIsReal
<1>3. Holder(path[i + 1]) = Entry(path, (i + 1) - 1)
  BY <1>0, <1>1, AncestorFacts
<1>4. path[i + 1] \in Children(Real(Located(item)))
  BY <1>0, <1>1, <1>2, <1>3 DEF Children
<1>5. SubSeq(path, 1, i + 1) = Append(item, path[i + 1])
  BY <1>0, NextName
<1> QED
  BY <1>4, <1>5

\* An entry that is deleted takes what lies below it along.
LEMMA PruneReaches ==
  ASSUME tree \in Trees, Standing, NEW n \in present, NEW i \in 1..Len(tree[n].path)
  PROVE  n \in Deleted(SubSeq(tree[n].path, 1, i))
<1>0. n \in Nodes /\ Len(tree[n].path) \in Nat
  BY NodeFacts DEF Standing
<1>1. i \in 0..Len(tree[n].path) /\ i # 0
  BY <1>0
<1>2. Located(SubSeq(tree[n].path, 1, i)) = tree[n].path[i]
  BY <1>1, LocatedFirst DEF Entry
<1> QED
  BY <1>0, <1>2 DEF Deleted, Subtree

\* Every step of the loop that prunes keeps what it has yet to reach in hand.
LEMMA PruneEntryReaches ==
  ASSUME InOrder, Standing, InHand, Pruning, NEW entry \in entries, PruneEntry(entry)
  PROVE  Pruning'
<1>0. /\ tree \in Trees /\ tree' = tree /\ retain' = retain /\ retain \subseteq Seq(Nodes)
      /\ stage = "prune" /\ stage' = "prune" /\ present' \subseteq present
  BY VerifiedArchiveAssumption DEF InOrder, PruneEntry
<1>1. \A q : KeepEntire(q)' = KeepEntire(q) /\ KeepParent(q)' = KeepParent(q)
  BY <1>0 DEF KeepEntire, KeepParent
<1>2. ASSUME NEW n \in present', ~KeepEntire(tree[n].path), ~KeepParent(tree[n].path)
      PROVE  ToPrune(n)'
  <2> DEFINE path == tree[n].path
  <2>0. /\ n \in present /\ n \in Nodes /\ path \in Seq(Nodes) /\ Len(path) \in Nat
        /\ SubSeq(path, 1, Len(path)) = path
    BY <1>0, NodeFacts, SubSeqFull DEF Standing
  <2>1. ToPrune(n)
    BY <1>0, <1>2, <2>0 DEF Pruning
  <2>2. CASE \E i \in 0..(Len(path) - 1) : SubSeq(path, 1, i) \in pending \cup next_pending
    BY <1>0, <2>2 DEF ToPrune, PruneEntry
  <2>3. ASSUME NEW i \in 1..Len(path), SubSeq(path, 1, i) \in entries, SubSeq(path, 1, i) # entry
        PROVE  ToPrune(n)'
    BY <1>0, <2>3 DEF ToPrune, PruneEntry
  <2>4. ASSUME NEW i \in 1..Len(path), SubSeq(path, 1, i) = entry PROVE ToPrune(n)'
    <3>1. ~KeepEntire(entry)
      <4>1. ASSUME NEW p \in retain, IsPrefix(p, entry) PROVE FALSE
        <5>1. p \in Seq(Nodes) /\ i \in 0..Len(path)
          BY <1>0, <2>0
        <5>2. IsPrefix(p, path)
          BY <2>0, <2>4, <4>1, <5>1, PrefixOfFirst
        <5> QED
          BY <1>2, <5>2 DEF KeepEntire
      <4> QED
        BY <4>1 DEF KeepEntire
    <3>2. n \in Deleted(entry)
      BY <1>0, <2>0, <2>4, PruneReaches
    <3>3. KeepParent(entry) /\ entry \in next_pending'
      BY <1>2, <3>1, <3>2 DEF PruneEntry
    <3>4. i # Len(path)
      BY <1>2, <2>0, <2>4, <3>3
    <3>5. i \in 0..(Len(path) - 1)
      BY <2>0, <3>4
    <3> QED
      BY <1>0, <2>4, <3>3, <3>5 DEF ToPrune
  <2> QED
    BY <2>1, <2>2, <2>3, <2>4 DEF ToPrune
<1> QED
  BY <1>0, <1>1, <1>2 DEF Pruning

\* Every step keeps it.
LEMMA PruningStep == InOrder /\ Standing /\ InHand /\ Pruning /\ [Next]_vars => Pruning'
<1> SUFFICES ASSUME InOrder, Standing, InHand, Pruning, [Next]_vars PROVE Pruning'
  OBVIOUS
<1>0. tree \in Trees /\ tree' = tree /\ retain' = retain /\ present \subseteq Nodes
  BY AttributesStay DEF InOrder, Standing
<1>a. \A q : KeepEntire(q)' = KeepEntire(q) /\ KeepParent(q)' = KeepParent(q)
  BY <1>0 DEF KeepEntire, KeepParent
<1>1. ASSUME NEW reason, Fail(reason) PROVE Pruning'
  BY <1>1 DEF Pruning, Fail
<1>2. CASE Extracted
  <2>1. CASE retain = {}
    BY <1>0, <1>2, <2>1 DEF Pruning, Extracted
  <2>2. CASE retain # {}
    <3>1. ASSUME NEW n \in present PROVE ToPrune(n)'
      <4>1. Len(tree[n].path) \in Nat /\ Len(tree[n].path) >= 1
        BY <1>0, NodeFacts
      <4>2. 0 \in 0..(Len(tree[n].path) - 1) /\ SubSeq(tree[n].path, 1, 0) = <<>>
        BY <4>1, SubSeqEmpty
      <4> QED
        BY <1>0, <1>2, <2>2, <4>2 DEF ToPrune, Extracted
    <3> QED
      BY <1>2, <2>2, <3>1 DEF Pruning, Extracted
  <2> QED
    BY <2>1, <2>2
<1>3. ASSUME NEW item \in pending, ReadDirectory(item) PROVE Pruning'
  <2>0. stage = "prune" /\ stage' = "prune" /\ present' = present /\ entries = {}
    BY <1>3 DEF ReadDirectory
  <2>1. ASSUME NEW n \in present, ToPrune(n) PROVE ToPrune(n)'
    <3>0. Len(tree[n].path) \in Nat
      BY <1>0, NodeFacts
    <3>1. PICK i \in 0..(Len(tree[n].path) - 1) : SubSeq(tree[n].path, 1, i) \in pending \cup next_pending
      BY <2>0, <2>1 DEF ToPrune
    <3>2. CASE SubSeq(tree[n].path, 1, i) = item
      <4>1. SubSeq(tree[n].path, 1, i + 1) \in entries'
        BY <1>0, <1>3, <3>2, ReadReaches DEF ReadDirectory
      <4>2. i + 1 \in 1..Len(tree[n].path)
        BY <3>0
      <4> QED
        BY <1>0, <4>1, <4>2 DEF ToPrune
    <3>3. CASE SubSeq(tree[n].path, 1, i) # item
      BY <1>0, <1>3, <3>1, <3>3 DEF ToPrune, ReadDirectory
    <3> QED
      BY <3>2, <3>3
  <2> QED
    BY <1>0, <1>a, <2>0, <2>1 DEF Pruning
<1>4. ASSUME NEW entry \in entries, PruneEntry(entry) PROVE Pruning'
  BY <1>4, PruneEntryReaches
<1>5. CASE NextLevel
  <2>1. \A n \in present : ToPrune(n) => ToPrune(n)'
    BY <1>0, <1>5 DEF ToPrune, NextLevel
  <2> QED
    BY <1>0, <1>a, <1>5, <2>1 DEF Pruning, NextLevel
<1>6. CASE Pruned
  <2>1. \A n \in present : ~ToPrune(n)
    BY <1>6 DEF ToPrune, Pruned
  <2> QED
    BY <1>0, <1>a, <1>6, <2>1 DEF Pruning, Pruned
<1>7. ASSUME NEW p \in entries, RemovePath(p) PROVE Pruning'
  BY <1>0, <1>a, <1>7 DEF Pruning, RemovePath
<1>8. CASE Removed \/ ValidateLevel \/ Accept
  BY <1>0, <1>a, <1>8 DEF Pruning, Removed, ValidateLevel, Accept
<1>9. CASE UNCHANGED vars
  <2>1. \A n \in present : ToPrune(n) => ToPrune(n)'
    BY <1>9 DEF ToPrune, vars
  <2> QED
    BY <1>0, <1>a, <1>9, <2>1 DEF Pruning, vars
<1> QED
  BY <1>1, <1>2, <1>3, <1>4, <1>5, <1>6, <1>7, <1>8, <1>9
  DEF Next, RefuseDownload, RetainedMissing, PrunedTooDeep, RejectLink, RejectNesting,
      RefuseBuildFile, DirectoryGone

-----------------------------------------------------------------------------
(* Pruning and removal keep what they should.                              *)

\* What is missing is nowhere.
LEMMA MissingIsMissing ==
  ASSUME present \subseteq Nodes
  PROVE  Real(Missing) = Missing /\ ~IsDir(Missing)
<1>1. Missing \in Stops /\ Missing \notin Links
  BY VerifiedArchiveAssumption DEF Stops, Places, Links
<1>2. Real(Missing) = Missing
  BY <1>1 DEF Real
<1> QED
  BY <1>2, VerifiedArchiveAssumption DEF IsDir

\* An entry's path is that of the directory which holds it, and its name.
LEMMA ChildPath ==
  ASSUME tree \in Trees, NEW m \in Nodes
  PROVE  /\ Holder(m) = Root => tree[m].path = Append(<<>>, m)
         /\ \A d \in Nodes : Holder(m) = d => tree[m].path = Append(tree[d].path, m)
<1> DEFINE u == tree[m].path
           L == Len(u)
<1>0. /\ u \in Seq(Nodes) /\ L \in Nat /\ L >= 1 /\ u[L] = m
      /\ SubSeq(u, 1, L) = u
      /\ \A i \in 1..L : u[i] \in Nodes
      /\ \A i \in 1..L : tree[u[i]].path = SubSeq(u, 1, i)
  BY NodeFacts, SubSeqFull
<1>1. L - 1 \in 0..(Len(u) - 1) /\ (L - 1) + 1 = L
  BY <1>0
<1>2. Append(SubSeq(u, 1, L - 1), m) = u
  <2>1. Append(SubSeq(u, 1, L - 1), u[(L - 1) + 1]) = SubSeq(u, 1, (L - 1) + 1)
    BY <1>0, <1>1, NextName
  <2> QED
    BY <1>0, <1>1, <2>1
<1>3. CASE L - 1 = 0
  <2>1. SubSeq(u, 1, 0) = <<>>
    BY SubSeqEmpty
  <2>2. Holder(m) = Root
    BY <1>3 DEF Holder, Entry
  <2> QED
    BY <1>2, <1>3, <2>1, <2>2, VerifiedArchiveAssumption
<1>4. CASE L - 1 # 0
  <2>0. L # 1
    BY <1>0, <1>4
  <2>1. L - 1 \in 1..L
    BY <1>0, <2>0, OneLess
  <2>2. Holder(m) = u[L - 1] /\ Holder(m) \in Nodes
    BY <1>0, <1>4, <2>1 DEF Holder, Entry
  <2>3. tree[Holder(m)].path = SubSeq(u, 1, L - 1)
    BY <1>0, <2>1, <2>2
  <2> QED
    BY <1>2, <2>2, <2>3, VerifiedArchiveAssumption
<1> QED
  BY <1>3, <1>4

\* What an own path finds is there.
LEMMA OwnLocated ==
  ASSUME tree \in Trees, NEW q \in Seq(Nodes), q # <<>>, Located(q) # Missing
  PROVE  Located(q) = q[Len(q)] /\ q[Len(q)] \in present
<1>0. Len(q) \in Nat /\ Len(q) # 0 /\ Len(q) \in 1..Len(q)
  BY LenProperties
<1>1. Located(q) = Entry(q, Len(q))
  BY DEF Located
<1>2. q[Len(q)] \in present
  BY <1>0 DEF Located, Children
<1> QED
  BY <1>0, <1>1, <1>2 DEF Entry

\* Deleting an own path deletes what lies below the entry it names.
LEMMA OwnDeleted ==
  ASSUME tree \in Trees, NEW q \in Seq(Nodes), q # <<>>, OwnPath(q), NEW n \in Deleted(q)
  PROVE  /\ n \in Nodes /\ IsPrefix(q, tree[n].path)
         /\ Located(q) = q[Len(q)] /\ q[Len(q)] \in present
<1>1. n \in Nodes /\ n \in Subtree(Located(q))
  BY DEF Deleted, Subtree
<1>2. Located(q) # Missing
  BY <1>1, NoSubtree, VerifiedArchiveAssumption
<1>3. Located(q) = q[Len(q)] /\ q[Len(q)] \in present
  BY <1>2, OwnLocated
<1>4. q[Len(q)] \in Nodes
  BY LenProperties
<1>5. IsPrefix(tree[q[Len(q)]].path, tree[n].path)
  BY <1>1, <1>3, <1>4, BelowIsPrefix
<1> QED
  BY <1>1, <1>3, <1>5 DEF OwnPath

\* What leads to a path through real directories is a real directory.
LEMMA ParentIsDirectory ==
  ASSUME NEW q \in Seq(Nodes), q # <<>>, NEW p \in Seq(Nodes), Plain(p), IsStrictPrefix(q, p)
  PROVE  tree[q[Len(q)]].kind = "dir"
<1>1. Len(q) \in Nat /\ Len(q) >= 1 /\ Len(p) \in Nat
  BY LenProperties
<1>2. Len(q) <= Len(p) /\ \A i \in 1..Len(q) : q[i] = p[i]
  BY PrefixIs DEF IsStrictPrefix
<1>3. Len(q) # Len(p)
  BY <1>2, SeqEqual DEF IsStrictPrefix
<1>4. Len(q) \in 1..(Len(p) - 1) /\ Len(q) \in 1..Len(q)
  BY <1>1, <1>2, <1>3
<1> QED
  BY <1>2, <1>4 DEF Plain

\* A retained path that runs through real directories and exists is an
\* entry's own.
LEMMA RetainedIsOwn ==
  ASSUME tree \in Trees, present \subseteq Nodes, NEW p \in Seq(Nodes), p # <<>>,
         Plain(p), Exists(Located(p))
  PROVE  OwnPath(p)
<1>1. Located(p) # Missing
  BY MissingIsMissing DEF Exists
<1> QED
  BY <1>1, PlainIsOwn DEF OwnPath

\* A directory named by its own path hands over entries named by theirs.
LEMMA ReadOwn ==
  ASSUME tree \in Trees, present \subseteq Nodes, NEW item \in Seq(Nodes),
         item = <<>> \/ (OwnPath(item) /\ tree[item[Len(item)]].kind = "dir"),
         IsDir(Located(item)), NEW m \in Children(Real(Located(item)))
  PROVE  OwnPath(Append(item, m))
<1>1. m \in present /\ m \in Nodes /\ Holder(m) = Real(Located(item))
  BY DEF Children
<1>2. tree[m].path = Append(item, m)
  <2>1. CASE item = <<>>
    <3>1. Located(item) = Root
      BY <2>1 DEF Located, Entry
    <3> QED
      BY <1>1, <2>1, <3>1, RealOfEntry, ChildPath
  <2>2. CASE item # <<>>
    <3> DEFINE d == item[Len(item)]
    <3>1. Located(item) # Missing
      BY MissingIsMissing
    <3>2. Located(item) = d /\ d \in present /\ d \in Nodes
      BY <2>2, <3>1, OwnLocated
    <3>3. tree[d].path = item /\ tree[d].kind = "dir"
      BY <2>2 DEF OwnPath
    <3>4. Real(d) = d
      BY <3>2, <3>3, RealOfEntry
    <3> QED
      BY <1>1, <3>2, <3>3, <3>4, ChildPath
  <2> QED
    BY <2>1, <2>2
<1>3. Append(item, m)[Len(Append(item, m))] = m
  BY <1>1, AppendProperties
<1> QED
  BY <1>2, <1>3 DEF OwnPath

\* Every step goes through real directories where the attributes do.
LEMMA OwnPathsStep == InOrder /\ Standing /\ InHand /\ OwnPaths /\ [Next]_vars => OwnPaths'
<1> SUFFICES ASSUME InOrder, Standing, InHand, OwnPaths, [Next]_vars PROVE OwnPaths'
  OBVIOUS
<1> SUFFICES ASSUME RetainPlain PROVE OwnPaths'
  <2>1. RetainPlain' = RetainPlain
    BY AttributesStay DEF RetainPlain, Plain
  <2> QED
    BY <2>1 DEF OwnPaths
<1>0. /\ tree \in Trees /\ tree' = tree /\ retain' = retain /\ present \subseteq Nodes
      /\ \A p \in retain : p \in Seq(Nodes) /\ p # <<>> /\ Plain(p)
  BY AttributesStay, VerifiedArchiveAssumption DEF InOrder, Standing, RetainPlain
<1>a. \A p : OwnPath(p)' = OwnPath(p)
  BY <1>0 DEF OwnPath
<1>1. ASSUME NEW reason, Fail(reason) PROVE OwnPaths'
  BY <1>1 DEF OwnPaths, Fail
<1>2. CASE Extracted
  <2>1. \A p \in retain : OwnPath(p)
    BY <1>0, <1>2, RetainedIsOwn DEF Extracted
  <2>2. next_pending' = {}
    BY <1>2 DEF InOrder, Extracted
  <2>3. stage' = "prune" => entries' = {} /\ pending' = {<<>>}
    BY <1>2 DEF Extracted
  <2> QED
    BY <1>0, <1>a, <2>1, <2>2, <2>3 DEF OwnPaths
<1>3. ASSUME NEW item \in pending, ReadDirectory(item) PROVE OwnPaths'
  <2>0. /\ stage = "prune" /\ IsDir(Located(item)) /\ item \in Seq(Nodes)
        /\ item = <<>> \/ (OwnPath(item) /\ tree[item[Len(item)]].kind = "dir")
    BY <1>3 DEF ReadDirectory, InHand, OwnPaths
  <2>1. \A q \in entries' : OwnPath(q)
    BY <1>0, <1>3, <2>0, ReadOwn DEF ReadDirectory
  <2> QED
    BY <1>0, <1>a, <1>3, <2>0, <2>1 DEF OwnPaths, ReadDirectory
<1>4. ASSUME NEW entry \in entries, PruneEntry(entry) PROVE OwnPaths'
  <2>0. stage = "prune" /\ OwnPath(entry) /\ entry \in Seq(Nodes) /\ entry # <<>>
    BY <1>4 DEF PruneEntry, InHand, OwnPaths
  <2>1. KeepParent(entry) => tree[entry[Len(entry)]].kind = "dir"
    BY <1>0, <2>0, ParentIsDirectory DEF KeepParent
  <2> QED
    BY <1>0, <1>a, <1>4, <2>0, <2>1 DEF OwnPaths, PruneEntry
<1>5. CASE NextLevel
  BY <1>0, <1>a, <1>5 DEF OwnPaths, NextLevel
<1>6. CASE Pruned
  BY <1>0, <1>a, <1>6 DEF OwnPaths, Pruned
<1>7. ASSUME NEW p \in entries, RemovePath(p) PROVE OwnPaths'
  BY <1>0, <1>a, <1>7 DEF OwnPaths, RemovePath
<1>8. CASE Removed \/ ValidateLevel \/ Accept
  BY <1>0, <1>a, <1>8 DEF OwnPaths, Removed, ValidateLevel, Accept
<1>9. CASE UNCHANGED vars
  BY <1>0, <1>a, <1>9 DEF OwnPaths, vars
<1> QED
  BY <1>1, <1>2, <1>3, <1>4, <1>5, <1>6, <1>7, <1>8, <1>9
  DEF Next, RefuseDownload, RetainedMissing, PrunedTooDeep, RejectLink, RejectNesting,
      RefuseBuildFile, DirectoryGone

\* Pruning an entry deletes nothing below a retained path.
LEMMA PruneSpares ==
  ASSUME InOrder, Standing, InHand, OwnPaths, RetainPlain,
         NEW entry \in entries, PruneEntry(entry), NEW p \in retain, NEW n \in Subtree(p[Len(p)]),
         n \in present
  PROVE  n \in present'
<1>0. /\ tree \in Trees /\ present \subseteq Nodes /\ stage = "prune"
      /\ p \in Seq(Nodes) /\ p # <<>> /\ OwnPath(p) /\ Plain(p)
      /\ entry \in Seq(Nodes) /\ entry # <<>> /\ OwnPath(entry)
      /\ n \in Nodes /\ tree[n].path \in Seq(Nodes)
  BY VerifiedArchiveAssumption, NodeFacts
  DEF InOrder, Standing, RetainPlain, PruneEntry, InHand, OwnPaths, Subtree
<1>1. IsPrefix(p, tree[n].path)
  <2>1. p[Len(p)] \in Nodes
    BY <1>0, LenProperties
  <2> QED
    BY <1>0, <2>1, BelowIsPrefix DEF OwnPath
<1>2. SUFFICES ASSUME n \in Deleted(entry), ~KeepEntire(entry),
                      ~(KeepParent(entry) /\ IsDir(Located(entry)))
               PROVE  FALSE
  BY DEF PruneEntry
<1>3. /\ IsPrefix(entry, tree[n].path)
      /\ Located(entry) = entry[Len(entry)] /\ entry[Len(entry)] \in present
  BY <1>0, <1>2, OwnDeleted
<1>4. IsStrictPrefix(entry, p)
  BY <1>0, <1>1, <1>2, <1>3, PrefixesCompare DEF KeepEntire
<1>5. tree[entry[Len(entry)]].kind = "dir"
  BY <1>0, <1>4, ParentIsDirectory
<1>6. IsDir(Located(entry))
  BY <1>0, <1>3, <1>5, RealOfEntry DEF IsDir
<1> QED
  BY <1>2, <1>4, <1>6 DEF KeepParent

\* Removing a path deletes only what lies below it.
LEMMA RemoveSpares ==
  ASSUME InOrder, Standing, InHand, BothPlain,
         NEW r \in entries, RemovePath(r), NEW n \in present, ~IsPrefix(r, tree[n].path)
  PROVE  n \in present'
<1>0. /\ tree \in Trees /\ present \subseteq Nodes /\ r \in remove
      /\ r \in Seq(Nodes) /\ r # <<>> /\ Plain(r)
  BY VerifiedArchiveAssumption DEF InOrder, Standing, BothPlain, RemovePath, InHand
<1>1. ASSUME n \in Deleted(r) PROVE FALSE
  <2>1. Located(r) # Missing
    BY <1>0, <1>1, NoSubtree, VerifiedArchiveAssumption DEF Deleted
  <2>2. OwnPath(r)
    BY <1>0, <2>1, PlainIsOwn DEF OwnPath
  <2> QED
    BY <1>0, <1>1, <2>2, OwnDeleted
<1> QED
  BY <1>1 DEF RemovePath

\* Every step keeps what is to be kept.
LEMMA WholeStep == InOrder /\ Standing /\ InHand /\ OwnPaths /\ Whole /\ [Next]_vars => Whole'
<1> SUFFICES ASSUME InOrder, Standing, InHand, OwnPaths, Whole, [Next]_vars PROVE Whole'
  OBVIOUS
<1> SUFFICES ASSUME BothPlain PROVE Whole'
  <2>1. BothPlain' = BothPlain
    BY AttributesStay DEF BothPlain, RetainPlain, Plain
  <2> QED
    BY <2>1 DEF Whole
<1>0. /\ tree' = tree /\ retain' = retain /\ remove' = remove
      /\ \A place : Subtree(place)' = Subtree(place) /\ Subtree(place) \subseteq Nodes
  BY AttributesStay DEF Subtree
<1>1. ASSUME NEW reason, Fail(reason) PROVE Whole'
  BY <1>1 DEF Whole, Fail
<1>2. CASE Extracted
  <2>1. present' = Nodes
    BY <1>2 DEF InOrder, Extracted
  <2> QED
    BY <1>0, <2>1 DEF Whole
<1>3. ASSUME NEW entry \in entries, PruneEntry(entry) PROVE Whole'
  BY <1>0, <1>3, PruneSpares DEF Whole, PruneEntry, BothPlain
<1>4. ASSUME NEW r \in entries, RemovePath(r) PROVE Whole'
  <2>1. r \in remove /\ stage = "remove" /\ stage' = "remove"
    BY <1>4 DEF RemovePath, InHand
  <2> QED
    BY <1>0, <1>4, <2>1, RemoveSpares DEF Whole
<1>5. ASSUME NEW item \in pending, ReadDirectory(item) PROVE Whole'
  BY <1>0, <1>5 DEF Whole, ReadDirectory
<1>6. CASE NextLevel \/ Pruned \/ Removed \/ ValidateLevel \/ Accept \/ UNCHANGED vars
  BY <1>0, <1>6 DEF Whole, NextLevel, Pruned, Removed, ValidateLevel, Accept, vars
<1> QED
  BY <1>1, <1>2, <1>3, <1>4, <1>5, <1>6
  DEF Next, RefuseDownload, RetainedMissing, PrunedTooDeep, RejectLink, RejectNesting,
      RefuseBuildFile, DirectoryGone

-----------------------------------------------------------------------------
(* Validation sees every link.                                             *)

\* Where entries lead depends on the archive and on what is there.
LEMMA RealStays ==
  ASSUME tree' = tree, present' = present
  PROVE  \A place : Real(place)' = Real(place)
<1>1. Links' = Links /\ Stops' = Stops
  BY DEF Links, Stops
<1>2. \A l : Ends(l)' = Ends(l)
  BY <1>1 DEF Ends
<1> QED
  BY <1>1, <1>2 DEF Real

\* So does whether they escape.
LEMMA EscapingStays ==
  ASSUME tree' = tree, present' = present
  PROVE  \A n : Escaping(n)' = Escaping(n)
BY RealStays DEF Escaping

\* A level hands on the directories below it.
LEMMA LevelReaches ==
  ASSUME tree \in Trees, Standing, NEW n \in present, NEW i \in 0..(Len(tree[n].path) - 1),
         Entry(tree[n].path, i) \in pending
  PROVE  n \in Read \/ \E k \in 0..(Len(tree[n].path) - 1) :
                         Entry(tree[n].path, k) \in {m \in Read : tree[m].kind = "dir"}
<1> DEFINE path == tree[n].path
           m == path[i + 1]
<1>0. /\ n \in Nodes /\ Len(path) \in Nat /\ path[Len(path)] = n
      /\ \A j \in 1..Len(path) : path[j] \in present
      /\ \A j \in 1..(Len(path) - 1) : tree[path[j]].kind = "dir"
  BY NodeFacts DEF Standing
<1>1. i \in Nat /\ i + 1 \in 1..Len(path) /\ (i + 1) - 1 = i /\ i + 1 # 0
  BY <1>0
<1>2. m \in present /\ Holder(m) = Entry(path, i)
  <2>1. Holder(path[i + 1]) = Entry(path, (i + 1) - 1)
    BY <1>0, <1>1, AncestorFacts
  <2> QED
    BY <1>0, <1>1, <2>1
<1>3. m \in Read
  BY <1>2 DEF Read
<1>4. CASE i + 1 = Len(path)
  BY <1>0, <1>3, <1>4
<1>5. CASE i + 1 # Len(path)
  <2>1. i + 1 \in 0..(Len(path) - 1) /\ i + 1 \in 1..(Len(path) - 1)
    BY <1>0, <1>1, <1>5
  <2>2. Entry(path, i + 1) = m /\ tree[m].kind = "dir"
    BY <1>0, <1>1, <2>1 DEF Entry
  <2> QED
    BY <1>3, <2>1, <2>2
<1> QED
  BY <1>4, <1>5

\* Every step has yet to look at what escapes.
LEMMA ValidatedStep == InOrder /\ Standing /\ Validated /\ [Next]_vars => Validated'
<1> SUFFICES ASSUME InOrder, Standing, Validated, [Next]_vars PROVE Validated'
  OBVIOUS
<1>0. tree \in Trees /\ tree' = tree /\ present \subseteq Nodes
  BY AttributesStay DEF InOrder, Standing
<1>1. ASSUME NEW reason, Fail(reason) PROVE Validated'
  BY <1>1 DEF Validated, Fail
<1>2. CASE Removed
  <2>1. ASSUME NEW n \in present PROVE 0 \in 0..(Len(tree[n].path) - 1) /\ Entry(tree[n].path, 0) = Root
    BY <1>0, NodeFacts DEF Entry
  <2> QED
    BY <1>0, <1>2, <2>1 DEF Validated, Removed
<1>3. CASE ValidateLevel
  <2>0. /\ stage = "validate" /\ stage' = "validate" /\ present' = present
        /\ (\A n \in Read : ~Escaping(n)) /\ pending' = {n \in Read : tree[n].kind = "dir"}
    BY <1>3 DEF ValidateLevel
  <2>1. ASSUME NEW n \in present, Escaping(n)
        PROVE  \E i \in 0..(Len(tree[n].path) - 1) : Entry(tree[n].path, i) \in pending'
    <3>1. PICK i \in 0..(Len(tree[n].path) - 1) : Entry(tree[n].path, i) \in pending
      BY <2>0, <2>1 DEF Validated
    <3> QED
      BY <1>0, <2>0, <2>1, <3>1, LevelReaches
  <2> QED
    BY <1>0, <2>0, <2>1, EscapingStays DEF Validated
<1>4. CASE Accept
  <2>1. \A n \in present : ~Escaping(n)
    BY <1>4 DEF Validated, Accept
  <2>2. stage' = "done" /\ present' = present
    BY <1>4 DEF Accept
  <2> QED
    BY <1>0, <2>1, <2>2, EscapingStays DEF Validated
<1>5. CASE UNCHANGED vars
  <2>1. stage' = stage /\ present' = present /\ pending' = pending
    BY <1>5 DEF vars
  <2> QED
    BY <1>0, <2>1, EscapingStays DEF Validated
<1>6. ASSUME stage' \in {"prune", "remove"} PROVE Validated'
  BY <1>6 DEF Validated
<1> QED
  BY <1>1, <1>2, <1>3, <1>4, <1>5, <1>6
  DEF Next, RefuseDownload, RetainedMissing, PrunedTooDeep, RejectLink, RejectNesting,
      RefuseBuildFile, DirectoryGone, Extracted, ReadDirectory, PruneEntry, NextLevel, Pruned,
      RemovePath

-----------------------------------------------------------------------------
(* What is refused has cause.                                              *)

\* Every step counts the levels, and keeps to the way to the retained paths.
LEMMA CountedStep == InOrder /\ Standing /\ InHand /\ Counted /\ [Next]_vars => Counted'
<1> SUFFICES ASSUME InOrder, Standing, InHand, Counted, [Next]_vars PROVE Counted'
  OBVIOUS
<1>0. /\ tree' = tree /\ tree \in Trees /\ retain' = retain /\ present \subseteq Nodes /\ level \in Nat
      /\ \A q : KeepParent(q)' = KeepParent(q)
  BY AttributesStay, VerifiedArchiveAssumption DEF InOrder, Standing, KeepParent
<1>1. ASSUME NEW reason, Fail(reason) PROVE Counted'
  BY <1>1 DEF Counted, Fail
<1>2. CASE Extracted
  <2>1. CASE retain = {}
    BY <1>2, <2>1 DEF Counted, Extracted
  <2>2. CASE retain # {}
    <3>1. stage' = "prune" /\ pending' = {<<>>} /\ entries' = {} /\ next_pending' = {} /\ level' = 0
      BY <1>2, <2>2 DEF Extracted, InOrder
    <3>2. PICK p \in retain : p \in Seq(Nodes) /\ p # <<>>
      BY <2>2, VerifiedArchiveAssumption DEF InOrder
    <3>3. IsPrefix(<<>>, p) /\ Len(<<>>) = 0
      <4> DEFINE s == <<>>
      <4>1. s \in Seq(Nodes) /\ Len(s) = 0 /\ Len(p) \in Nat
        BY <3>2, LenProperties
      <4> HIDE DEF s
      <4>2. Len(s) <= Len(p) /\ \A i \in 1..Len(s) : s[i] = p[i]
        BY <4>1
      <4>3. IsPrefix(s, p)
        BY <3>2, <4>1, <4>2, PrefixIs
      <4> QED
        BY <4>1, <4>3 DEF s
    <3>4. KeepParent(<<>>)
      BY <3>2, <3>3 DEF KeepParent, IsStrictPrefix
    <3> QED
      BY <1>0, <3>1, <3>3, <3>4 DEF Counted
  <2> QED
    BY <2>1, <2>2
<1>3. ASSUME NEW item \in pending, ReadDirectory(item) PROVE Counted'
  <2>1. item \in Seq(Nodes) /\ Len(item) = level
    BY <1>3 DEF InHand, Counted, ReadDirectory
  <2>2. Children(Real(Located(item))) \subseteq Nodes
    BY <1>0 DEF Children
  <2>3. \A q \in entries' : Len(q) = level + 1
    BY <1>3, <2>1, <2>2, AppendProperties DEF ReadDirectory
  <2> QED
    BY <1>0, <1>3, <2>3 DEF Counted, ReadDirectory
<1>4. ASSUME NEW entry \in entries, PruneEntry(entry) PROVE Counted'
  BY <1>0, <1>4 DEF Counted, PruneEntry
<1>5. CASE NextLevel
  BY <1>0, <1>5 DEF Counted, NextLevel
<1>6. ASSUME stage' \in {"remove", "done"} PROVE Counted'
  BY <1>6 DEF Counted
<1>7. CASE Removed
  BY <1>0, <1>7 DEF Counted, Removed
<1>8. CASE ValidateLevel
  <2>0. /\ stage = "validate" /\ stage' = "validate" /\ present' = present /\ level' = level + 1
        /\ pending # {} /\ pending' = {n \in Read : tree[n].kind = "dir"}
    BY <1>8 DEF ValidateLevel
  <2>1. ASSUME NEW n \in pending' PROVE n # Root /\ tree[n].kind = "dir" /\ Len(tree[n].path) = level + 1
    <3>1. n \in present /\ n \in Nodes /\ Holder(n) \in pending /\ tree[n].kind = "dir"
      BY <1>0, <2>0 DEF Read
    <3> DEFINE L == Len(tree[n].path)
    <3>2. L \in Nat /\ L >= 1
      BY <1>0, <3>1, NodeFacts
    <3> HIDE DEF L
    <3>3. L - 1 = level
      <4>1. CASE L - 1 = 0
        <5>1. Holder(n) = Root
          BY <4>1 DEF Holder, Entry, L
        <5> QED
          BY <2>0, <3>1, <4>1, <5>1 DEF Counted
      <4>2. CASE L - 1 # 0
        <5>1. L - 1 \in 1..L
          BY <3>2, <4>2
        <5>2. Holder(n) = tree[n].path[L - 1]
          BY <4>2 DEF Holder, Entry, L
        <5>3. Holder(n) \in Nodes /\ Len(tree[Holder(n)].path) = L - 1
          BY <1>0, <3>1, <5>1, <5>2, AncestorFacts DEF L
        <5>4. Holder(n) # Root
          BY <5>3, VerifiedArchiveAssumption
        <5> QED
          BY <2>0, <3>1, <5>3, <5>4 DEF Counted
      <4> QED
        BY <4>1, <4>2
    <3>4. L = level + 1
      BY <1>0, <3>2, <3>3
    <3>5. n # Root
      BY <3>1, VerifiedArchiveAssumption
    <3> QED
      BY <3>1, <3>4, <3>5 DEF L
  <2>2. ASSUME level + 1 > 1
        PROVE  \E n \in present : tree[n].kind = "dir" /\ Len(tree[n].path) + 1 = level + 1
    <3>1. PICK n \in pending : TRUE
      BY <2>0
    <3>2. level # 0
      BY <1>0, <2>2
    <3>3. n # Root /\ tree[n].kind = "dir" /\ Len(tree[n].path) = level
      BY <2>0, <3>1, <3>2 DEF Counted
    <3>4. n \in present
      BY <2>0, <3>1, <3>3 DEF InHand
    <3> QED
      BY <3>3, <3>4
  <2> QED
    BY <1>0, <2>0, <2>1, <2>2 DEF Counted
<1>9. CASE UNCHANGED vars
  BY <1>0, <1>9 DEF Counted, vars
<1> QED
  BY <1>1, <1>2, <1>3, <1>4, <1>5, <1>6, <1>7, <1>8, <1>9
  DEF Next, RefuseDownload, RetainedMissing, PrunedTooDeep, RejectLink, RejectNesting,
      RefuseBuildFile, DirectoryGone, Pruned, RemovePath, Accept

\* Pruning deletes nothing that a retained path through real directories leads to.
LEMMA KeptStep == InOrder /\ Standing /\ InHand /\ OwnPaths /\ Kept /\ [Next]_vars => Kept'
<1> SUFFICES ASSUME InOrder, Standing, InHand, OwnPaths, Kept, [Next]_vars PROVE Kept'
  OBVIOUS
<1> SUFFICES ASSUME RetainPlain, stage' = "prune" PROVE Kept'
  <2>1. RetainPlain' = RetainPlain
    BY AttributesStay DEF RetainPlain, Plain
  <2> QED
    BY <2>1 DEF Kept
<1>0. /\ tree' = tree /\ tree \in Trees /\ retain' = retain /\ present \subseteq Nodes
      /\ \A p \in retain : p \in Seq(Nodes) /\ p # <<>> /\ p[Len(p)] \in Nodes
  <2>1. \A p \in retain : p \in Seq(Nodes) /\ p # <<>>
    BY VerifiedArchiveAssumption DEF InOrder
  <2>2. \A p \in Seq(Nodes) : p # <<>> => p[Len(p)] \in Nodes
    BY LenProperties
  <2> QED
    BY <2>1, <2>2, AttributesStay DEF InOrder, Standing
<1>1. CASE Extracted
  <2>1. present' = Nodes
    BY <1>1 DEF InOrder, Extracted
  <2> QED
    BY <1>0, <2>1 DEF Kept
<1>2. ASSUME NEW entry \in entries, PruneEntry(entry) PROVE Kept'
  <2>1. ASSUME NEW p \in retain PROVE p[Len(p)] \in present'
    <3>1. p[Len(p)] \in present /\ p[Len(p)] \in Nodes
      BY <1>0, <1>2 DEF Kept, PruneEntry
    <3>2. p[Len(p)] \in Subtree(p[Len(p)])
      <4>1. /\ Len(tree[p[Len(p)]].path) \in 1..Len(tree[p[Len(p)]].path)
            /\ tree[p[Len(p)]].path[Len(tree[p[Len(p)]].path)] = p[Len(p)]
        BY <1>0, <3>1, NodeFacts
      <4> QED
        BY <3>1, <4>1 DEF Subtree
    <3> QED
      BY <1>2, <3>1, <3>2, PruneSpares
  <2> QED
    BY <1>0, <2>1 DEF Kept
<1>3. ASSUME stage = "prune", present' = present PROVE Kept'
  BY <1>0, <1>3 DEF Kept
<1> QED
  BY <1>1, <1>2, <1>3
  DEF Next, vars, Fail, RefuseDownload, RetainedMissing, PrunedTooDeep, RejectLink, RejectNesting,
      RefuseBuildFile, DirectoryGone, ReadDirectory, NextLevel, Pruned, RemovePath, Removed,
      ValidateLevel, Accept

\* Where retained paths run through real directories, what pruning has still to
\* read is there.
LEMMA GoneThroughLink ==
  ASSUME InOrder, Standing, InHand, OwnPaths, Counted, Kept, RetainPlain, stage = "prune",
         NEW item \in pending
  PROVE  IsDir(Located(item))
<1>0. /\ tree \in Trees /\ present \subseteq Nodes /\ item \in Seq(Nodes)
  BY DEF InOrder, Standing, InHand
<1>1. CASE item = <<>>
  <2>1. Located(item) = Root
    BY <1>1 DEF Located, Entry
  <2> QED
    BY <1>0, <2>1, RealOfEntry DEF IsDir
<1>2. CASE item # <<>>
  <2>1. OwnPath(item) /\ tree[item[Len(item)]].kind = "dir"
    BY <1>2 DEF OwnPaths
  <2>2. PICK p \in retain : IsStrictPrefix(item, p)
    BY DEF Counted, KeepParent
  <2>3. p \in Seq(Nodes) /\ OwnPath(p) /\ p[Len(p)] \in present
    BY VerifiedArchiveAssumption DEF InOrder, OwnPaths, Kept
  <2>4. Len(item) \in 1..Len(p) /\ p[Len(item)] = item[Len(item)]
    <3>1. Len(item) \in Nat /\ Len(item) >= 1 /\ Len(p) \in Nat
      BY <1>0, <1>2, <2>3, LenProperties
    <3>2. Len(item) <= Len(p) /\ \A i \in 1..Len(item) : item[i] = p[i]
      BY <1>0, <2>2, <2>3, PrefixIs DEF IsStrictPrefix
    <3> QED
      BY <3>1, <3>2
  <2>5. item[Len(item)] \in present
    BY <2>3, <2>4 DEF Standing, OwnPath
  <2>6. Located(item) = item[Len(item)]
    BY <1>0, <2>1, <2>5, LocatedEntry DEF OwnPath
  <2> QED
    BY <1>0, <2>1, <2>5, <2>6, RealOfEntry DEF IsDir
<1> QED
  BY <1>1, <1>2

\* What the failure says stays true, because nothing happens after it.
LEMMA CauseStays ==
  ASSUME RefusedForCause, UNCHANGED <<why, tree, retain, present>>
  PROVE  RefusedForCause'
<1>1. \A place : Real(place)' = Real(place)
  BY RealStays
<1> QED
  BY <1>1 DEF RefusedForCause, Plain

\* Every failure has cause.
LEMMA CauseStep ==
  InOrder /\ Standing /\ InHand /\ OwnPaths /\ Counted /\ Kept /\ RefusedForCause /\ [Next]_vars => RefusedForCause'
<1> SUFFICES ASSUME InOrder, Standing, InHand, OwnPaths, Counted, Kept, RefusedForCause, [Next]_vars
             PROVE  RefusedForCause'
  OBVIOUS
<1>0. /\ tree \in Trees /\ present \subseteq Nodes /\ retain \in Retains
      /\ MaxLevels \in Nat /\ MaxLevels > 1 /\ None \notin Reasons
  BY VerifiedArchiveAssumption DEF InOrder, Standing
<1> DEFINE Cause(reason) ==
      /\ reason = "readdir" => \E p \in retain : ~Plain(p)
      /\ reason = "retained nesting" => \E p \in retain : Len(p) > MaxLevels
      /\ reason = "link" => \E n \in present : Real(n) \notin present \cup {Root}
      /\ reason = "nesting" => \E n \in present : tree[n].kind = "dir" /\ Len(tree[n].path) + 1 >= MaxLevels
<1>1. ASSUME NEW reason, Fail(reason), Cause(reason) PROVE RefusedForCause'
  <2>1. why' = reason /\ UNCHANGED <<tree, retain, present>>
    BY <1>1 DEF Fail
  <2>2. \A place : Real(place)' = Real(place)
    BY <2>1, RealStays
  <2> QED
    BY <1>1, <2>1, <2>2 DEF RefusedForCause, Plain
<1>2. ASSUME NEW reason \in {"download", "retained", "build file"}, Fail(reason) PROVE RefusedForCause'
  BY <1>1, <1>2
<1>3. ASSUME NEW item \in pending, DirectoryGone(item) PROVE RefusedForCause'
  <2>1. ~RetainPlain
    BY <1>3, GoneThroughLink DEF DirectoryGone
  <2> QED
    BY <1>1, <1>3, <2>1 DEF DirectoryGone, RetainPlain
<1>4. CASE PrunedTooDeep
  <2>1. PICK q \in pending : TRUE
    BY <1>4 DEF PrunedTooDeep
  <2>2. q \in Seq(Nodes) /\ Len(q) = MaxLevels /\ KeepParent(q)
    BY <1>4, <2>1 DEF PrunedTooDeep, InHand, Counted
  <2>3. PICK p \in retain : IsStrictPrefix(q, p)
    BY <2>2 DEF KeepParent
  <2>4. p \in Seq(Nodes)
    BY <1>0, VerifiedArchiveAssumption
  <2>5. Len(q) <= Len(p) /\ (\A i \in 1..Len(q) : q[i] = p[i]) /\ q # p
    BY <2>2, <2>3, <2>4, PrefixIs DEF IsStrictPrefix
  <2>6. Len(q) # Len(p)
    BY <2>2, <2>4, <2>5, SeqEqual
  <2>7. Len(p) > MaxLevels
    <3>1. Len(p) \in Nat
      BY <2>4, LenProperties
    <3> QED
      BY <1>0, <2>2, <2>5, <2>6, <3>1
  <2> QED
    BY <1>1, <1>4, <2>7 DEF PrunedTooDeep
<1>5. CASE RejectLink
  <2>1. PICK n \in Read : Escaping(n)
    BY <1>5 DEF RejectLink
  <2>2. n \in present /\ Real(n) \notin present \cup {Root}
    BY <1>0, <2>1, VerifiedArchiveAssumption DEF Read, Escaping
  <2> QED
    BY <1>1, <1>5, <2>2 DEF RejectLink
<1>6. CASE RejectNesting
  <2>1. stage = "validate" /\ level = MaxLevels /\ level > 1
    BY <1>0, <1>6 DEF RejectNesting
  <2>2. PICK n \in present : tree[n].kind = "dir" /\ Len(tree[n].path) + 1 = MaxLevels
    BY <2>1 DEF Counted
  <2>3. Len(tree[n].path) + 1 >= MaxLevels
    BY <1>0, <2>2
  <2> QED
    BY <1>1, <1>6, <2>2, <2>3 DEF RejectNesting
<1>7. ASSUME why' = None PROVE RefusedForCause'
  BY <1>0, <1>7 DEF RefusedForCause, Reasons
<1>8. CASE UNCHANGED vars
  BY <1>8, CauseStays DEF vars
<1>9. ASSUME why' = why, stage # "failed" PROVE RefusedForCause'
  BY <1>7, <1>9 DEF InOrder
<1> QED
  BY <1>2, <1>3, <1>4, <1>5, <1>6, <1>8, <1>9
  DEF Next, RefuseDownload, RetainedMissing, RefuseBuildFile, Extracted, ReadDirectory, PruneEntry, NextLevel,
      Pruned, RemovePath, Removed, ValidateLevel, Accept

(***************************************************************************)
(* Theorems.                                                               *)
(***************************************************************************)

\* The invariant of the rule: nothing that is kept goes away and nothing that
\* goes away or escapes is passed over (repositories.bzl:10-38, 100-135).
THEOREM ArchiveInvariant == Spec => []ArchiveInv
<1>1. Init => ArchiveInv
  BY ArchiveInit
<1>2. ArchiveInv /\ [Next]_vars => ArchiveInv'
  BY InOrderStep, StandingStep, InHandStep, PruningStep, OwnPathsStep, WholeStep, ValidatedStep,
     CountedStep, KeptStep, CauseStep
  DEF ArchiveInv
<1> QED
  BY <1>1, <1>2, PTL DEF Spec

\* The rule's state has its types at every step.
THEOREM TypeCorrect == Spec => []TypeOK
<1>1. ArchiveInv => TypeOK
  BY ArchiveTyped DEF ArchiveInv
<1> QED
  BY <1>1, ArchiveInvariant, PTL

\* Once an archive is accepted, every entry leads to an entry that is there or
\* to the root: no link dangles, loops or leaves the tree, however deep it lies
\* and through however many links it goes (validate_extracted_tree).
THEOREM AcceptedStaysInside == Spec => []AcceptedIsContained
<1>1. ArchiveInv => AcceptedIsContained
  <2> SUFFICES ASSUME ArchiveInv, Done, NEW n \in present PROVE Real(n) \in present \cup {Root}
    BY DEF AcceptedIsContained
  <2>1. Real(n) \notin {Outside, Missing}
    BY DEF ArchiveInv, Validated, Done, Escaping
  <2>2. Real(n) \in Stops
    BY RealIsStop
  <2> QED
    BY <2>1, <2>2 DEF Stops, Places
<1> QED
  BY <1>1, ArchiveInvariant, PTL

\* An accepted archive holds everything below its retained paths that is not
\* below a removed one, when these run through real directories.
THEOREM RetainedSurvives == Spec => []RetainedIsWhole
<1>1. ArchiveInv => RetainedIsWhole
  BY DEF ArchiveInv, Whole, RetainedIsWhole, BothPlain, RetainPlain, Done
<1> QED
  BY <1>1, ArchiveInvariant, PTL

\* An accepted archive holds nothing else than what leads to a retained path or
\* lies below one, through whatever links these paths run.
THEOREM PruningIsComplete == Spec => []NothingElseSurvives
<1>1. ArchiveInv => NothingElseSurvives
  BY DEF ArchiveInv, Pruning, NothingElseSurvives, Done, KeepEntire, KeepParent
<1> QED
  BY <1>1, ArchiveInvariant, PTL

\* The rule refuses nothing without cause: pruning finds every directory that it
\* has still to read where the retained paths run through real directories, and
\* nesting and links are refused only where there are such (repositories.bzl:109-131,
\* validate_extracted_tree).
THEOREM RefusalHasCause == Spec => []RefusedForCause
<1>1. ArchiveInv => RefusedForCause
  BY DEF ArchiveInv
<1> QED
  BY <1>1, ArchiveInvariant, PTL
=============================================================================
