--------------------------- MODULE VerifiedArchive ---------------------------
(***************************************************************************)
(* verified_archive and verified_tree_archive: a downloaded archive is     *)
(* extracted, pruned to its retained paths, stripped of its removed paths  *)
(* and validated before any action can use it.                             *)
(*                                                                         *)
(* A tree gives every node its path from the root, its kind and, for a     *)
(* symlink, where the link leads.  Nodes have distinct names, so a path is *)
(* the sequence of the nodes it names; a path that an attribute gives may  *)
(* run through symlinked directories.  What lies outside the tree counts   *)
(* as a file.                                                              *)
(***************************************************************************)
EXTENDS Naturals, SequencesExt

CONSTANTS
  Nodes,     \* entries of the extracted archive
  Root,      \* the repository directory
  Trees,     \* the trees considered
  Retains,   \* the retain_paths considered: sets of paths
  Removes,   \* the remove_paths considered: sets of paths
  MaxLevels, \* how many levels the two loops visit (256)
  Outside, Missing, None

Places == Nodes \cup {Root, Outside, Missing}

Reasons == {"download", "retained", "readdir", "retained nesting", "link", "nesting", "build file"}

\* An archive is a tree: what holds an entry is a directory of the archive.
ASSUME VerifiedArchiveAssumption ==
  /\ {Root, Outside, Missing} \cap Nodes = {}
  /\ Root # Outside /\ Root # Missing /\ Outside # Missing
  /\ None \notin Reasons
  /\ MaxLevels \in Nat /\ MaxLevels > 1
  /\ \A t \in Trees : DOMAIN t = Nodes
  /\ \A t \in Trees, n \in Nodes :
       /\ t[n].path \in Seq(Nodes) /\ t[n].path # <<>> /\ t[n].path[Len(t[n].path)] = n
       /\ \A i \in 1..(Len(t[n].path) - 1) :
            t[t[n].path[i]].kind = "dir" /\ t[t[n].path[i]].path = SubSeq(t[n].path, 1, i)
       /\ t[n].kind \in {"dir", "file", "link"}
       /\ t[n].target \in Places
  /\ \A ps \in Retains \cup Removes : \A p \in ps : p \in Seq(Nodes) /\ p # <<>>

VARIABLES
  tree, retain, remove,  \* the archive and the rule's attributes
  present,       \* nodes not deleted
  stage,         \* "fetch", "prune", "remove", "validate", "done" or "failed"
  level,         \* levels the current loop has visited
  pending,       \* directories still to read at this level
  entries,       \* entries of the directory in hand still to prune, paths still to remove
  next_pending,  \* directories to read at the next level
  why            \* why the rule failed, or None

vars == <<tree, retain, remove, present, stage, level, pending, entries, next_pending, why>>

Init ==
  /\ tree \in Trees
  /\ retain \in Retains
  /\ remove \in Removes
  /\ present = Nodes
  /\ stage = "fetch"
  /\ level = 0
  /\ pending = {}
  /\ entries = {}
  /\ next_pending = {}
  /\ why = None

-----------------------------------------------------------------------------
(* Paths.                                                                  *)

\* The entry that ends a path's first i names.
Entry(path, i) == IF i = 0 THEN Root ELSE path[i]

Holder(n) == Entry(tree[n].path, Len(tree[n].path) - 1)

Links == {n \in present : tree[n].kind = "link"}

\* Where a chain of links can end.
Stops == (Places \ Nodes) \cup (present \ Links)

\* Where a chain of links ends: whatever holds a link and the links it leads to
\* holds one that leads there.  A loop ends nowhere, as does a dangling link.
Ends(link) ==
  {stop \in Stops :
     \A chain \in SUBSET Links :
       link \in chain /\ (\A l \in chain : tree[l].target \in Links => tree[l].target \in chain)
       => \E l \in chain : tree[l].target = stop}

\* realpath: where an entry leads once its links are followed.
Real(place) ==
  CASE place \in Stops -> place
    [] place \in Links /\ Ends(place) # {} -> CHOOSE stop \in Ends(place) : TRUE
    [] OTHER -> Missing

IsDir(place) == LET r == Real(place) IN r = Root \/ (r \in Nodes /\ tree[r].kind = "dir")
Exists(place) == Real(place) # Missing
Children(dir) == {n \in present : Holder(n) = dir}

\* The entry a path names, Missing when it names none.
Located(path) ==
  IF \A i \in 1..Len(path) :
       IsDir(Entry(path, i - 1)) /\ path[i] \in Children(Real(Entry(path, i - 1)))
  THEN Entry(path, Len(path))
  ELSE Missing

\* A node and everything below it.
Subtree(node) == {n \in Nodes : \E i \in 1..Len(tree[n].path) : tree[n].path[i] = node}

\* repository_ctx.delete: a link goes, not what it leads to; what is not there
\* stays away.
Deleted(path) == Subtree(Located(path))

Fail(reason) ==
  /\ stage' = "failed"
  /\ why' = reason
  /\ UNCHANGED <<tree, retain, remove, present, level, pending, entries, next_pending>>

-----------------------------------------------------------------------------
(* Download, extraction and the check of the retained paths.               *)

\* Attributes are invalid, the digest differs or the archive cannot be read.
RefuseDownload == stage = "fetch" /\ Fail("download")

RetainedMissing ==
  /\ stage = "fetch"
  /\ \E p \in retain : ~Exists(Located(p))
  /\ Fail("retained")

Extracted ==
  /\ stage = "fetch"
  /\ \A p \in retain : Exists(Located(p))
  /\ stage' = IF retain = {} THEN "remove" ELSE "prune"
  /\ pending' = IF retain = {} THEN {} ELSE {<<>>}
  /\ entries' = IF retain = {} THEN remove ELSE {}
  /\ UNCHANGED <<tree, retain, remove, present, level, next_pending, why>>

-----------------------------------------------------------------------------
(* Pruning, level by level and entry by entry; deletions through a link    *)
(* are seen by the directories read after them.                            *)

ReadDirectory(item) ==
  /\ stage = "prune"
  /\ level < MaxLevels
  /\ entries = {}
  /\ item \in pending
  /\ IsDir(Located(item))
  /\ pending' = pending \ {item}
  /\ entries' = {Append(item, n) : n \in Children(Real(Located(item)))}
  /\ UNCHANGED <<tree, retain, remove, present, stage, level, next_pending, why>>

\* The directory went away with an entry pruned before it.
DirectoryGone(item) ==
  /\ stage = "prune"
  /\ level < MaxLevels
  /\ entries = {}
  /\ item \in pending
  /\ ~IsDir(Located(item))
  /\ Fail("readdir")

KeepEntire(relative) == \E p \in retain : IsPrefix(p, relative)
\* Mutation: only the directory that holds a retained path counts.
KeepParent_Immediate(relative) == \E p \in retain : Len(p) > 1 /\ relative = Front(p)

\* Mutation: depths are compared instead of names.
KeepParent_AnyShorter(relative) == \E p \in retain : Len(relative) < Len(p)

KeepParent(relative) == \E p \in retain : IsStrictPrefix(relative, p)

PruneEntry(entry) ==
  /\ stage = "prune"
  /\ entry \in entries
  /\ entries' = entries \ {entry}
  /\ IF KeepEntire(entry)
     THEN UNCHANGED <<present, next_pending>>
     ELSE IF KeepParent(entry) /\ IsDir(Located(entry))
     THEN next_pending' = next_pending \cup {entry} /\ UNCHANGED present
     ELSE present' = present \ Deleted(entry) /\ UNCHANGED next_pending
  /\ UNCHANGED <<tree, retain, remove, stage, level, pending, why>>

\* A level is over.  The loop ends at a level with nothing to read, or after
\* MaxLevels levels.
NextLevel ==
  /\ stage = "prune"
  /\ pending = {} /\ entries = {} /\ next_pending # {}
  /\ level' = level + 1
  /\ pending' = next_pending
  /\ next_pending' = {}
  /\ UNCHANGED <<tree, retain, remove, present, stage, entries, why>>

Pruned ==
  /\ stage = "prune"
  /\ pending = {} /\ entries = {} /\ next_pending = {}
  /\ stage' = "remove"
  /\ entries' = remove
  /\ UNCHANGED <<tree, retain, remove, present, level, pending, next_pending, why>>

PrunedTooDeep ==
  /\ stage = "prune"
  /\ level = MaxLevels
  /\ pending # {}
  /\ Fail("retained nesting")

-----------------------------------------------------------------------------
(* remove_paths, then validate_extracted_tree over the surviving tree.     *)

\* One path after another, in the order of the attribute, which may be any.
RemovePath(p) ==
  /\ stage = "remove"
  /\ p \in entries
  /\ present' = present \ Deleted(p)
  /\ entries' = entries \ {p}
  /\ UNCHANGED <<tree, retain, remove, stage, level, pending, next_pending, why>>

\* Mutation: the levels of pruning count for validation.
Removed_KeepsLevel ==
  /\ stage = "remove"
  /\ entries = {}
  /\ stage' = "validate"
  /\ pending' = {Root}
  /\ UNCHANGED <<tree, retain, remove, present, level, entries, next_pending, why>>

Removed ==
  /\ stage = "remove"
  /\ entries = {}
  /\ stage' = "validate"
  /\ level' = 0
  /\ pending' = {Root}
  /\ UNCHANGED <<tree, retain, remove, present, entries, next_pending, why>>

Read == {n \in present : Holder(n) \in pending}

\* Mutation: dangling links pass.
Escaping_Outside(n) == Real(n) = Outside

\* A link that dangles or leaves the tree.
Escaping(n) == Real(n) \in {Outside, Missing}

ValidateLevel ==
  /\ stage = "validate"
  /\ level < MaxLevels
  /\ pending # {}
  /\ \A n \in Read : ~Escaping(n)
  /\ pending' = {n \in Read : tree[n].kind = "dir"}
  /\ level' = level + 1
  /\ UNCHANGED <<tree, retain, remove, present, stage, entries, next_pending, why>>

RejectLink ==
  /\ stage = "validate"
  /\ level < MaxLevels
  /\ \E n \in Read : Escaping(n)
  /\ Fail("link")

\* The loop returns only where it finds a level with nothing to read.
RejectNesting ==
  /\ stage = "validate"
  /\ level = MaxLevels
  /\ Fail("nesting")

Accept ==
  /\ stage = "validate"
  /\ level < MaxLevels
  /\ pending = {}
  /\ stage' = "done"
  /\ UNCHANGED <<tree, retain, remove, present, level, pending, entries, next_pending, why>>

\* Mutation: the attributes are reported and the tree used all the same.
RefuseBuildFile_GoesOn ==
  /\ stage = "validate"
  /\ level < MaxLevels
  /\ pending = {}
  /\ stage' = "done"
  /\ why' = "build file"
  /\ UNCHANGED <<tree, retain, remove, present, level, pending, entries, next_pending>>

\* The rule names no BUILD file, or two.
RefuseBuildFile ==
  /\ stage = "validate"
  /\ level < MaxLevels
  /\ pending = {}
  /\ Fail("build file")

Next ==
  \/ RefuseDownload \/ RetainedMissing \/ Extracted
  \/ \E item \in pending : ReadDirectory(item)
  \/ \E item \in pending : DirectoryGone(item)
  \/ \E entry \in entries : PruneEntry(entry)
  \/ NextLevel \/ Pruned \/ PrunedTooDeep
  \/ \E p \in entries : RemovePath(p)
  \/ Removed \/ ValidateLevel \/ RejectLink \/ RejectNesting \/ Accept \/ RefuseBuildFile

Spec == Init /\ [][Next]_vars

-----------------------------------------------------------------------------
Done == stage = "done"

\* Types of the rule's state.
TypeOK ==
  /\ DOMAIN tree = Nodes /\ retain \in Retains /\ remove \in Removes
  /\ present \subseteq Nodes
  /\ stage \in {"fetch", "prune", "remove", "validate", "done", "failed"}
  /\ level \in 0..MaxLevels
  /\ stage \in {"prune", "remove"} => pending \cup entries \cup next_pending \subseteq Seq(Nodes)
  /\ stage \in {"validate", "done"} => pending \subseteq present \cup {Root}
  /\ (stage = "failed") = (why # None)

\* No extracted tree becomes an input with a dangling or escaping symlink
\* (docs/portability.md:52), pruning and removal having left none behind.
AcceptedIsContained == Done => \A n \in present : Real(n) \in present \cup {Root}

\* A path that does not run through a symlinked directory.
Plain(path) == \A i \in 1..(Len(path) - 1) : tree[path[i]].kind = "dir"

\* When retained and removed paths run through real directories only, pruning
\* and removal keep everything below a retained path that is not below a
\* removed one.
RetainedIsWhole ==
  Done /\ (\A p \in retain \cup remove : Plain(p)) =>
    \A p \in retain : \A n \in Subtree(p[Len(p)]) :
      (\A r \in remove : ~IsPrefix(r, tree[n].path)) => n \in present

\* Pruning keeps nothing else: what survives lies on the way to a retained
\* path or below one, whatever links lead there.
NothingElseSurvives ==
  Done /\ retain # {} =>
    \A n \in present :
      \E p \in retain : IsPrefix(p, tree[n].path) \/ IsStrictPrefix(tree[n].path, p)

\* A rule that fails on what it extracted has cause: a directory that pruning
\* has still to read goes away only when a retained path runs through a link,
\* retained nesting exceeds the limit, a link of the pruned tree leads nowhere or
\* out of it, and nesting is refused only where directories reach the limit.
RefusedForCause ==
  /\ why = "readdir" => \E p \in retain : ~Plain(p)
  /\ why = "retained nesting" => \E p \in retain : Len(p) > MaxLevels
  /\ why = "link" => \E n \in present : Real(n) \notin present \cup {Root}
  /\ why = "nesting" => \E n \in present : tree[n].kind = "dir" /\ Len(tree[n].path) + 1 >= MaxLevels

\* Directory levels of the surviving tree, the root's included.
Levels == 1 + Max({0} \cup {Len(tree[n].path) : n \in {m \in present : tree[m].kind = "dir"}})

\* A tree is rejected for its nesting only when it exceeds the limit, as the
\* message of the rejection says.
RejectedNestingExceeds == why = "nesting" => Levels > MaxLevels
=============================================================================
