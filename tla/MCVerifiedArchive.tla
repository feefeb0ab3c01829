-------------------------- MODULE MCVerifiedArchive --------------------------
(* Every tree of three entries, with links to any place, under attributes   *)
(* that retain a directory, a file within one, two paths, everything, or a  *)
(* path that runs through links, once or more often than there are levels.  *)
EXTENDS VerifiedArchive

MCNodes == 1..3
MCRoot == 0

Kinds == [kind : {"dir", "file"}, target : {Missing}]
         \cup [kind : {"link"}, target : Places]

\* Directories hold what a path runs through.
Fits(path, k, n) == \A i \in 1..(Len(path) - 1) : k[path[i]].kind = "dir"

\* An entry that lies in a directory with a smaller number, or in the root.
Parents == [MCNodes -> 0..2]

PathIn(parents) ==
  LET path[n \in MCNodes] == IF parents[n] = 0 THEN <<n>> ELSE Append(path[parents[n]], n)
  IN  path

MCTrees ==
  UNION {{[n \in MCNodes |-> [path |-> path[n], kind |-> k[n].kind, target |-> k[n].target]] :
            k \in {k \in [MCNodes -> Kinds] : \A n \in MCNodes : Fits(path[n], k, n)}} :
         path \in {PathIn(p) : p \in {q \in Parents : \A n \in MCNodes : q[n] < n}}}

MCRetains == {{}, {<<1>>}, {<<2>>}, {<<1, 2>>}, {<<1, 2, 3>>}, {<<2>>, <<1, 3>>},
              {<<3, 2>>}, {<<1, 1, 1, 1, 2>>}}
MCRemoves == {{}, {<<1, 3>>}, {<<1>>, <<1, 3>>}}
=============================================================================
