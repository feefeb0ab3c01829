------------------------------ MODULE ElfClosure ------------------------------
(***************************************************************************)
(* The worklist of validateDeclaredClosure (runtime_launcher) and          *)
(* validateELFClosure (fips_artifact_validator): a FIFO queue of paths, a  *)
(* set of paths already inspected, and the DT_NEEDED entries of the file   *)
(* in hand that are not resolved yet.                                      *)
(***************************************************************************)
EXTENDS DeclaredFiles

VARIABLES
  seen,    \* paths already inspected
  queue,   \* paths found and not yet taken from the queue
  todo,    \* entries of the inspected file still to resolve, in file order
  verdict  \* "pending", "accept" (return nil) or "reject" (return an error)

vars == <<layout, seen, queue, todo, verdict>>

Init ==
  /\ LayoutOK
  /\ seen = {}
  /\ queue = <<Program>>
  /\ todo = <<>>
  /\ verdict = "pending"

Walking == verdict = "pending" /\ todo = <<>>

\* Mutation: a path met again is taken for an error.
SkipSeen_Rejects ==
  /\ Walking
  /\ queue # <<>>
  /\ Head(queue) \in seen
  /\ verdict' = "reject"
  /\ UNCHANGED <<layout, seen, queue, todo>>

\* Mutation: a path met again is not taken from the queue.
SkipSeen_Stays ==
  /\ Walking
  /\ queue # <<>>
  /\ Head(queue) \in seen
  /\ UNCHANGED vars

\* A path inspected before leaves the queue and nothing else happens.
SkipSeen ==
  /\ Walking
  /\ queue # <<>>
  /\ Head(queue) \in seen
  /\ queue' = Tail(queue)
  /\ UNCHANGED <<layout, seen, todo, verdict>>

\* Mutation: a new path is opened without being marked.
Inspect_Unmarked ==
  /\ Walking
  /\ queue # <<>>
  /\ Head(queue) \notin seen
  /\ queue' = Tail(queue)
  /\ IF needs[Head(queue)] = Unreadable
     THEN verdict' = "reject" /\ todo' = <<>>
     ELSE todo' = needs[Head(queue)] /\ UNCHANGED verdict
  /\ UNCHANGED <<layout, seen>>

\* A new path is marked, opened and its DT_NEEDED list read.
Inspect ==
  /\ Walking
  /\ queue # <<>>
  /\ Head(queue) \notin seen
  /\ queue' = Tail(queue)
  /\ seen' = seen \cup {Head(queue)}
  /\ IF needs[Head(queue)] = Unreadable
     THEN verdict' = "reject" /\ todo' = <<>>
     ELSE todo' = needs[Head(queue)] /\ UNCHANGED verdict
  /\ UNCHANGED layout

\* Mutation: an entry that is a path is skipped instead of refused.
Resolve_SkipsPaths ==
  /\ verdict = "pending"
  /\ todo # <<>>
  /\ Head(todo) \in PathNames \/ Resolvable(Head(todo))
  /\ queue' = IF Head(todo) \in PathNames THEN queue ELSE Append(queue, Resolved(Head(todo)))
  /\ todo' = Tail(todo)
  /\ UNCHANGED <<layout, seen, verdict>>

\* The next entry names exactly one declared file, which joins the queue.
Resolve ==
  /\ verdict = "pending"
  /\ todo # <<>>
  /\ Resolvable(Head(todo))
  /\ queue' = Append(queue, Resolved(Head(todo)))
  /\ todo' = Tail(todo)
  /\ UNCHANGED <<layout, seen, verdict>>

\* The next entry is not a basename, cannot be looked up, or is missing or
\* ambiguous: the whole validation fails.
FailToResolve ==
  /\ verdict = "pending"
  /\ todo # <<>>
  /\ ~Resolvable(Head(todo))
  /\ verdict' = "reject"
  /\ UNCHANGED <<layout, seen, queue, todo>>

\* Mutation: success is declared before the last file's entries are resolved.
Finish_Early ==
  /\ verdict = "pending"
  /\ queue = <<>>
  /\ verdict' = "accept"
  /\ UNCHANGED <<layout, seen, queue, todo>>

\* The queue ran dry.
Finish ==
  /\ Walking
  /\ queue = <<>>
  /\ verdict' = "accept"
  /\ UNCHANGED <<layout, seen, queue, todo>>

Next == SkipSeen \/ Inspect \/ Resolve \/ FailToResolve \/ Finish

Spec == Init /\ [][Next]_vars

-----------------------------------------------------------------------------
Queued == Range(queue)
Todo == Range(todo)

\* Types of the walk's state; every path in hand is a regular file.
TypeOK ==
  /\ LayoutOK
  /\ seen \subseteq Regular
  /\ queue \in Seq(Regular)
  /\ todo \in Seq(Names \cup PathNames)
  /\ verdict \in {"pending", "accept", "reject"}

\* Nothing that the walk has met is forgotten: the program is inspected or
\* queued, and each entry of an inspected file is either still to resolve or
\* resolved to a file that is inspected or queued.
NothingForgotten ==
  /\ Program \in seen \cup Queued
  /\ verdict # "reject" =>
       \A p \in seen :
         /\ needs[p] # Unreadable
         /\ \A n \in NeededBy(p) :
              \/ n \in Todo
              \/ Resolvable(n) /\ Resolved(n) \in seen \cup Queued

\* Whatever the walk inspects or queues is reachable from the program, and
\* the entries in hand belong to an inspected file.
OnlyReachable ==
  /\ seen \cup Queued \subseteq Reachable
  /\ todo # <<>> => \E p \in seen : needs[p] # Unreadable /\ Todo \subseteq NeededBy(p)

\* A rejection has a culprit among the inspected files, and an acceptance
\* leaves nothing in hand.
VerdictGrounded ==
  /\ verdict = "reject" => \E p \in seen : ~Sound(p)
  /\ verdict = "accept" => queue = <<>> /\ todo = <<>>

\* The inductive invariant of the walk: nothing forgotten, no straying, and
\* a grounded verdict, however the graph shares, repeats or cycles.
WalkInv == NothingForgotten /\ OnlyReachable /\ VerdictGrounded

\* An accepted program's inspected files form a closed set in which every
\* DT_NEEDED entry names exactly one declared file (the promise of
\* docs/portability.md that the complete DT_NEEDED closure is validated).
AcceptedIsComplete ==
  verdict = "accept" =>
    /\ Program \in seen
    /\ Closed(seen)
    /\ \A p \in seen : Sound(p)

Contract == INSTANCE ClosureContract

\* The walk implements the contract: it accepts exactly the programs whose
\* reachable files are all sound, whichever order and cycles it meets.
ImplementsContract == Contract!Spec

\* Every step of the walk ends it or brings its end nearer, whatever the graph
\* shares or repeats: it inspects one more of the declared files, or settles an
\* entry of the file in hand, or takes a path off the queue.  Resolving lengthens
\* the queue and inspecting the entries, so that no single count goes down; in
\* this order of priority every step counts down, and none follows a verdict.
WalkAdvances ==
  [][/\ verdict = "pending" /\ UNCHANGED layout
     /\ \/ verdict' # "pending"
        \/ seen' # seen /\ seen \subseteq seen' /\ seen' \subseteq Regular
        \/ seen' = seen /\ Len(todo') < Len(todo)
        \/ UNCHANGED <<seen, todo>> /\ Len(queue') < Len(queue)]_vars

\* The walk ends on every graph, cyclic ones included.
Terminates == <>(verdict # "pending")
=============================================================================
