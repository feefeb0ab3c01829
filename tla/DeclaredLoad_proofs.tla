------------------------- MODULE DeclaredLoad_proofs -------------------------
(***************************************************************************)
(* First the walk of ElfClosure, for every library path, directory         *)
(* contents and dependency graph: its inductive invariant, the             *)
(* completeness of what it accepts, and the refinement of ClosureContract. *)
(* Then DeclaredLoad: a validated program never maps a file from the host, *)
(* since what the loader picks by first match is what the launcher has     *)
(* inspected by unique match.                                              *)
(***************************************************************************)
EXTENDS DeclaredLoad, SequenceTheorems, TLAPS

(***************************************************************************)
(* Sequences as sets: what taking the head off and appending do to the     *)
(* elements of a sequence.                                                 *)
(***************************************************************************)

\* The elements of a sequence are its head and the elements of its tail.
LEMMA RangeHeadTail ==
  ASSUME NEW S, NEW q \in Seq(S), q # <<>>
  PROVE  /\ Head(q) \in S
         /\ Tail(q) \in Seq(S)
         /\ Head(q) \in Range(q)
         /\ Range(q) = {Head(q)} \cup Range(Tail(q))
<1>1. /\ Head(q) \in S /\ Tail(q) \in Seq(S) /\ Len(q) \in Nat \ {0}
      /\ Len(Tail(q)) = Len(q) - 1
      /\ \A i \in 1..Len(Tail(q)) : Tail(q)[i] = q[i + 1]
  BY HeadTailProperties, EmptySeq
<1>2. /\ Range(q) = {q[i] : i \in 1..Len(q)}
      /\ Range(Tail(q)) = {Tail(q)[i] : i \in 1..Len(Tail(q))}
  BY <1>1, RangeEquality
<1>3. Head(q) = q[1] /\ Head(q) \in Range(q)
  BY <1>1, <1>2
<1>4. Range(q) \subseteq {Head(q)} \cup Range(Tail(q))
  <2>1. SUFFICES ASSUME NEW i \in 1..Len(q), i # 1
                 PROVE  q[i] \in Range(Tail(q))
    BY <1>2, <1>3
  <2>2. i - 1 \in 1..Len(Tail(q)) /\ Tail(q)[i - 1] = q[i]
    BY <1>1, <2>1
  <2> QED
    BY <1>2, <2>2
<1>5. Range(Tail(q)) \subseteq Range(q)
  <2>1. SUFFICES ASSUME NEW i \in 1..Len(Tail(q))
                 PROVE  Tail(q)[i] \in Range(q)
    BY <1>2
  <2>2. i + 1 \in 1..Len(q) /\ Tail(q)[i] = q[i + 1]
    BY <1>1
  <2> QED
    BY <1>2, <2>2
<1> QED
  BY <1>1, <1>3, <1>4, <1>5

\* Appending adds one element.
LEMMA RangeAppend ==
  ASSUME NEW S, NEW q \in Seq(S), NEW e \in S
  PROVE  /\ Append(q, e) \in Seq(S)
         /\ Range(Append(q, e)) = Range(q) \cup {e}
<1>1. /\ Append(q, e) \in Seq(S) /\ Len(Append(q, e)) = Len(q) + 1 /\ Len(q) \in Nat
      /\ \A i \in 1..Len(q) : Append(q, e)[i] = q[i]
      /\ Append(q, e)[Len(q) + 1] = e
  OBVIOUS
<1>2. /\ Range(q) = {q[i] : i \in 1..Len(q)}
      /\ Range(Append(q, e)) = {Append(q, e)[i] : i \in 1..Len(Append(q, e))}
  BY <1>1, RangeEquality
<1>3. Range(Append(q, e)) \subseteq Range(q) \cup {e}
  BY <1>1, <1>2
<1>4. Range(q) \cup {e} \subseteq Range(Append(q, e))
  <2>1. \A i \in 1..Len(q) : i \in 1..Len(Append(q, e))
    BY <1>1
  <2>2. Range(q) \subseteq Range(Append(q, e))
    BY <1>1, <1>2, <2>1
  <2>3. Len(q) + 1 \in 1..Len(Append(q, e))
    BY <1>1
  <2>4. e \in Range(Append(q, e))
    BY <1>1, <1>2, <2>3
  <2> QED
    BY <2>2, <2>4
<1> QED
  BY <1>1, <1>3, <1>4

\* The empty sequence has no element.
LEMMA RangeEmpty == Range(<<>>) = {}
  BY DEF Range

(***************************************************************************)
(* The dependency graph.                                                   *)
(***************************************************************************)

\* A resolvable entry names a declared regular file.
LEMMA ResolvedRegular ==
  ASSUME LayoutOK, NEW n, Resolvable(n)
  PROVE  Resolved(n) \in Regular
<1>1. PICK i \in Matches(n) : TRUE
  BY DEF Resolvable, MatchedOnce
<1> DEFINE j == CHOOSE k \in DOMAIN search : k \in Matches(n)
<1>2. j \in DOMAIN search /\ j \in Matches(n)
  BY <1>1 DEF Matches
<1>3. search \in Seq(Dirs)
  BY DeclaredFilesAssumption DEF LayoutOK
<1>4. search[j] \in Dirs
  BY <1>2, <1>3
<1>5. <<search[j], n>> \in Dirs \X Names /\ entry[<<search[j], n>>] = "regular"
  BY <1>2, <1>4 DEF Resolvable, Matches
<1> QED
  BY <1>5 DEF Resolved, Regular

\* Dependencies are regular files.
LEMMA DependenciesRegular ==
  ASSUME LayoutOK, NEW p
  PROVE  Dependencies(p) \subseteq Regular
  BY ResolvedRegular DEF Dependencies

\* What the program reaches contains the program and is closed.
LEMMA ReachableClosed ==
  ASSUME LayoutOK
  PROVE  Program \in Reachable /\ Closed(Reachable) /\ Reachable \subseteq Regular
<1>1. Program \in Reachable /\ Reachable \subseteq Regular
  BY DEF Reachable, Regular
<1>2. ASSUME NEW p \in Reachable, NEW q \in Dependencies(p)
      PROVE  q \in Reachable
  <2>1. q \in Regular
    BY DependenciesRegular
  <2>2. ASSUME NEW S \in SUBSET Regular, Program \in S, Closed(S)
        PROVE  q \in S
    <3>1. p \in S
      BY <2>2 DEF Reachable
    <3> QED
      BY <2>2, <3>1 DEF Closed
  <2> QED
    BY <2>1, <2>2 DEF Reachable
<1> QED
  BY <1>1, <1>2 DEF Closed

\* It is the least such set.
LEMMA ReachableLeast ==
  ASSUME NEW S \in SUBSET Regular, Program \in S, Closed(S)
  PROVE  Reachable \subseteq S
  BY DEF Reachable

\* The definitions above the walk depend on the layout alone.
LEMMA LayoutUnchanged ==
  ASSUME UNCHANGED layout
  PROVE  /\ LayoutOK' = LayoutOK
         /\ Regular' = Regular
         /\ \A n : Resolvable(n)' = Resolvable(n) /\ Resolved(n)' = Resolved(n)
         /\ \A p : NeededBy(p)' = NeededBy(p) /\ Sound(p)' = Sound(p)
         /\ Reachable' = Reachable
<1>1. /\ tool' = tool /\ search' = search /\ entry' = entry /\ needs' = needs
  BY DEF layout
<1>2. LayoutOK' = LayoutOK /\ Regular' = Regular
  BY <1>1 DEF LayoutOK, Regular
<1>3. ASSUME NEW n
      PROVE  Resolvable(n)' = Resolvable(n) /\ Resolved(n)' = Resolved(n)
  BY <1>1 DEF Resolvable, Resolved, StatsCleanly, LauncherStatsCleanly, ValidatorStatsCleanly,
              MatchedOnce, Matches
<1>4. ASSUME NEW p
      PROVE  NeededBy(p)' = NeededBy(p) /\ Sound(p)' = Sound(p)
                /\ Dependencies(p)' = Dependencies(p)
  BY <1>1, <1>3 DEF NeededBy, Sound, Dependencies
<1>5. Reachable' = Reachable
  BY <1>2, <1>4 DEF Reachable, Closed
<1> QED
  BY <1>2, <1>3, <1>4, <1>5

(***************************************************************************)
(* Types.                                                                  *)
(***************************************************************************)

\* The entries of a readable file are a sequence of entries.
LEMMA NeedsTyped ==
  ASSUME LayoutOK, NEW p \in Regular, needs[p] # Unreadable
  PROVE  needs[p] \in Seq(Names \cup PathNames)
  BY DeclaredFilesAssumption DEF LayoutOK

\* The walk starts with the program queued.
LEMMA TypeInit == Init => TypeOK
<1>1. SUFFICES ASSUME Init PROVE TypeOK
  OBVIOUS
<1>2. Program \in Regular
  BY DEF Regular
<1>3. <<Program>> \in Seq(Regular) /\ <<>> \in Seq(Names \cup PathNames)
  BY <1>2
<1> QED
  BY <1>1, <1>3 DEF Init, TypeOK

\* Every step keeps the types.
LEMMA TypeStep == TypeOK /\ [Next]_vars => TypeOK'
<1>1. SUFFICES ASSUME TypeOK, [Next]_vars PROVE TypeOK'
  OBVIOUS
<1>2. UNCHANGED layout
  BY <1>1 DEF Next, SkipSeen, Inspect, Resolve, FailToResolve, Finish, vars
<1>3. LayoutOK' /\ Regular' = Regular
  BY <1>1, <1>2, LayoutUnchanged DEF TypeOK
<1>4. queue # <<>> => Head(queue) \in Regular /\ Tail(queue) \in Seq(Regular)
  BY <1>1, RangeHeadTail DEF TypeOK
<1>5. todo # <<>> => Tail(todo) \in Seq(Names \cup PathNames)
  BY <1>1, RangeHeadTail DEF TypeOK
<1>6. CASE SkipSeen
  BY <1>1, <1>3, <1>4, <1>6 DEF SkipSeen, TypeOK
<1>7. CASE Inspect
  <2>1. todo' \in Seq(Names \cup PathNames)
    <3>1. CASE needs[Head(queue)] = Unreadable
      BY <1>7, <3>1 DEF Inspect
    <3>2. CASE needs[Head(queue)] # Unreadable
      <4>1. LayoutOK /\ Head(queue) \in Regular
        BY <1>1, <1>4, <1>7 DEF Inspect, TypeOK
      <4> QED
        BY <1>7, <3>2, <4>1, NeedsTyped DEF Inspect
    <3> QED
      BY <3>1, <3>2
  <2>2. verdict' \in {"pending", "accept", "reject"}
    BY <1>1, <1>7 DEF Inspect, TypeOK
  <2>3. seen' \subseteq Regular /\ queue' \in Seq(Regular)
    BY <1>1, <1>4, <1>7 DEF Inspect, TypeOK
  <2> QED
    BY <1>3, <2>1, <2>2, <2>3 DEF TypeOK
<1>8. CASE Resolve
  <2>1. Resolved(Head(todo)) \in Regular
    BY <1>1, <1>8, ResolvedRegular DEF Resolve, TypeOK
  <2>2. queue' \in Seq(Regular)
    BY <1>1, <1>8, <2>1, RangeAppend DEF Resolve, TypeOK
  <2> QED
    BY <1>1, <1>3, <1>5, <1>8, <2>2 DEF Resolve, TypeOK
<1>9. CASE FailToResolve
  BY <1>1, <1>3, <1>9 DEF FailToResolve, TypeOK
<1>10. CASE Finish
  BY <1>1, <1>3, <1>10 DEF Finish, TypeOK
<1>11. CASE UNCHANGED vars
  BY <1>1, <1>3, <1>11 DEF TypeOK, vars
<1> QED
  BY <1>1, <1>6, <1>7, <1>8, <1>9, <1>10, <1>11 DEF Next

\* The walk's variables keep their types: in particular whatever is queued or
\* inspected is a declared regular file or the program itself.
THEOREM TypeCorrect == Spec => []TypeOK
  BY TypeInit, TypeStep, PTL DEF Spec

\* Taking the head off shortens a sequence.
LEMMA TailShorter ==
  ASSUME NEW S, NEW q \in Seq(S), q # <<>>
  PROVE  Len(Tail(q)) < Len(q)
<1>1. Len(q) \in Nat \ {0} /\ Len(Tail(q)) = Len(q) - 1
  BY HeadTailProperties, EmptySeq
<1> QED
  BY <1>1

\* Every step of the walk brings its end nearer: the measure is the files not yet
\* inspected, then the entries in hand, then the paths queued.
THEOREM WalkGoesOn == Spec => WalkAdvances
<1> DEFINE Nearer ==
      /\ verdict = "pending" /\ UNCHANGED layout
      /\ \/ verdict' # "pending"
         \/ seen' # seen /\ seen \subseteq seen' /\ seen' \subseteq Regular
         \/ seen' = seen /\ Len(todo') < Len(todo)
         \/ UNCHANGED <<seen, todo>> /\ Len(queue') < Len(queue)
<1>1. ASSUME TypeOK, Next PROVE Nearer
  <2>0. queue \in Seq(Regular) /\ todo \in Seq(Names \cup PathNames) /\ seen \subseteq Regular
    BY <1>1 DEF TypeOK
  <2>1. CASE SkipSeen
    <3>1. Len(Tail(queue)) < Len(queue)
      BY <2>0, <2>1, TailShorter DEF SkipSeen
    <3> QED
      BY <2>1, <3>1 DEF SkipSeen, Walking
  <2>2. CASE Inspect
    <3>1. Head(queue) \in Regular
      BY <2>0, <2>2, RangeHeadTail DEF Inspect
    <3>2. seen' # seen /\ seen \subseteq seen' /\ seen' \subseteq Regular
      BY <2>0, <2>2, <3>1 DEF Inspect
    <3> QED
      BY <2>2, <3>2 DEF Inspect, Walking
  <2>3. CASE Resolve
    <3>1. Len(Tail(todo)) < Len(todo)
      BY <2>0, <2>3, TailShorter DEF Resolve
    <3> QED
      BY <2>3, <3>1 DEF Resolve
  <2>4. CASE FailToResolve
    BY <2>4 DEF FailToResolve
  <2>5. CASE Finish
    BY <2>5 DEF Finish, Walking
  <2> QED
    BY <1>1, <2>1, <2>2, <2>3, <2>4, <2>5 DEF Next
<1>2. TypeOK /\ [Next]_vars => [Nearer]_vars
  BY <1>1
<1> QED
  BY <1>2, TypeCorrect, PTL DEF Spec, WalkAdvances

(***************************************************************************)
(* The inductive invariant.                                                *)
(***************************************************************************)

\* A rejected program has a reachable culprit.
LEMMA UnresolvableUnsound ==
  ASSUME NEW p, needs[p] # Unreadable, NEW n \in NeededBy(p), ~Resolvable(n)
  PROVE  ~Sound(p)
  BY DEF Sound

\* A file that is needed by a reachable file is reachable.
LEMMA ResolvedReachable ==
  ASSUME LayoutOK, NEW p \in Reachable, NEW n \in NeededBy(p), Resolvable(n)
  PROVE  Resolved(n) \in Reachable
  BY ReachableClosed DEF Closed, Dependencies

\* The walk starts with nothing forgotten: the program is queued.
LEMMA WalkInit == Init => WalkInv
<1>1. SUFFICES ASSUME Init PROVE WalkInv
  OBVIOUS
<1>2. Queued = {Program} /\ seen = {}
  BY <1>1 DEF Init, Queued, Range
<1>3. Program \in Reachable
  BY <1>1, ReachableClosed DEF Init
<1> QED
  BY <1>1, <1>2, <1>3 DEF Init, WalkInv, NothingForgotten, OnlyReachable, VerdictGrounded

\* Every step keeps the invariant.
LEMMA WalkStep == TypeOK /\ WalkInv /\ [Next]_vars => WalkInv'
<1> SUFFICES ASSUME TypeOK, WalkInv, [Next]_vars PROVE WalkInv'
  OBVIOUS
<1> USE DEF Queued, Todo
<1>1. UNCHANGED layout
  BY DEF Next, SkipSeen, Inspect, Resolve, FailToResolve, Finish, vars
<1>2. LayoutOK
  BY DEF TypeOK
<1>3. /\ \A n : Resolvable(n)' = Resolvable(n) /\ Resolved(n)' = Resolved(n)
      /\ \A p : NeededBy(p)' = NeededBy(p) /\ Sound(p)' = Sound(p)
      /\ Reachable' = Reachable /\ needs' = needs
  BY <1>1, LayoutUnchanged DEF layout
<1>4. queue # <<>> => Queued = {Head(queue)} \cup Range(Tail(queue))
  BY RangeHeadTail DEF TypeOK
<1>5. todo # <<>> => /\ Todo = {Head(todo)} \cup Range(Tail(todo))
                    /\ Head(todo) \in Todo
  BY RangeHeadTail DEF TypeOK
<1>6. CASE SkipSeen
  <2>1. seen' \cup Queued' = seen \cup Queued /\ todo' = todo /\ verdict' = "pending" /\ seen' = seen
        /\ verdict = "pending" /\ todo = <<>>
    BY <1>4, <1>6 DEF SkipSeen, Walking
  <2> QED
    BY <1>3, <2>1 DEF WalkInv, NothingForgotten, OnlyReachable, VerdictGrounded
<1>7. CASE Inspect
  <2> DEFINE h == Head(queue)
  <2>1. /\ seen' = seen \cup {h} /\ h \in Queued /\ Queued' = Range(Tail(queue))
        /\ todo = <<>> /\ verdict = "pending"
        /\ seen' \cup Queued' = seen \cup Queued
    BY <1>4, <1>7 DEF Inspect, Walking
  <2>2. Todo = {}
    BY <2>1, RangeEmpty
  <2>3. CASE needs[h] = Unreadable
    <3>1. verdict' = "reject" /\ todo' = <<>>
      BY <1>7, <2>3 DEF Inspect
    <3>2. NothingForgotten'
      BY <2>1, <3>1 DEF WalkInv, NothingForgotten
    <3>3. OnlyReachable'
      BY <1>3, <2>1, <3>1 DEF WalkInv, OnlyReachable
    <3>4. ~Sound(h)
      BY <2>3 DEF Sound
    <3>5. VerdictGrounded'
      BY <1>3, <2>1, <3>1, <3>4 DEF VerdictGrounded
    <3> QED
      BY <3>2, <3>3, <3>5 DEF WalkInv
  <2>4. CASE needs[h] # Unreadable
    <3>1. verdict' = "pending" /\ todo' = needs[h]
      BY <1>7, <2>1, <2>4 DEF Inspect
    <3>2. NeededBy(h) = Todo'
      BY <2>4, <3>1 DEF NeededBy
    <3>3. NothingForgotten'
      BY <1>3, <2>1, <2>2, <2>4, <3>1, <3>2 DEF WalkInv, NothingForgotten
    <3>4. OnlyReachable'
      BY <1>3, <2>1, <2>4, <3>1, <3>2 DEF WalkInv, OnlyReachable
    <3> QED
      BY <3>1, <3>3, <3>4 DEF WalkInv, VerdictGrounded
  <2> QED
    BY <2>3, <2>4
<1>8. CASE Resolve
  <2> DEFINE n == Head(todo)
  <2>1. /\ verdict = "pending" /\ verdict' = "pending" /\ todo # <<>> /\ Resolvable(n)
        /\ seen' = seen /\ queue' = Append(queue, Resolved(n)) /\ todo' = Tail(todo)
    BY <1>8 DEF Resolve
  <2>2. Resolved(n) \in Regular
    BY <1>2, <2>1, ResolvedRegular
  <2>3. Queued' = Queued \cup {Resolved(n)}
    BY <2>1, <2>2, RangeAppend DEF TypeOK
  <2>4. Todo = {n} \cup Todo' /\ n \in Todo
    BY <1>5, <2>1
  <2>5. PICK p \in seen : needs[p] # Unreadable /\ Todo \subseteq NeededBy(p)
    BY <2>1 DEF WalkInv, OnlyReachable
  <2>6. Resolved(n) \in Reachable
    BY <1>2, <2>1, <2>4, <2>5, ResolvedReachable DEF WalkInv, OnlyReachable
  <2>7. NothingForgotten'
    BY <1>3, <2>1, <2>3, <2>4 DEF WalkInv, NothingForgotten
  <2>8. OnlyReachable'
    BY <1>3, <2>1, <2>3, <2>4, <2>5, <2>6 DEF WalkInv, OnlyReachable
  <2> QED
    BY <2>1, <2>7, <2>8 DEF WalkInv, VerdictGrounded
<1>9. CASE FailToResolve
  <2>1. /\ todo # <<>> /\ ~Resolvable(Head(todo)) /\ verdict' = "reject"
        /\ UNCHANGED <<seen, queue, todo>>
    BY <1>9 DEF FailToResolve
  <2>2. PICK p \in seen : needs[p] # Unreadable /\ Todo \subseteq NeededBy(p)
    BY <2>1 DEF WalkInv, OnlyReachable
  <2>3. ~Sound(p)
    BY <1>5, <2>1, <2>2, UnresolvableUnsound
  <2> QED
    BY <1>3, <2>1, <2>3 DEF WalkInv, NothingForgotten, OnlyReachable, VerdictGrounded
<1>10. CASE Finish
  <2>1. /\ verdict = "pending" /\ todo = <<>> /\ queue = <<>> /\ verdict' = "accept"
        /\ UNCHANGED <<seen, queue, todo>>
    BY <1>10 DEF Finish, Walking
  <2> QED
    BY <1>3, <2>1 DEF WalkInv, NothingForgotten, OnlyReachable, VerdictGrounded
<1>11. CASE UNCHANGED vars
  BY <1>3, <1>11 DEF WalkInv, NothingForgotten, OnlyReachable, VerdictGrounded, vars
<1> QED
  BY <1>6, <1>7, <1>8, <1>9, <1>10, <1>11 DEF Next

\* The walk forgets nothing, never strays from what the program reaches and
\* never gives a verdict without grounds.
THEOREM WalkInvariant == Spec => []WalkInv
  BY TypeCorrect, WalkInit, WalkStep, PTL DEF Spec

\* When nothing is in hand, the invariant makes the inspected set closed.
LEMMA AcceptComplete == WalkInv => AcceptedIsComplete
<1> SUFFICES ASSUME WalkInv, verdict = "accept"
             PROVE  Program \in seen /\ Closed(seen) /\ \A p \in seen : Sound(p)
  BY DEF AcceptedIsComplete
<1>1. Queued = {} /\ Todo = {}
  BY RangeEmpty DEF WalkInv, VerdictGrounded, Queued, Todo
<1>2. \A p \in seen : needs[p] # Unreadable
         /\ \A n \in NeededBy(p) : Resolvable(n) /\ Resolved(n) \in seen
  BY <1>1 DEF WalkInv, NothingForgotten
<1> QED
  BY <1>1, <1>2 DEF WalkInv, NothingForgotten, Closed, Dependencies, Sound

\* Whatever is accepted has its whole DT_NEEDED closure among the inspected,
\* uniquely declared files: the promise of docs/portability.md.
THEOREM AcceptanceComplete == Spec => []AcceptedIsComplete
  BY WalkInvariant, AcceptComplete, PTL

(***************************************************************************)
(* The walk implements the contract.                                       *)
(***************************************************************************)

\* The contract's reading of the layout is the walk's.
LEMMA SameLayout ==
  /\ Contract!LayoutOK = LayoutOK
  /\ \A p : Contract!Sound(p) = Sound(p)
  /\ Contract!Reachable = Reachable
<1>1. Contract!Regular = Regular
  BY DEF Contract!Regular, Regular
<1>2. Contract!LayoutOK = LayoutOK
  BY <1>1 DEF Contract!LayoutOK, LayoutOK, Contract!Tools, Tools, Contract!Entries, Entries
<1>3. ASSUME NEW n
      PROVE  Contract!Resolvable(n) = Resolvable(n) /\ Contract!Resolved(n) = Resolved(n)
  <2>1. Contract!Matches(n) = Matches(n)
    BY DEF Contract!Matches, Matches
  <2>2. Contract!StatsCleanly(n) = StatsCleanly(n)
    BY DEF Contract!StatsCleanly, StatsCleanly, Contract!LauncherStatsCleanly,
           LauncherStatsCleanly, Contract!ValidatorStatsCleanly, ValidatorStatsCleanly
  <2> QED
    BY <2>1, <2>2 DEF Contract!Resolvable, Resolvable, Contract!Resolved, Resolved,
                      Contract!MatchedOnce, MatchedOnce
<1>4. ASSUME NEW p
      PROVE  Contract!Sound(p) = Sound(p) /\ Contract!Dependencies(p) = Dependencies(p)
  <2>1. Contract!NeededBy(p) = NeededBy(p)
    BY DEF Contract!NeededBy, NeededBy, Contract!Range, Range
  <2> QED
    BY <1>3, <2>1 DEF Contract!Sound, Sound, Contract!Dependencies, Dependencies
<1>5. Contract!Reachable = Reachable
  BY <1>1, <1>4 DEF Contract!Reachable, Reachable, Contract!Closed, Closed
<1> QED
  BY <1>2, <1>4, <1>5

\* A step of the walk decides the verdict of the contract, or is a stutter:
\* an acceptance has inspected all the program reaches, a rejection has met
\* an unsound file among it.
LEMMA ContractStep ==
  TypeOK /\ WalkInv /\ WalkInv' /\ [Next]_vars => [Contract!Next]_<<layout, verdict>>
<1> SUFFICES ASSUME TypeOK, WalkInv, WalkInv', [Next]_vars, ~UNCHANGED <<layout, verdict>>
             PROVE  Contract!Next
  OBVIOUS
<1>1. UNCHANGED layout /\ LayoutOK
  BY DEF Next, SkipSeen, Inspect, Resolve, FailToResolve, Finish, vars, TypeOK
<1>2. verdict = "pending" /\ verdict' \in {"accept", "reject"}
  BY <1>1 DEF Next, SkipSeen, Inspect, Resolve, FailToResolve, Finish, vars, Walking
<1>3. Reachable' = Reachable /\ Regular' = Regular /\ \A p : Sound(p)' = Sound(p)
  BY <1>1, LayoutUnchanged
<1>4. CASE verdict' = "reject"
  <2>1. PICK p \in seen' : ~Sound(p)
    BY <1>3, <1>4 DEF WalkInv, VerdictGrounded
  <2>2. p \in Reachable
    BY <1>3, <2>1 DEF WalkInv, OnlyReachable
  <2>3. Contract!Reject
    BY <1>1, <1>2, <1>4, <2>1, <2>2, SameLayout DEF Contract!Reject, Contract!layout, layout
  <2> QED
    BY <2>3 DEF Contract!Next
<1>5. CASE verdict' = "accept"
  <2>1. /\ verdict = "pending" /\ queue = <<>> /\ todo = <<>> /\ seen' = seen
    BY <1>2, <1>5 DEF Next, SkipSeen, Inspect, Resolve, FailToResolve, Finish, vars, Walking
  <2>2. Queued = {} /\ Todo = {}
    BY <2>1, RangeEmpty DEF Queued, Todo
  <2>3. \A p \in seen : needs[p] # Unreadable
          /\ \A n \in NeededBy(p) : Resolvable(n) /\ Resolved(n) \in seen
    BY <2>1, <2>2 DEF WalkInv, NothingForgotten
  <2>4. Program \in seen /\ Closed(seen) /\ \A p \in seen : Sound(p)
    BY <2>2, <2>3 DEF WalkInv, NothingForgotten, Closed, Dependencies, Sound
  <2>5. Reachable \subseteq seen
    BY <2>4, ReachableLeast DEF TypeOK
  <2>6. Contract!Accept
    BY <1>1, <1>2, <1>5, <2>4, <2>5, SameLayout DEF Contract!Accept, Contract!layout, layout
  <2> QED
    BY <2>6 DEF Contract!Next
<1> QED
  BY <1>2, <1>4, <1>5

\* Every behaviour of the walk is one of the contract: it accepts exactly the
\* programs all of whose reachable files are sound.
THEOREM WalkImplementsContract == Spec => ImplementsContract
<1>1. Init => Contract!Init
  BY SameLayout DEF Init, Contract!Init
<1>2. TypeOK /\ WalkInv /\ WalkInv' /\ [Next]_vars => [Contract!Next]_Contract!contractVars
  BY ContractStep DEF Contract!contractVars, Contract!layout, layout
<1> QED
  BY <1>1, <1>2, TypeCorrect, WalkInvariant, PTL DEF Spec, ImplementsContract, Contract!Spec

(***************************************************************************)
(* The loader, on top of the walk.                                         *)
(***************************************************************************)

\* While it validates, nothing is mapped; once the loader runs, the walk has
\* accepted, and mapped files and wanted entries belong to inspected files.
LoadInv ==
  /\ process = "validating" => mapped = {}
  /\ process # "validating" => verdict # "pending"
  /\ mapped # {} => verdict = "accept"
  /\ mapped \subseteq seen
  /\ process = "loading" => verdict = "accept" /\ wanted \subseteq UNION {NeededBy(p) : p \in seen}

LoadIInv == TypeOK /\ WalkInv /\ LoadInv

\* An entry with a unique match is bound to the file the walk resolved.
LEMMA OpenedIsResolved ==
  ASSUME LayoutOK, NEW n, Resolvable(n)
  PROVE  Opened(n) = Resolved(n)
<1>1. PICK i \in Matches(n) : Matches(n) = {i}
  BY DEF Resolvable, MatchedOnce
<1>2. i \in DOMAIN search /\ DOMAIN search \subseteq Nat
  BY <1>1, DeclaredFilesAssumption DEF Matches, LayoutOK
<1>3. FirstMatch(n) = {i}
  BY <1>1, <1>2 DEF FirstMatch
<1>4. (CHOOSE j \in FirstMatch(n) : TRUE) = i
  BY <1>3
<1>5. (CHOOSE j \in DOMAIN search : j \in Matches(n)) = i
  BY <1>1, <1>2
<1>6. Opened(n) = <<search[i], n>>
  BY <1>1, <1>4 DEF Opened, Resolvable
<1> QED
  BY <1>5, <1>6 DEF Resolved

\* Nothing is mapped before the walk has run.
LEMMA LoadInitially == LoadInit => LoadIInv
  BY TypeInit, WalkInit DEF LoadInit, LoadIInv, LoadInv

\* Every step of the walk and of the loader keeps the invariant.
LEMMA LoadStep == LoadIInv /\ [LoadNext]_<<vars, loadVars>> => LoadIInv'
<1> SUFFICES ASSUME LoadIInv, [LoadNext]_<<vars, loadVars>> PROVE LoadIInv'
  OBVIOUS
<1>1. TypeOK /\ WalkInv /\ LoadInv
  BY DEF LoadIInv
<1>2. [Next]_vars
  BY DEF LoadNext, Validate, GiveUp, Exec, Bind, Run, Abort
<1>3. TypeOK' /\ WalkInv'
  BY <1>1, <1>2, TypeStep, WalkStep
<1>4. LoadInv'
  <2>1. CASE Validate
    BY <1>1, <2>1 DEF Validate, LoadInv, loadVars
  <2>2. ASSUME UNCHANGED vars
        PROVE  /\ verdict' = verdict /\ seen' = seen
               /\ \A p : NeededBy(p)' = NeededBy(p)
    BY <2>2, LayoutUnchanged DEF vars
  <2>3. CASE GiveUp
    BY <1>1, <2>2, <2>3 DEF GiveUp, LoadInv
  <2>4. CASE Exec
    <3>1. Program \in seen
      BY <1>1, <2>4, AcceptComplete DEF Exec, AcceptedIsComplete
    <3> QED
      BY <1>1, <2>2, <2>4, <3>1 DEF Exec, LoadInv
  <2>5. ASSUME NEW n \in wanted, Bind(n)
        PROVE  LoadInv'
    <3>1. verdict = "accept" /\ process = "loading"
      BY <1>1, <2>5 DEF Bind, LoadInv
    <3>2. PICK p \in seen : n \in NeededBy(p)
      BY <1>1, <2>5, <3>1 DEF LoadInv
    <3>3. Closed(seen) /\ Sound(p)
      BY <1>1, <3>1, AcceptComplete DEF AcceptedIsComplete
    <3>4. Resolvable(n) /\ Resolved(n) \in seen
      BY <3>2, <3>3 DEF Closed, Sound, Dependencies
    <3>5. Opened(n) \in seen
      BY <1>1, <3>4, OpenedIsResolved DEF TypeOK
    <3>6. wanted' \subseteq UNION {NeededBy(q) : q \in seen}
      BY <1>1, <2>5, <3>1, <3>5 DEF Bind, LoadInv
    <3> QED
      BY <1>1, <2>2, <2>5, <3>1, <3>5, <3>6 DEF Bind, LoadInv
  <2>6. CASE Run
    BY <1>1, <2>2, <2>6 DEF Run, LoadInv
  <2>7. CASE Abort
    BY <1>1, <2>2, <2>7 DEF Abort, LoadInv
  <2>8. CASE UNCHANGED <<vars, loadVars>>
    BY <1>1, <2>2, <2>8 DEF LoadInv, loadVars
  <2> QED
    BY <2>1, <2>3, <2>4, <2>5, <2>6, <2>7, <2>8 DEF LoadNext
<1> QED
  BY <1>3, <1>4 DEF LoadIInv

\* A validated program maps inspected files only, never the host's.
THEOREM NoHostLookup == LoadSpec => []OnlyInspectedMapped
<1>1. LoadIInv => OnlyInspectedMapped
  BY DEF LoadIInv, LoadInv, OnlyInspectedMapped
<1> QED
  BY <1>1, LoadInitially, LoadStep, PTL DEF LoadSpec

\* What the loader has mapped wants to be bound, what is bound is mapped, and
\* a program runs when nothing is left to bind.
BoundInv ==
  /\ process \in {"loading", "running"} =>
       /\ verdict = "accept"
       /\ Program \in mapped
       /\ \A p \in mapped \ {Host} : NeededBy(p) \subseteq wanted
       /\ \A n \in bound : Opened(n) \in mapped
  /\ process = "validating" => bound = {}
  /\ process = "running" => wanted \subseteq bound

\* Every step keeps the books of the loader.
LEMMA BoundStep ==
  LoadIInv /\ BoundInv /\ [LoadNext]_<<vars, loadVars>> => BoundInv'
<1> SUFFICES ASSUME LoadIInv, BoundInv, [LoadNext]_<<vars, loadVars>> PROVE BoundInv'
  OBVIOUS
<1>1. ASSUME UNCHANGED vars
      PROVE  verdict' = verdict /\ \A p : NeededBy(p)' = NeededBy(p) /\ Opened(p)' = Opened(p)
  <2>1. layout' = layout
    BY <1>1 DEF vars
  <2> QED
    BY <1>1, <2>1, LayoutUnchanged DEF vars, Opened, FirstMatch, Matches, layout
<1>2. CASE Validate
  BY <1>2 DEF Validate, BoundInv, loadVars
<1>3. CASE GiveUp
  BY <1>3 DEF GiveUp, BoundInv
<1>4. CASE Exec
  BY <1>1, <1>4 DEF Exec, BoundInv
<1>5. ASSUME NEW n \in wanted, Bind(n) PROVE BoundInv'
  <2>1. /\ process = "loading" /\ process' = "loading"
        /\ mapped' = mapped \cup {Opened(n)} /\ bound' = bound \cup {n}
        /\ wanted \subseteq wanted'
        /\ Opened(n) # Host => NeededBy(Opened(n)) \subseteq wanted'
    BY <1>5 DEF Bind
  <2>2. UNCHANGED vars
    BY <1>5 DEF Bind
  <2> QED
    BY <1>1, <2>1, <2>2 DEF BoundInv
<1>6. CASE Run \/ Abort
  BY <1>1, <1>6 DEF Run, Abort, BoundInv
<1>7. CASE UNCHANGED <<vars, loadVars>>
  BY <1>1, <1>7 DEF BoundInv, loadVars
<1> QED
  BY <1>2, <1>3, <1>4, <1>5, <1>6, <1>7 DEF LoadNext

\* A program that runs has mapped exactly the closure that was inspected.
THEOREM WholeClosureLoaded == LoadSpec => []RunsWithWholeClosure
<1>1. LoadInit => BoundInv
  BY DEF LoadInit, BoundInv
<1>2. LoadIInv /\ BoundInv => RunsWithWholeClosure
  <2> SUFFICES ASSUME LoadIInv, BoundInv, process = "running" PROVE mapped = seen
    BY DEF RunsWithWholeClosure
  <2>1. /\ TypeOK /\ WalkInv /\ mapped \subseteq seen
        /\ verdict = "accept" /\ Program \in mapped
    BY DEF LoadIInv, LoadInv, BoundInv
  <2>2. seen \subseteq Regular /\ seen \subseteq Reachable /\ \A p \in seen : Sound(p)
    BY <2>1, AcceptComplete DEF TypeOK, WalkInv, OnlyReachable, AcceptedIsComplete
  <2>3. Host \notin seen
    BY <2>2, HostAssumption DEF Regular
  <2>4. Closed(mapped)
    <3> SUFFICES ASSUME NEW p \in mapped, NEW n \in NeededBy(p), Resolvable(n)
                 PROVE  Resolved(n) \in mapped
      BY DEF Closed, Dependencies
    <3>1. n \in bound
      BY <2>1, <2>3 DEF BoundInv
    <3>2. Opened(n) = Resolved(n)
      BY <2>1, OpenedIsResolved DEF TypeOK
    <3> QED
      BY <3>1, <3>2 DEF BoundInv
  <2>5. Reachable \subseteq mapped
    BY <2>1, <2>2, <2>4, ReachableLeast
  <2> QED
    BY <2>1, <2>2, <2>5
<1> QED
  BY <1>1, <1>2, LoadInitially, LoadStep, BoundStep, PTL DEF LoadSpec
=============================================================================
