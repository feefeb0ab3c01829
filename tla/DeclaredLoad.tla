---------------------------- MODULE DeclaredLoad ----------------------------
(***************************************************************************)
(* The launcher's main: validate the closure, then exec the declared       *)
(* loader on the same program and library path; with the other copy of the *)
(* walk, the verdict is all that follows.  The loader is external;         *)
(* it maps the program, binds each DT_NEEDED entry once, by name, to the   *)
(* first file of the library path that it can open, and looks beyond the   *)
(* library path for what is not there: its default directories and entries *)
(* that are paths are the Host's.  It may also give up at any point.       *)
(***************************************************************************)
EXTENDS ElfClosure

CONSTANTS Host  \* any file that is not a declared one

ASSUME HostAssumption == Host \notin {Program} \cup (Dirs \X Names)

VARIABLES
  process,  \* "validating", "loading", "running", "exit78" or "aborted"
  mapped,   \* files mapped into the process
  bound,    \* entries already bound to a mapped file
  wanted    \* entries of mapped files not bound yet

loadVars == <<process, mapped, bound, wanted>>

LoadInit ==
  /\ Init
  /\ process = "validating"
  /\ mapped = {}
  /\ bound = {}
  /\ wanted = {}

Validate ==
  /\ process = "validating"
  /\ Next
  /\ UNCHANGED loadVars

\* A validation error ends the launcher with status 78, and so does exec's.
GiveUp ==
  /\ tool = "runtime_launcher"
  /\ process = "validating"
  /\ verdict # "pending"
  /\ process' = "exit78"
  /\ UNCHANGED <<vars, mapped, bound, wanted>>

\* Mutation: the validation error is reported and ignored.
Exec_AfterRejection ==
  /\ tool = "runtime_launcher"
  /\ process = "validating"
  /\ verdict # "pending"
  /\ process' = "loading"
  /\ mapped' = {Program}
  /\ wanted' = NeededBy(Program)
  /\ UNCHANGED <<vars, bound>>

\* exec of the loader, with --library-path set to the validated directories.
Exec ==
  /\ tool = "runtime_launcher"
  /\ process = "validating"
  /\ verdict = "accept"
  /\ process' = "loading"
  /\ mapped' = {Program}
  /\ wanted' = NeededBy(Program)
  /\ UNCHANGED <<vars, bound>>

FirstMatch(n) == {i \in Matches(n) : \A j \in Matches(n) : i <= j}

\* The file the loader opens for an entry.
Opened(n) ==
  IF n \in Names /\ Matches(n) # {}
  THEN <<search[CHOOSE i \in FirstMatch(n) : TRUE], n>>
  ELSE Host

Bind(n) ==
  /\ process = "loading"
  /\ n \in wanted \ bound
  /\ bound' = bound \cup {n}
  /\ mapped' = mapped \cup {Opened(n)}
  /\ wanted' = wanted \cup (IF Opened(n) = Host THEN {} ELSE NeededBy(Opened(n)))
  /\ UNCHANGED <<vars, process>>

Run ==
  /\ process = "loading"
  /\ wanted \subseteq bound
  /\ process' = "running"
  /\ UNCHANGED <<vars, mapped, bound, wanted>>

Abort ==
  /\ process = "loading"
  /\ process' = "aborted"
  /\ UNCHANGED <<vars, mapped, bound, wanted>>

LoadNext ==
  \/ Validate \/ GiveUp \/ Exec
  \/ \E n \in wanted : Bind(n)
  \/ Run \/ Abort

LoadSpec == LoadInit /\ [][LoadNext]_<<vars, loadVars>>

\* The walk is sequential code with no blocking call: it keeps running.  Of the
\* loader nothing is assumed.
FairLoadSpec == LoadSpec /\ WF_vars(Next)

-----------------------------------------------------------------------------
\* The loader maps nothing but the files the launcher inspected, so it never
\* looks a library up on the host (docs/portability.md:78), although it picks
\* by first match and the launcher by unique match.
OnlyInspectedMapped == mapped \subseteq seen

\* A program that runs has mapped the whole closure that was inspected.
RunsWithWholeClosure == process = "running" => mapped = seen
=============================================================================
