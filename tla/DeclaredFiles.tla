---------------------------- MODULE DeclaredFiles ----------------------------
(***************************************************************************)
(* What the two closure validators look at: the declared library           *)
(* directories, the directory entries a DT_NEEDED basename can meet there, *)
(* and the dependency list of every file that can be opened.               *)
(*                                                                         *)
(* src/tools/runtime_launcher/main.go (declaredLibrary) and                *)
(* src/tools/fips_artifact_validator/main.go (declaredRuntimeLibrary) are  *)
(* two copies of one lookup that differ in how they treat a stat error.    *)
(***************************************************************************)
EXTENDS Naturals, Sequences, Functions

CONSTANTS
  Dirs,       \* declared library directories
  Names,      \* DT_NEEDED entries that are basenames
  PathNames,  \* DT_NEEDED entries that are empty or contain "/" or NUL
  Program,    \* the file whose closure is validated
  Searches,   \* the library paths considered, sequences over Dirs
  NeedLists,  \* the DT_NEEDED lists considered, sequences over the entries
  Unreadable  \* the file is not an ELF file, or its dependencies are unreadable

ASSUME DeclaredFilesAssumption ==
  /\ Searches \subseteq Seq(Dirs)
  /\ NeedLists \subseteq Seq(Names \cup PathNames)
  /\ Names \cap PathNames = {}
  /\ Unreadable \notin NeedLists
  /\ Program \notin Dirs \X Names

VARIABLES
  tool,    \* which copy of the lookup runs
  search,  \* the library path: a sequence of directories, repeats allowed
  entry,   \* what stat reports for <<directory, name>>
  needs    \* what elf.Open and ImportedLibraries report for a regular file

layout == <<tool, search, entry, needs>>

Tools == {"runtime_launcher", "fips_artifact_validator"}
Entries == {"absent", "regular", "other", "unstatable"}
Regular == {Program} \cup {p \in Dirs \X Names : entry[p] = "regular"}

LayoutOK ==
  /\ tool \in Tools
  /\ search \in Searches
  /\ entry \in [Dirs \X Names -> Entries]
  /\ needs \in [Regular -> NeedLists \cup {Unreadable}]

-----------------------------------------------------------------------------
(* The lookup of one DT_NEEDED entry.                                      *)

\* Mutation: the IsRegular check is gone.
Matches_AnyEntry(n) == {i \in DOMAIN search : entry[<<search[i], n>>] # "absent"}

\* The positions of the library path that hold a regular file of this name:
\* a directory listed twice counts twice.
Matches(n) == {i \in DOMAIN search : entry[<<search[i], n>>] = "regular"}

\* runtime_launcher: any stat failure other than ENOENT fails the lookup.
LauncherStatsCleanly(n) ==
  \A i \in DOMAIN search : entry[<<search[i], n>>] # "unstatable"

\* fips_artifact_validator: fileExists reads every stat failure as absence.
ValidatorStatsCleanly(n) == TRUE

StatsCleanly(n) ==
  \/ tool = "runtime_launcher" /\ LauncherStatsCleanly(n)
  \/ tool = "fips_artifact_validator" /\ ValidatorStatsCleanly(n)

\* len(matches) == 1
MatchedOnce(n) == \E i \in Matches(n) : Matches(n) = {i}

Resolvable(n) == n \in Names /\ StatsCleanly(n) /\ MatchedOnce(n)

Resolved(n) == <<search[CHOOSE i \in DOMAIN search : i \in Matches(n)], n>>

-----------------------------------------------------------------------------
(* The dependency graph the lookup induces.                                *)

NeededBy(p) == IF needs[p] = Unreadable THEN {} ELSE Range(needs[p])

Sound(p) == needs[p] # Unreadable /\ \A n \in NeededBy(p) : Resolvable(n)

Dependencies(p) == {Resolved(n) : n \in {m \in NeededBy(p) : Resolvable(m)}}

Closed(S) == \A p \in S : Dependencies(p) \subseteq S

\* The files the program reaches: those in every closed set that holds it.
Reachable ==
  {p \in Regular : \A S \in SUBSET Regular : Program \in S /\ Closed(S) => p \in S}
=============================================================================
