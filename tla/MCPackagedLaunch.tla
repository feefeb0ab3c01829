--------------------------- MODULE MCPackagedLaunch ---------------------------
(* Configurations that differ in what the properties tell apart: one or two *)
(* copies from the release, a copy that reads the state an earlier deployment *)
(* left, two copies to one destination, a copy of the generated file, a     *)
(* destination outside the root, destinations below it whose links lead     *)
(* outside or into the release, and a release with a part missing.          *)
EXTENDS PackagedLaunch

CONSTANTS p1, p2, conf, sys, vm, rel, etc

From(s, d) == [source |-> s, destination |-> d, below |-> d \in {conf, sys, vm}]
Linked(s, d) == [source |-> s, destination |-> d, below |-> TRUE]
Config(a, cs) == [intact |-> TRUE, activation |-> a, copies |-> cs]

MCConfigs ==
  {Config(TRUE, <<From(rel, sys)>>),
   Config(TRUE, <<From(rel, sys), From(rel, vm)>>),
   Config(FALSE, <<From(rel, sys), From(sys, vm)>>),
   Config(TRUE, <<From(vm, sys), From(rel, sys)>>),
   Config(TRUE, <<From(vm, sys), From(sys, vm)>>),
   Config(TRUE, <<From(rel, sys), From(conf, vm)>>),
   Config(TRUE, <<From(rel, sys), From(rel, etc)>>),
   Config(TRUE, <<Linked(rel, etc)>>),
   Config(FALSE, <<Linked(vm, rel), From(rel, sys)>>),
   [intact |-> FALSE, activation |-> TRUE, copies |-> <<>>]}
=============================================================================
