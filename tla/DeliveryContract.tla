--------------------------- MODULE DeliveryContract ---------------------------
(***************************************************************************)
(* What a build step promises, whatever its mode: a run reports success    *)
(* only when it has everything it was asked for, and while it runs it      *)
(* takes nothing back.  foreign_build_driver and fips_artifact_validator   *)
(* implement it.                                                           *)
(***************************************************************************)

VARIABLES
  outcome,  \* of the current or the last run
  asked,    \* what the current run was asked for: outputs, facts to establish
  have      \* what stands as asked, from this run

contractVars == <<outcome, asked, have>>

Init == outcome = "none"

\* A new run may be asked for other things, and find none of them.
Begin ==
  /\ outcome # "running"
  /\ outcome' = "running"

Keep ==
  /\ outcome = "running"
  /\ have \subseteq have'
  /\ UNCHANGED asked

Advance == Keep /\ UNCHANGED outcome

\* The step that completes a run may be the one that ends it.
Succeed == Keep /\ asked \subseteq have' /\ outcome' = "success"

\* An error is reported or the run is killed; what stands may still be sound.
Fail == Keep /\ outcome' = "failure"

Next == Begin \/ Advance \/ Succeed \/ Fail

Spec == Init /\ [][Next]_contractVars
=============================================================================
