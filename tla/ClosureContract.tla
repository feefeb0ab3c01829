--------------------------- MODULE ClosureContract ---------------------------
(***************************************************************************)
(* What a closure validator promises, without how it walks: one verdict,   *)
(* "accept" exactly when every file the program reaches is a readable ELF  *)
(* file each of whose DT_NEEDED entries names exactly one declared file.   *)
(***************************************************************************)
EXTENDS DeclaredFiles

VARIABLE verdict  \* "pending", then "accept" or "reject"

contractVars == <<layout, verdict>>

Init ==
  /\ LayoutOK
  /\ verdict = "pending"

Accept ==
  /\ verdict = "pending"
  /\ \A p \in Reachable : Sound(p)
  /\ verdict' = "accept"
  /\ UNCHANGED layout

Reject ==
  /\ verdict = "pending"
  /\ \E p \in Reachable : ~Sound(p)
  /\ verdict' = "reject"
  /\ UNCHANGED layout

Next == Accept \/ Reject

Spec == Init /\ [][Next]_contractVars
=============================================================================
