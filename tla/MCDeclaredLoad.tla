--------------------------- MODULE MCDeclaredLoad ---------------------------
(* Two directories that may both hold a library, or one that is listed       *)
(* twice, two library names that may need each other, and a malformed entry. *)
EXTENDS DeclaredLoad

CONSTANTS d1, d2, a, b, slash

MCSearches == {<<d1, d2>>, <<d1, d1>>}
MCNeedLists == {<<>>, <<a>>, <<b, a>>, <<a, slash>>}
=============================================================================
