--------------------------- MODULE MCGroupComposer --------------------------
(* Small instances of GroupComposer. *)
EXTENDS GroupComposer, TLC

CONSTANTS g1, g2, ann, n1, n2

Symmetric == Permutations(Groups) \cup Permutations(Names)
=============================================================================
