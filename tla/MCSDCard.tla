------------------------------ MODULE MCSDCard ------------------------------
(* Identifiers are only compared with each other, and so are values.       *)
EXTENDS SDCard, TLC

Symmetry == Permutations(Ids) \cup Permutations(Values)
=============================================================================
