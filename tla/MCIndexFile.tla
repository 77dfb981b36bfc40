---------------------------- MODULE MCIndexFile ----------------------------
(* Processes that build an index differ in nothing but their names.         *)
EXTENDS IndexFile, TLC

Symmetry == Permutations(Builders)
=============================================================================
