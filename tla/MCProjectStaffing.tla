-------------------------- MODULE MCProjectStaffing --------------------------
(* Small instances of ProjectStaffing for TLC.                             *)
EXTENDS ProjectStaffing, TLC

Interchangeable ==
  Permutations(Threads) \union Permutations(Applications) \union Permutations(Students)
=============================================================================
