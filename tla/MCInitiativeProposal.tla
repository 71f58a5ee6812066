------------------------ MODULE MCInitiativeProposal ------------------------
(* Small instances of InitiativeProposal for TLC.                          *)
EXTENDS InitiativeProposal, TLC

Interchangeable ==
  Permutations(Threads) \union Permutations(Texts) \union Permutations(Projects)
=============================================================================
