---------------------------- MODULE MCRegistration ----------------------------
(***************************************************************************)
(* Registration for TLC: one external and, if asked for, one corporate     *)
(* address.                                                                *)
(***************************************************************************)
EXTENDS Registration, TLC
Symmetry == Permutations(Handlers)
=============================================================================
