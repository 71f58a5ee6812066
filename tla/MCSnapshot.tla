----------------------------- MODULE MCSnapshot -----------------------------
(***************************************************************************)
(* Snapshot for TLC: a project and one application to it, which two        *)
(* handlers change while snapshots are taken.                              *)
(***************************************************************************)
EXTENDS Snapshot, TLC
CONSTANTS p1, a1

Symmetry == Permutations(Handlers)
MCResource == p1 :> "projects" @@ a1 :> "applications"
MCKeys == Changes
=============================================================================
