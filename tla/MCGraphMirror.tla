---------------------------- MODULE MCGraphMirror ----------------------------
(***************************************************************************)
(* GraphMirror for TLC: a project, an application and a student whose      *)
(* profile has another primary key than the user.                          *)
(***************************************************************************)
EXTENDS GraphMirror, TLC
MCContents == {[supervisor |-> "mentor", tags |-> {"python"}],
               [supervisor |-> Null, tags |-> {}]}
MCInterestSets == {{"python"}}
MCProfileId == [u \in Users |-> u + 1]
Symmetry == Permutations(Threads)
=============================================================================
