------------------------------ MODULE MCCatalog ------------------------------
(***************************************************************************)
(* Catalog for TLC: a student, a customer who owns both projects, a        *)
(* moderator and a visitor; two workers.                                   *)
(***************************************************************************)
EXTENDS Catalog, TLC
CONSTANTS student, customer, moderator, visitor, python, d1, d2

Symmetry == Permutations(Workers)
MCRole == student :> "student" @@ customer :> "customer" @@ moderator :> "staff"
          @@ visitor :> "none"
MCOwner == [p \in Projects |-> customer]
MCWords == 1 :> {python} @@ 2 :> {}
MCInitialStatus == 1 :> "published" @@ 2 :> "draft"
MCInitialProfile ==
  [u \in Users |-> [interests |-> IF u = student THEN {python} ELSE {}, favourites |-> {}]]
\* The second can be written once the first, which has its slug, is gone.
MCSlugOf == [n \in Notices |-> d1]
MCInitialNotice ==
  [n \in Notices |-> [state |-> IF n = d1 THEN "live" ELSE "free",
                      audience |-> "student", active |-> TRUE]]
=============================================================================
