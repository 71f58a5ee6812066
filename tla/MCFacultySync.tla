---------------------------- MODULE MCFacultySync ----------------------------
(***************************************************************************)
(* FacultySync for TLC: two persons, a publication of both, a course and   *)
(* a project whose supervisor is known by mail or by unit.                 *)
(***************************************************************************)
EXTENDS FacultySync, TLC
CONSTANT TheTeacher
ByTheMail == [name |-> "ivanov", mail |-> "m", unit |-> "u", campus |-> "msk", interests |-> {"ml"}]
ByTheUnit == [name |-> "petrov", mail |-> Null, unit |-> "w", campus |-> Null, interests |-> {}]
MCProfiles == {ByTheMail, ByTheUnit}
MCInitialProfile == [f \in Persons |-> IF f = TheTeacher THEN ByTheUnit ELSE ByTheMail]
MCSupervisors == {Null, [name |-> "ivanov", mail |-> "m", unit |-> Null],
                        [name |-> "petrov", mail |-> Null, unit |-> "w"]}
MCCoursesOf == [f \in Persons |-> IF f = TheTeacher THEN {"course"} ELSE {}]
=============================================================================
