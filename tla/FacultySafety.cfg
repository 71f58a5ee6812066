SPECIFICATION FairSpec
CONSTANTS
  Null = Null
  Gone = Gone
  Persons = {f1, f2}
  Publications = {b1}
  Projects = {j1}
  Profiles <- MCProfiles
  InitialProfile <- MCInitialProfile
  Supervisors <- MCSupervisors
  CoursesOf <- MCCoursesOf
  TheTeacher = f2
  Movers = {f1}
  AuthorLists = {{f1, f2}, {f1}}
  MaxChanges = 1
  MaxEvents = 8
  MaxReplays = 0
  MaxDeaths = 1
INVARIANTS
  TypeOK
  OneFacultyEdge
  MirrorIsAnnounced
PROPERTY
  MirrorConverges
CHECK_DEADLOCK FALSE
