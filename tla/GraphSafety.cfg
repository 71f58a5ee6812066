SPECIFICATION Spec
CONSTANTS
  Null = Null
  New = New
  Deleted = Deleted
  Projects = {p1}
  Applications = {a1}
  Users = {1}
  Contents <- MCContents
  InterestSets <- MCInterestSets
  ProfileId <- MCProfileId
  Threads = {t1, t2}
  MaxEvents = 3
  MaxReplays = 1
  MaxDeaths = 1
SYMMETRY Symmetry
INVARIANTS
  GraphShowsLastEvents
CHECK_DEADLOCK FALSE
