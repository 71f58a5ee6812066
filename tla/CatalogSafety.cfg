SPECIFICATION Spec
CONSTANTS
  student = student
  customer = customer
  moderator = moderator
  visitor = visitor
  python = python
  d1 = d1
  d2 = d2
  Workers = {w1, w2}
  Users = {student, customer, moderator, visitor}
  Projects = {1, 2}
  IdSets = {{1}}
  InterestSets = {{}, {python}}
  Active = {student, moderator}
  InitialProfile <- MCInitialProfile
  Notices = {d1, d2}
  NewAudiences = {"student"}
  InitialNotice <- MCInitialNotice
  SlugOf <- MCSlugOf
  Role <- MCRole
  Owner <- MCOwner
  Confirmed = {1, 2}
  Words <- MCWords
  InitialStatus <- MCInitialStatus
  StatusMoves = {"staffed", "on_moderation", "gone"}
  SearchLimit = 2
  RecommendedCount = 1
  CacheTTL = 1
  RemoteTicks = 1
  MaxRequests = 2
  MaxMoves = 1
  MaxTicks = 3
SYMMETRY Symmetry
INVARIANTS
  TypeOK
  ShownWasPublic
  RequestsAreKept
  SurfacesAgree
CHECK_DEADLOCK FALSE
