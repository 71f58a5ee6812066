SPECIFICATION Spec
CONSTANTS
  Texts = {c1, c2}
  MaxPlaces = 1
  Projects = {q1, q2}
  None = None
  Threads = {t1, t2, t3}
  LocksOuterJoins = TRUE
  HandlersDie = TRUE
  MaxNumber = 3
  MaxRequests = 9
SYMMETRY Interchangeable
INVARIANTS TypeOK WaitingHasPending PublishedAsSubmitted OneLiveProject
PROPERTIES DecisionsStand
CHECK_DEADLOCK FALSE
