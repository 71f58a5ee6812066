SPECIFICATION Spec
CONSTANTS
  Texts = {c1}
  MaxPlaces = 0
  Projects = {q1}
  None = None
  Threads = {t1, t2}
  LocksOuterJoins = FALSE
  HandlersDie = FALSE
  MaxNumber = 2
  MaxRequests = 5
SYMMETRY Interchangeable
PROPERTIES ModerationDecides
CHECK_DEADLOCK FALSE
