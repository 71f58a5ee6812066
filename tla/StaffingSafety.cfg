\* Two request threads, an initiative project and an imported one, every kind of
\* request.
SPECIFICATION Spec
CONSTANTS
  Projects = {p1, p2}
  Applications = {a1, a2}
  Students = {s1, s2}
  None = None
  Threads = {t1, t2}
  Initiative = {p1}
  Imported = {p2}
  TeamSizes = {0, 1, 2}
  ImportStatuses = {"draft", "published"}
  Requests = {"create", "publish", "archive", "submit", "moderate", "review", "update", "edit", "delete", "apply", "withdraw", "remove", "rewrite", "import"}
  HandlersDie = TRUE
  MaxRequests = 6
SYMMETRY Interchangeable
INVARIANTS
  TypeOK
  CatalogIsCleared
  DecisionsAreReviewed
  ShownCountWasTrue
  SettledBetweenRequests
CHECK_DEADLOCK FALSE

