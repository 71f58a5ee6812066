SPECIFICATION SnapshotSpec
CONSTANTS
  p1 = p1
  a1 = a1
  Rows = {p1, a1}
  Resource <- MCResource
  Keys <- MCKeys
  NoKey = NoKey
  Threads = {}
  Handlers = {h1, h2}
  Requested = {{"projects", "applications"}, {"projects"}}
  MaxWrites = 2
  MaxId = 3
  Limit = 1
SYMMETRY Symmetry
INVARIANTS
  SnapshotCovers
CHECK_DEADLOCK FALSE
