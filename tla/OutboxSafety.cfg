\* The poller and one HTTP caller, commits in any order, replays from anywhere.
SPECIFICATION Spec
CONSTANTS
  a1 = a1
  Keys = {k1, k2, k3}
  NoKey = NoKey
  Threads = {t1, t2}
  MaxId = 3
  Limit = 2
  Poller = poller
  Callers = {caller}
  NoThread = NoThread
  Aggregates = {a1}
  Subject <- OneProject
  ReplayFrom = {2}
  MaxTimeouts = 1
  MaxFailures = 1
  MaxDirects = 0
SYMMETRY Interchangeable
INVARIANTS
  TypeOK
  NothingSkipped
  MirrorNeverAhead
PROPERTIES
  CheckpointNeverRegresses
  DeliversAtLeastOnce
CHECK_DEADLOCK FALSE
