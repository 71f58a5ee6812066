\* Concurrent inserts that commit in another order than their ids.
SPECIFICATION Spec
CONSTANTS
  a1 = a1
  Keys = {k1, k2}
  NoKey = NoKey
  Threads = {t1, t2}
  MaxId = 3
  Limit = 2
  Poller = poller
  Callers = {}
  NoThread = NoThread
  Aggregates = {a1}
  Subject <- OneProject
  ReplayFrom = {}
  MaxTimeouts = 0
  MaxFailures = 0
  MaxDirects = 0
INVARIANT
  EverythingDelivered
CHECK_DEADLOCK FALSE
