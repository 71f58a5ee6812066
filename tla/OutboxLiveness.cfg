\* The poller alone: two timeouts, one failed projection or restart, one event
\* applied beside the feed.
SPECIFICATION FairSpec
CONSTANTS
  a1 = a1
  Keys = {k1, k2}
  NoKey = NoKey
  Threads = {t1, t2}
  MaxId = 2
  Limit = 2
  Poller = poller
  Callers = {}
  NoThread = NoThread
  Aggregates = {a1}
  Subject <- OneProject
  ReplayFrom = {}
  MaxTimeouts = 2
  MaxFailures = 1
  MaxDirects = 1
PROPERTIES
  EveryEventIsAcked
  IndexSurvivesOneFault
CHECK_DEADLOCK FALSE
