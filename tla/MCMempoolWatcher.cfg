SPECIFICATION WatcherFairSpec
CONSTANTS
  Txs = {t1}
  Polls = {p1, p2}
  Retention = 2
  MaxTime = 5
  MaxFaults = 2
  None = None
INVARIANTS
  PrivateIsTrue
PROPERTIES
  WatchResumes
