SPECIFICATION MCSpec
CONSTANTS
  p1 = p1
  p2 = p2
  t1 = t1
  t2 = t2
  Projects = {p1, p2}
  Tabs = {t1, t2}
  Snaps = {1, 2}
  TimeOf <- MCTimeOf
  Ids = {1, 2}
  MaxFaults = 1
  MaxReorgs = 1
  None = None
INVARIANTS
  IndInv
  ReadyIsOnDisk
  ToldTogether
PROPERTIES
  BecomesReady
