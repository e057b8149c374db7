SPECIFICATION FairSpec
CONSTANTS
  t1 = t1
  t2 = t2
  t3 = t3
  selectionA = selectionA
  selectionB = selectionB
  low = low
  Jobs = {t1, t2, t3}
  Fingerprint <- MCFingerprint
  Effort <- MCEffort
  Reset = {t3}
  NoKey = NoKey
  NoRow = NoRow
  Limit = 1
  MaxLive = 1
  MaxCrashes = 1
  MaxAborts = 1
INVARIANTS
  IndInv
  NeverStale
  TurnsOnce
PROPERTIES
  LeftIsSkipped
  KeepsLanes
  EveryTurnEnds
