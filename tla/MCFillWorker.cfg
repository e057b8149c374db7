SPECIFICATION FairSpec
CONSTANTS
  Floor = 0
  Confirmations = 1
  ScanWindow = 2
  MaxCatchup = 1
  FirstHead = 3
  LastHead = 5
  Lag = 1
  MaxFailures = 1
  MaxDbErrors = 1
  MaxCrashes = 1
INVARIANTS
  IndInv
  PassComplete
PROPERTIES
  CorpusFilled
