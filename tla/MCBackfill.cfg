SPECIFICATION BackfillFairSpec
CONSTANTS
  r1 = r1
  r2 = r2
  r3 = r3
  Requests = {r1, r2, r3}
  From <- MCFrom
  To <- MCTo
  NoRun = NoRun
  Overlapping = FALSE
  MaxFailures = 2
  MaxDbErrors = 1
  MaxStops = 1
INVARIANTS
  BackfillIndInv
  StatusTrue
  DoneMeansCovered
PROPERTIES
  StopStands
  RequestServed
