SPECIFICATION FairSpec
CONSTANTS
  Projects = {p1, p2}
  Contents = {a, b}
  MaxFaults = 2
  None = None
  Negative = Negative
INVARIANTS
  OutcomeTrue
  WaitsEnd
PROPERTIES
  EvidenceStands
  EveryImportEnds
