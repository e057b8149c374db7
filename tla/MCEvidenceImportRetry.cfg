SPECIFICATION FairSpec
CONSTANTS
  p1 = p1
  p2 = p2
  Projects = {p1, p2}
  Contents = {a}
  a = a
  MaxFaults = 0
  None = None
  Negative = Negative
PROPERTY RetrySucceeds
