SPECIFICATION Spec
CONSTANTS
  j1 = j1
  j2 = j2
  j3 = j3
  j4 = j4
  sessionA = sessionA
  sessionB = sessionB
  Jobs = {j1, j2, j3, j4}
  Keys = {sessionA, sessionB}
  NoKey = NoKey
  KeyOf <- MCKeyOf
  Limit = 2
INVARIANTS
  IndInv
  DrainIsLoop
PROPERTIES
  ImplementsLanes
