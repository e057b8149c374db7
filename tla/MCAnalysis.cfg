SPECIFICATION FairSpec
CONSTANTS
  c1 = c1
  c2 = c2
  p1 = p1
  h1 = h1
  Calls = {c1, c2}
  Parents = {p1}
  ParentOf <- MCParentOf
  Codes = {h1}
  CodeOf <- MCCodeOf
  Refs = {"decompiled", "opaque"}
  None = None
  MaxFaults = 1
  Slots = {1}
  Free = Free
  MaxLosses = 1
INVARIANTS
  ToldIsStored
  IndInv
PROPERTIES
  NeverForgotten
  EveryCallEnds
  SlotsReturn
