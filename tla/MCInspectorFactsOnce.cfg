SPECIFICATION Spec
CONSTANTS
  view = view
  fill = fill
  head = head
  b1 = b1
  b2 = b2
  Blocks = {b1, b2}
  BlockOf <- MCBlockOf
  None = None
  Callers = {view, fill, head}
  Background = {fill, head}
  MaxFailures = 0
  MaxCrashes = 0
INVARIANTS
  FactsOnce
