SPECIFICATION FairSpec
CONSTANTS
  all = all
  app = app
  newer = newer
  evidence = evidence
  explorer = explorer
  agent = agent
  trace = trace
  m1 = m1
  m2 = m2
  old = old
  new = new
  Slots = {all, app, newer, evidence}
  Processes = {explorer, agent, trace}
  ProcessOf <- MCProcessOf
  Ids = {m1, m2}
  Steps <- MCSteps
  Checksums = {old, new}
  SumOf <- MCSumOf
  None = None
  MaxFaults = 2
INVARIANTS
  ReadyIsMigrated
  IndInv
PROPERTIES
  KeepsLedger
  RunsEnd
