SPECIFICATION FairSpec
CONSTANTS
  h1 = h1
  h2 = h2
  Heads = {h1, h2}
  First <- MCFirst
  Callers = {p1, p2}
  QueueSize = 1
  BatchSize = 2
  MaxVersions = 3
  MaxCalls = 3
  MaxFaults = 1
INVARIANTS
  IInv
  BaselineMends
PROPERTIES
  EndsRecordedOrMissed
CHECK_DEADLOCK FALSE
