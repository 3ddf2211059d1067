SPECIFICATION Spec
CONSTANTS
  Nobody = Nobody
  Nodes = {1, 2, 3}
  FirstNodes = {1, 3}
  Plans <- MCPlans
  Migrators = {m1, m2}
  Writers = {w1}
  BatchSize = 1
  MaxRuns = 3
  MaxFaults = 3
SYMMETRY MCAlike
INVARIANTS
  IInv
  AppliedIsDone
  WorksAlone
PROPERTIES
  BatchesOnce
CHECK_DEADLOCK FALSE
