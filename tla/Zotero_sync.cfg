SPECIFICATION FairSpec
CONSTANTS
  Keys = {k1, k2}
  FirstItems = {k1}
  Watcher = Watcher
  ByHand = ByHand
  Nothing = Nothing
  Scenarios <- MCScenarios
  BatchSize = 1
  Attempts = 2
  MaxVersion = 3
  MaxActs = 1
  MaxFaults = 1
INVARIANTS
  IInv
  Reconciled
PROPERTIES
  EditedIsKept
  CatchesUp
CHECK_DEADLOCK FALSE
