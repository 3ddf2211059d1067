SPECIFICATION Spec
CONSTANTS
  place = place
  town = town
  port = port
  Types = {place, town, port}
  FirstPlaces <- MCFirstPlaces
  Root = Root
  Heads = {h1}
  NoType = NoType
  Processes = {p1, p2}
  MoveAttempts = 2
  MaxCalls = 3
  MaxVersions = 4
SYMMETRY MCProcesses
INVARIANTS
  IInv
  NoLoop
  NothingBelowDeleted
PROPERTIES
  EditsKeepPlaces
CHECK_DEADLOCK FALSE
