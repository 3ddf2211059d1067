SPECIFICATION Spec
CONSTANTS
  ann = ann
  bob = bob
  cat = cat
  old = old
  new = new
  Nobody = Nobody
  Names = {ann, bob, cat}
  Passwords = {old, new}
  Callers = {c1, c2}
  FirstUsers <- MCFirstUsers
  FirstTokens <- MCFirstTokens
  Workloads <- MCWorkloads
  Short = {2}
  MaxTokens = 5
  MaxGeneration = 2
SYMMETRY Alike
INVARIANTS
  IInv
  EndedAreDead
  SessionsOfThePassword
  BadTokenRefused
PROPERTIES
  LastAdminByTwo
CHECK_DEADLOCK FALSE
