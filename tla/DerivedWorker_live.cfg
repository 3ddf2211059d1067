SPECIFICATION FairSpec
CONSTANTS
  h1 = h1
  h2 = h2
  j1 = j1
  j2 = j2
  r1 = r1
  r2 = r2
  w1 = w1
  w2 = w2
  NoRule = NoRule
  Nobody = Nobody
  Gone = Gone
  Heads = {h1, h2}
  Justs = {j1}
  Rules = {r1}
  Workers = {w1, w2}
  Evidence <- MCEvidence
  SeedOf <- MCSeedOf
  Body <- MCBody
  Batch = 2
  MaxPerSeed = 9
  LapseAt = {"idle"}
  RollsBack = FALSE
  MaxWrites = 2
  MaxFailures = 1
  MaxDeploys = 0
PROPERTY EveryMarkIsDone
PROPERTY Converges
