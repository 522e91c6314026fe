CONSTANTS
  None = None
  Repository = {r}
  Commit = {c1, c2}
  Scheduler = {s}
  Worker = {w1, w2}
  Incident = {i}
  Token = {t1, t2, t3, t4, t5, t6}
  MaxPushes = 1
  MaxCommands = 2
  MaxFaults = 1
SPECIFICATION MCSpec
SYMMETRY QueueSymmetry
CHECK_DEADLOCK FALSE
INVARIANT CodeMapAgrees
INVARIANT FactsAreSound
PROPERTY CatalogSpec
PROPERTY SearchesAreVerified
