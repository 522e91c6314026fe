\* Every symbol of sources of at most six characters and line ends; the queue beside them is as small as it can be.
CONSTANTS
  None = None
  Repository = {r}
  Commit = {c}
  Scheduler = {s}
  Worker = {w}
  Incident = {}
  Token = {t1, t2, t3, t4}
  MaxPushes = 0
  MaxCommands = 0
  MaxFaults = 0
SPECIFICATION MCSpec
CHECK_DEADLOCK FALSE
INVARIANT EverySymbolIsCut
