CONSTANTS
  None = None
  Run = Run
  Caller = {a, b}
  Message = {m1, m2}
  Intent = {i}
  MaxRevisions = 3
  MaxFaults = 1
SPECIFICATION RequestsSpec
PROPERTY EvidenceRevisesItsQuestion
