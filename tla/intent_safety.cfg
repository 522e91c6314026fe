CONSTANTS
  None = None
  Run = Run
  Caller = {a, b}
  Message = {m1, m2}
  Intent = {i}
  MaxRevisions = 3
  MaxFaults = 1
SPECIFICATION RequestsSpec
SYMMETRY RequestSymmetry
INVARIANT RequestsAgree
PROPERTY HandoffSpec
PROPERTY ReceiptsAdvance
PROPERTY CancelIsFinal
