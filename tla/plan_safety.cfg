CONSTANTS
  first = first
  other = other
  joined = joined
  gated = gated
  None = None
  Node <- JoinNode
  Deps <- JoinDeps
  ReadOnly = {first, other, gated}
  NeedsApproval = {gated}
  Runner = {r1, r2}
  MaxWorkers = 2
  MaxAttempts = 2
  MaxInterrupts = 2
SPECIFICATION MCSpec
SYMMETRY RunnerSymmetry
INVARIANT TypeOK
INVARIANT WriteAtMostOnce
INVARIANT EffectsRecorded
INVARIANT ExclusiveExecution
INVARIANT DependenciesFirst
INVARIANT LateStartBound
PROPERTY LedgerSpec
PROPERTY CodeMapProgresses
