SPECIFICATION MCSpec
CONSTANTS
    j1 = j1
    j2 = j2
    Job = {j1, j2}
    Worker = {w1, w2}
    Candidates <- Kinds
    MaxTrouble <- Bounds
    Object = {"logs", "metrics"}
    Confidence = {1, 2}
    MaxUpserts = 4
INVARIANT JobsAreSound
INVARIANT MemoriesAgree
PROPERTY OverStaysOver
PROPERTY JobsSettle
CHECK_DEADLOCK FALSE
