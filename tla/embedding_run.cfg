\* Two workers, two tasks, two attempts each; crashes, losses and unblocking at any time.
SPECIFICATION FairSpec
CONSTANTS
    Worker = {a, b}
    Task = {1, 2}
    MaxAttempts = 2
    None = None
INVARIANT ProjectionAgrees
PROPERTY LeaseProtects
PROPERTY RunSettles
