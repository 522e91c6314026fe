\* Two workers, two tasks: a failure of one worker after the other's block.
SPECIFICATION Spec
CONSTANTS
    Worker = {a, b}
    Task = {1, 2}
    MaxAttempts = 2
    None = None
PROPERTY BlockedStopsClaims
