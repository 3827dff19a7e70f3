SPECIFICATION Spec
CONSTANTS
    Handler = {h1, h2}
    Id = {j1}
    MaxCrashes = 0
PROPERTY
    RetryKeepsCheckpoints
CHECK_DEADLOCK FALSE
