SPECIFICATION Spec
SYMMETRY HandlerSymmetry
CONSTANTS
    Handler = {h1, h2}
    Id = {j1, j2}
    Version = {v1, v2}
    Initial = v1
    NoRelease = NoRelease
    Directory = Directory
    MaxCrashes = 1
INVARIANTS
    ActiveIsWhole
PROPERTIES
    FailedCallLeavesRelease
    SuccessIsHealthy
CHECK_DEADLOCK FALSE
