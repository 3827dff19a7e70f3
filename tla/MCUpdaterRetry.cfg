SPECIFICATION Spec
CONSTANTS
    Handler = {h1}
    Id = {j1}
    Version = {v1, v2}
    Initial = v1
    NoRelease = NoRelease
    Directory = Directory
    MaxCrashes = 1
PROPERTY
    RollbackRestoresPrior
CHECK_DEADLOCK FALSE
