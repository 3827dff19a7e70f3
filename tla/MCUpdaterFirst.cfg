SPECIFICATION Spec
CONSTANTS
    Handler = {h1}
    Id = {j1}
    Version = {v1}
    Initial = NoRelease
    NoRelease = NoRelease
    Directory = Directory
    MaxCrashes = 0
PROPERTY
    RollbackRestoresPrior
CHECK_DEADLOCK FALSE
