SPECIFICATION FairSpec
CONSTANTS
    Handler = {h1}
    Id = {j1, j2}
    MaxCrashes = 2
INVARIANTS
    NotRerunAfterSuccess
    RepeatedOnlyAfterCrash
PROPERTIES
    CheckpointsKept
    EventuallySucceeds
CHECK_DEADLOCK FALSE
