SPECIFICATION FairSpec
CONSTANTS
    Handler = {h1, h2}
    Id = {j1}
    MaxCrashes = 1
INVARIANTS
    CheckpointsHonest
    StepsInOrder
    SuccessIsComplete
    NotRerunAfterSuccess
    RepeatedOnlyAfterCrash
PROPERTIES
    CheckpointsKept
    EventuallySucceeds
CHECK_DEADLOCK FALSE
