SPECIFICATION Spec
CONSTANTS
    Profile = {p1, p2}
    MaxKeys = 5
    MaxInterruptions = 0
INVARIANTS
    SetupEnough
    SafeToRerun
CHECK_DEADLOCK FALSE
