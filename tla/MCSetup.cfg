SPECIFICATION Spec
CONSTANTS
    Profile = {p1, p2}
    MaxKeys = 6
    MaxInterruptions = 2
INVARIANTS
    CompleteProfileWorks
    RestartKeepsAccess
CHECK_DEADLOCK FALSE
