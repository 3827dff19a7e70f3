SPECIFICATION ScreenFairSpec
CONSTANTS
    Handle = {t1, t2}
    Port = {p1, Ephemeral}
    Ephemeral = Ephemeral
    MaxStarts = 1
    MaxCloses = 3
INVARIANTS
    ShownIsOpen
    OpenIsDrained
PROPERTY
    ClosingEnds
CHECK_DEADLOCK FALSE
