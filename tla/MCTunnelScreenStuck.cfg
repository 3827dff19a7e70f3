SPECIFICATION ScreenSpec
CONSTANTS
    Handle = {t1, t2}
    Port = {p1}
    Ephemeral = Ephemeral
    MaxStarts = 1
    MaxCloses = 3
INVARIANT
    Closable
CHECK_DEADLOCK FALSE
