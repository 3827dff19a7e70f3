SPECIFICATION Spec
CONSTANTS
    Sub = {s1, s2}
    NoSub = NoSub
    MaxEvents = 3
    Slack = 3
    MaxSequence = 3
    WireCap = 1
    OutCap = 1
    BufferEvents = 2
    BufferBytes = 4
    EntryBytes <- MCEntryBytes
    MaxFaults = 0
    MaxMarkers = 3
    MaxEpochs = 2
INVARIANT
    GapsNeverHidden
CHECK_DEADLOCK FALSE
