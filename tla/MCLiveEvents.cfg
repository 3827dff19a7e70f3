SPECIFICATION FairSpec
CONSTANTS
    Sub = {s1, s2}
    NoSub = NoSub
    MaxEvents = 2
    Slack = 1
    MaxSequence = 4
    WireCap = 1
    OutCap = 1
    BufferEvents = 2
    BufferBytes = 4
    EntryBytes <- MCEntryBytes
    MaxFaults = 1
    MaxMarkers = 3
    MaxEpochs = 2
INVARIANTS
    ShownInOrder
    SkippedOnlyIfDropped
    BufferIsNewest
PROPERTY
    CaughtUpOrTold
CHECK_DEADLOCK FALSE
