SPECIFICATION FairSpec
CONSTANTS
    Sub = {s1, s2}
    NoSub = NoSub
    MaxEvents = 2
    Slack = 2
    MaxSequence = 4
    WireCap = 1
    OutCap = 1
    BufferEvents = 2
    BufferBytes = 4
    EntryBytes <- MCEntryBytes
    MaxFaults = 1
    MaxMarkers = 3
    MaxEpochs = 1
PROPERTY
    ResyncIssued
CHECK_DEADLOCK FALSE
