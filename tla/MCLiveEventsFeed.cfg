SPECIFICATION FairSpec
CONSTANTS
    Sub = {s1, s2, s3}
    NoSub = NoSub
    MaxEvents = 3
    Slack = 3
    MaxSequence = 3
    WireCap = 2
    OutCap = 2
    BufferEvents = 2
    BufferBytes = 4
    EntryBytes <- MCEntryBytes
    MaxFaults = 2
    MaxMarkers = 3
    MaxEpochs = 1
PROPERTY
    FeedSpec
CHECK_DEADLOCK FALSE
