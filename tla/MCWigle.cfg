SPECIFICATION FairSpec
CONSTANTS
    Value = {v1, v2}
    None = None
    Entry <- CredentialEntry
    WriteRank <- CredentialRank
    ReadRank <- CredentialRank
    Saver = {s1}
    Loader = {u1}
    Records = {r1, r2}
    NoRecords = NoRecords
    MaxAttempts = 2
    MaxPending = 1
INVARIANTS
    LoadIsOneProfile
    UploadedWasConfirmed
    StoredOnce
    ReportIsTrue
PROPERTIES
    ConfirmedUploadEnds
