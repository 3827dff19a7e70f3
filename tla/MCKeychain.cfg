SPECIFICATION KeychainSpec
CONSTANTS
    Value = {v1, v2}
    None = None
    Entry <- ProfileEntry
    WriteRank <- ProfileWriteRank
    ReadRank <- ProfileReadRank
    Saver = {s1, s2}
    Loader = {l1}
INVARIANTS
    KeychainInv
    LoadIsOneProfile
CHECK_DEADLOCK FALSE
