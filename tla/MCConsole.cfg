SPECIFICATION FairSpec
CONSTANTS
    Task = {s1, s2}
    NoTask = NoTask
    Text = {a}
    NoText = NoText
    MaxProfiles = 2
INVARIANTS
    ConfirmedByTyping
    ResultIsShown
    OneConsumer
PROPERTY
    ConfirmedIsAnswered
CHECK_DEADLOCK FALSE
