SPECIFICATION Spec
CONSTANTS
    Sub = {s1, s2}
    MaxEvents = 2
    Slack = 1
    MaxSequence = 4
SYMMETRY SubSymmetry
INVARIANTS
    GapExact
    DeliveredInOrder
    NothingElseLost
    FreshSubscriberMissesNothing
CHECK_DEADLOCK FALSE
