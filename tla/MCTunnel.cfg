SPECIFICATION FairSpec
CONSTANTS
    Relay = {r1, r2}
    Acceptor = Acceptor
    Closer = Closer
    Buffer = 1
INVARIANTS
    ShutdownIsComplete
    NoSendAfterClose
PROPERTIES
    CloseReturns
    AgentLetsGo
CHECK_DEADLOCK FALSE
