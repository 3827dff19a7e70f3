SPECIFICATION Spec
CONSTANTS
    Relay = {r1, r2}
    Acceptor = Acceptor
    Closer = Closer
    Buffer = 4
INVARIANT
    EventsReportStatus
CHECK_DEADLOCK FALSE
