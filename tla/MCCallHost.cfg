CONSTANTS
    Null = Null
    HEADER_SIZE = 8
    MaxSent = 3
    MaxConnections = 1
SPECIFICATION StreamSpec
INVARIANTS
    HostArrives
CHECK_DEADLOCK FALSE
