CONSTANTS
    Null = Null
    HEADER_SIZE = 8
    MaxSent = 3
    MaxConnections = 2
SPECIFICATION StreamSpec
INVARIANTS
    ReadInOrder
    AllReadWhenIdle
    GreetedOnLink
    RequestArrives
CHECK_DEADLOCK FALSE
