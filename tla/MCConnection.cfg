CONSTANTS
    Message = {m1, m2}
    Sent = {"LIST", "CALL", "ERR", "PING"}
    Known = {"LIST", "CALL", "ERR"}
    BodySize <- Sizes
    HEADER_SIZE = 2
    BUFFER_SIZE = 3
    Null = Null
    MaxPushed = 2
    MaxAccepted = 2
SPECIFICATION FairSpec
INVARIANTS
    OneWriteAtATime
    QueueAccounts
    QuietCloseIsClean
PROPERTIES
    MessagesInOrder
    CommandsInOrder
    EveryCommandIsTreated
    EveryMessageIsWritten
    LossIsNoticed
CHECK_DEADLOCK FALSE
