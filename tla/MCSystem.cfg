CONSTANTS
    u1 = u1
    u2 = u2
    a1 = a1
    a2 = a2
    User = {u1, u2}
    Login <- OneAccountEach
    Slot = {s1, s2}
    Account = {a1, a2}
    Pseudo = {p1}
    Password = {w1}
    StatusByte = {0}
    Null = Null
    StrayCommands = FALSE
    SavesMayFail = FALSE
    ServerMayStop = FALSE
    LeaveDuringCall = TRUE
    Wish = {"REG", "LOG", "EXIT", "ADD", "DEL", "UPDATE", "SEND", "CALL", "CLOSE_CALL"}
    Befriended = {TRUE}
    AudioMayFail = TRUE
    MaxLosses = 0
    MaxUnderWay = 2
SPECIFICATION SystemSpec
VIEW SystemView
SYMMETRY Exchanges
INVARIANTS
    AudioFollowsCall
    ButtonFollowsCall
    MessageFindsContact
    GreetedFirst
CHECK_DEADLOCK FALSE
