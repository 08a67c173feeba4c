CONSTANTS
    u1 = u1
    u2 = u2
    a1 = a1
    a2 = a2
    User = {u1, u2}
    Login <- AnyAccount
    Slot = {s1, s2, s3}
    Account = {a1, a2}
    Pseudo = {p1}
    Password = {w1}
    StatusByte = {0}
    Null = Null
    StrayCommands = FALSE
    SavesMayFail = FALSE
    ServerMayStop = FALSE
    LeaveDuringCall = TRUE
    Wish = {"REG", "LOG", "EXIT", "ADD", "DEL", "UPDATE", "SEND"}
    Befriended = {TRUE, FALSE}
    AudioMayFail = FALSE
    MaxLosses = 1
    MaxUnderWay = 1
SPECIFICATION SystemSpec
VIEW SystemView
SYMMETRY Exchanges
INVARIANTS
    ContactsShown
    PageFollowsSession
CHECK_DEADLOCK FALSE
