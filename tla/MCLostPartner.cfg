CONSTANTS
    Slot = {s1, s2}
    Account = {a1, a2}
    Pseudo = {p1}
    Password = {w1}
    StatusByte = {0}
    Null = Null
    StrayCommands = FALSE
    SavesMayFail = FALSE
    ServerMayStop = FALSE
    LeaveDuringCall = TRUE
SPECIFICATION Spec
VIEW StateView
SYMMETRY SlotsAndAccounts
PROPERTIES
    EndOfCallIsNotified
