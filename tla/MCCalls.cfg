CONSTANTS
    Slot = {s1, s2, s3}
    Account = {a1, a2, a3}
    Pseudo = {p1}
    Password = {w1}
    StatusByte = {0}
    Null = Null
    StrayCommands = FALSE
    SavesMayFail = FALSE
    ServerMayStop = FALSE
    LeaveDuringCall = FALSE
SPECIFICATION Spec
VIEW StateView
SYMMETRY SlotsAndAccounts
INVARIANTS
    CallsPaired
