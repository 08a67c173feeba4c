CONSTANTS
    Slot = {s1, s2}
    Account = {a1, a2}
    Pseudo = {p1}
    Password = {w1}
    StatusByte = {0}
    Null = Null
    StrayCommands = FALSE
    SavesMayFail = TRUE
    ServerMayStop = TRUE
    LeaveDuringCall = FALSE
SPECIFICATION Spec
VIEW StateView
SYMMETRY AccountsOnly
INVARIANTS
    RegisteredHasFile
PROPERTIES
    AcknowledgedIsSaved
