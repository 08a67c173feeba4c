CONSTANTS
    Slot = {s1, s2}
    Account = {a1, a2}
    Pseudo = {p1}
    Password = {w1}
    StatusByte = {2, 11}
    Null = Null
    StrayCommands = TRUE
    SavesMayFail = FALSE
    ServerMayStop = TRUE
    LeaveDuringCall = TRUE
SPECIFICATION Spec
VIEW StateView
SYMMETRY SlotsAndAccounts
INVARIANTS
    TypeOK
    NoDoubleLogin
    SessionHoldsFile
    FileMirrorsSession
PROPERTIES
    ImplementsRegistry
    ContactsLearnOfChanges
CHECK_DEADLOCK FALSE
