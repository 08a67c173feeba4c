CONSTANTS
    Account = {a1, a2, a3}
    Null = Null
    MaxMessages = 3
    MaxContacts = 2
SPECIFICATION WindowsSpec
SYMMETRY Accounts
INVARIANTS
    CopiesAgree
    PanelFollowsSelection
PROPERTIES
    SentOnceAsShown
