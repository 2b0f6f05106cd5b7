CONSTANTS
    NoAccount = NoAccount
    a1 = a1
    a2 = a2
    p1 = p1
    p2 = p2
    p3 = p3
    Accounts = {a1}
    Payments = {p1, p2}
    AccountOf <- MCAccountOf
    ConnectedFrom <- MCConnectedFrom
    TieBreak <- MCTieBreak
    Window = 30
    BatchSize = 2
    Buffered = TRUE
    TickDuringRun = FALSE
    MaxDay = 2
    MaxFaults = 2
SPECIFICATION Spec
INVARIANTS
    TypeOK
    NoGap
    NoDuplicate
    BooksAgree
