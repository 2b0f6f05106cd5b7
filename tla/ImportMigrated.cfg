CONSTANTS
    NoAccount = NoAccount
    a1 = a1
    a2 = a2
    p1 = p1
    p2 = p2
    p3 = p3
    Accounts = {a1, a2}
    Payments = {p1, p3}
    AccountOf <- MCAccountOf
    ConnectedFrom <- MCConnectedFrom
    TieBreak <- MCTieBreak
    Window = 30
    BatchSize = 2
    Buffered = FALSE
    TickDuringRun = FALSE
    MaxDay = 2
    MaxFaults = 1
SPECIFICATION Spec
INVARIANTS
    WindowKept
