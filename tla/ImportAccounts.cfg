CONSTANTS
    NoAccount = NoAccount
    a1 = a1
    a2 = a2
    p1 = p1
    p2 = p2
    p3 = p3
    Accounts = {a1, a2}
    Payments = {p1}
    AccountOf <- MCAccountOf
    ConnectedFrom <- MCConnectedFrom
    TieBreak <- MCTieBreak
    Window = 30
    BatchSize = 2
    Buffered = FALSE
    TickDuringRun = FALSE
    MaxDay = 3
    MaxFaults = 2
    eur = eur
    usd = usd
    other = other
    bankA = bankA
    bankB = bankB
    hashed = hashed
    shared = shared
    apart = apart
    Real = {eur, usd, other}
    BankOf <- MCBankOf
    Hash <- MCHash
    IbanOf <- MCIbanOf
    CurrencyOf <- MCCurrencyOf
    Unknown = Unknown
    Reveals <- MCReveals
    Home = eur
    Requests = {r1}
    r1 = r1
    MaxFlows = 1
    MaxIds = 2
    StartDates = {1, 2}
    MaxEvents = 2
SPECIFICATION MCSpec
INVARIANTS
    EndedMeansEnded
PROPERTIES
    Delivered
    StartsUnbooked
    ResetHonoured
    EndNoticed
CHECK_DEADLOCK FALSE
