CONSTANTS
    NoAccount = NoAccount
    a1 = a1
    a2 = a2
    p1 = p1
    p2 = p2
    p3 = p3
    Accounts = {a1}
    Payments = {p1}
    AccountOf <- MCAccountOf
    ConnectedFrom <- MCConnectedFrom
    TieBreak <- MCTieBreak
    Window = 30
    BatchSize = 2
    Buffered = FALSE
    TickDuringRun = FALSE
    MaxDay = 1
    MaxFaults = 0
    eur = eur
    usd = usd
    other = other
    bankA = bankA
    bankB = bankB
    hashed = hashed
    shared = shared
    apart = apart
    r1 = r1
    Real = {eur, usd, other}
    BankOf <- MCBankOf
    Hash <- MCHash
    IbanOf <- MCIbanOf
    CurrencyOf <- MCCurrencyOf
    Unknown = Unknown
    Reveals <- MCReveals
    Home = eur
    Requests = {r1}
    MaxFlows = 2
    MaxIds = 2
    StartDates = {1}
    MaxEvents = 0
SPECIFICATION MCSpec
PROPERTIES
    ConnectionAddsItsOwn
CHECK_DEADLOCK FALSE
