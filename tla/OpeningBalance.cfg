CONSTANTS
    None = None
    p1 = p1
    p2 = p2
    Payments = {p1, p2}
    Amount <- MCAmount
    Before = 5
    LastCommitted = TRUE
    InitialStates = {"", "auto"}
    MaxFaults = 2
    eur = eur
    usd = usd
    giro = giro
    bank = bank
    hashed = hashed
    shared = shared
    apart = apart
    r1 = r1
    r2 = r2
    Real = {eur, usd, giro}
    BankOf <- MCBankOf
    Hash <- MCHash
    IbanOf <- MCIbanOf
    CurrencyOf <- MCCurrencyOf
    Unknown = Unknown
    Reveals <- MCReveals
    Home = eur
    Requests = {r1, r2}
    MaxFlows = 2
    MaxIds = 2
    StartDates = {1}
    MaxEvents = 1
SPECIFICATION MCSpec
SYMMETRY Symmetry
INVARIANTS
    TypesOK
    FirstFigureExact
    OneWriter
    SameAccount
    OneRowPerFlow
PROPERTIES
    WrittenOnce
    NoFalseDrift
    DoneAsAsked
CHECK_DEADLOCK FALSE
