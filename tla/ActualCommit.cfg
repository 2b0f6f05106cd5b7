CONSTANTS
    Cells = {c1, c2}
    MayCrash = TRUE
    MaxClock = 6
    MaxFaults = 3
    Bookings = {1, 2}
    Referenced = {1}
    MaxRateRetry = 1
    PerPage = 1
    MaxTrouble = 2
    MaxEdits = 1
    Banks = {1, 2, 3}
    SpecOf <- MCSpecOf
    Within <- MCWithin
    AccountNames = {"main", "second", "old main"}
    IBANs = {"x", "y"}
    Figures = {1, 2}
    MaxAccountTrouble = 2
    MaxAccountEdits = 2
SPECIFICATION MCSpec
INVARIANTS
    TypesOK
    OneRowEach
    HomeStays
PROPERTIES
    KeepsContract
    StartsCurrent
    UserWorkKept
    PlacedAsReported
    GoneIsGone
    OpeningKept
