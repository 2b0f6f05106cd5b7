CONSTANTS
    c1 = c1
    u1 = u1
    u2 = u2
    Purchases = {c1}
    Requests = {u1, u2}
    Buffered = TRUE
    MaxFaults = 2
    Bookings = {1, 2}
    Referenced = {1}
    MaxRateRetry = 1
    PerPage = 1
    MaxTrouble = 1
    MaxEdits = 1
    p1 = p1
    v1 = v1
    Payments = {p1}
    Visitors = {v1}
    AnchorsHold <- MCAnchorsHold
    Outscores <- MCOutscores
    MinLabels = 1
    MaxDecisions = 1
    MaxQuestions = 2
    MaxRules = 0
    MaxSample = 1
    MaxLosses = 1
SPECIFICATION MCSpec
INVARIANTS
    TypeOK
    DecisionPublished
    NeverForgotten
    OneRow
    AskedOnce
PROPERTIES
    Arrives
    Unblocks
