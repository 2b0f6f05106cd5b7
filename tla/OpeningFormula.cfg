CONSTANTS
    None = None
    p1 = p1
    p2 = p2
    Payments = {p1, p2}
    Amount <- MCAmount
    Before = 5
    LastCommitted = TRUE
    InitialStates = {""}
    MaxFaults = 0
SPECIFICATION Spec
INVARIANTS
    OpeningFormula
