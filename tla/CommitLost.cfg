CONSTANTS
    Cells = {c1, c2}
    MayCrash = FALSE
    MaxClock = 6
    MaxFaults = 3
SPECIFICATION Spec
INVARIANTS
    RetriedLater
