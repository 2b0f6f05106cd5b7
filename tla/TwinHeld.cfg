CONSTANTS
    Purchases = {1, 2}
    BatchSize = 2
    TypedRows = 2
    MaxRows = 6
    MaxDay = 2
    MaxFaults = 0
    MaxLoad = 2
    Prior <- MCPrior
SPECIFICATION Spec
INVARIANTS
    NeverSilent
