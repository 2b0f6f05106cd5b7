CONSTANTS
    Purchases = {1, 2, 3}
    BatchSize = 3
    TypedRows = 0
    MaxRows = 6
    MaxDay = 2
    MaxFaults = 2
    MaxLoad = 3
    Prior <- MCPrior
    p1 = p1
    v1 = v1
    Payments = {p1}
    Visitors = {v1}
    AnchorsHold <- MCAnchorsHold
    Outscores <- MCOutscores
    MinLabels = 2
    MaxDecisions = 2
    MaxQuestions = 2
    MaxRules = 1
    MaxSample = 0
    MaxLosses = 1
SPECIFICATION MCSpec
INVARIANTS
    TypesOK
    SettledApart
    NoSurplus
    NoSecondSettlement
    LabelsDescribeThePair
PROPERTIES
    PromotedAsJudged
