CONSTANTS
    Tags = {a, b, c}
    NoTag = noTag
    Layout <- MCLayout
    FirstRecords = 1
    MaxRecords = 5
    Half = 5
    Skew = 2
    Lag = 1
    Lead = 1
    Seconds = {1, 2, 8, 9}
    P1 = P1
    P2 = P2
SPECIFICATION AllSpec
INVARIANT OptionsEquivalent
CHECK_DEADLOCK FALSE
