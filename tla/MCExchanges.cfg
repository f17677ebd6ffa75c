CONSTANTS
    Realms = {"A", "B", "C"}
    Setups <- MCSetups
    MaxProxyHops = 5
    MaxReferrals = 1
    MaxPath = 3
    MaxDuplicates = 1
SPECIFICATION AllSpec
INVARIANTS TranscriptsEqual AnswersTrue
PROPERTY ExchangesEnd
CHECK_DEADLOCK FALSE
