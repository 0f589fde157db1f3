SPECIFICATION FairSpec
CONSTANTS
    a1 = a1
    a2 = a2
    m1 = m1
    m2 = m2
    Feeds <- MCOneFeed
    Markets = {m1, m2}
    NoMarket = NoMarket
    Matches <- MCMatches
    Stores = {"postgres"}
    MaxAttempts = 2
    MaxReturned = 2
    MaxFaults <- MCNoFaults
PROPERTIES SignalsAreEvaluated
CHECK_DEADLOCK FALSE
