SPECIFICATION FairSpec
CONSTANTS
    a1 = a1
    a2 = a2
    m1 = m1
    m2 = m2
    Feeds <- MCFeeds
    Markets = {m1, m2}
    NoMarket = NoMarket
    Matches <- MCMatches
    Stores = {"postgres", "memory"}
    MaxAttempts = 2
    MaxReturned = 2
    MaxFaults <- MCMaxFaults
INVARIANTS TypeOK DuplicatesNeedFaults DoneIsHandedOn DeadLettersHaveCause
PROPERTIES GroupsCatchUp
CHECK_DEADLOCK FALSE
