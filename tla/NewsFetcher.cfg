SPECIFICATION FairSpec
CONSTANTS
    GdeltNews = {g1}
    FeedNews = {f1, f2}
    Undated = {f2}
    MaxRecords = 1
    MaxListed = 2
    MaxFaults = 2
INVARIANTS OncePerKey KeyStandsForNews
PROPERTY FeedsAreTold
CHECK_DEADLOCK FALSE
