SPECIFICATION FairSpec
CONSTANTS
    Articles <- MCArticles
    MaxSeen = 2
    Loops = {l1, l2}
    Requests = {q1}
    ListLimit = 2
    Sorted = TRUE
    Poisoned = {2}
    NoRunner = NoRunner
INVARIANTS TypeOK FlagsMatchLoop TrackerOK
PROPERTIES RememberedForMaxSeen StopTakesEffect ListedIsProcessed
