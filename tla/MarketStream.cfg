SPECIFICATION FairSpec
CONSTANTS
    Markets = {m1}
    MaxSubscribedMarkets = 1
    Streams = {s1, s2}
    Buffer = 2
    MaxQuotes = 2
    MaxCrashes = 1
    None = None
INVARIANTS OneReader RowsFirst
PROPERTIES OlderQuotesAreLate StreamResumes StopEndsStreams
CHECK_DEADLOCK FALSE
