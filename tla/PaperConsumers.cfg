SPECIFICATION FairSpec
CONSTANTS
    i1 = i1
    i2 = i2
    i3 = i3
    m1 = m1
    m2 = m2
    NoId = NoId
    Live = live
    Ids <- MCTwoIds
    Fills <- MCDistinctFills
    Http = {}
    Consumers = {c1}
    MaxTotalOpenPositions = 2
    PublishPipelineEvents = TRUE
    FailingReads = {}
    WriteFails = FALSE
    Crashes = FALSE
INVARIANTS ClosedIsBooked
PROPERTIES DecidedExitCloses ClosedGetsBooked
