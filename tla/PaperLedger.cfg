SPECIFICATION Spec
CONSTANTS
    i1 = i1
    i2 = i2
    i3 = i3
    m1 = m1
    m2 = m2
    NoId = NoId
    Live = live
    Ids <- MCIds
    Fills <- MCMoreFills
    Http = {}
    Consumers = {}
    MaxTotalOpenPositions = 2
    PublishPipelineEvents = FALSE
    FailingReads = {}
    WriteFails = FALSE
    Crashes = FALSE
SYMMETRY MCSymmetry
INVARIANTS TradesMirrorPositions
PROPERTIES LedgerSpec
