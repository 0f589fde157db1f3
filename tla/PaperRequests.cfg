SPECIFICATION Spec
CONSTANTS
    i1 = i1
    i2 = i2
    i3 = i3
    m1 = m1
    m2 = m2
    NoId = NoId
    Live = live
    Ids <- MCIds
    Fills <- MCEqualFills
    Http = {h1}
    Consumers = {}
    MaxTotalOpenPositions = 1
    PublishPipelineEvents = FALSE
    FailingReads = {"monitor", "row", "trades"}
    WriteFails = TRUE
    Crashes = TRUE
SYMMETRY MCSymmetry
INVARIANTS TypeOK OpenLimit
