SPECIFICATION FairSpec
CONSTANTS
    MaxMessages = 3
    MaxAttempts = 2
    MaxDisruptions = 3
    HasProducer = TRUE
    DlqFails = TRUE
    NoOffset = NoOffset
PROPERTIES CommitSkips CommitForward RedeliveryNeedsDisruption EventuallySettled
CHECK_DEADLOCK FALSE
