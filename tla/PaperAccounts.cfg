SPECIFICATION FairSpec
CONSTANTS
    None = None
    m1 = m1
    m2 = m2
    n1 = n1
    n2 = n2
    Markets = {m1, m2}
    Articles = {n1, n2}
    Quotes <- MCQuotes
    Messages <- MCMessages
    Text <- MCText
    Answers <- MCAnswers
    StopWords <- MCStopWords
    Canonical <- MCCanonical
    Synonyms <- MCSynonyms
    AIKey = TRUE
    InitialHours = 2
    Remaining = {0}
    DecisionsListed = 2
    TradesListed = 3
    MaxChanges = 1
    MaxRequests = 1
    MarketMinVolumeUSD = 500
    MarketMinLiquidityUSD = 500
    MarketMaxSpread = 5
    MarketMinHoursToExpiry = 2
    NewsMarketMatchThreshold = 70
    MaxAIMatchesPerArticle = 2
    EdgeThreshold = 5
    MinSignalConfidence = 65
    MaxPositionPerMarketPct = 5
    MaxCategoryExposurePct = 8
    MaxDailyLossPct = 1
    MaxTotalOpenPositions = 2
    MaxOrderbookImpactPct = 2
    KellyFraction = 25
    PaperStartingBalanceUSD = 10000
    TakeProfitPct = 20
    StopLossPct = 10
    ExitBeforeExpiryHours = 1
INVARIANT TypeOK
PROPERTIES ExposureLimit NeverOverstated BoughtBelowEstimate ExpiringIsLeft
