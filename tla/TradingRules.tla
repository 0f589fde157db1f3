----------------------------- MODULE TradingRules -----------------------------
(***************************************************************************)
(* The rules that turn a market, an article and the answer of the AI into  *)
(* an order, and a position into an exit.  They keep no state, which is    *)
(* PaperAccounts' part.  Prices and probabilities are in cents, money in   *)
(* dollars, shares of a total in percent.  Where the code has floating     *)
(* point, divisions round down; the shares that a sum buys round up, so    *)
(* that no average price exceeds the dearest level by rounding alone.      *)
(* Only yes-buys are modelled: both callers of the probability engine ask  *)
(* for nothing else.                                                       *)
(***************************************************************************)
EXTENDS Integers, Sequences, FiniteSets, SequencesExt, FiniteSetsExt

CONSTANTS
    None,
    MarketMinVolumeUSD, MarketMinLiquidityUSD, MarketMaxSpread,
    MarketMinHoursToExpiry,
    NewsMarketMatchThreshold, MaxAIMatchesPerArticle,
    EdgeThreshold, MinSignalConfidence,
    MaxPositionPerMarketPct, MaxCategoryExposurePct, MaxDailyLossPct,
    MaxTotalOpenPositions, MaxOrderbookImpactPct, KellyFraction,
    PaperStartingBalanceUSD,
    TakeProfitPct, StopLossPct, ExitBeforeExpiryHours,
    StopWords, Canonical, Synonyms     \* the tables of textmatch.go

ASSUME SettingsAssumption ==
    {MarketMinVolumeUSD, MarketMinLiquidityUSD, MarketMaxSpread, MarketMinHoursToExpiry,
     NewsMarketMatchThreshold, MaxAIMatchesPerArticle, EdgeThreshold, MinSignalConfidence,
     MaxPositionPerMarketPct, MaxCategoryExposurePct, MaxDailyLossPct, MaxTotalOpenPositions,
     MaxOrderbookImpactPct, KellyFraction, PaperStartingBalanceUSD, TakeProfitPct,
     StopLossPct, ExitBeforeExpiryHours} \subseteq Nat

Abs(n)        == IF n < 0 THEN -n ELSE n
Least(a, b)   == IF a < b THEN a ELSE b
Clamp(n, l, h) == IF n < l THEN l ELSE IF n > h THEN h ELSE n
Price(levels) == IF levels = <<>> THEN 0 ELSE levels[1].price
OrElse(n, default) == IF n > 0 THEN n ELSE default

-----------------------------------------------------------------------------
(* Answers of the exchange.  One is a record of the fields it has; a field *)
(* that is of another kind than the one asked for holds None, a call that  *)
(* failed is None.                                                         *)

First(item, names, default) ==
    LET present == SelectSeq(names, LAMBDA name : name \in DOMAIN item)
    IN  IF present = <<>> THEN default ELSE item[present[1]]

Number(v)  == IF v = None THEN 0 ELSE v
List(v)    == IF v = None THEN <<>> ELSE v
Numbers(v) == [i \in DOMAIN List(v) |-> Number(List(v)[i])]

NumberOf(item, names) == Number(First(item, names, None))

Truth(item, name, default) ==
    IF First(item, <<name>>, None) = None THEN default ELSE item[name]

Category(item) ==
    LET category == First(item, <<"category">>, "")
        tags     == List(First(item, <<"tags">>, None))
    IN  IF category # "" THEN category ELSE IF tags # <<>> THEN tags[1] ELSE "general"

\* A market without an end ends in a day, whenever it is asked about.
HoursLeft(item, left) == IF First(item, <<"endDate">>, None) = None THEN 24 ELSE left

Listing(item) ==
    [question  |-> First(item, <<"question", "title">>, {}),
     category  |-> Category(item),
     active    |-> Truth(item, "active", TRUE),
     closed    |-> Truth(item, "closed", FALSE),
     volume    |-> NumberOf(item, <<"volume", "volumeNum", "volume24hr", "volumeClob">>),
     liquidity |-> NumberOf(item, <<"liquidity", "liquidityNum">>),
     outcomes  |-> List(First(item, <<"outcomes">>, None)),
     tokens    |-> List(First(item, <<"clobTokenIds", "clob_token_ids">>, None)),
     prices    |-> Numbers(First(item, <<"outcomePrices">>, None))]

Levels(answer) ==
    [i \in DOMAIN answer |-> [price |-> Number(answer[i].price), size |-> Number(answer[i].size)]]

OrderBook(answer) ==
    IF answer = None THEN [bids |-> <<>>, asks |-> <<>>]
    ELSE [bids |-> Levels(answer.bids), asks |-> Levels(answer.asks)]

Midpoint(answer) == IF answer = None THEN 0 ELSE NumberOf(answer, <<"mid", "midpoint">>)
Spread(answer)   == IF answer = None THEN 0 ELSE NumberOf(answer, <<"spread">>)

-----------------------------------------------------------------------------
(* Markets: the row that the scanner makes of a listing, and the live      *)
(* state that is laid over the row.                                        *)

\* The entry of seq for the outcome of that name, or the one at position i.
Side(listing, seq, name, i) ==
    LET named == {j \in DOMAIN listing.outcomes \cap DOMAIN seq : listing.outcomes[j] = name}
    IN  IF named # {} THEN seq[CHOOSE j \in named : \A k \in named : k <= j]
        ELSE IF i \in DOMAIN seq THEN seq[i] ELSE None

YesToken(listing) == Side(listing, listing.tokens, "yes", 1)

\* An outcome price of zero counts as none.
YesPrice(listing) ==
    LET price == Side(listing, listing.prices, "yes", 1)
    IN  IF price \notin {0, None} THEN price
        ELSE IF listing.prices = <<>> THEN 0 ELSE listing.prices[1]

BaseTradable(listing, hours) ==
    /\ listing.active /\ ~listing.closed
    /\ YesToken(listing) # None
    /\ listing.volume >= MarketMinVolumeUSD
    /\ listing.liquidity >= MarketMinLiquidityUSD
    /\ hours >= MarketMinHoursToExpiry

\* The row for a listing and what is known of its yes token.
Enriched(listing, book, mid, spread) ==
    LET yes == OrElse(mid, YesPrice(listing))
        bid == OrElse(Price(book.bids), yes)
        ask == OrElse(Price(book.asks), yes)
    IN  [category |-> listing.category, liquidity |-> listing.liquidity,
         question |-> listing.question, yes |-> yes, bid |-> bid, ask |-> ask,
         spread |-> IF spread > 0 THEN spread ELSE IF bid > 0 /\ ask > 0 THEN ask - bid ELSE 0,
         asks |-> book.asks]

AfterEnrichmentTradable(row) == row.spread <= MarketMaxSpread /\ row.ask \in 1..99

\* Only a book event has levels.
MessageBook(message) ==
    IF First(message, <<"event_type">>, "") # "book" THEN OrderBook(None)
    ELSE OrderBook([bids |-> List(First(message, <<"bids">>, None)),
                    asks |-> List(First(message, <<"asks">>, None))])

\* The state that a message of the web socket carries.
LiveState(message) ==
    LET book == MessageBook(message)
        bid  == OrElse(Price(book.bids), NumberOf(message, <<"best_bid">>))
        ask  == OrElse(Price(book.asks), NumberOf(message, <<"best_ask">>))
        both == bid > 0 /\ ask > 0
    IN  [bid |-> bid, ask |-> ask, last |-> NumberOf(message, <<"price">>), asks |-> book.asks,
         mid |-> IF both THEN (bid + ask) \div 2 ELSE 0, spread |-> IF both THEN ask - bid ELSE 0]

ApplyLiveState(row, state) ==
    LET bid == OrElse(state.bid, row.bid)
        ask == OrElse(state.ask, row.ask)
    IN  IF state = None THEN row
        ELSE [row EXCEPT
                !.bid = bid, !.ask = ask,
                !.yes = OrElse(state.mid, OrElse(state.last, @)),
                !.spread = IF state.spread > 0 THEN state.spread
                           ELSE IF bid > 0 /\ ask > 0 THEN ask - bid ELSE @,
                !.asks = IF state.asks # <<>> THEN state.asks ELSE @]

-----------------------------------------------------------------------------
(* Articles: which markets one is about, and what the AI says of it.       *)

Keywords(text) == {IF w \in DOMAIN Canonical THEN Canonical[w] ELSE w : w \in text \ StopWords}
Entities(text) == UNION {Synonyms[w] : w \in Keywords(text) \cap DOMAIN Synonyms}

OverlapScore(left, right) ==
    IF left = {} \/ right = {} THEN 0
    ELSE (100 * Cardinality(left \cap right)) \div Least(Cardinality(left), Cardinality(right))

\* The embedding score is always 0.
FinalScore(text, question) ==
    (45 * OverlapScore(Keywords(text), Keywords(question))
     + 40 * OverlapScore(Entities(text), Entities(question))) \div 100

\* All orders of the best markets: sort.Slice leaves equal scores in any.
Matches(text, question) ==
    LET Score(m) == FinalScore(text, question[m])
        matched  == {m \in DOMAIN question : Score(m) >= NewsMarketMatchThreshold}
        n        == Least(Cardinality(matched), MaxAIMatchesPerArticle)
    IN  {ms \in [1..n -> matched] :
            /\ \A i, j \in 1..n : i < j => ms[i] # ms[j] /\ Score(ms[i]) >= Score(ms[j])
            /\ \A m \in matched : (\E i \in 1..n : ms[i] = m)
                                  \/ \A i \in 1..n : Score(ms[i]) >= Score(m)}

\* parseAIOutput; the words are lower case and the reason is given.
ValidAIOutput(out) ==
    /\ out.direction \in {"bullish", "bearish", "neutral"}
    /\ out.risk \in {"low", "medium", "high"}
    /\ out.delta \in -20..20
    /\ out.confidence \in 0..100 /\ out.reliability \in 0..100
    /\ ~out.related => out.direction = "neutral" /\ out.delta = 0

\* The signal of a service without a key.
DisabledSignal == [related |-> FALSE, direction |-> "neutral", delta |-> 0,
                   confidence |-> 0, reliability |-> 0, risk |-> "high"]

-----------------------------------------------------------------------------
(* The probability engine.                                                 *)

MarketProbability(row) ==
    IF row.bid > 0 /\ row.ask > 0 THEN (row.bid + row.ask) \div 2 ELSE OrElse(row.yes, 50)

ExecutablePrice(row) == OrElse(row.ask, OrElse(row.yes, 50))

PricedInMultiplier(risk) == CASE risk = "low" -> 100 [] risk = "medium" -> 60 [] OTHER -> 30

OurProbability(row, state, signal) ==
    LET now      == MarketProbability(ApplyLiveState(row, state))
        before   == MarketProbability(row)
        news     == (signal.delta * signal.confidence * signal.reliability
                     * PricedInMultiplier(signal.risk)) \div 1000000
        momentum == IF state = None THEN 0 ELSE (30 * (now - before)) \div 100
    IN  Clamp(now + news + momentum, 1, 99)

\* A large edge of either sign makes a candidate.
Decision(row, state, signal) ==
    LET price == ExecutablePrice(ApplyLiveState(row, state))
        our   == OurProbability(row, state, signal)
    IN  [price |-> price, our |-> our, edge |-> our - price,
         candidate |-> /\ Abs(our - price) >= EdgeThreshold
                       /\ signal.confidence >= MinSignalConfidence]

-----------------------------------------------------------------------------
(* Walking an order book, for the risk engine and for the paper fill.  A   *)
(* limit of 0 is none.                                                     *)

Passed(limit, level) ==
    level.price <= 0 \/ level.size <= 0 \/ (limit > 0 /\ level.price > limit)

Shares(usd, price) == (usd * 100 + price - 1) \div price

Spend(limit, walk, level) ==
    LET usd == Least(walk.left, (level.price * level.size) \div 100)
    IN  IF Passed(limit, level) THEN walk
        ELSE [left |-> walk.left - usd, usd |-> walk.usd + usd,
              quantity |-> walk.quantity + Shares(usd, level.price)]

Walk(usd, limit, levels) ==
    FoldLeft(LAMBDA walk, level : Spend(limit, walk, level),
             [left |-> usd, usd |-> 0, quantity |-> 0], levels)

Average(walk) == (walk.usd * 100) \div walk.quantity

PriceImpact(usd, price, asks) ==
    LET walk == Walk(usd, 0, asks)
    IN  IF usd <= 0 \/ price <= 0 \/ asks = <<>> THEN 0
        ELSE IF walk.quantity = 0 THEN 100
        ELSE IF Average(walk) <= price THEN 0
        ELSE ((Average(walk) - price) * 100) \div price

\* Without a book the whole order fills at its limit.
Offered(usd, limit, row) ==
    IF row.asks = <<>> THEN <<[price |-> limit, size |-> (usd * 100) \div limit + 1]>> ELSE row.asks

\* Fault: the fill takes whatever the book offers.
FillAtMarket(usd, limit, row) == Walk(usd, 0, Offered(usd, limit, row))

Fill(usd, limit, row) == Walk(usd, limit, Offered(usd, limit, row))

-----------------------------------------------------------------------------
(* The risk engine.  open are the open positions it has read, portfolio the *)
(* sums, category the category of each market.                             *)

\* Fault: what is open in a market is not looked at again with the size.
FitsBefore(exposure, size, limit) == exposure < limit

Fits(exposure, size, limit) == exposure < limit /\ exposure + size <= limit

\* kellyFraction is (p - c) / (1 - c).
PositionSize(prob, value) ==
    (value * Least((KellyFraction * (prob.our - prob.price)) \div (100 - prob.price),
                   MaxPositionPerMarketPct)) \div 100

PositiveKelly(prob) == prob.price \in 1..99 /\ prob.our > prob.price

MarketLimit(value)   == (MaxPositionPerMarketPct * value) \div 100
CategoryLimit(value) == (MaxCategoryExposurePct * value) \div 100

DailyLossExceeded(portfolio) ==
    100 * (portfolio.realized + portfolio.openPnL) <= -(MaxDailyLossPct * PaperStartingBalanceUSD)

Approved(prob, row, hours, portfolio, openCount, exposure, categoryExposure) ==
    LET size == PositionSize(prob, portfolio.value) IN
    /\ ~DailyLossExceeded(portfolio)
    /\ openCount < MaxTotalOpenPositions
    /\ row.spread <= MarketMaxSpread
    /\ row.liquidity >= MarketMinLiquidityUSD
    /\ hours >= MarketMinHoursToExpiry
    /\ PositiveKelly(prob)
    /\ Fits(exposure, size, MarketLimit(portfolio.value))
    /\ Fits(categoryExposure, size, CategoryLimit(portfolio.value))
    /\ PriceImpact(size, prob.price, row.asks) <= MaxOrderbookImpactPct

-----------------------------------------------------------------------------
(* The monitor.                                                            *)

\* Fault: a market that is about to end is no reason.
ExitReasonWithoutExpiry(exposure, pnl, edge, lossExceeded, hours) ==
    IF 2 * Abs(edge) < EdgeThreshold THEN "edge_gone"
    ELSE IF 100 * pnl >= TakeProfitPct * exposure THEN "take_profit"
    ELSE IF 100 * pnl <= -(StopLossPct * exposure) THEN "stop_loss"
    ELSE IF lossExceeded THEN "risk_exceeded"
    ELSE "hold"

ExitReason(exposure, pnl, edge, lossExceeded, hours) ==
    IF 2 * Abs(edge) < EdgeThreshold THEN "edge_gone"
    ELSE IF 100 * pnl >= TakeProfitPct * exposure THEN "take_profit"
    ELSE IF 100 * pnl <= -(StopLossPct * exposure) THEN "stop_loss"
    ELSE IF lossExceeded THEN "risk_exceeded"
    ELSE IF hours < ExitBeforeExpiryHours THEN "expiry_close"
    ELSE "hold"
=============================================================================
