----------------------------- MODULE PaperAccounts -----------------------------
(***************************************************************************)
(* What the trading loop does with money: articles become decisions,       *)
(* decisions orders and positions exits, by the rules of TradingRules,     *)
(* while the scanner and the stream of the fetch service rewrite the       *)
(* markets, time passes and requests close positions.  The store is        *)
(* Postgres, where the sums of the portfolio are two queries.  RunOnce is  *)
(* the only loop: the consumers of the process service are not started.    *)
(* A market and its live state are read in one step.  Calls that fail are  *)
(* in PaperTrading, panics in LiveLoop.                                    *)
(***************************************************************************)
EXTENDS TradingRules, Functions

CONSTANTS
    Markets, Articles,
    Quotes,        \* per market: what the exchange answers a refresh
    Messages,      \* per market: what its stream may carry
    Text,          \* per article: its words
    Answers,       \* what the AI may answer
    DecisionsListed, \* decisions that ListProbabilityDecisions returns, 100
    TradesListed,  \* trades that the portfolio and a close ask ListTrades for, 10000
    AIKey,         \* whether the service has a key for the AI
    InitialHours,  \* what is left of a dated market at first
    Remaining,     \* hours to an end that the clock may show
    MaxChanges,    \* bound: refreshes, messages and passages of time
    MaxRequests    \* bound: close requests

ASSUME AccountsAssumption ==
    /\ IsFiniteSet(Markets) /\ IsFiniteSet(Articles)
    /\ AIKey \in BOOLEAN
    /\ {DecisionsListed, TradesListed, InitialHours, MaxChanges, MaxRequests} \cup Remaining \subseteq Nat

VARIABLES
    rows, live, hours,  \* the market, its live state, hours to its end
    decisions,          \* market and edge of each decision, by age
    positions, trades,  \* the tables, by age
    seen,
    pc, articles, matches,  \* RunOnce: where it is and what is left to do
    prob,               \* the decision it works on
    account,            \* the queries of Portfolio answered so far
    copies, exits,      \* the monitor: positions to mark, to leave
    closing,            \* per closer: the position saved as closed, its trade not
    changes, requests

market == <<rows, live, hours, changes>>
loop   == <<seen, pc, articles, matches, prob, account, copies, exits>>
vars   == <<market, decisions, positions, trades, loop, closing, requests>>

Closers == {"loop", "request"}

Row(q) == Enriched(Listing(q.item), OrderBook(q.book), Midpoint(q.mid), Spread(q.spread))

\* Fault: the spread that the book shows is not looked at.
SelectedBeforeEnrichment(q, left) == BaseTradable(Listing(q.item), HoursLeft(q.item, left))

Selected(q, left) ==
    /\ BaseTradable(Listing(q.item), HoursLeft(q.item, left))
    /\ AfterEnrichmentTradable(Row(q))

Level == [price : Int, size : Int]

\* What an answer has been parsed to is numbers, whatever it was.
ASSUME QuotesAssumption ==
    \A m \in Markets :
        /\ \A q \in Quotes[m] :
              {Row(q).yes, Row(q).bid, Row(q).ask, Row(q).spread} \subseteq Int
              /\ Row(q).asks \in Seq(Level)
        /\ \A message \in Messages[m] :
              LET state == LiveState(message)
              IN  {state.bid, state.ask, state.last, state.mid, state.spread} \subseteq Int
                  /\ state.asks \in Seq(Level)

Open(ps) == {i \in DOMAIN ps : ps[i].status = "open"}

Exposure(ps, S) == SumFunction([i \in S |-> ps[i].exposure])

Size(ts, S) == SumFunction([i \in S |-> ts[i].size])
PnL(table, S) == SumFunction([i \in S |-> table[i].pnl])

InMarket(ps, m)   == {i \in Open(ps) : ps[i].market = m}
InCategory(ps, m) == {i \in Open(ps) : rows[ps[i].market].category = rows[m].category}

Init ==
    /\ \E quote \in [Markets -> UNION {Quotes[m] : m \in Markets}] :
            /\ \A m \in Markets : quote[m] \in Quotes[m] /\ Selected(quote[m], InitialHours)
            /\ rows = [m \in Markets |-> Row(quote[m])]
            /\ hours = [m \in Markets |-> HoursLeft(quote[m].item, InitialHours)]
    /\ live = [m \in Markets |-> None]
    /\ decisions = <<>>
    /\ positions = <<>> /\ trades = <<>>
    /\ seen = {} /\ pc = "idle" /\ articles = {} /\ matches = <<>>
    /\ prob = None /\ account = <<>> /\ copies = {} /\ exits = {}
    /\ closing = [c \in Closers |-> None]
    /\ changes = 0 /\ requests = 0

-----------------------------------------------------------------------------
(* The markets change, whatever the loop is doing.                         *)

Refresh(m) ==
    /\ changes < MaxChanges
    /\ \E q \in Quotes[m] :
            /\ Selected(q, hours[m])
            /\ rows' = [rows EXCEPT ![m] = Row(q)]
            /\ hours' = [hours EXCEPT ![m] = HoursLeft(q.item, @)]
    /\ changes' = changes + 1
    /\ UNCHANGED <<live, decisions, positions, trades, loop, closing, requests>>

SaveLiveMarketState(m, state) == live' = [live EXCEPT ![m] = state]

Receive(m) ==
    /\ changes < MaxChanges
    /\ \E message \in Messages[m] : SaveLiveMarketState(m, LiveState(message))
    /\ changes' = changes + 1
    /\ UNCHANGED <<rows, hours, decisions, positions, trades, loop, closing, requests>>

Pass(m) ==
    /\ changes < MaxChanges
    /\ \E h \in Remaining : h < hours[m] /\ hours' = [hours EXCEPT ![m] = h]
    /\ changes' = changes + 1
    /\ UNCHANGED <<rows, live, decisions, positions, trades, loop, closing, requests>>

-----------------------------------------------------------------------------
(* What is read of a market.                                               *)

GetMarket(m) == rows[m]

\* None is a market that the stream has not quoted, or a failing call.
GetLiveMarketState(m) == live[m]

WithLiveState(m) == ApplyLiveState(GetMarket(m), GetLiveMarketState(m))

-----------------------------------------------------------------------------
(* RunOnce, the articles: each new one, each market it is about.           *)

RunOnce ==
    /\ pc = "idle"
    /\ \E new \in SUBSET (Articles \ seen) : articles' = new
    /\ pc' = "articles"
    /\ UNCHANGED <<market, decisions, positions, trades, seen, matches, prob, account,
                   copies, exits, closing, requests>>

NextArticle ==
    /\ pc = "articles"
    /\ \E a \in articles :
        /\ matches' \in Matches(Text[a], [m \in Markets |-> rows[m].question])
        /\ articles' = articles \ {a}
        /\ seen' = seen \cup {a}
    /\ pc' = IF matches' = <<>> THEN "articles" ELSE "matches"
    /\ UNCHANGED <<market, decisions, positions, trades, prob, account, copies, exits,
                   closing, requests>>

NextMatch ==
    /\ matches' = Tail(matches)
    /\ pc' = IF Len(matches) = 1 THEN "articles" ELSE "matches"
    /\ prob' = None
    /\ account' = <<>>

\* None is a call that failed or an answer without choices.
ChatJSON == Answers \cup {None}

Understood(a) == a # None /\ ValidAIOutput(a)

Signals == IF AIKey THEN {a \in ChatJSON : Understood(a)} ELSE {DisabledSignal}

AnalyzeFails ==
    /\ pc = "matches" /\ AIKey
    /\ \E a \in ChatJSON : ~Understood(a)
    /\ NextMatch
    /\ UNCHANGED <<market, decisions, positions, trades, seen, articles, copies, exits,
                   closing, requests>>

SaveProbabilityDecision(m, edge) ==
    decisions' = Append(decisions, [market |-> m, edge |-> edge])

\* The newest first.
ListProbabilityDecisions ==
    LET newest == Reverse(decisions)
    IN  SubSeq(newest, 1, Least(Len(newest), DecisionsListed))

\* processArticle goes on to the risk engine, or to the next match.
HandleDecision(m, d) ==
    \/ /\ d.candidate
       /\ prob' = [market |-> m, price |-> d.price, our |-> d.our]
       /\ pc' = "evaluate"
       /\ UNCHANGED <<matches, account>>
    \/ ~d.candidate /\ NextMatch

Calculate ==
    /\ pc = "matches"
    /\ \E s \in Signals :
        LET m == Head(matches)
            d == Decision(GetMarket(m), GetLiveMarketState(m), s)
        IN  SaveProbabilityDecision(m, d.edge) /\ HandleDecision(m, d)
    /\ UNCHANGED <<market, positions, trades, seen, articles, copies, exits, closing, requests>>

-----------------------------------------------------------------------------
(* Portfolio, for the risk engine and for the monitor.                     *)

\* The newest.
ListTrades == {i \in DOMAIN trades : i > Len(trades) - TradesListed}

\* Fault: the positions are read first.
PositionsFirst == <<"positions", "trades">>

QueryOrder == <<"trades", "positions">>

Answer(table) ==
    IF table = "trades"
    THEN [open |-> Size(trades, Open(trades) \cap ListTrades),
          realized |-> PnL(trades, ListTrades)]
    ELSE [exposure |-> Exposure(positions, Open(positions)),
          pnl |-> PnL(positions, Open(positions))]

Query ==
    /\ pc \in {"portfolio", "marks"} /\ Cardinality(DOMAIN account) < Len(QueryOrder)
    /\ LET table == QueryOrder[Cardinality(DOMAIN account) + 1]
       IN  account' = [t \in DOMAIN account \cup {table} |->
                          IF t = table THEN Answer(t) ELSE account[t]]
    /\ UNCHANGED <<market, decisions, positions, trades, seen, pc, articles, matches, prob,
                   copies, exits, closing, requests>>

Answered == DOMAIN account = {"trades", "positions"}

Value(a) == PaperStartingBalanceUSD - a["trades"].open + a["positions"].exposure
            + a["positions"].pnl

Portfolio == [value |-> Value(account), realized |-> account["trades"].realized,
              openPnL |-> account["positions"].pnl]

-----------------------------------------------------------------------------
(* The risk engine and the order.                                          *)

ReadMarket ==
    /\ pc = "evaluate"
    /\ prob' = [market |-> prob.market, price |-> prob.price, our |-> prob.our,
                row |-> WithLiveState(prob.market)]
    /\ pc' = "portfolio"
    /\ UNCHANGED <<market, decisions, positions, trades, seen, articles, matches, account,
                   copies, exits, closing, requests>>

Evaluate ==
    /\ pc = "portfolio" /\ Answered
    /\ LET m == prob.market IN
       \/ /\ Approved(prob, prob.row, hours[m], Portfolio, Cardinality(Open(positions)),
                      Exposure(positions, InMarket(positions, m)),
                      Exposure(positions, InCategory(positions, m)))
          /\ prob' = [market |-> m, price |-> prob.price, our |-> prob.our,
                      size |-> PositionSize(prob, Portfolio.value), value |-> Portfolio.value]
          /\ pc' = "order" /\ account' = <<>>
          /\ UNCHANGED matches
       \/ /\ ~Approved(prob, prob.row, hours[m], Portfolio, Cardinality(Open(positions)),
                       Exposure(positions, InMarket(positions, m)),
                       Exposure(positions, InCategory(positions, m)))
          /\ NextMatch
    /\ UNCHANGED <<market, decisions, positions, trades, seen, articles, copies, exits,
                   closing, requests>>

\* CreateFromRiskDecision: the size is the risk decision's, the limit the
\* probability decision's.
Order == [usd |-> prob.size, limit |-> prob.price, market |-> prob.market]

OrderFill == Fill(Order.usd, Order.limit, GetMarket(Order.market))

PlaceOrder ==
    /\ pc = "order"
    /\ LET fill == OrderFill IN
       \/ /\ fill.quantity = 0
          /\ NextMatch
          /\ UNCHANGED trades
       \/ /\ fill.quantity > 0
          /\ trades' = Append(trades, [market |-> prob.market, size |-> fill.usd, pnl |-> 0,
                                       quantity |-> fill.quantity, status |-> "open"])
          /\ prob' = [market |-> prob.market, our |-> prob.our, value |-> prob.value,
                      fill |-> fill]
          /\ pc' = "position"
          /\ UNCHANGED <<matches, account>>
    /\ UNCHANGED <<market, decisions, positions, seen, articles, copies, exits, closing, requests>>

SavePosition ==
    /\ pc = "position"
    /\ positions' = Append(positions,
            [market |-> prob.market, quantity |-> prob.fill.quantity,
             exposure |-> prob.fill.usd, entry |-> Average(prob.fill),
             price |-> Average(prob.fill), pnl |-> 0, status |-> "open"])
    /\ NextMatch
    /\ UNCHANGED <<market, decisions, trades, seen, articles, copies, exits, closing, requests>>

-----------------------------------------------------------------------------
(* The monitor: it saves every open position marked to the market, from    *)
(* the copy it listed first, and leaves those that have a reason.          *)

ListOpen ==
    /\ pc = "articles" /\ articles = {}
    /\ copies' = {<<i, positions[i]>> : i \in Open(positions)}
    /\ pc' = "marks"
    /\ UNCHANGED <<market, decisions, positions, trades, seen, articles, matches, prob, account,
                   exits, closing, requests>>

\* The columns that SavePosition writes to a row that exists.
UpdatePosition(i, p) ==
    positions' = [positions EXCEPT ![i].price = p.price, ![i].exposure = p.exposure,
                                   ![i].pnl = p.pnl, ![i].status = p.status]

\* A market that the decisions listed do not mention has an edge of 1.
LatestEdge(m) ==
    LET own == SelectSeq(ListProbabilityDecisions, LAMBDA d : d.market = m)
    IN  IF own = <<>> THEN 100 ELSE Head(own).edge

Marked(p) ==
    LET row   == WithLiveState(p.market)
        price == OrElse(row.bid, row.yes)
    IN  [p EXCEPT !.price = price, !.pnl = ((price - p.entry) * p.quantity) \div 100]

Mark ==
    /\ pc = "marks" /\ Answered
    /\ \E copy \in copies :
        LET p == Marked(copy[2])
            reason == ExitReason(p.exposure, p.pnl, LatestEdge(p.market),
                                 DailyLossExceeded(Portfolio), hours[p.market])
        IN  /\ UpdatePosition(copy[1], p)
            /\ copies' = copies \ {copy}
            /\ exits' = IF reason = "hold" THEN exits ELSE exits \cup {copy[1]}
    /\ UNCHANGED <<market, decisions, trades, seen, pc, articles, matches, prob, account,
                   closing, requests>>

Marking ==
    /\ pc = "marks" /\ Answered /\ copies = {}
    /\ pc' = "exits" /\ account' = <<>>
    /\ UNCHANGED <<market, decisions, positions, trades, seen, articles, matches, prob, copies,
                   exits, closing, requests>>

RunDone ==
    /\ pc = "exits" /\ exits = {} /\ closing["loop"] = None
    /\ pc' = "idle"
    /\ UNCHANGED <<market, decisions, positions, trades, seen, articles, matches, prob, account,
                   copies, exits, closing, requests>>

-----------------------------------------------------------------------------
(* Closing a position, by the loop or by a request: the position, then     *)
(* its trade, which is any open one of its quantity or its size.           *)

Closed(p) ==
    LET price == OrElse(GetMarket(p.market).bid, p.price)
    IN  [p EXCEPT !.status = "closed", !.price = price, !.pnl = 0]

SaveClosed(closer, i) ==
    /\ closing[closer] = None
    /\ UpdatePosition(i, Closed(positions[i]))
    /\ closing' = [closing EXCEPT ![closer] = Closed(positions[i])]

Exit ==
    /\ pc = "exits"
    /\ \E i \in exits : SaveClosed("loop", i) /\ exits' = exits \ {i}
    /\ UNCHANGED <<market, decisions, trades, seen, pc, articles, matches, prob, account, copies,
                   requests>>

CloseRequest ==
    /\ requests < MaxRequests
    /\ \E i \in DOMAIN positions : SaveClosed("request", i)
    /\ requests' = requests + 1
    /\ UNCHANGED <<market, decisions, trades, loop>>

Matching(p) ==
    {i \in Open(trades) \cap ListTrades :
        /\ trades[i].market = p.market
        /\ trades[i].quantity = p.quantity \/ trades[i].size = p.exposure}

\* The columns that SaveTrade writes to a row that exists.
UpdateTrade(i, t) == trades' = [trades EXCEPT ![i].status = t.status, ![i].pnl = t.pnl]

SaveTrade(closer) ==
    LET p   == closing[closer]
        pnl == ((p.price - p.entry) * p.quantity) \div 100
    IN  /\ p # None
        /\ \/ \E i \in Matching(p) :
                UpdateTrade(i, [trades[i] EXCEPT !.status = "closed", !.pnl = pnl])
           \/ /\ Matching(p) = {}
              /\ trades' = Append(trades, [market |-> p.market, size |-> p.exposure, pnl |-> pnl,
                                           quantity |-> p.quantity, status |-> "closed"])
        /\ closing' = [closing EXCEPT ![closer] = None]
        /\ UNCHANGED <<market, decisions, positions, loop, requests>>

-----------------------------------------------------------------------------

LoopStep ==
    \/ RunOnce \/ NextArticle \/ AnalyzeFails \/ Calculate \/ ReadMarket \/ Query \/ Evaluate
    \/ PlaceOrder \/ SavePosition \/ ListOpen \/ Mark \/ Marking \/ Exit \/ SaveTrade("loop")
    \/ RunDone

Next ==
    \/ \E m \in Markets : Refresh(m) \/ Receive(m) \/ Pass(m)
    \/ LoopStep
    \/ CloseRequest \/ SaveTrade("request")

Spec == Init /\ [][Next]_vars

\* The ticker starts the loop again and every call it makes returns.
FairSpec == Spec /\ WF_vars(LoopStep) /\ WF_vars(SaveTrade("request"))

-----------------------------------------------------------------------------

Orders == Cardinality(Articles) * MaxAIMatchesPerArticle

Position == [market : Markets, quantity : Nat \ {0}, exposure : Nat \ {0}, entry : 1..99,
             price : Int, pnl : Int, status : {"open", "closed"}]

Trade == [market : Markets, size : Nat \ {0}, pnl : Int, quantity : Nat \ {0},
          status : {"open", "closed"}]

\* Nothing is bought for nothing, and no entry price is out of range.
TablesOK ==
    /\ decisions \in Seq([market : Markets, edge : Int])
    /\ positions \in Seq(Position) /\ trades \in Seq(Trade)
    /\ exits \subseteq DOMAIN positions

\* Quotes of at most a dollar lead to marks and edges of at most a dollar.
PricesOK ==
    /\ \A i \in DOMAIN decisions : decisions[i].edge \in -99..98
    /\ \A i \in DOMAIN positions : positions[i].price \in 0..100

ControlOK ==
    /\ seen \subseteq Articles /\ articles \subseteq Articles \ seen
    /\ pc \in {"idle", "articles", "matches", "evaluate", "portfolio", "order", "position",
               "marks", "exits"}
    /\ DOMAIN account \subseteq {"trades", "positions"}
    /\ changes \in 0..MaxChanges /\ requests \in 0..MaxRequests

\* No more decisions and positions than articles can lead to.
Bounded == Len(decisions) <= Orders /\ Len(positions) <= Orders

MarketsTradable ==
    \A m \in Markets : /\ rows[m].spread <= MarketMaxSpread
                       /\ hours[m] \in Remaining \cup {InitialHours, 24}

TypeOK == TablesOK /\ PricesOK /\ ControlOK /\ Bounded /\ MarketsTradable

\* A position is never bought beyond the shares of the portfolio that one
\* market and one category may have, although the portfolio was read, the
\* positions listed and the order filled in steps of their own, with
\* requests closing positions between them.
ExposureLimit ==
    [][Len(positions') > Len(positions) =>
        LET m == prob.market IN
        /\ Exposure(positions', InMarket(positions', m)) <= MarketLimit(prob.value)
        /\ Exposure(positions', InCategory(positions', m)) <= CategoryLimit(prob.value)]_vars

\* Every open position has an open trade to account for it: not so after the
\* monitor has saved a copy of a position closed since.
Backed == Exposure(positions, Open(positions)) <= Size(trades, Open(trades))

\* The two queries of the portfolio, with a close between them, never make
\* the account worth more than its cash and its open positions, as long as
\* all trades are listed.
NeverOverstated ==
    [][Cardinality(DOMAIN account) = 1 /\ Cardinality(DOMAIN account') = 2 /\ Backed
       /\ Len(trades) <= TradesListed
        => Value(account') <= PaperStartingBalanceUSD + account'["positions"].pnl]_vars

\* What is bought costs less than the estimate by the edge asked for, although
\* the decision saw the live market and the order fills in the stored one.
BoughtBelowEstimate ==
    [][Len(positions') > Len(positions) =>
        positions'[Len(positions')].entry + EdgeThreshold <= prob.our]_vars

\* A market about to end is left in the end, even when the scanner has
\* stopped refreshing it, unless its end moves away, as that of a market
\* without a date does at each refresh.
ExpiringIsLeft ==
    \A m \in Markets :
        (hours[m] < ExitBeforeExpiryHours)
        ~> (InMarket(positions, m) = {} \/ hours[m] >= ExitBeforeExpiryHours)
=============================================================================
