# aiTrade in TLA+

aiTrade trades prediction markets on news. A fetch service collects articles
and market prices; a process service matches articles to markets, asks a model
for a signal, turns it into a probability, a risk decision and an order, keeps
a book of paper positions, and closes them again. This directory holds TLA+
specifications of its stateful core, the TLC configurations that check them on
small instances, and TLAPS proofs of the properties that matter most for
instances of any size.

In this file `P/` is `src/polymarket-process-service/` and `F/` is
`src/polymarket-fetch-data-service/`.

## Inventory

| Component | State | Operations | What makes it correct | Module |
|---|---|---|---|---|
| Paper execution, position monitor, exit engine (`P/app/executionEngine`, `P/app/positionEngine`, `P/app/exitEngine`) | tables `positions` and `trades` | `PlaceOrder`, `ClosePosition`, `UpdateOpenPositions`, `Execute` | the open-position limit holds; a position opens once, closes once and is booked once; trades and positions agree; what has to be left is left | `PaperTrading`, `TradeLedger`, `PaperAccounts` |
| Risk engine (`P/app/riskEngine/engine.go`) | none, reads positions and portfolio | `Evaluate` | no limit is passed by an order, though everything it reads may have changed | `TradingRules`, `PaperAccounts`; the gate under failures: `PaperTrading` |
| Kafka consumer (`P/pkg/kafka`, same code in `F/pkg/kafka`) | offset marked and committed, attempt | `HandleMessage`, `retry`, `ConsumeClaim` | a commit skips nothing but what its own session gave up, and never moves back; redelivery only after a disruption; progress | `KafkaConsumer` |
| Live loop (`P/app/live/service/live_loop.go`, `live_run_once.go`) | `running`, `stopping`, `cancel`, `runMu` | `Start`, `Stop`, `RunOnce` | one loop, flags tell the truth, Stop takes effect, an article is not processed again soon | `LiveLoop` |
| Seen tracker (`P/app/live/service/seen_tracker.go`) | set and order of article ids | `Has`, `Add` | bounded, oldest evicted, set and order agree | `SeenTracker` |
| Event-driven pipeline (`live_run_once.go`, `P/cmd/app/main.go`) | Kafka topics, signal, probability, risk tables | one handler per topic | an event leads to at most one order; what is handled is handed on; no stage makes the next one fail | `TradingPipeline` |
| Dashboard event stream (`P/app/dashboard/service/stream_service.go`, `P/app/dashboard/handler/sse_handler.go`) | subscribers' buffered channels, throttle times | `Subscribe`, `Publish`, `offer`, unsubscribe | throttling over both paths, critical events survive a full buffer, no publisher waits | `DashboardStream` |
| Market stream (`F/app/marketStream`), the loop of `F/cmd/app/main.go` | `running`, the events channel, live states | `Start`, `Stop`, `ws.Run`, `consume`, `refreshMarkets` | one web socket; rows before quotes; the stream comes back; Stop ends it | `MarketStream` |
| Market scanner (`F/app/marketScanner`) | none, writes `markets` | `Refresh`, the REST answers | only tradable markets get rows | `MarketStream` (steps), `TradingRules` (data) |
| News fetcher and cache (`F/app/newsFetcher`, `F/pkg/cache`) | dedupe keys | `FetchNow` | an article is announced once per key and not lost | `NewsFetcher` |
| AI signal (`P/app/aiSignal`) | token bucket | `Analyze`, `ChatJSON`, `wait` | nothing malformed is accepted | `TradingRules`, `PaperAccounts`, `TradingPipeline` |
| Probability engine, matcher (`P/app/probabilityEngine`, `P/app/newsMarketMatcher`, `P/pkg/textmatch`) | none | `Calculate`, `Match` | an order costs less than its estimate | `TradingRules`, `PaperAccounts` |
| Portfolio and stores (`P/pkg/repository/store.go`, same in `F/`) | the tables | `Portfolio`, saves, lists | the sums tell of one book | `PaperAccounts`; tables in every module |
| Real execution (`P/app/executionEngine/polymarket_execution_provider.go`) | none | `PlaceOrder` | never enabled | not modelled |
| REST handlers that read, configuration, logging, HTTP client, ids | none | I/O and parsing | | not modelled |

The components meet in three places. `RunOnce` (the live loop's goroutine or a
`POST /live/run-once`) runs the whole chain in one thread: matching, signal,
probability, risk, `PlaceOrder`, then the monitor and the exits. The Kafka
groups of the process service run the same engines from events, one group per
stage, in threads of their own. And the REST handlers close positions and start
and stop the loop. All of them share the store with the fetch service, which
writes markets, live states and articles; only `RunOnce` has a lock (`runMu`),
so every other pair of threads interleaves between any two store calls. Rows
are read as copies and saved whole (`SavePosition`, `SaveTrade`).

What is hard to get right, and at which line, is in `PROJECT.json` under
`hazards`. In short: a risk check long before the save it protects; sums taken
of tables that were read at different moments; stale rows written back; a close
executed twice; trades and positions paired by quantity or size because no key
relates them; a partial failure or a crash between the two saves of an order or
a close; rebalances and dead-letter failures around offset commits; a dedupe
key set before the work it stands for; Start and Stop racing the end of what
they started; channels closed while a publisher sends to them.

## The modules

No module includes another's variables; they meet in the tables and topics that
each of them states. `TradingRules` is extended by `PaperAccounts`,
`SeenTracker` by `LiveLoop`, and `PaperTrading` instantiates `TradeLedger` for
its refinement. A module `MCx` gives instances of `x` to TLC where a `.cfg`
cannot; `x_proofs` holds its theorems.

### PaperTrading and TradeLedger

`PaperTrading` is the paper book with one store call per step. Its threads are
the constants `Live` (RunOnce; `runMu` admits one at a time), `Http` (close
requests) and `Consumers` (claims of the `-position` consumer group: price and
order book events run the monitor, `position.exit_candidate` closes).

| Variable | Code |
|---|---|
| `position`, `trade` | the status columns of the row that order *i* wrote |
| `fill` | its market with outcome, quantity and size, which both rows hold |
| `pnl` | whose realised PnL the trade row holds |
| `synthetic` | closed trade rows that `ClosePosition` inserted when it found no open trade |
| `candidates` | published exit candidates; delivery is at least once, so they stay |
| `pc`, `order`, `todo`, `exits`, `target`, `match` | program counters and local variables |

The actions follow the calls: `RiskApprove` (`Evaluate`, whose dropped error is
`ListedByRisk`), `SaveOpenTrade` and `SaveOpenPosition` (`PlaceOrder`),
`ListOpenPositions`, `UpdateOpenPosition`, `SkipOpenPosition` and `MonitorDone`
(`UpdateOpenPositions`), `NextExit`, `SaveClosedPosition`, `MatchOpenTrade`,
`SaveClosedTrade` and `InsertClosedTrade` (`Execute`, `ClosePosition`,
`matchingOpenTrade`), and `CloseRequest` and `ConsumeExitCandidate`, which start
a close elsewhere. `Crash` keeps tables and topic and drops every thread; a
panic inside RunOnce does the same to the tables. Prices, PnL amounts and what
decides an exit are data: any open position may be given up at any monitoring
pass, any order may be refused. `Fills[i]` holds the fills that order *i* may
get; `FailingReads` and `WriteFails` name the store calls that may fail.

The tables of the model survive a crash, as those of Postgres do; the memory
store that the service falls back to starts empty. `MatchOpenTrade` may take
any match, since the memory store lists its map in no order.

`TradeLedger` says what a book is: open below the limit, close, book, each
once and in that order. `LedgerSpec` states that `PaperTrading` implements it
under the mapping `status <- position`, `booked <- ` the number of trade rows
that hold the position's PnL.

### KafkaConsumer

One partition and one consumer group. `Deliver`, `HandlerSucceeds`,
`HandlerFails`, `BackoffExpires`, `BackoffCancelled`, `DeadLetter`, `GiveUp`
and `Commit` are `HandleMessage` with `retry`; `Join`, `Cancel`, `Leave` and
`Crash` are the group's sessions. `base` is bookkeeping: where the group began
to read, since `OffsetNewest` skips what was there before its first commit.

A rebalance cancels the session, but `ConsumeClaim` reads its channel until it
is closed and empty, so `Deliver` goes on in a cancelled session, and how many
messages it still gets is open (`Leave` may come at any time). `Abandon` is the
return without a commit, whose error `ConsumeClaim` drops; `givenUp` is
bookkeeping, the messages that this session has so returned from. Two constants
name the surroundings: `HasProducer` (main always sets one) and `DlqFails` (may
the dead-letter topic refuse?). The handlers themselves are opaque: they
succeed or fail.

### SeenTracker and LiveLoop

`SeenTracker` is the set-and-list of article ids with eviction. `LiveLoop`
extends it with Start, Stop, the loop goroutines and RunOnce. `loopMu` makes
Start, Stop and the goroutine's deferred reset atomic; `runMu.TryLock` is
`EnterRun` and `SkipRun`; `TakeArticle` and `FinishArticle` are one turn of the
article loop, from `Has` to `Add`, with `processArticle` in between (its effect
on the book is `PaperTrading`'s), and `PanicInRun` is the path of the deferred
`recover`. Articles are numbered by their published date and arrive in any
order, since feeds deliver late and date articles in the future; those in
`Poisoned` may panic. `Listings` is what the store may answer: Postgres the
newest by that date, newest first (`Sorted`), the memory store any of its
articles. `since` is bookkeeping: how many other articles were remembered since
one was last taken up.

### TradingPipeline

Five groups, one per stage, from `news.arrived` to the order. A handler saves
the row its event carries (`SaveInput`), reads what else it needs, saves a row
of its own (`SaveMatch`, `Analyze`, `Calculate`, `Evaluate`,
`CreateFromRiskDecision`) and publishes it (`Publish`); or it has nothing to
hand on (`Decline`), or it fails (`Refused` because of what is in the store,
`HandlerFails` because of the environment) and is retried from its start.
A handler that has returned, or whose dead letter was sent, leaves its outcome
in `pc`; the commit is the step after it (`Commit`, or `CommitFails`, which
leaves the offset to the next one). `Skip` is an event that is given up without
a commit in a session that goes on, `Rebalance` a new session of one group and
`Restart` one of every group: each resumes at `committed`, so whatever was
published and not committed is handled again. `Restart` empties the memory
store as well, and `MarketSelected` fills its market table again. `PublishLost`
is the publish error that the bus only logs, `PublishAgain` the retry of a
producer that is not idempotent (`P/pkg/kafka/config.go:33`) after a lost
acknowledgement.

A row's name is its descent (article, market, and the number of each output
along the way), which is as fresh as an id drawn by `idgen.New` and does not
depend on the order in which the groups run. Delivery and dead letters are
those of `KafkaConsumer` in brief: `outcome[s]` has one entry per event that
group *s* has behind it, `committed[s]` says how many of them its offset has
passed.

Which store is in use is chosen in `Init`, as `OpenStore` does, and kept. The
two differ in one answer: Postgres refuses to insert a signal, probability
decision or risk decision again (`Conflict`).

### TradingRules and PaperAccounts

`TradingRules` holds what the code computes and keeps nothing: what an answer
of the exchange becomes (`Listing` with its fallbacks from one field name to
the next, `OrderBook`, `Midpoint`, `Spread`, `HoursLeft`), which markets are
tradable, the live state of a web socket message and how it is laid over a row,
keywords and match scores, the validation of the AI's answer, the probability
engine, the walk through an order book, every check of the risk engine with the
Kelly size, and the exit reasons. Prices are in cents and divisions round down,
where the code has floating point; only the shares that a sum buys round up
(`Shares`), since with fewer shares the average price of a fill could exceed
the dearest level it took by rounding alone. Only yes-buys are there: both callers of the
probability engine ask for nothing else.

`PaperAccounts` is RunOnce with these rules and real numbers, next to a scanner
and a stream that rewrite the market (`Refresh`, `Receive`), time that passes
(`Pass`) and requests that close positions (`CloseRequest`). The store is
Postgres: the portfolio is two queries (`Query`), with anything in between.

| Variable | Code |
|---|---|
| `rows`, `live`, `hours` | `markets`, `live_market_states`, the time to `EndTime` |
| `decisions` | `probability_decisions`, of which `latestEdge` sees the newest `DecisionsListed` |
| `positions`, `trades` | the tables, by age; the portfolio and a close see the newest `TradesListed` trades |
| `pc`, `articles`, `matches`, `prob`, `account`, `copies`, `exits` | where RunOnce is, with its locals |
| `closing` | per closer, the position saved as closed whose trade is not |

The steps of an order are `Calculate`, `ReadMarket`, two of `Query`,
`Evaluate`, `PlaceOrder` (the fill and the trade) and `SavePosition`; those of
the monitor `ListOpen`, `Query`, `Mark` per position and `Exit` per reason. What
an upsert leaves alone when the row exists is left alone (`UpdatePosition`,
`UpdateTrade`). Failing calls are `PaperTrading`'s, panics `LiveLoop`'s.

### DashboardStream

A thread of the service publishes on the composite bus: to the stream, then to
Kafka. The `-dashboard` consumer publishes what Kafka gives it on the stream
again, the fetch service's events included. `Entry` and `Throttled` are
`PublishEnvelope`; `CopySubscribers` copies the sessions under the lock, and
each select of `offer` is a step (`Send`, `TakeOldest`, `PutBack`, `Drop`,
`SecondTry`). Sessions subscribe, read (`Write`) and leave at any time, and a
send on a closed channel is a panic: recovered in a RunOnce thread, the end of
the process in the consumer's goroutine. `due` is history: what a session that
keeps up must have.

### MarketStream

The loop of the fetch service (`FetchMarkets`, `SaveMarket` row by row,
`Announce`, `Start`, `Tick`, `Stop`) and the two goroutines of each stream: the
reader (`ws.Run` from dial to the deferred `cancel`, `close` and reset of the
flag) and the consumer, over a bounded channel. `SaveUpdate` is the
`-position` group of the process service, which saves each quote again, at any
time later. `Restart` ends the process anywhere. Both tokens of a market write
one row, as they do in the code, so a quote is a market and a number.

### NewsFetcher

`FetchNow` in its three loops: `CheckNew`, `CheckDuplicate` and `CheckFails`
ask the cache, `SaveArticle` and `SaveFails` the store, `Announce` and
`AnnounceFails` the bus. GDELT's answer comes before the feeds'; an article is
its hash, and one without a date that can be read (`Undated`) has the time of
the fetch in its hash, so its key never meets it again. Cache and store are
each durable or the memory fallback, chosen in `Init`; `Expire` is a key's day,
`Restart` empties the fallbacks. `announced`, `doubts`, `told` and `excused`
are bookkeeping for the properties.

### Seeded faults

A definition introduced by `\* Fault:` is a version of its neighbour with a
plausible mistake in it (a dropped guard, an off-by-one, a missing reset). No
action uses one. Each is there to be put in its neighbour's place, which must
make the property listed with it under `mutants` in `PROJECT.json` fail: a
check on the checks.

## What the runs check

| Run | Question | Properties |
|---|---|---|
| `PaperLedger` | Does the RunOnce thread alone keep a proper book? Three orders, four fills, some of them equal | `LedgerSpec` (implements `TradeLedger`), `TradesMirrorPositions` |
| `PaperRequests` | Does the limit hold while a close request races RunOnce and anything but the risk engine's read fails? | `TypeOK`, `OpenLimit` |
| `PaperConsumers` | What survives when RunOnce and a position consumer close and re-open the same positions? | `ClosedIsBooked`, `DecidedExitCloses`, `ClosedGetsBooked` |
| `PaperAccounts` | With real prices, books and answers, and the market moving between any two steps: what do orders cost, what do the sums say, what is left in the end? | `TypeOK`, `ExposureLimit`, `NeverOverstated`, `BoughtBelowEstimate`, `ExpiringIsLeft` |
| `KafkaConsumer` | What may a commit skip, and is anything committed backwards, redelivered without reason or stuck, over rebalances, crashes, refused dead letters and failed commits? | `CommitSkips`, `CommitForward`, `RedeliveryNeedsDisruption`, `EventuallySettled` |
| `LiveLoop` | Start and Stop at any time, two loops and a request, articles in any order of their dates, one that panics | `TypeOK`, `FlagsMatchLoop`, `RememberedForMaxSeen`, `StopTakesEffect`, `ListedIsProcessed`, and of the tracker `TrackerOK` |
| `TradingPipeline` | What do redelivery, failures, and restarts between publication and commit do to an article on its way to an order? | `TypeOK`, `DuplicatesNeedFaults`, `DoneIsHandedOn`, `DeadLettersHaveCause`, `GroupsCatchUp` |
| `DashboardStream` | Three events of both classes over both paths to a session that reads, stalls or leaves: what reaches it? | `StatesSpaced`, `KeepsUpGetsAll`, `CriticalSurvives`, `PublishReturns` |
| `MarketStream` | Refreshes, lost connections, a web socket that gives up, late writers, a restart and a shutdown | `OneReader`, `RowsFirst`, `OlderQuotesAreLate`, `StreamResumes`, `StopEndsStreams` |
| `NewsFetcher` | Rounds with two faults on any mix of durable and memory cache and store: what is announced, how often, and what is lost? | `OncePerKey`, `KeyStandsForNews`, `FeedsAreTold` |

The properties are stated, with the code they are about, at the end of each
module. All of them hold.

### Where the code disagrees with its documents

Two more runs each check one statement of a document of the repository, and TLC
refutes it. `PROJECT.json` quotes the statements under `findings`.

| Run | What happens |
|---|---|
| `PipelineOnPostgres` | With nothing going wrong, every signal event is dead-lettered, because its row is in the table already. |
| `DashboardPanic` | A session ends between the copy of the subscribers and the offer: the consumer sends on a closed channel, nothing recovers the panic, the process ends. |

### Seen, and not a run

These came up while the modules and bounds were chosen. Constants of the models
reproduce the first group; no statement in the repository contradicts the
others.

- Messages are lost in two ways, both within the run `KafkaConsumer`: a
  dead-letter publish fails, or a message is given up because its session was
  cancelled. The error is dropped (`P/pkg/kafka/consumer.go:142`), and the
  commit of the next message covers the lost one; in a cancelled session that
  is one still buffered in the claim (`:137`). `CommitSkips` says that nothing
  else is lost. Settled out of order are the same messages.
- An article that is evicted from the seen tracker while it is still among the
  listed ones is traded again (`P/app/live/service/seen_tracker.go:27`): one
  dated in the future, or one that the memory store lists.
- `"risk"` in `FailingReads`: a failed `ListPositions` in the risk engine
  counts as an empty book and breaks the limit. `Consumers` not empty: a second
  monitor breaks it too, since its stale copy re-opens a position in whose
  place another was opened. `WriteFails`: a failed save between the two halves
  of an order or a close is never repaired.
- The monitor's stale copy re-opens a position that a request closed
  (`P/app/positionEngine/monitor.go:83`); a second close of a booked position,
  by a request or by the exit candidate of a monitor that closed it already,
  inserts a second closed trade with the same PnL; two orders of one market
  with equal size and different quantity may close each other's trade.
- Quotes of the no-token overwrite the yes-token's, since a live state has only
  its market for a key; the `-position` group may bring an old one back.
- A market without an end that can be read ends 24 hours after each refresh, so
  it is never left for expiry; a category that is null becomes the text
  `<nil>`; a yes price of 0 falls back to the first price of the list.
- An article of a feed that is older than a day is announced every day, and one
  without a date in every round. A restart empties the seen tracker, so what is
  still listed is traded again. With `LIVE_AUTO_START` and Kafka an article is
  traded by RunOnce and by the pipeline.
- The matcher's score is at most 0.85, since the embedding score is always 0,
  and at most 0.45 without entities: with a threshold of 0.70 a market whose
  question names no known entity is never matched.
- `DailyPnL` is the PnL of all time, and realised PnL never reaches the cash.
  `latestEdge` sees the newest 100 decisions and takes a market they do not
  mention to have an edge of 1. An order may find nothing to fill, because the
  decision saw the live book and the fill walks the stored one.
- Real trading: `main` wants `I_UNDERSTAND_REAL_TRADING`, the provider
  `I_UNDERSTAND_THIS_CAN_LOSE_MONEY`; no setting has both.

## Bounds, and why they are enough

- *Orders* (`Ids`): two or three. Every hazard of the book involves one
  position, or two that are confused or compete for the last place below the
  limit; with three orders and a limit of one or two there is always one to
  spare. In `PaperLedger` a fill may equal another one, or differ in market, in
  size, or in both numbers. `PaperRequests` needs fewer kinds since the limit
  does not depend on pairing. `PaperConsumers` needs fills that no rule can
  confuse (`MCDistinctFills`).
- *Threads*: RunOnce and one request, or RunOnce and one consumer. One request
  can run any number of times.
- `SyntheticCap`: a counter that saturates at two; the properties only ask
  whether it is zero, one or more. `since` saturates at `MaxSeen`.
- *Kafka*: three messages, two attempts, three disruptions. What a commit skips
  takes one message given up, one handled after it and, for what must not be
  lost, one given up in an earlier session; the theorems drop every bound. The
  log and the number of disruptions are finite, so the
  system comes to rest, and the cfgs do not ask for absence of deadlock.
- *Live loop*: two goroutines (an old one that is still stopping and a new
  one) and one request; four articles that arrive in any order of their dates,
  a list of two, a tracker of two. So the tracker evicts articles that are no
  longer listed and articles that are, and the latter are processed again.
  The run lists as Postgres does; the theorem covers the memory store.
- *Pipeline*: one article about two markets and one fault, or one about a
  single market and two faults, one on the memory store (`MCFeeds`,
  `MCMaxFaults`); two attempts where
  the code has three, so that two faults exhaust them. `MaxReturned` is two:
  at most two groups at a time have returned and not committed. A restart then
  brings back two events at once, and three orders with a single fault are
  reached; with `MaxReturned` five there are six, which is what
  `DuplicatesNeedFaults` allows, and the theorem has no such bound. The feed is
  finite and the system comes to rest.
- *Accounts*: two articles, one about two markets, and two markets of one
  category with two or three quotes each, so that the third order meets the
  market's limit, the category's and the limit on open positions; one change
  of a market, at any moment, and one request. An answer of the AI is good,
  bad or out of shape. One change suffices for each hazard: the market falls
  between decision and fill, the spread widens, the end comes. Two decisions
  are listed of up to four, and three trades of more, so that old ones of each
  are missed as with the 100 and 10000 of the code. Limits and percentages are
  those of a small account, not the defaults.
- *Dashboard*: one session with a buffer of two, three events of a throttled
  and an unthrottled type, a clock of one step. The third event finds the
  buffer full; two publishers meet in `offer`.
- *Market stream*: one market (its two tokens share a row), two streams, since
  an old one may end while a new one runs, a channel of two, two quotes and a
  restart. The streams do not stop at a bound of refreshes.
- *News*: an article of GDELT and two of the feeds, one undated; an answer of
  up to three articles, which may repeat one; two faults, so that a failed
  check and a failed save can meet.
- Symmetry is used for order identities, in runs of safety properties, and in
  `PaperLedger` for a refinement that mentions orders symmetrically.

## Fairness

- A goroutine that has work in hand is scheduled: weak fairness of each
  thread's own steps (`Fairness` of `PaperTrading` once a thread is busy,
  `HandleMessage` of `KafkaConsumer`, `Loop`, `Tick` and `RunOnce` of
  `LiveLoop`, `Work` of `TradingPipeline`, `PublisherStep` of
  `DashboardStream`, `FetchNow` of `NewsFetcher`, each goroutine of
  `MarketStream`). Starting a cycle, a request, a
  Start or a Stop is never required.
- Go's `select` picks at random among ready cases, so a loop whose context is
  done and whose ticker keeps firing will not choose the tick for ever: strong
  fairness of `SelectDone`.
- A consumer that left its group joins again (`Start` loops around `Consume`),
  and a cancelled session ends: weak fairness of `Join` and `Leave`.
- The live loop of `PaperAccounts` starts again at its ticker and every call
  returns: weak fairness of `LoopStep`, and of the second half of a request.
- The fetch service: its main loop goes on (weak fairness of `Refresh` and
  `Tick`), refreshes do not fail for ever, and the `select` with the signal in
  it does not choose the ticker for ever (strong fairness of `Stop`). Nothing
  is assumed of the web socket: it may give up or stay silent. Keys expire, and
  a feed lists an article again and again (strong fairness of `Lists`): an
  article it lists too rarely may be missed.
- Rebalances, crashes, failures and lost events are finite (they are bounded);
  none of them is fair.

## Proofs

The theorems hold for every value of the constants that meets the named
`ASSUME`s. The proof modules are named `<Module>_proofs`; the theorems of
`SeenTracker` are in `LiveLoop_proofs`. TLC checked each inductive invariant on
an instance before it was proved. A theorem without a hypothesis below needs
none.

- *The limit* (`OpenLimitHolds`), with no position consumers and a risk engine
  that can read the book. `OpenLimit` is not inductive: between the check and
  the save an order holds a place (`RoomForOrder`), and the monitor's copies
  may re-open positions that a request has closed, so the copies still to be
  written back count as open (`RoomForCopies`). That only RunOnce monitors
  (`OnlyLiveMonitors`) is what keeps the copies from outliving the check.
- *The ledger* (`ImplementsLedger`), for RunOnce as the only thread. `LedgerInv`
  says which columns go together, that an order under way is new, that copies
  and exits still to be handled are open, and that a target is open or its
  trade is still due; from it every step is a ledger step or a stutter.
- *Booking* (`ClosedAreBooked`), for any requests and consumers, while no two
  fills can be confused (`DistinctFills`) and closes run through
  (`ClosesRunThrough`: trades can be read, saves succeed, no crash in
  between; without any of the three the code leaves a closed position
  unbooked). A close knows its trade only by equal quantities or sizes.
  `BookInv` says that the trade it found is the position's own, that a close
  which found none came after one that booked it, and that no trade is closed
  without its PnL.
- *Trades and positions* (`MirrorHolds`), for RunOnce as the only thread and
  closes that run through, from `LedgerInv` and `BookInv` together: a second
  thread may re-open a position whose trade stays closed, and does.
- *The consumer*, in every configuration. `CommitsSkipOnlyGivenUp`: `SkipInv`
  says that a session has settled or given up itself whatever lies between the
  committed offset and the message in hand, so that what it marks covers
  nothing else; `CommitBehind`, from which `CommitMovesForward`
  follows, keeps marked and committed offset behind the claim. `NoLossWhileActive`
  has two hypotheses, the producer and a dead-letter topic that accepts: a
  session that is not cancelled then gives nothing up. For
  `RedeliveryIsDisruption`, `FreshInv` says that before any disruption there is
  one session at most and its claim is beyond all that was settled.
- *The tracker* (`TrackerCorrect`, `EvictionInOrder`), from one lemma on what
  `Add` drops from the order list; `TrackerStaysOK` says the same of the
  tracker inside `LiveLoop`.
- *The loop* (`FlagsHold`): `FlagsInv` adds that the context of a loop that was
  never started is not cancelled.
- *Processed again late* (`ProcessedAgainLate`), for any listings, arrivals and
  number of evictions, the memory store included. `AgeInv` says that an
  article was never processed, or is in hand, or is as far from the end of the
  tracker's order list as `since` counts, or has had `MaxSeen` others after it. That no article is
  ever processed twice would need every article to leave the list before the
  tracker forgets it, which the code does not ensure: the list is ordered by
  the date an article claims, the tracker by when it was processed.
- *The pipeline* (`DeadLettersCaused`): `CauseInv` adds that Postgres, and a
  memory store before any fault, hold the markets, the row at hand and the
  parent of every row made, so that nothing a stage reads can be missing there
  (`RefusedIsExcused`); and that a stage whose failures the store does not
  excuse has failed no more often than there were faults.
  `DoneHandedOn`: `FlowInv` adds what a handler under way has handed on
  already, and that what it is about to publish descends from its event.
  `DuplicatesCounted`: the orders of an article in a market, and the events
  that may yet become one (`Pending`), are together at most `Allowed`. Every
  event beyond the committed offset is pending (`Waiting`), those that the group
  has behind it included, since the next session reads them again; only the one
  in hand ceases to be when its output is published or its handler returns. A
  handler that runs well turns one pending event into another, a fault brings back or adds one at
  most (`OneComesBack`, `OneMovesOn`), and a restart one per group
  (`EachMayComeBack`), hence five. The number of handlers that have returned
  and not committed is not bounded. Its hypothesis `NoArticleTwice`, that no article is fed twice, is
  what the dedupe keys of the fetch service are for; an article announced
  again is ordered again.
- *The dashboard* (`StatesStaySpaced`, `KeepingUpGetsAll`,
  `CriticalEventsSurvive`), for any sessions, buffers and publishers. `StreamTypes` comes first. An event is
  checked against `lastSent` when it is published and reaches a session much
  later, so `SpacedInv` adds that `lastSent` is the newest of all that was let
  through, and that what publishers hold is apart from what a session has and
  from what others hold. `KeepInv` adds to `KeepsUpGetsAll` that only an open
  session keeps up, so that no copy of the open ones misses it, and that no
  publisher that makes room works on its buffer (`OnlyKeepers`). The entries
  of one publisher (`Via`) are a recursive function of a sequence; that there
  is one, and that it grows by what is appended (`ViaAppend`), is proved by
  induction on the length.
- *The news* (`RowsComeFirst`, `AnnouncedOnce`, `NothingHeldBack`), for any
  answers, faults and restarts, from one invariant. `Counted` is the core:
  announcements made under a key, and the places of `unique` that are still to
  be announced, are together no more than the key and the failed checks allow;
  `RoundOK` says what each loop has behind it (the announcing loop holds a
  suffix of `unique`), and `KeysOK` is `KeyStandsForNews` with places instead
  of a set.
- *The stream* (`ReaderIsAlone`, `RowsComeFirst`, `OnlyLateWritersGoBack`), for
  any number of streams, markets and restarts. `OneReader` is inductive with
  the types: while a reader exists the flag is set, so `Start` starts none, and
  the flag is cleared by the reader's last step or after the loop has stopped.
  `RowsInv` adds to `RowsFirst` whatever holds a quote on its way: the channel,
  the hand of the consumer, the reader, and the updates in Kafka. `NewestInv`
  says that what the stream with the reader has on its way is in order, and
  newer than every row, every update and all that an older stream still holds.
- *The accounts* (`TypeCorrect`, `BuysBelowEstimate`, `ExposureStaysLimited`,
  `ValueNeverOverstated` of `PaperAccounts`), for any markets, quotes, answers
  and settings. Sums over tables and walks through a book are folds, and a fold
  is a function chosen to meet its own equation; that there is one
  (`FoldExists`), and what holds of its values (`SubsetInduction`), is proved
  by induction on the size of the set, once for all folds, with the set of
  what has been shown in place of a predicate. From it follow the two facts
  that matter: a sum can be taken apart at any element (`Sums`), and a fill
  spends no more than the order and pays no more than its limit on average,
  whatever the levels (`WalkBounds`, `FillBounds`).
  `AccountsInv` says what the loop holds at each of its places: rows were
  tradable when saved (`MarketsOK`), an order is below its estimate by the edge
  asked for and so is what it has bought (`ProbOK`), copies and closers hold
  positions (`CopiesOK`), the portfolio is read in its order (`AccountOK`).
  `TypeOK` adds how much there is: `CountInv` counts a decision for each match
  of an article that has been dealt with. Its hypothesis `AtMostADollar` is
  about what is quoted, which no code checks.
  For `ExposureLimit`, `RoomOK` says that an order, and then the fill, still
  fit; only closes happen to the positions in between. The hypothesis
  `CategoriesStay` is needed: a refresh that moves another market into the
  category after the check makes the purchase exceed the share, and the code
  does not look again.
  For `NeverOverstated`, `SpentOK` says that what the first query has read as
  spent is no less than what is spent later, since nothing is bought between
  the queries. The property itself excepts two cases: a position whose trade is
  closed already (`Backed`), and trades too old to be listed.
- *Types* (`TypeCorrect` of `PaperTrading`, `KafkaConsumer`, `LiveLoop`,
  `TradingPipeline`, `NewsFetcher` and `MarketStream`, `StreamTypes` of
  `DashboardStream`). For four of them no run repeats what the theorem says.

The proofs rest on the `ASSUME`s of the modules, which say of which kind the
constants are. Four of them deserve a word: `QuotesAssumption`, that what is
parsed from an answer is numbers, of any sign, is what the parsing does; `FillsAssumption`, that the mark
for no order is not a fill, and `NoneAssumption`, that the mark for an absent
value is neither an event nor a time, only keep the model's marks apart from
its data; `LoopSeenAssumption` asks for a tracker that evicts in the loop, as
the code's does, where `SeenTracker` allows a 0, with which it never does.

Only model-checked is everything under fairness (`EventuallySettled`,
`StopTakesEffect`, `ListedIsProcessed`, `DecidedExitCloses`,
`ClosedGetsBooked`, `GroupsCatchUp`, `PublishReturns`, `StreamResumes`,
`StopEndsStreams`, `FeedsAreTold`, `ExpiringIsLeft`): liveness is out of the
proof system's reach.

## Not modelled

REST handlers that only read, configuration, logging, the HTTP and WebSocket
clients, envelope and id formats: I/O or formatting with no state of their own.
The AI's token bucket only delays its caller; that a service without key drops
the error of its save (`P/app/aiSignal/signal.go:88`), so that a signal is
published without its row, is left out. `MarketStream` gives quotes and order
books one queue to the process service, where they have a topic each. The scanner's ranking of
candidates decides which markets are selected, which `MarketStream` leaves
open. Real execution cannot be enabled. No-positions and sells have code and no
caller. Audits, cached live states and `market.moved` are written and never
read. `LIVE_RUN_ONCE_PUBLISH_PIPELINE_EVENTS` appears in `PaperTrading` for
exit candidates only; that RunOnce then feeds every stage of the pipeline as
well is not modelled. Topics have one partition in the models; with more, only
the order within a key would remain, and no property across keys is stated.

## Plan

1. RunOnce as an actor of `TradingPipeline`, with and without pipeline events,
   and `RealTradingGate`, the start-up checks of paper mode.
