---------------------------- MODULE PaperTrading ----------------------------
(***************************************************************************)
(* The paper book of the process service: the positions and trades tables  *)
(* and the threads that read and write them, one store call per step.      *)
(*                                                                         *)
(*   Live       the RunOnce cycle; runMu admits one at a time (the loop    *)
(*              and POST /live/run-once are interchangeable here)          *)
(*   Http       POST /positions/{id}/close requests, not under runMu       *)
(*   Consumers  partitions of the -position consumer group, not under      *)
(*              runMu                                                      *)
(*                                                                         *)
(* A row is read as a copy and written back whole, so what a thread wrote  *)
(* may be overwritten by another thread's older copy.  An order's trade    *)
(* and position have independent fresh ids in the code; both are called i  *)
(* here so that properties can relate them, and no action uses the pairing.*)
(***************************************************************************)
EXTENDS Naturals, Sequences, FiniteSets

CONSTANTS
    Ids,                    \* fresh order identities (idgen.New), a bound
    Fills,                  \* Fills[i]: what order i may fill, each a
                            \* [market, quantity, size]
    Live,                   \* the RunOnce thread
    Http,                   \* concurrent close requests
    Consumers,              \* concurrent claims of the position group
    MaxTotalOpenPositions,  \* config.MaxTotalOpenPositions
    PublishPipelineEvents,  \* config.LiveRunOncePublishPipelineEvents
    FailingReads,           \* reads that may return an error, of AllReads
    WriteFails,             \* may a Save of the store return an error?
    Crashes,                \* may the process stop and restart?
    NoId

\* ListPositions for the risk engine; ListPositions or Portfolio for the
\* monitor; GetMarket or GetPosition of one position; ListTrades of a close.
AllReads == {"risk", "monitor", "row", "trades"}

ASSUME ReadsAssumption == FailingReads \subseteq AllReads
ASSUME LimitAssumption == MaxTotalOpenPositions \in Nat
ASSUME IdsAssumption == IsFiniteSet(Ids) /\ NoId \notin Ids
ASSUME FillsAssumption == \A i \in Ids : NoId \notin Fills[i]
ASSUME ThreadsAssumption ==
    Live \notin Http /\ Live \notin Consumers /\ Http \cap Consumers = {}

VARIABLES
    position,    \* positions.status of position i
    trade,       \* trades.status of the trade row opened by order i
    fill,        \* quantity and size columns that both rows of order i hold
    pnl,         \* position whose PnL trade row i holds in realized_pnl_usd
    synthetic,   \* closed trade rows inserted for position i for want of a match
    candidates,  \* positions with a published position.exit_candidate event
    pc,          \* where thread t is
    order,       \* order being placed by Live
    todo,        \* t's copies of open positions it has yet to re-evaluate
    exits,       \* exit decisions t has yet to execute, in order
    target,      \* position t is closing
    match        \* open trade t found for it

tables == <<position, trade, fill, pnl, synthetic>>
locals == <<pc, order, todo, exits, target, match>>
vars   == <<tables, candidates, locals>>

Threads  == {Live} \cup Http \cup Consumers
Statuses == {"absent", "open", "closed"}
PCs      == {"idle", "articles", "approved", "tradeSaved",
             "monitor", "exits", "loaded", "posClosed", "matched"}

SyntheticCap == 2   \* synthetic saturates here: 2 stands for two or more

OpenIds == {i \in Ids : position[i] = "open"}

\* Trade rows that hold a realised PnL computed from position i.
Rows(i) == Cardinality({j \in Ids : pnl[j] = i}) + synthetic[i]

-----------------------------------------------------------------------------
Init ==
    /\ position = [i \in Ids |-> "absent"]
    /\ trade = [i \in Ids |-> "absent"]
    /\ fill = [i \in Ids |-> NoId]
    /\ pnl = [i \in Ids |-> NoId]
    /\ synthetic = [i \in Ids |-> 0]
    /\ candidates = {}
    /\ pc = [t \in Threads |-> "idle"]
    /\ order = NoId
    /\ todo = [t \in Threads |-> {}]
    /\ exits = [t \in Threads |-> <<>>]
    /\ target = [t \in Threads |-> NoId]
    /\ match = [t \in Threads |-> NoId]

GoTo(t, label) == pc' = [pc EXCEPT ![t] = label]

-----------------------------------------------------------------------------
(* The article loop of RunOnce: risk gate, then PlaceOrder.                *)

RunOnceStart ==
    /\ pc[Live] = "idle"
    /\ GoTo(Live, "articles")
    /\ UNCHANGED <<tables, candidates, order, todo, exits, target, match>>

\* Evaluate drops the error of ListPositions, so a failed read looks like an
\* empty book.  Its other checks are data: they may reject any order.
ListedByRisk == {OpenIds} \cup (IF "risk" \in FailingReads THEN {{}} ELSE {})

\* Fault: the limit itself is admitted.
RiskGateOffByOne(open) == Cardinality(open) <= MaxTotalOpenPositions
RiskGate(open) == Cardinality(open) < MaxTotalOpenPositions

RiskApprove ==
    /\ pc[Live] = "articles"
    /\ \E open \in ListedByRisk : RiskGate(open)
    /\ GoTo(Live, "approved")
    /\ UNCHANGED <<tables, candidates, order, todo, exits, target, match>>

\* No market, no fillable liquidity, or SaveTrade failed: nothing was saved.
PlaceOrderRefused ==
    /\ pc[Live] = "approved"
    /\ GoTo(Live, "articles")
    /\ UNCHANGED <<tables, candidates, order, todo, exits, target, match>>

SaveOpenTrade(i, f) ==
    /\ pc[Live] = "approved"
    /\ trade[i] = "absent"
    /\ trade' = [trade EXCEPT ![i] = "open"]
    /\ fill' = [fill EXCEPT ![i] = f]
    /\ order' = i
    /\ GoTo(Live, "tradeSaved")
    /\ UNCHANGED <<position, pnl, synthetic, candidates, todo, exits, target, match>>

SaveOpenPosition ==
    /\ pc[Live] = "tradeSaved"
    /\ \/ position' = [position EXCEPT ![order] = "open"]
       \/ WriteFails /\ UNCHANGED position
    /\ order' = NoId
    /\ GoTo(Live, "articles")
    /\ UNCHANGED <<trade, fill, pnl, synthetic, candidates, todo, exits, target, match>>

-----------------------------------------------------------------------------
(* UpdateOpenPositions, by RunOnce after its articles or by a consumer for *)
(* a price or order book event.                                            *)

MonitorStart(t) == IF t = Live THEN pc[t] = "articles"
                               ELSE t \in Consumers /\ pc[t] = "idle"

\* Fault: the monitor lists closed positions as well.
ListAll(t) ==
    /\ MonitorStart(t)
    /\ todo' = [todo EXCEPT ![t] = {i \in Ids : position[i] # "absent"}]
    /\ GoTo(t, "monitor")
    /\ UNCHANGED <<tables, candidates, order, exits, target, match>>

ListOpenPositions(t) ==
    /\ MonitorStart(t)
    /\ todo' = [todo EXCEPT ![t] = OpenIds]
    /\ GoTo(t, "monitor")
    /\ UNCHANGED <<tables, candidates, order, exits, target, match>>

\* Listing the positions or reading the portfolio failed: no monitoring.
MonitorFails(t) ==
    /\ "monitor" \in FailingReads
    /\ MonitorStart(t)
    /\ GoTo(t, "idle")
    /\ UNCHANGED <<tables, candidates, order, todo, exits, target, match>>

Publishes(t) == t \in Consumers \/ PublishPipelineEvents

Decide(t, i) ==
    \/ UNCHANGED <<exits, candidates>>
    \/ /\ exits' = [exits EXCEPT ![t] = Append(@, i)]
       /\ \/ UNCHANGED candidates
          \/ Publishes(t) /\ candidates' = candidates \cup {i}

\* The saved row is the copy listed earlier, status "open" included; the
\* error of this save is dropped.
UpdateOpenPosition(t, i) ==
    /\ pc[t] = "monitor"
    /\ i \in todo[t]
    /\ todo' = [todo EXCEPT ![t] = @ \ {i}]
    /\ \/ position' = [position EXCEPT ![i] = "open"]
       \/ WriteFails /\ UNCHANGED position
    /\ Decide(t, i)
    /\ UNCHANGED <<trade, fill, pnl, synthetic, pc, order, target, match>>

\* GetMarket failed: the position is skipped.
SkipOpenPosition(t, i) ==
    /\ "row" \in FailingReads
    /\ pc[t] = "monitor"
    /\ i \in todo[t]
    /\ todo' = [todo EXCEPT ![t] = @ \ {i}]
    /\ UNCHANGED <<tables, candidates, pc, order, exits, target, match>>

Resume(rest) == IF rest = <<>> THEN "idle" ELSE "exits"

MonitorDone(t) ==
    /\ pc[t] = "monitor"
    /\ todo[t] = {}
    /\ GoTo(t, Resume(exits[t]))
    /\ UNCHANGED <<tables, candidates, order, todo, exits, target, match>>

-----------------------------------------------------------------------------
(* Execute and ClosePosition.  Nothing checks that the position is open.   *)

Load(t, i) ==
    /\ target' = [target EXCEPT ![t] = i]
    /\ GoTo(t, "loaded")

\* Fault: only the first exit decision is executed.
FirstExitOnly(t) ==
    /\ pc[t] = "exits"
    /\ Load(t, Head(exits[t]))
    /\ exits' = [exits EXCEPT ![t] = <<>>]
    /\ UNCHANGED <<tables, candidates, order, todo, match>>

NextExit(t) ==
    /\ pc[t] = "exits"
    /\ Load(t, Head(exits[t]))
    /\ exits' = [exits EXCEPT ![t] = Tail(@)]
    /\ UNCHANGED <<tables, candidates, order, todo, match>>

CloseRequest(t, i) ==
    /\ t \in Http
    /\ pc[t] = "idle"
    /\ position[i] # "absent"
    /\ Load(t, i)
    /\ UNCHANGED <<tables, candidates, order, todo, exits, match>>

\* At-least-once delivery: a published event may be handed over again.
ConsumeExitCandidate(t, i) ==
    /\ t \in Consumers
    /\ pc[t] = "idle"
    /\ i \in candidates
    /\ Load(t, i)
    /\ UNCHANGED <<tables, candidates, order, todo, exits, match>>

\* Fault: a finished close leaves its target behind.
ReturnKeepingTarget(t) ==
    /\ UNCHANGED <<target, match>>
    /\ GoTo(t, Resume(exits[t]))

Return(t) ==
    /\ target' = [target EXCEPT ![t] = NoId]
    /\ match' = [match EXCEPT ![t] = NoId]
    /\ GoTo(t, Resume(exits[t]))

SaveClosedPosition(t) ==
    /\ pc[t] = "loaded"
    /\ position' = [position EXCEPT ![target[t]] = "closed"]
    /\ GoTo(t, "posClosed")
    /\ UNCHANGED <<trade, fill, pnl, synthetic, candidates, order, todo, exits, target, match>>

\* GetPosition, GetMarket or the first save failed: nothing was saved.
CloseFails(t) ==
    /\ "row" \in FailingReads \/ WriteFails
    /\ pc[t] = "loaded"
    /\ Return(t)
    /\ UNCHANGED <<tables, candidates, order, todo, exits>>

\* Fault: a trade of the same market is taken for the match.
SameMarket(f, g) == f.market = g.market
SameFill(f, g) ==
    /\ f.market = g.market
    /\ f.quantity = g.quantity \/ f.size = g.size

MatchingOpenTrades(i) == {j \in Ids : trade[j] = "open" /\ SameFill(fill[j], fill[i])}

\* The first match in the store's order, which the memory store leaves open.
\* An error of ListTrades reads as "no match".
MatchOpenTrade(t) ==
    /\ pc[t] = "posClosed"
    /\ LET found == MatchingOpenTrades(target[t])
       IN  \/ \E j \in found : match' = [match EXCEPT ![t] = j]
           \/ /\ found = {} \/ "trades" \in FailingReads
              /\ match' = [match EXCEPT ![t] = NoId]
    /\ GoTo(t, "matched")
    /\ UNCHANGED <<tables, candidates, order, todo, exits, target>>

\* Fault: the closed trade is saved without its PnL.
SaveClosedTradeUnpriced(t) ==
    /\ pc[t] = "matched"
    /\ match[t] # NoId
    /\ trade' = [trade EXCEPT ![match[t]] = "closed"]
    /\ Return(t)
    /\ UNCHANGED <<position, fill, pnl, synthetic, candidates, order, todo, exits>>

SaveClosedTrade(t) ==
    /\ pc[t] = "matched"
    /\ match[t] # NoId
    /\ trade' = [trade EXCEPT ![match[t]] = "closed"]
    /\ pnl' = [pnl EXCEPT ![match[t]] = target[t]]
    /\ Return(t)
    /\ UNCHANGED <<position, fill, synthetic, candidates, order, todo, exits>>

InsertClosedTrade(t) ==
    /\ pc[t] = "matched"
    /\ match[t] = NoId
    /\ synthetic' = [synthetic EXCEPT ![target[t]] =
                        IF @ < SyntheticCap THEN @ + 1 ELSE @]
    /\ Return(t)
    /\ UNCHANGED <<position, trade, fill, pnl, candidates, order, todo, exits>>

SaveTradeFails(t) ==
    /\ WriteFails
    /\ pc[t] = "matched"
    /\ Return(t)
    /\ UNCHANGED <<tables, candidates, order, todo, exits>>

-----------------------------------------------------------------------------
\* The tables and the topic survive; what the threads held does not.
Crash ==
    /\ Crashes
    /\ pc' = [t \in Threads |-> "idle"]
    /\ order' = NoId
    /\ todo' = [t \in Threads |-> {}]
    /\ exits' = [t \in Threads |-> <<>>]
    /\ target' = [t \in Threads |-> NoId]
    /\ match' = [t \in Threads |-> NoId]
    /\ UNCHANGED <<tables, candidates>>

PlaceOrder ==
    \/ RiskApprove
    \/ PlaceOrderRefused
    \/ \E i \in Ids : \E f \in Fills[i] : SaveOpenTrade(i, f)
    \/ SaveOpenPosition

Monitor(t) ==
    \/ ListOpenPositions(t)
    \/ MonitorFails(t)
    \/ \E i \in Ids : UpdateOpenPosition(t, i) \/ SkipOpenPosition(t, i)
    \/ MonitorDone(t)

Close(t) ==
    \/ NextExit(t)
    \/ SaveClosedPosition(t)
    \/ CloseFails(t)
    \/ MatchOpenTrade(t)
    \/ SaveClosedTrade(t)
    \/ InsertClosedTrade(t)
    \/ SaveTradeFails(t)

\* What a thread goes on with once started, and what starts one.
Step(t)  == Monitor(t) \/ Close(t)
Start(t) == \E i \in Ids : CloseRequest(t, i) \/ ConsumeExitCandidate(t, i)

Next ==
    \/ RunOnceStart
    \/ PlaceOrder
    \/ \E t \in Threads : Step(t) \/ Start(t)
    \/ Crash

Spec == Init /\ [][Next]_vars

\* A goroutine that has begun to monitor or to close is scheduled until done.
Busy(t) == pc[t] \in PCs \ {"idle", "articles"}
Fairness == \A t \in Threads : WF_vars(Busy(t) /\ Step(t))
FairSpec == Spec /\ Fairness

-----------------------------------------------------------------------------
AllFills == UNION {Fills[i] : i \in Ids}

ColumnsOK ==
    /\ position \in [Ids -> Statuses]
    /\ trade \in [Ids -> Statuses]
    /\ fill \in [Ids -> AllFills \cup {NoId}]
    /\ pnl \in [Ids -> Ids \cup {NoId}]
    /\ synthetic \in [Ids -> 0..SyntheticCap]
    /\ candidates \subseteq Ids

LocalsOK ==
    /\ pc \in [Threads -> PCs]
    /\ order \in Ids \cup {NoId}
    /\ todo \in [Threads -> SUBSET Ids]
    /\ exits \in [Threads -> Seq(Ids)]
    /\ target \in [Threads -> Ids \cup {NoId}]
    /\ match \in [Threads -> Ids \cup {NoId}]

Holds(t) == pc[t] \in {"loaded", "posClosed", "matched"}

ControlOK ==
    /\ pc[Live] = "tradeSaved" <=> order # NoId
    /\ \A t \in Threads :
          /\ Holds(t) <=> target[t] # NoId
          /\ pc[t] = "exits" => exits[t] # <<>>

(* Every column and local has its type, and a thread holds an order or a   *)
(* target exactly while it saves or closes one.                            *)
TypeOK == ColumnsOK /\ LocalsOK /\ ControlOK

(* The open book never exceeds MAX_TOTAL_OPEN_POSITIONS, although the risk *)
(* engine reads the count long before PlaceOrder saves the position, close *)
(* requests run in between and the monitor writes back stale "open" rows.  *)
OpenLimit == Cardinality(OpenIds) <= MaxTotalOpenPositions

\* No two orders of a market and outcome have equal quantity or size.
DistinctFills ==
    \A i, j \in {k \in Ids : fill[k] # NoId} :
        (i # j /\ fill[i].market = fill[j].market) =>
            /\ fill[i].quantity # fill[j].quantity
            /\ fill[i].size # fill[j].size

(* Cash (from open trades) and exposure (from open positions) describe the *)
(* same orders whenever no cycle is under way: Portfolio neither debits an *)
(* order that has no position nor carries a position that costs nothing.   *)
(* Orders that quantity or size cannot tell apart are excepted.            *)
TradesMirrorPositions ==
    (DistinctFills /\ \A t \in Threads : pc[t] = "idle") =>
        \A i \in Ids : trade[i] = "open" <=> position[i] = "open"

(* Once nobody is closing it any more, a closed position has its PnL on    *)
(* the trade it was opened with, however many threads closed it and in     *)
(* whatever order their reads and writes fell.                             *)
Closing(i) == \E t \in Threads : target[t] = i /\ pc[t] \in {"posClosed", "matched"}

ClosedIsBooked ==
    \A i \in Ids : position[i] = "closed" /\ ~Closing(i) => pnl[i] = i

(* The tables implement the ledger: one opening below the limit, one       *)
(* closing, one booking, in that order.                                    *)
Ledger == INSTANCE TradeLedger WITH
    status <- position,
    booked <- [i \in Ids |-> Rows(i)]

LedgerSpec == Ledger!Spec

(* An exit decision is carried out: the position it names is written       *)
(* "closed", and every closed position is booked in the end.               *)
Pending(t, i) == \E k \in 1..Len(exits[t]) : exits[t][k] = i

DecidedExitCloses ==
    \A t \in Threads, i \in Ids : Pending(t, i) ~> position[i] = "closed"

ClosedGetsBooked == \A i \in Ids : position[i] = "closed" ~> pnl[i] = i

=============================================================================
