---------------------------- MODULE MarketStream ----------------------------
(***************************************************************************)
(* The market side of the fetch service: the main loop refreshes the       *)
(* selected markets and starts the stream; a stream is one goroutine that  *)
(* reads the web socket and one that saves what was read, over a buffered  *)
(* channel.  A saved state is also published, and the -position group of   *)
(* the process service saves it once more.  The loop's news half is        *)
(* NewsFetcher's.  The store is the Postgres database that both services   *)
(* share.  market.moved events, audits and cache entries are left out:     *)
(* nothing reads them.                                                     *)
(***************************************************************************)
EXTENDS Integers, Sequences, FiniteSets, SequencesExt

CONSTANTS
    Markets,               \* what the exchange may list
    MaxSubscribedMarkets,  \* config.MaxSubscribedMarkets
    Streams,               \* bound: streams whose goroutines exist at a time
    Buffer,                \* capacity of the events channel
    MaxQuotes,             \* bound on quotes of the exchange
    MaxCrashes,            \* bound on crashes and redeployments
    None

ASSUME BufferAssumption == Buffer \in Nat \ {0}
ASSUME MaxAssumption == MaxSubscribedMarkets \in Nat /\ MaxQuotes \in Nat

VARIABLES
    pc, selected, todo,          \* the main loop and the locals of Refresh
    shutdown,                    \* the main context is cancelled
    running, current,            \* StreamService.running and .cancel's stream
    markets, announced, live,    \* rows of markets, market.selected events,
                                 \* rows of live_market_states
    updates,                     \* market.price.updated, yet to be consumed
    stream,                      \* the goroutines of each stream
    quotes,                      \* quotes of the exchange so far
    crashes

loop   == <<pc, selected, todo>>
flags  == <<running, current>>
store  == <<markets, announced, live, updates>>
bounds == <<quotes, crashes>>
vars   == <<loop, shutdown, flags, store, stream, bounds>>

\* A market's two tokens share its row: whichever is quoted overwrites it.
Quotes == [market : Markets, n : 1..MaxQuotes]

\* reader is where ws.Run and its goroutine are, with the quote read; events
\* is the channel; consumer is where consume is, with the quote in hand.
NoStream == [known |-> {}, cancelled |-> FALSE, reader |-> "done", read |-> None,
             events |-> <<>>, consumer |-> "done", hand |-> None]

Reading(s) == stream[s].reader # "done"
Busy(s)    == Reading(s) \/ stream[s].consumer # "done"

Init ==
    /\ pc = "refresh" /\ selected = {} /\ todo = {}
    /\ shutdown = FALSE
    /\ running = FALSE /\ current = None
    /\ markets = {} /\ announced = {} /\ live = [m \in Markets |-> None]
    /\ updates = <<>>
    /\ stream = [s \in Streams |-> NoStream]
    /\ quotes = 0 /\ crashes = 0

\* The process ends, where it is or after its shutdown, and is started again.
Restart ==
    /\ crashes < MaxCrashes
    /\ crashes' = crashes + 1
    /\ pc' = "refresh" /\ selected' = {} /\ todo' = {}
    /\ shutdown' = FALSE
    /\ running' = FALSE /\ current' = None
    /\ stream' = [s \in Streams |-> NoStream]
    /\ UNCHANGED <<store, quotes>>

-----------------------------------------------------------------------------
(* runFetchDataLoop and refreshMarkets.                                    *)

\* The answer, the order books and the filters decide which are selected.
FetchMarkets ==
    /\ pc = "refresh"
    /\ selected' \in {ms \in SUBSET Markets : Cardinality(ms) <= MaxSubscribedMarkets}
    /\ todo' = selected'
    /\ pc' = "save"
    /\ UNCHANGED <<shutdown, flags, store, stream, bounds>>

\* One row after the other; the memory store saves them all at once.
SaveMarket(m) ==
    /\ pc = "save" /\ m \in todo
    /\ markets' = markets \cup {m}
    /\ todo' = todo \ {m}
    /\ UNCHANGED <<pc, selected, shutdown, flags, announced, live, updates, stream, bounds>>

\* Fault: the rows are announced while they are being saved.
AnyTime == TRUE

AllSaved == todo = {}

SaveMarketsDone ==
    /\ pc = "save" /\ AllSaved
    /\ todo' = selected
    /\ pc' = "announce"
    /\ UNCHANGED <<selected, shutdown, flags, store, stream, bounds>>

Announce(m) ==
    /\ pc = "announce" /\ m \in todo
    /\ announced' = announced \cup {m}
    /\ todo' = todo \ {m}
    /\ UNCHANGED <<pc, selected, shutdown, flags, markets, live, updates, stream, bounds>>

\* Fault: the stream is started only for new markets.
RefreshDoneUnlessEmpty ==
    /\ pc = "announce" /\ todo = {}
    /\ pc' = IF selected = {} THEN "idle" ELSE "start"
    /\ UNCHANGED <<selected, todo, shutdown, flags, store, stream, bounds>>

RefreshDone ==
    /\ pc = "announce" /\ todo = {}
    /\ pc' = "start"
    /\ UNCHANGED <<selected, todo, shutdown, flags, store, stream, bounds>>

\* FetchMarkets, SaveMarkets or ListMarkets failed: this round starts nothing.
RefreshFails ==
    /\ pc \in {"refresh", "save", "start"}
    /\ pc' = "idle"
    /\ todo' = {}
    /\ UNCHANGED <<selected, shutdown, flags, store, stream, bounds>>

\* Fault: Start starts another stream next to the running one.
StartAnother(s) ==
    /\ pc = "start"
    /\ ~Busy(s)
    /\ pc' = "idle"
    /\ running' = TRUE
    /\ current' = s
    /\ stream' = [stream EXCEPT ![s] =
          [NoStream EXCEPT !.known = markets, !.reader = "dial", !.consumer = "select"]]
    /\ UNCHANGED <<selected, todo, shutdown, store, bounds>>

\* Every market ever stored is subscribed to.
Start(s) ==
    /\ pc = "start" /\ ~running
    /\ ~Busy(s)
    /\ pc' = "idle"
    /\ running' = TRUE
    /\ current' = s
    /\ stream' = [stream EXCEPT ![s] =
          [NoStream EXCEPT !.known = markets, !.reader = "dial", !.consumer = "select"]]
    /\ UNCHANGED <<selected, todo, shutdown, store, bounds>>

StartAlreadyRunning ==
    /\ pc = "start" /\ running
    /\ pc' = "idle"
    /\ UNCHANGED <<selected, todo, shutdown, flags, store, stream, bounds>>

Tick ==
    /\ pc = "idle"
    /\ pc' = "refresh"
    /\ UNCHANGED <<selected, todo, shutdown, flags, store, stream, bounds>>

Signal ==
    /\ ~shutdown
    /\ shutdown' = TRUE
    /\ UNCHANGED <<loop, flags, store, stream, bounds>>

\* Fault: Stop only clears the flag.
StopWithoutCancel ==
    /\ pc = "idle" /\ shutdown
    /\ pc' = "stopped"
    /\ running' = FALSE
    /\ UNCHANGED <<selected, todo, shutdown, current, store, stream, bounds>>

Stop ==
    /\ pc = "idle" /\ shutdown
    /\ pc' = "stopped"
    /\ running' = FALSE
    /\ stream' = [s \in Streams |->
          IF s = current THEN [stream[s] EXCEPT !.cancelled = TRUE] ELSE stream[s]]
    /\ UNCHANGED <<selected, todo, shutdown, current, store, bounds>>

-----------------------------------------------------------------------------
(* The reader: ws.Run, then the goroutine's deferred calls.                *)

Set(s, st) ==
    /\ stream' = [stream EXCEPT ![s] = st]
    /\ UNCHANGED <<loop, shutdown, current, crashes>>

At(s, from, to) ==
    /\ stream[s].reader = from
    /\ Set(s, [stream[s] EXCEPT !.reader = to])

\* Dial and subscribe.  A dial that fails is tried again after a pause.
Connect(s)        == At(s, "dial", "read") /\ UNCHANGED <<running, store, quotes>>
SubscribeFails(s) == At(s, "dial", "returned") /\ UNCHANGED <<running, store, quotes>>
ConnectionLost(s) == At(s, "read", "dial") /\ UNCHANGED <<running, store, quotes>>

ReadMessage(s) ==
    /\ stream[s].reader = "read" /\ quotes < MaxQuotes
    /\ quotes' = quotes + 1
    /\ \E m \in stream[s].known :
          Set(s, [stream[s] EXCEPT !.reader = "send",
                                   !.read = [market |-> m, n |-> quotes']])
    /\ UNCHANGED <<running, store>>

SendEvent(s) ==
    /\ stream[s].reader = "send" /\ Len(stream[s].events) < Buffer
    /\ Set(s, [stream[s] EXCEPT !.reader = "read", !.read = None,
                                !.events = Append(@, stream[s].read)])
    /\ UNCHANGED <<running, store, quotes>>

\* In the dial, by the connection that is closed, in the select of the send.
Quit(s) ==
    /\ stream[s].cancelled /\ stream[s].reader \in {"dial", "read", "send"}
    /\ Set(s, [stream[s] EXCEPT !.reader = "returned", !.read = None])
    /\ UNCHANGED <<running, store, quotes>>

CancelConsumer(s) ==
    /\ stream[s].reader = "returned"
    /\ Set(s, [stream[s] EXCEPT !.reader = "cancelled", !.cancelled = TRUE])
    /\ UNCHANGED <<running, store, quotes>>

\* close(events) only tells the consumer what it knows from the context.
ClearRunning(s) ==
    /\ At(s, "cancelled", "done")
    /\ running' = FALSE
    /\ UNCHANGED <<store, quotes>>

Reader(s) ==
    \/ Connect(s)
    \/ SubscribeFails(s)
    \/ ConnectionLost(s)
    \/ ReadMessage(s)
    \/ SendEvent(s)
    \/ Quit(s)
    \/ CancelConsumer(s)
    \/ ClearRunning(s)

-----------------------------------------------------------------------------
(* The consumer.                                                           *)

\* Fault: the consumer takes the event that came last.
ReceiveLast(s) ==
    /\ stream[s].consumer = "select" /\ stream[s].events # <<>>
    /\ Set(s, [stream[s] EXCEPT !.consumer = "save", !.hand = Last(stream[s].events),
                                !.events = Front(@)])
    /\ UNCHANGED <<running, store, quotes>>

\* A message of no known market is skipped and not modelled.
Receive(s) ==
    /\ stream[s].consumer = "select" /\ stream[s].events # <<>>
    /\ Set(s, [stream[s] EXCEPT !.consumer = "save", !.hand = Head(stream[s].events),
                                !.events = Tail(@)])
    /\ UNCHANGED <<running, store, quotes>>

\* The row is keyed by market.  A failing save and a failing producer are
\* dropped, each for itself.
SaveLiveMarketState(s) ==
    /\ stream[s].consumer = "save"
    /\ Set(s, [stream[s] EXCEPT !.consumer = "select", !.hand = None])
    /\ live' \in {live, [live EXCEPT ![stream[s].hand.market] = stream[s].hand]}
    /\ updates' \in {updates, Append(updates, stream[s].hand)}
    /\ UNCHANGED <<running, markets, announced, quotes>>

\* Events that are still in the channel are lost.
ConsumerReturns(s) ==
    /\ stream[s].consumer = "select" /\ stream[s].cancelled
    /\ Set(s, [stream[s] EXCEPT !.consumer = "done"])
    /\ UNCHANGED <<running, store, quotes>>

Consume(s) == Receive(s) \/ SaveLiveMarketState(s) \/ ConsumerReturns(s)

\* HandleMarketStateUpdated, at any time later, perhaps again; it gives up on
\* a store that keeps failing.  Its position updates are PaperTrading's.
SaveUpdate ==
    /\ updates # <<>>
    /\ updates' \in {updates, Tail(updates)}
    /\ live' \in {live, [live EXCEPT ![Head(updates).market] = Head(updates)]}
    /\ UNCHANGED <<loop, shutdown, flags, markets, announced, stream, bounds>>

-----------------------------------------------------------------------------
Refresh ==
    \/ FetchMarkets
    \/ \E m \in Markets : SaveMarket(m) \/ Announce(m)
    \/ SaveMarketsDone
    \/ RefreshDone
    \/ \E s \in Streams : Start(s)
    \/ StartAlreadyRunning

Next ==
    \/ Refresh
    \/ RefreshFails
    \/ Tick
    \/ Signal
    \/ Stop
    \/ Restart
    \/ \E s \in Streams : Reader(s) \/ Consume(s)
    \/ SaveUpdate

Spec == Init /\ [][Next]_vars

\* Goroutines keep running, the calls of a refresh do not fail for ever, and
\* the select of the main loop does not favour its ticker for ever.  Nothing
\* is assumed of the web socket.
FairSpec ==
    /\ Spec
    /\ WF_vars(Refresh) /\ WF_vars(Tick) /\ <>[][~RefreshFails]_vars
    /\ SF_vars(Stop)
    /\ \A s \in Streams :
          /\ WF_vars(SendEvent(s) \/ Quit(s))
          /\ WF_vars(CancelConsumer(s) \/ ClearRunning(s))
          /\ WF_vars(Consume(s))

-----------------------------------------------------------------------------
StreamStates ==
    [known : SUBSET Markets, cancelled : BOOLEAN,
     reader : {"dial", "read", "send", "returned", "cancelled", "done"},
     read : Quotes \cup {None}, events : Seq(Quotes),
     consumer : {"select", "save", "done"}, hand : Quotes \cup {None}]

(* Rows and locals have their types, and the channel its capacity.         *)
TypeOK ==
    /\ pc \in {"refresh", "save", "announce", "start", "idle", "stopped"}
    /\ selected \subseteq Markets
    /\ todo \subseteq selected
    /\ shutdown \in BOOLEAN
    /\ running \in BOOLEAN
    /\ current \in Streams \cup {None}
    /\ markets \subseteq Markets
    /\ announced \subseteq Markets
    /\ live \in [Markets -> Quotes \cup {None}]
    /\ updates \in Seq(Quotes)
    /\ quotes \in 0..MaxQuotes
    /\ stream \in [Streams -> StreamStates]
    /\ \A s \in Streams :
          /\ stream[s].reader = "send" => stream[s].read \in Quotes
          /\ stream[s].consumer = "save" => stream[s].hand \in Quotes
          /\ Len(stream[s].events) <= Buffer

(* One web socket at a time, and the flag tells of it: until the process   *)
(* shuts down the stream runs exactly while a reader exists, although Stop *)
(* and the reader's goroutine both clear the flag; and what Stop cancels   *)
(* is the one there is.                                                    *)
OneReader ==
    /\ \A s, t \in Streams : Reading(s) /\ Reading(t) => s = t
    /\ pc # "stopped" => (running <=> \E s \in Streams : Reading(s))
    /\ \A s \in Streams : Reading(s) => current = s

(* What refers to a market follows its row: nothing is announced,          *)
(* subscribed to or quoted for a market that the store does not have.      *)
RowsFirst ==
    /\ announced \subseteq markets
    /\ \A s \in Streams : stream[s].known \subseteq markets
    /\ \A m \in Markets : live[m] # None => m \in markets

(* No row has a time to compare with, so a live state can go back.  Only   *)
(* two writers do that: a consumer that outlived its stream, and the       *)
(* -position group with what it has yet to consume; never the stream that  *)
(* runs, whatever connections were lost.                                   *)
OlderQuotesAreLate ==
    [][\A m \in Markets :
          live[m] # None /\ live'[m].n < live[m].n
              => \/ \E s \in Streams : ~Reading(s) /\ stream[s].hand = live'[m]
                 \/ updates # <<>> /\ Head(updates) = live'[m]]_vars

(* The stream comes back: when its reader gives up, a later refresh starts *)
(* another, unless the process is told to stop.                            *)
StreamResumes == ~running ~> (running \/ shutdown)

(* After Stop both goroutines of the stream return: the reader from its    *)
(* dial, its read or its send, the consumer with events left or not.       *)
StopEndsStreams ==
    pc = "stopped" ~> (pc # "stopped" \/ \A s \in Streams : ~Busy(s))
=============================================================================
