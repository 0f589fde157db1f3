-------------------------- MODULE TradingPipeline --------------------------
(* The event-driven pipeline of the process service: five Kafka groups,    *)
(* news, AI, probability, risk and execution, each of which saves the row  *)
(* that an event carries, computes a row of its own, saves that and        *)
(* publishes it to the next group.                                         *)
(*                                                                         *)
(* A group handles the events of its topic in order, retries a handler     *)
(* that fails, dead-letters the event after MaxAttempts, and commits it    *)
(* once its handler has returned or its dead letter is sent, as            *)
(* KafkaConsumer does in detail; here a topic has one partition.  The      *)
(* store is Postgres, or the memory store that OpenStore falls back to,    *)
(* which a restart empties.  What an order does to the book is             *)
(* PaperTrading's.                                                         *)
EXTENDS Integers, Sequences, FiniteSets

CONSTANTS
    Feeds,          \* what news.arrived may hold: sequences of articles
    Markets,
    NoMarket,       \* the market of an article's row
    Matches,        \* Matches[a]: the markets the matcher finds for article a
    Stores,         \* the stores OpenStore may have picked
    MaxAttempts,    \* attempts of a handler before the dead letter
    MaxFaults,      \* MaxFaults[store][feed]: bound on failures, rebalances,
                    \* restarts, and lost, repeated or skipped events and commits
    MaxReturned     \* bound on the handlers that have returned at a time and
                    \* whose event is not committed yet

Articles == UNION {{f[i] : i \in 1..Len(f)} : f \in Feeds}

ASSUME SizesAssumption ==
    /\ MaxAttempts \in Nat \ {0}
    /\ MaxFaults \in [Stores -> [Feeds -> Nat]]
    /\ MaxReturned \in Nat \ {0}
    /\ NoMarket \notin Markets
    /\ \A f \in Feeds : f \in Seq(Articles)
    /\ Matches \in [Articles -> SUBSET Markets]
    /\ Stores \subseteq {"postgres", "memory"}

\* A row is named by its descent: its article and market, and for each stage
\* that made it out of its parent the number of that output.  Ids are fresh
\* in the code; so are names here.
Row(a, m, path) == [article |-> a, market |-> m, path |-> path]
Kind(r) == Len(r.path) + 1
Parent(r) ==
    IF Len(r.path) = 1 THEN Row(r.article, NoMarket, <<>>)
    ELSE Row(r.article, r.market, SubSeq(r.path, 1, Len(r.path) - 1))

\* A stage has the number of the kind of row it consumes; trades are last.
News == 1
AI == 2
Probability == 3
Risk == 4
Execution == 5
Trade == 6
Stages == News..Execution
Outcomes == {"done", "declined", "dead"}   \* what becomes of an event in hand
Settled  == Outcomes \cup {"skipped"}

VARIABLES
    store,      \* the store in use
    made,       \* every row that the engines made
    saved,      \* the rows in the store
    catalog,    \* are the markets in the store?
    feed,       \* the articles published, in order
    topic,      \* topic[s]: the rows published for stage s
    lost,       \* the rows whose event Kafka did not take
    outcome,    \* outcome[s][n]: what became of the n-th event of stage s
    committed,  \* committed[s]: how many events the group's offset has passed
    pc,         \* pc[s]: where the handler of stage s is; once it has returned,
                \* the outcome that is to be committed
    attempt,    \* attempts of its current event that failed
    todo,       \* markets the news handler has yet to record
    out,        \* out[s]: the row to publish, if there is one
    faults,     \* faults so far
    restarts    \* those of them that were restarts

group == <<pc, attempt, todo, out>>
tables == <<store, feed, made, saved, catalog>>
kafka == <<topic, lost, outcome, committed>>
trouble == <<faults, restarts>>
vars == <<tables, kafka, group, trouble>>

Init ==
    /\ store \in Stores
    /\ feed \in Feeds
    /\ made = {}
    /\ saved = {}
    /\ catalog = TRUE
    /\ topic = [s \in Stages |-> IF s = News THEN [i \in 1..Len(feed) |-> Row(feed[i], NoMarket, <<>>)]
                                   ELSE <<>>]
    /\ lost = {}
    /\ outcome = [s \in Stages |-> <<>>]
    /\ committed = [s \in Stages |-> 0]
    /\ pc = [s \in Stages |-> "idle"]
    /\ attempt = [s \in Stages |-> 0]
    /\ todo = {}
    /\ out = [s \in Stages |-> <<>>]
    /\ faults = 0
    /\ restarts = 0

\* The row that the event at hand carries.
Current(s) == topic[s][Len(outcome[s]) + 1]

Fault == faults < MaxFaults[store][feed] /\ faults' = faults + 1

\* The handler of s is left; nothing of its local state survives.
LeaveAs(s, label) ==
    /\ pc' = [pc EXCEPT ![s] = label]
    /\ todo' = IF s = News THEN {} ELSE todo
    /\ out' = [out EXCEPT ![s] = <<>>]

Leave(s) == LeaveAs(s, "idle")

\* The handler has returned, or the dead letter was sent: what is left is the
\* commit.
Settle(s, o) ==
    /\ Cardinality({t \in Stages : pc[t] \in Outcomes}) < MaxReturned
    /\ LeaveAs(s, o)
    /\ attempt' = [attempt EXCEPT ![s] = 0]

\* The group is done with the event in hand and free for the next.
Return(s) ==
    /\ pc[s] \in Outcomes
    /\ outcome' = [outcome EXCEPT ![s] = Append(@, pc[s])]
    /\ pc' = [pc EXCEPT ![s] = "idle"]
    /\ UNCHANGED <<tables, topic, lost, attempt, todo, out>>

\* Fault: the offset that is marked is one too far.
CommitNext(s) ==
    /\ Return(s)
    /\ committed' = [committed EXCEPT ![s] = Len(outcome[s]) + 2]
    /\ UNCHANGED trouble

\* MarkMessage and Commit: the group's offset passes the event.
Commit(s) ==
    /\ Return(s)
    /\ committed' = [committed EXCEPT ![s] = Len(outcome[s]) + 1]
    /\ UNCHANGED trouble

\* The commit does not reach Kafka.  The next one covers the event.
CommitFails(s) ==
    /\ Return(s)
    /\ Fault
    /\ UNCHANGED <<committed, restarts>>

\* Fault: the last attempt is not made.
FailEarly(s) ==
    IF attempt[s] + 2 < MaxAttempts
    THEN /\ attempt' = [attempt EXCEPT ![s] = @ + 1]
         /\ Leave(s)
    ELSE Settle(s, "dead")

\* Fault: attempts are not counted.
FailUncounted(s) ==
    /\ Leave(s)
    /\ UNCHANGED attempt

\* The handler returned an error: retry it from its start, or dead-letter.
Fail(s) ==
    IF attempt[s] + 1 < MaxAttempts
    THEN /\ attempt' = [attempt EXCEPT ![s] = @ + 1]
         /\ Leave(s)
    ELSE Settle(s, "dead")

-----------------------------------------------------------------------------
(* Steps that all stages share.                                            *)

\* A group that is free has an event to handle.
Delivered(s) == pc[s] = "idle" /\ Len(outcome[s]) < Len(topic[s])

\* Postgres takes an article or a match again, and refuses to insert a
\* signal or a decision that it has.  The memory store overwrites.
Conflict(s) ==
    /\ store = "postgres"
    /\ s \in Probability..Execution
    /\ Current(s) \in saved

\* The handler saves the row its event carries.  HandleNewsArrived then
\* lists the markets, and without any of them it finds no match.
SaveInput(s) ==
    /\ Delivered(s)
    /\ ~Conflict(s)
    /\ saved' = saved \cup {Current(s)}
    /\ pc' = [pc EXCEPT ![s] = "work"]
    /\ todo' = IF s = News /\ catalog THEN Matches[Current(s).article]
                                      ELSE todo
    /\ UNCHANGED <<store, feed, made, catalog, kafka, attempt, out, trouble>>

\* The row that stage s makes next for market m.
Output(s, m) ==
    LET input == Current(s)
        siblings == {r \in made : Parent(r) = input /\ r.market = m}
    IN  Row(input.article, m, Append(input.path, Cardinality(siblings) + 1))

Save(r) ==
    /\ made' = made \cup {r}
    /\ saved' = saved \cup {r}

\* An engine saves a new row for market m and leaves it to be published.
Make(s, m) ==
    /\ Save(Output(s, m))
    /\ out' = [out EXCEPT ![s] = <<Output(s, m)>>]
    /\ pc' = [pc EXCEPT ![s] = "publish"]
    /\ UNCHANGED <<store, feed, catalog, kafka, attempt, trouble>>

\* Fault: the handler returns after the first match.
OnwardOnce(s) == Settle(s, "done")

\* What follows a publication: the next match, or the handler's return.
Onward(s) ==
    IF s = News /\ todo # {}
    THEN /\ pc' = [pc EXCEPT ![s] = "work"]
         /\ out' = [out EXCEPT ![s] = <<>>]
         /\ UNCHANGED <<attempt, todo>>
    ELSE Settle(s, "done")

\* Fault: every event is sent twice.
PublishTwice(s) ==
    /\ pc[s] = "publish"
    /\ topic' = [topic EXCEPT ![s + 1] = @ \o out[s] \o out[s]]
    /\ Onward(s)
    /\ UNCHANGED <<tables, lost, outcome, committed, trouble>>

\* The output goes to the next stage's topic.
Publish(s) ==
    /\ pc[s] = "publish"
    /\ topic' = [topic EXCEPT ![s + 1] = @ \o out[s]]
    /\ Onward(s)
    /\ UNCHANGED <<tables, lost, outcome, committed, trouble>>

\* Kafka does not take the event: that is logged, and the handler goes on.
PublishLost(s) ==
    /\ pc[s] = "publish"
    /\ Fault
    /\ lost' = lost \cup {out[s][1]}
    /\ Onward(s)
    /\ UNCHANGED <<tables, topic, outcome, committed, restarts>>

\* The acknowledgement is lost and the producer, which is not idempotent
\* (config.go:33), sends the event again.
PublishAgain(s) ==
    /\ pc[s] = "publish"
    /\ Fault
    /\ topic' = [topic EXCEPT ![s + 1] = @ \o out[s] \o out[s]]
    /\ Onward(s)
    /\ UNCHANGED <<tables, lost, outcome, committed, restarts>>

-----------------------------------------------------------------------------
(* The engines.                                                            *)

\* HandleNewsArrived: one match at a time, best first; scores are data.
SaveMatch ==
    /\ pc[News] = "work"
    /\ \E m \in todo :
        /\ Make(News, m)
        /\ todo' = todo \ {m}

\* What the stage reads back, beside the row just saved, is missing.
MarketMissing == ~catalog
ArticleMissing == Parent(Current(AI)) \notin saved
DecisionMissing == Parent(Current(Execution)) \notin saved

\* HandleNewsMarketMatched: a model's answer becomes a signal.
Analyze ==
    /\ pc[AI] = "work"
    /\ ~MarketMissing /\ ~ArticleMissing
    /\ Make(AI, Current(AI).market)
    /\ UNCHANGED todo

\* HandleAISignalGenerated: the edge suffices.
Calculate ==
    /\ pc[Probability] = "work"
    /\ ~MarketMissing
    /\ Make(Probability, Current(Probability).market)
    /\ UNCHANGED todo

\* HandleProbabilityCandidate: no check rejects.
Evaluate ==
    /\ pc[Risk] = "work"
    /\ ~MarketMissing
    /\ Make(Risk, Current(Risk).market)
    /\ UNCHANGED todo

\* HandleRiskApproved: the order is filled.  No group consumes trade.opened,
\* so the event is over.
CreateFromRiskDecision ==
    /\ pc[Execution] = "work"
    /\ ~DecisionMissing
    /\ Save(Output(Execution, Current(Execution).market))
    /\ Settle(Execution, "done")
    /\ UNCHANGED <<store, feed, catalog, kafka, trouble>>

\* The handler returns with nothing to hand on: no match, no trade, a
\* rejection, an order that does not fill.
Decline(s) ==
    /\ pc[s] = "work"
    /\ CASE s = News -> todo = {}
         [] s = AI -> FALSE
         [] s = Execution -> ~DecisionMissing
         [] OTHER -> ~MarketMissing
    /\ Settle(s, "declined")
    /\ UNCHANGED <<tables, kafka, trouble>>

\* A save or a read fails, whatever the environment does.
Refused(s) ==
    /\ \/ Delivered(s) /\ Conflict(s)
       \/ pc[s] = "work" /\ s \in AI..Risk /\ MarketMissing
       \/ pc[s] = "work" /\ s = AI /\ ArticleMissing
       \/ pc[s] = "work" /\ s = Execution /\ DecisionMissing
    /\ Fail(s)
    /\ UNCHANGED <<tables, kafka, trouble>>

-----------------------------------------------------------------------------
(* What goes wrong around them.                                            *)

\* The store or the model returns an error once.
HandlerFails(s) ==
    /\ Delivered(s) \/ pc[s] = "work"
    /\ Fault
    /\ Fail(s)
    /\ UNCHANGED <<tables, kafka, restarts>>

\* The event fails in a session that is being cancelled, or its dead letter is
\* refused.  ConsumeClaim drops the error and goes on to the next event, whose
\* commit covers this one.
Skip(s) ==
    /\ Delivered(s) \/ pc[s] = "work"
    /\ Fault
    /\ outcome' = [outcome EXCEPT ![s] = Append(@, "skipped")]
    /\ attempt' = [attempt EXCEPT ![s] = 0]
    /\ Leave(s)
    /\ UNCHANGED <<tables, topic, lost, committed, restarts>>

\* What stage s has behind it when it starts at its group's offset.
Resumed(s) == SubSeq(outcome[s], 1, committed[s])

\* A new session begins at the committed offset.  The event in hand comes
\* again, also if its handler has published or has even returned.
Rebalance(s) ==
    /\ Fault
    /\ outcome' = [outcome EXCEPT ![s] = Resumed(s)]
    /\ attempt' = [attempt EXCEPT ![s] = 0]
    /\ Leave(s)
    /\ UNCHANGED <<tables, topic, lost, committed, restarts>>

\* The process ends and starts again: every group resumes at its offset.
Restart ==
    /\ Fault
    /\ restarts' = restarts + 1
    /\ outcome' = [s \in Stages |-> Resumed(s)]
    /\ pc' = [s \in Stages |-> "idle"]
    /\ attempt' = [s \in Stages |-> 0]
    /\ todo' = {}
    /\ out' = [s \in Stages |-> <<>>]
    /\ saved' = IF store = "memory" THEN {} ELSE saved
    /\ catalog' = (store = "postgres")
    /\ UNCHANGED <<store, feed, made, topic, lost, committed>>

\* The fetch service's next scan sends the markets again (market.selected).
MarketSelected ==
    /\ ~catalog
    /\ catalog' = TRUE
    /\ UNCHANGED <<store, feed, made, saved, kafka, group, trouble>>

-----------------------------------------------------------------------------
Work(s) ==
    \/ SaveInput(s) \/ Decline(s) \/ Refused(s)
    \/ s = News /\ SaveMatch
    \/ s = AI /\ Analyze
    \/ s = Probability /\ Calculate
    \/ s = Risk /\ Evaluate
    \/ s = Execution /\ CreateFromRiskDecision
    \/ Publish(s)
    \/ Commit(s)

Next ==
    \/ \E s \in Stages : Work(s)
    \/ \E s \in Stages : \/ HandlerFails(s) \/ Skip(s) \/ Rebalance(s)
                         \/ PublishLost(s) \/ PublishAgain(s) \/ CommitFails(s)
    \/ Restart
    \/ MarketSelected

Spec == Init /\ [][Next]_vars

\* Every group has a goroutine of its own; faults come to an end.
FairSpec == Spec /\ \A s \in Stages : WF_vars(Work(s))

-----------------------------------------------------------------------------
(* Properties.                                                             *)

Rows == [article : Articles, market : Markets \cup {NoMarket}, path : Seq(Nat)]

\* A row that waits for stage s is of the kind that s consumes: an article as
\* it was published, or what an engine made for a market.
InputOK(s, r) ==
    /\ Kind(r) = s
    /\ IF s = News THEN r.market = NoMarket ELSE r \in made

CountsOK == faults \in 0..MaxFaults[store][feed] /\ restarts \in 0..faults

TablesOK ==
    /\ store \in Stores /\ feed \in Feeds /\ catalog \in BOOLEAN
    /\ made \subseteq Rows /\ IsFiniteSet(made)
    /\ saved \subseteq Rows /\ lost \subseteq made
    /\ \A r \in made : r.market \in Markets /\ Kind(r) \in AI..Trade

KafkaOK ==
    /\ topic \in [Stages -> Seq(Rows)]
    /\ outcome \in [Stages -> Seq(Settled)]
    /\ committed \in [Stages -> Nat]
    /\ \A s \in Stages :
        /\ committed[s] \in 0..Len(outcome[s])
        /\ Len(outcome[s]) <= Len(topic[s])
        /\ \A n \in 1..Len(topic[s]) : InputOK(s, topic[s][n])

HandlersOK ==
    /\ pc \in [Stages -> {"idle", "work", "publish"} \cup Outcomes]
    /\ attempt \in [Stages -> 0..MaxAttempts - 1]
    /\ todo \subseteq Markets
    /\ out \in [Stages -> Seq(Rows)]
    /\ \A s \in Stages :
        /\ pc[s] # "idle" => Len(outcome[s]) < Len(topic[s])
        /\ pc[s] # "publish" => out[s] = <<>>
        /\ pc[s] = "publish" => /\ s # Execution /\ Len(out[s]) = 1
                               /\ InputOK(s + 1, out[s][1])

\* Tables, topics and handlers are of their types: every event carries a row
\* of the kind its stage consumes, no group is ahead of its topic, and a
\* handler has one row to publish exactly while it publishes.
TypeOK == CountsOK /\ TablesOK /\ KafkaOK /\ HandlersOK

Orders(a, m) == {r \in made : Kind(r) = Trade /\ r.article = a /\ r.market = m}

Allowed == 1 + faults + (Cardinality(Stages) - 1) * restarts

\* An article leads to one order in a market.  A failure, a rebalance or an
\* event sent twice adds at most one, a restart at most one for each group,
\* which may all be between publishing and committing (consumer.go:142 to 148).
\* Handlers draw new ids when they run again, so nothing in the store would
\* stop a further duplicate.
DuplicatesNeedFaults ==
    \A i \in 1..Len(feed), m \in Markets :
        Cardinality(Orders(feed[i], m)) <= Allowed

\* An event that was handled has handed on all it should: for each market
\* the matcher found, or for the row's own, there is an output in the next
\* topic.  Only an event that Kafka refused is missing, since the bus logs
\* that error and the handler succeeds.
Wanted(r) == IF Kind(r) = News THEN Matches[r.article] ELSE {r.market}

HandedOn(r) ==
    \/ r \in lost
    \/ Kind(r) = Trade
    \/ \E n \in 1..Len(topic[Kind(r)]) : topic[Kind(r)][n] = r

DoneIsHandedOn ==
    \A s \in Stages : \A n \in 1..Len(outcome[s]) :
        outcome[s][n] = "done" =>
            \A m \in Wanted(topic[s][n]) :
                \E r \in made : /\ Parent(r) = topic[s][n] /\ r.market = m
                                /\ HandedOn(r)

\* An article or a match on Postgres, and anything on a memory store that
\* has seen no fault, is dead-lettered only after MaxAttempts failures that
\* came from outside: no stage makes the next one fail.
DeadLettersHaveCause ==
    \A s \in Stages : \A n \in 1..Len(outcome[s]) :
        outcome[s][n] = "dead" =>
            \/ faults >= MaxAttempts
            \/ store = "memory" /\ faults > 0
            \/ store = "postgres" /\ s >= Probability

\* Every group catches up with its topic, whatever is dead-lettered on the
\* way: no event is retried for ever.
GroupsCatchUp ==
    \A s \in Stages : []<>(Len(outcome[s]) = Len(topic[s]))

\* "consumes Kafka events, runs news matching, AI signal generation,
\* probability/risk evaluation, paper execution" (README.md:6): a signal
\* that is published gets a probability decision.
SignalsAreEvaluated ==
    topic[Probability] # <<>> ~>
        /\ outcome[Probability] # <<>>
        /\ outcome[Probability][1] \in {"done", "declined"}

=============================================================================
