--------------------------- MODULE DashboardStream ---------------------------
(***************************************************************************)
(* The dashboard's event stream.  A thread of the service publishes an     *)
(* event on the composite bus: first to the stream, then to Kafka.  The    *)
(* -dashboard consumer group publishes what it reads from Kafka on the     *)
(* stream again, the fetch service's events included.  Each SSE session    *)
(* has a bounded buffer; a publisher copies the list of sessions under the *)
(* lock and offers the event to each of them outside it.                   *)
(***************************************************************************)
EXTENDS Integers, Sequences, SequencesExt

CONSTANTS
    Sessions,    \* SSE requests
    Services,    \* threads that publish on the bus and recover from panics
    Consumer,    \* the -dashboard consumer; nothing recovers its panics
    Keys,        \* throttle keys of the noncritical event types
    Critical,    \* stands for the key of every other event
    Buffer,      \* subscriberBuffer
    Throttle,    \* StreamService.throttle
    MaxEvents,   \* bound on events
    MaxTime,     \* bound on the clock
    None

ASSUME BufferAssumption == Buffer \in Nat \ {0}
ASSUME ThrottleAssumption == Throttle \in Nat \ {0}
ASSUME NamesAssumption ==
    Consumer \notin Services /\ Critical \notin Keys /\ None \notin Sessions

VARIABLES
    up,          \* FALSE once a panic has ended the process
    clock,
    count,       \* events created so far
    topic,       \* events the -dashboard group has yet to read
    session,     \* "absent", "open" or "closed"
    buffer,      \* the session's channel
    received,    \* what the session was sent over HTTP
    lastSent,    \* StreamService.lastSent, None where there is no entry
    pc, event, targets, channel, old,  \* locals of Publish, and of offer
    due          \* what publishers set out to offer to a session, None when
                 \* it is not open or may have missed something (history)

sse     == <<session, buffer, received>>
locals  == <<pc, event, targets, channel, old>>
vars    == <<up, clock, count, topic, sse, lastSent, locals, due>>

Publishers == Services \cup {Consumer}
PCs        == {"idle", "copy", "offer", "take", "putBack", "again"}
Events     == [n : Nat, key : Keys \cup {Critical}, at : Nat]
Entries    == [n : Nat, key : Keys \cup {Critical}, at : Nat, via : Publishers]

ASSUME NoneAssumption == None \notin Nat /\ None \notin Entries

IsNonCritical(e) == e.key # Critical
Open == {s \in Sessions : session[s] = "open"}

Init ==
    /\ up = TRUE
    /\ clock = 0
    /\ count = 0
    /\ topic = <<>>
    /\ session = [s \in Sessions |-> "absent"]
    /\ buffer = [s \in Sessions |-> <<>>]
    /\ received = [s \in Sessions |-> <<>>]
    /\ lastSent = [k \in Keys |-> None]
    /\ pc = [p \in Publishers |-> "idle"]
    /\ event = [p \in Publishers |-> None]
    /\ targets = [p \in Publishers |-> {}]
    /\ channel = [p \in Publishers |-> None]
    /\ old = [p \in Publishers |-> None]
    /\ due = [s \in Sessions |-> None]

Tick ==
    /\ up /\ clock < MaxTime
    /\ clock' = clock + 1
    /\ UNCHANGED <<up, count, topic, sse, lastSent, locals, due>>

-----------------------------------------------------------------------------
(* Sessions: Subscribe, the loop of SSEHandler.Stream, its unsubscribe.    *)

Subscribe(s) ==
    /\ up /\ session[s] = "absent"
    /\ session' = [session EXCEPT ![s] = "open"]
    /\ due' = [due EXCEPT ![s] = <<>>]
    /\ UNCHANGED <<up, clock, count, topic, buffer, received, lastSent, locals>>

\* Fault: a session with a backlog is sent the newest event only.
WriteNewest(s) ==
    /\ up /\ session[s] = "open"
    /\ buffer[s] # <<>>
    /\ received' = [received EXCEPT ![s] = Append(@, Last(buffer[s]))]
    /\ buffer' = [buffer EXCEPT ![s] = <<>>]
    /\ UNCHANGED <<up, clock, count, topic, session, lastSent, locals, due>>

Write(s) ==
    /\ up /\ session[s] = "open"
    /\ buffer[s] # <<>>
    /\ received' = [received EXCEPT ![s] = Append(@, Head(buffer[s]))]
    /\ buffer' = [buffer EXCEPT ![s] = Tail(@)]
    /\ UNCHANGED <<up, clock, count, topic, session, lastSent, locals, due>>

\* The client is gone: the channel leaves the map and is closed.  Nobody will
\* see what it still holds.
Unsubscribe(s) ==
    /\ up /\ session[s] = "open"
    /\ session' = [session EXCEPT ![s] = "closed"]
    /\ buffer' = [buffer EXCEPT ![s] = <<>>]
    /\ received' = [received EXCEPT ![s] = <<>>]
    /\ due' = [due EXCEPT ![s] = None]
    /\ UNCHANGED <<up, clock, count, topic, lastSent, locals>>

-----------------------------------------------------------------------------
(* Publish: the throttle, the copy of the map, the fan-out.                *)

\* Fault: the age of an event is taken without its sign.
ThrottledByDistance(e) ==
    /\ IsNonCritical(e)
    /\ lastSent[e.key] # None
    /\ e.at - lastSent[e.key] < Throttle
    /\ lastSent[e.key] - e.at < Throttle

\* Times are those of the events, which Kafka may deliver late.
Throttled(e) ==
    /\ IsNonCritical(e)
    /\ lastSent[e.key] # None
    /\ e.at - lastSent[e.key] < Throttle

Mark(e) ==
    lastSent' = IF IsNonCritical(e) THEN [lastSent EXCEPT ![e.key] = e.at] ELSE lastSent

\* RunOnce may be set to keep its events off Kafka, and an error of the
\* producer is only logged.
SendToKafka(e) == topic' = Append(topic, e) \/ UNCHANGED topic

\* On the composite bus the stream comes first; a throttled event still
\* goes to Kafka.
Publish(p, k) ==
    LET e == [n |-> count + 1, key |-> k, at |-> clock] IN
    /\ up /\ pc[p] = "idle" /\ count < MaxEvents
    /\ count' = count + 1
    /\ IF Throttled(e)
       THEN SendToKafka(e) /\ UNCHANGED <<lastSent, pc, event>>
       ELSE /\ Mark(e)
            /\ event' = [event EXCEPT ![p] = e]
            /\ pc' = [pc EXCEPT ![p] = "copy"]
            /\ UNCHANGED topic
    /\ UNCHANGED <<up, clock, sse, targets, channel, old, due>>

\* An event of the fetch service.
FetchPublish(k) ==
    /\ up /\ count < MaxEvents
    /\ count' = count + 1
    /\ topic' = Append(topic, [n |-> count + 1, key |-> k, at |-> clock])
    /\ UNCHANGED <<up, clock, sse, lastSent, locals, due>>

\* PublishEnvelope by the consumer.
Consume ==
    /\ up /\ pc[Consumer] = "idle" /\ topic # <<>>
    /\ topic' = Tail(topic)
    /\ IF Throttled(Head(topic))
       THEN UNCHANGED <<lastSent, pc, event>>
       ELSE /\ Mark(Head(topic))
            /\ event' = [event EXCEPT ![Consumer] = Head(topic)]
            /\ pc' = [pc EXCEPT ![Consumer] = "copy"]
    /\ UNCHANGED <<up, clock, count, sse, targets, channel, old, due>>

Entry(p) == [n |-> event[p].n, key |-> event[p].key, at |-> event[p].at, via |-> p]

CopySubscribers(p) ==
    /\ up /\ pc[p] = "copy"
    /\ targets' = [targets EXCEPT ![p] = Open]
    /\ due' = [s \in Sessions |-> IF due[s] = None THEN None ELSE Append(due[s], Entry(p))]
    /\ pc' = [pc EXCEPT ![p] = "offer"]
    /\ UNCHANGED <<up, clock, count, topic, sse, lastSent, event, channel, old>>

\* The fan-out is over: a service goes on to Kafka, which gives the event a
\* time of its own.
Return(p) ==
    /\ up /\ pc[p] = "offer" /\ targets[p] = {}
    /\ pc' = [pc EXCEPT ![p] = "idle"]
    /\ event' = [event EXCEPT ![p] = None]
    /\ IF p = Consumer THEN UNCHANGED topic
                       ELSE SendToKafka([event[p] EXCEPT !.at = clock])
    /\ UNCHANGED <<up, clock, count, sse, lastSent, targets, channel, old, due>>

-----------------------------------------------------------------------------
(* offer, one select statement per step.                                   *)

Full(s) == Len(buffer[s]) = Buffer

\* A send on a closed channel: the publisher unwinds, a service recovers.
Panic(p) ==
    /\ up' = (p # Consumer)
    /\ pc' = [pc EXCEPT ![p] = "idle"]
    /\ event' = [event EXCEPT ![p] = None]
    /\ targets' = [targets EXCEPT ![p] = {}]
    /\ channel' = [channel EXCEPT ![p] = None]
    /\ old' = [old EXCEPT ![p] = None]
    /\ due' = [s \in Sessions |-> IF s \in targets[p] THEN None ELSE due[s]]
    /\ UNCHANGED buffer

\* On to the next channel.
Offered(p, s) ==
    /\ pc' = [pc EXCEPT ![p] = "offer"]
    /\ targets' = [targets EXCEPT ![p] = @ \ {s}]
    /\ channel' = [channel EXCEPT ![p] = None]
    /\ old' = [old EXCEPT ![p] = None]
    /\ UNCHANGED <<up, event>>

Send(p, s, e) ==
    /\ session[s] = "open" /\ ~Full(s)
    /\ buffer' = [buffer EXCEPT ![s] = Append(@, e)]
    /\ Offered(p, s)
    /\ UNCHANGED due

\* Fault: an event for a full buffer is left there without a second try and
\* the publisher waits for room.
FindFullAndWait(p, s) ==
    /\ session[s] = "open" /\ Full(s)
    /\ due' = [due EXCEPT ![s] = None]
    /\ UNCHANGED <<up, buffer, pc, event, targets, channel, old>>

FindFull(p, s) ==
    /\ session[s] = "open" /\ Full(s)
    /\ channel' = [channel EXCEPT ![p] = s]
    /\ pc' = [pc EXCEPT ![p] = IF IsNonCritical(event[p]) THEN "take" ELSE "again"]
    /\ due' = [due EXCEPT ![s] = None]
    /\ UNCHANGED <<up, buffer, event, targets, old>>

FirstTry(p, s) ==
    /\ up /\ pc[p] = "offer" /\ s \in targets[p]
    /\ \/ Send(p, s, Entry(p))
       \/ FindFull(p, s)
       \/ session[s] = "closed" /\ Panic(p)
    /\ UNCHANGED <<clock, count, topic, session, received, lastSent>>

\* Fault: an old critical event makes room like any other.
TakeAnything(p, s) ==
    /\ session[s] = "open" /\ buffer[s] # <<>>
    /\ buffer' = [buffer EXCEPT ![s] = Tail(@)]
    /\ pc' = [pc EXCEPT ![p] = "again"]
    /\ UNCHANGED <<up, event, targets, channel, old, due>>

TakeOldest(p, s) ==
    /\ session[s] = "open" /\ buffer[s] # <<>>
    /\ buffer' = [buffer EXCEPT ![s] = Tail(@)]
    /\ IF IsNonCritical(Head(buffer[s]))
       THEN pc' = [pc EXCEPT ![p] = "again"] /\ UNCHANGED old
       ELSE pc' = [pc EXCEPT ![p] = "putBack"] /\ old' = [old EXCEPT ![p] = Head(buffer[s])]
    /\ UNCHANGED <<up, event, targets, channel, due>>

FindEmpty(p, s) ==
    /\ session[s] = "open" /\ buffer[s] = <<>>
    /\ pc' = [pc EXCEPT ![p] = "again"]
    /\ UNCHANGED <<up, buffer, event, targets, channel, old, due>>

\* A closed channel yields events until it is empty and then zero values,
\* but the send that follows panics either way.
Take(p, s) ==
    /\ up /\ pc[p] = "take" /\ s = channel[p]
    /\ \/ TakeOldest(p, s)
       \/ FindEmpty(p, s)
       \/ session[s] = "closed" /\ Panic(p)
    /\ UNCHANGED <<clock, count, topic, session, received, lastSent>>

Drop(p, s) ==
    /\ session[s] = "open" /\ Full(s)
    /\ Offered(p, s)
    /\ UNCHANGED <<buffer, due>>

\* The old event goes to the back of the buffer; the new one is dropped.
PutBack(p, s) ==
    /\ up /\ pc[p] = "putBack" /\ s = channel[p]
    /\ \/ Send(p, s, old[p])
       \/ Drop(p, s)
       \/ session[s] = "closed" /\ Panic(p)
    /\ UNCHANGED <<clock, count, topic, session, received, lastSent>>

SecondTry(p, s) ==
    /\ up /\ pc[p] = "again" /\ s = channel[p]
    /\ \/ Send(p, s, Entry(p))
       \/ Drop(p, s)
       \/ session[s] = "closed" /\ Panic(p)
    /\ UNCHANGED <<clock, count, topic, session, received, lastSent>>

PublisherStep(p) ==
    \/ CopySubscribers(p)
    \/ Return(p)
    \/ \E s \in Sessions :
          FirstTry(p, s) \/ Take(p, s) \/ PutBack(p, s) \/ SecondTry(p, s)

Next ==
    \/ Tick
    \/ \E s \in Sessions : Subscribe(s) \/ Write(s) \/ Unsubscribe(s)
    \/ \E k \in Keys \cup {Critical} :
          FetchPublish(k) \/ \E p \in Services : Publish(p, k)
    \/ Consume
    \/ \E p \in Publishers : PublisherStep(p)

Spec == Init /\ [][Next]_vars

\* A thread inside Publish keeps running.  Nothing is assumed of the sessions:
\* a client may stop reading at any time.
FairSpec == Spec /\ \A p \in Publishers : WF_vars(PublisherStep(p))

-----------------------------------------------------------------------------
Stream(s) == received[s] \o buffer[s]

\* The entries that one publisher made, in order.
Via(st, p) ==
    LET upTo[i \in 0..Len(st)] ==
            IF i = 0 THEN <<>>
            ELSE IF st[i].via = p THEN Append(upTo[i - 1], st[i])
            ELSE upTo[i - 1]
    IN  upTo[Len(st)]

(* Throttling holds for what a session gets, over both paths an event can  *)
(* take: two states of one market, position or portfolio are at least the  *)
(* throttle apart.  In particular the copy that comes back from Kafka is   *)
(* not shown again, however late and in whatever order it arrives, unless  *)
(* the throttle passed before it was sent there.                           *)
StatesSpaced ==
    \A s \in Sessions :
        \A i, j \in 1..Len(Stream(s)) :
            i # j /\ IsNonCritical(Stream(s)[i]) /\ Stream(s)[i].key = Stream(s)[j].key
                => \/ Stream(s)[i].at - Stream(s)[j].at >= Throttle
                   \/ Stream(s)[j].at - Stream(s)[i].at >= Throttle

(* A session that keeps up misses nothing: as long as no publisher found   *)
(* its buffer full and no fan-out that included it was cut short by a      *)
(* panic, it has every event published since it subscribed, each           *)
(* publisher's in order and once, but for the one still being offered.     *)
KeepsUpGetsAll ==
    \A s \in Sessions, p \in Publishers :
        due[s] # None =>
            Via(due[s], p) =
                Via(Stream(s), p) \o (IF s \in targets[p] THEN <<Entry(p)>> ELSE <<>>)

Held(s) ==
    {buffer[s][i] : i \in 1..Len(buffer[s])} \cup {old[p] : p \in {q \in Publishers : channel[q] = s /\ old[q] # None}}

FindsNoRoomFor(e, s) ==
    /\ Full(s)
    /\ \E p \in Publishers : /\ pc[p] = "putBack" /\ channel[p] = s /\ old[p] = e
                             /\ pc'[p] # "putBack"

(* Making room spares critical events: one that was in a session's buffer  *)
(* is lost in one way only.  A publisher took it out, and has just found   *)
(* that others have filled the buffer meanwhile (offer has no third try).  *)
(* In particular a full buffer gives up a critical event to nobody.        *)
CriticalSurvives ==
    [][\A s \in Open : \A e \in Held(s) :
          ~IsNonCritical(e) /\ session'[s] = "open" =>
              \/ e \in Held(s)'
              \/ received'[s] = Append(received[s], e)
              \/ FindsNoRoomFor(e, s)]_vars

(* No session can block a publisher, whether or not it reads what it gets. *)
PublishReturns ==
    \A p \in Publishers : pc[p] # "idle" ~> (pc[p] = "idle" \/ ~up)

(* "the stream cannot block Kafka consumers or trading flow" (README.md):  *)
(* publishing never takes the process down.                                *)
StreamIsHarmless == up
=============================================================================
