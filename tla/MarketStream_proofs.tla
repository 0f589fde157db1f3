------------------------ MODULE MarketStream_proofs ------------------------
(* Theorems about MarketStream: one reader at a time, and rows before what *)
(* refers to them.                                                         *)
EXTENDS MarketStream, SequenceTheorems, TLAPS

-----------------------------------------------------------------------------
(* Types.                                                                  *)

\* A stream that has just been started, or none.
LEMMA NewStream ==
  ASSUME NEW known \in SUBSET Markets
  PROVE  /\ NoStream \in StreamStates
         /\ [NoStream EXCEPT !.known = known, !.reader = "dial", !.consumer = "select"]
               \in StreamStates
BY EmptySeq DEF NoStream, StreamStates

LEMMA InitType == Init => TypeOK
<1> SUFFICES ASSUME Init PROVE TypeOK
    OBVIOUS
<1>1. NoStream \in StreamStates
      BY NewStream
<1>2. /\ NoStream.reader = "done" /\ NoStream.consumer = "done"
      /\ Len(NoStream.events) <= Buffer
      BY BufferAssumption, EmptySeq DEF NoStream
<1>3. updates \in Seq(Quotes) /\ quotes \in 0..MaxQuotes
      BY MaxAssumption, EmptySeq DEF Init
<1> QED BY <1>1, <1>2, <1>3 DEF Init, TypeOK

\* A step of the goroutines of one stream, as far as its own types go.
StreamOK(st) ==
    /\ st \in StreamStates
    /\ st.reader = "send" => st.read \in Quotes
    /\ st.consumer = "save" => st.hand \in Quotes
    /\ Len(st.events) <= Buffer

LEMMA SetType ==
  ASSUME TypeOK, NEW s \in Streams, NEW st, StreamOK(st), Set(s, st),
         running' \in BOOLEAN, quotes' \in 0..MaxQuotes,
         markets' = markets, announced' = announced,
         live' \in [Markets -> Quotes \cup {None}], updates' \in Seq(Quotes)
  PROVE  TypeOK'
BY DEF TypeOK, StreamOK, Set, loop

\* The first of the events, and the rest.
LEMMA HeadAndTail ==
  ASSUME NEW S, NEW q \in Seq(S), q # <<>>
  PROVE  /\ Head(q) \in S
         /\ Tail(q) \in Seq(S)
         /\ Len(Tail(q)) <= Len(q)
         /\ Head(q) = q[1]
         /\ \A k \in 1..Len(Tail(q)) : k + 1 \in 1..Len(q) /\ Tail(q)[k] = q[k + 1]
         /\ 1 \in 1..Len(q)
OBVIOUS

LEMMA ReaderType ==
  ASSUME TypeOK, NEW s \in Streams, Reader(s)
  PROVE  TypeOK'
<1> DEFINE st == stream[s]
<1> USE DEF store
<1>1. StreamOK(st)
      BY DEF TypeOK, StreamOK
<1>2. \A from \in {"dial", "read", "cancelled"}, to \in {"dial", "read", "returned", "done"} :
          st.reader = from => StreamOK([st EXCEPT !.reader = to])
      BY <1>1 DEF StreamOK, StreamStates
<1>3. /\ running \in BOOLEAN /\ quotes \in 0..MaxQuotes /\ updates \in Seq(Quotes)
      /\ live \in [Markets -> Quotes \cup {None}]
      BY DEF TypeOK
<1>4. CASE Connect(s) \/ SubscribeFails(s) \/ ConnectionLost(s)
      BY <1>2, <1>3, <1>4, SetType DEF Connect, SubscribeFails, ConnectionLost, At
<1>5. CASE ReadMessage(s)
  <2>1. PICK m \in st.known :
            Set(s, [st EXCEPT !.reader = "send", !.read = [market |-> m, n |-> quotes']])
        BY <1>5 DEF ReadMessage
  <2> DEFINE new == [st EXCEPT !.reader = "send", !.read = [market |-> m, n |-> quotes']]
  <2>2. quotes' \in 1..MaxQuotes
        BY <1>3, <1>5, MaxAssumption DEF ReadMessage
  <2>3. [market |-> m, n |-> quotes'] \in Quotes
        BY <1>1, <2>2 DEF StreamOK, StreamStates, Quotes
  <2>4. StreamOK(new)
        BY <1>1, <2>3 DEF StreamOK, StreamStates
  <2> HIDE DEF new
  <2> QED BY <1>3, <1>5, <2>1, <2>2, <2>4, SetType DEF ReadMessage, new
<1>6. CASE SendEvent(s)
  <2> DEFINE events == Append(st.events, st.read)
  <2>1. events \in Seq(Quotes) /\ Len(events) <= Buffer
    <3>1. st.read \in Quotes /\ st.events \in Seq(Quotes) /\ Len(st.events) < Buffer
          BY <1>1, <1>6 DEF StreamOK, StreamStates, SendEvent
    <3> QED BY <3>1, BufferAssumption
  <2> HIDE DEF events
  <2>2. StreamOK([st EXCEPT !.reader = "read", !.read = None, !.events = events])
        BY <1>1, <2>1 DEF StreamOK, StreamStates
  <2>3. Set(s, [st EXCEPT !.reader = "read", !.read = None, !.events = events])
        BY <1>6 DEF SendEvent, events
  <2> QED BY <1>3, <1>6, <2>2, <2>3, SetType DEF SendEvent
<1>7. CASE Quit(s)
  <2>1. StreamOK([st EXCEPT !.reader = "returned", !.read = None])
        BY <1>1 DEF StreamOK, StreamStates
  <2> QED BY <1>3, <1>7, <2>1, SetType DEF Quit
<1>8. CASE CancelConsumer(s)
  <2>1. StreamOK([st EXCEPT !.reader = "cancelled", !.cancelled = TRUE])
        BY <1>1 DEF StreamOK, StreamStates
  <2> QED BY <1>3, <1>8, <2>1, SetType DEF CancelConsumer
<1>9. CASE ClearRunning(s)
      BY <1>2, <1>3, <1>9, SetType DEF ClearRunning, At
<1> QED BY <1>4, <1>5, <1>6, <1>7, <1>8, <1>9 DEF Reader

LEMMA ConsumerType ==
  ASSUME TypeOK, NEW s \in Streams, Consume(s)
  PROVE  TypeOK'
<1> DEFINE st == stream[s]
<1> USE DEF store
<1>1. StreamOK(st)
      BY DEF TypeOK, StreamOK
<1>2. /\ running \in BOOLEAN /\ quotes \in 0..MaxQuotes /\ updates \in Seq(Quotes)
      /\ live \in [Markets -> Quotes \cup {None}]
      BY DEF TypeOK
<1>3. CASE Receive(s)
  <2> DEFINE first == Head(st.events)
             rest  == Tail(st.events)
  <2>1. first \in Quotes /\ rest \in Seq(Quotes) /\ Len(rest) <= Buffer
    <3>1. st.events \in Seq(Quotes) /\ st.events # <<>> /\ Len(st.events) <= Buffer
          BY <1>1, <1>3 DEF StreamOK, StreamStates, Receive
    <3> QED BY <3>1, BufferAssumption, HeadAndTail
  <2>2. Set(s, [st EXCEPT !.consumer = "save", !.hand = first, !.events = rest])
        BY <1>3 DEF Receive
  <2> HIDE DEF first, rest
  <2>3. StreamOK([st EXCEPT !.consumer = "save", !.hand = first, !.events = rest])
        BY <1>1, <2>1 DEF StreamOK, StreamStates
  <2> QED BY <1>2, <1>3, <2>2, <2>3, SetType DEF Receive
<1>4. CASE SaveLiveMarketState(s)
  <2>1. st.hand \in Quotes
        BY <1>1, <1>4 DEF StreamOK, SaveLiveMarketState
  <2>2. StreamOK([st EXCEPT !.consumer = "select", !.hand = None])
        BY <1>1 DEF StreamOK, StreamStates
  <2>3. live' \in [Markets -> Quotes \cup {None}]
        BY <1>2, <1>4, <2>1 DEF SaveLiveMarketState
  <2>4. updates' \in Seq(Quotes)
        BY <1>2, <1>4, <2>1 DEF SaveLiveMarketState
  <2> QED BY <1>2, <1>4, <2>2, <2>3, <2>4, SetType DEF SaveLiveMarketState
<1>5. CASE ConsumerReturns(s)
  <2>1. StreamOK([st EXCEPT !.consumer = "done"])
        BY <1>1 DEF StreamOK, StreamStates
  <2> QED BY <1>2, <1>5, <2>1, SetType DEF ConsumerReturns
<1> QED BY <1>3, <1>4, <1>5 DEF Consume

LEMMA TypePreserved == ASSUME TypeOK, [Next]_vars PROVE TypeOK'
<1> USE DEF loop, flags, store, bounds
<1>1. \A s \in Streams : Reader(s) => TypeOK'
      BY ReaderType
<1>2. \A s \in Streams : Consume(s) => TypeOK'
      BY ConsumerType
<1>3. CASE FetchMarkets
      BY <1>3 DEF TypeOK, FetchMarkets
<1>4. ASSUME NEW m \in Markets, SaveMarket(m) PROVE TypeOK'
      BY <1>4 DEF TypeOK, SaveMarket
<1>5. ASSUME NEW m \in Markets, Announce(m) PROVE TypeOK'
      BY <1>5 DEF TypeOK, Announce
<1>6. CASE SaveMarketsDone
      BY <1>6 DEF TypeOK, SaveMarketsDone
<1>7. CASE RefreshDone \/ RefreshFails \/ StartAlreadyRunning \/ Tick \/ Signal
      BY <1>7 DEF TypeOK, RefreshDone, RefreshFails, StartAlreadyRunning, Tick, Signal
<1>8. ASSUME NEW s \in Streams, Start(s) PROVE TypeOK'
  <2> DEFINE new == [NoStream EXCEPT !.known = markets, !.reader = "dial", !.consumer = "select"]
  <2>1. new \in StreamStates
        BY NewStream DEF TypeOK
  <2>2. new.reader = "dial" /\ new.consumer = "select" /\ Len(new.events) <= Buffer
        BY BufferAssumption, EmptySeq DEF NoStream
  <2>3. stream' = [stream EXCEPT ![s] = new]
        BY <1>8 DEF Start
  <2> HIDE DEF new
  <2> QED BY <1>8, <2>1, <2>2, <2>3 DEF TypeOK, Start
<1>9. CASE Stop
  <2>1. ASSUME NEW s \in Streams
        PROVE  /\ stream'[s] \in StreamStates
               /\ stream'[s].reader = stream[s].reader /\ stream'[s].read = stream[s].read
               /\ stream'[s].consumer = stream[s].consumer /\ stream'[s].hand = stream[s].hand
               /\ stream'[s].events = stream[s].events
    <3>1. stream[s] \in StreamStates
          BY DEF TypeOK
    <3>2. stream'[s] \in {stream[s], [stream[s] EXCEPT !.cancelled = TRUE]}
          BY <1>9 DEF Stop
    <3> QED BY <3>1, <3>2 DEF StreamStates
  <2>2. stream' \in [Streams -> StreamStates]
        BY <1>9, <2>1 DEF Stop
  <2> QED BY <1>9, <2>1, <2>2 DEF TypeOK, Stop
<1>10. CASE Restart
  <2>1. NoStream \in StreamStates
        BY NewStream
  <2>2. /\ NoStream.reader = "done" /\ NoStream.consumer = "done"
        /\ Len(NoStream.events) <= Buffer
        BY BufferAssumption, EmptySeq DEF NoStream
  <2> QED BY <1>10, <2>1, <2>2 DEF TypeOK, Restart
<1>11. CASE SaveUpdate
  <2>1. Head(updates) \in Quotes /\ Tail(updates) \in Seq(Quotes)
        BY <1>11, HeadAndTail DEF TypeOK, SaveUpdate
  <2> QED BY <1>11, <2>1 DEF TypeOK, SaveUpdate
<1>12. CASE UNCHANGED vars
      BY <1>12 DEF TypeOK, vars
<1> QED BY <1>1, <1>2, <1>3, <1>4, <1>5, <1>6, <1>7, <1>8, <1>9, <1>10, <1>11, <1>12
        DEF Next, Refresh

(* Flags, tables, channel and locals are of their types, whatever the      *)
(* exchange sends and whatever fails.                                      *)
THEOREM TypeCorrect == Spec => []TypeOK
BY InitType, TypePreserved, PTL DEF Spec

-----------------------------------------------------------------------------
(* One reader.                                                             *)

\* What the goroutines of a stream do to the readers.
LEMMA ReaderSteps ==
  ASSUME TypeOK, NEW s \in Streams, Reader(s) \/ Consume(s)
  PROVE  /\ pc' = pc /\ current' = current
         /\ \A t \in Streams \ {s} : stream'[t] = stream[t]
         /\ \/ running' = running
               /\ (stream'[s].reader = "done" <=> stream[s].reader = "done")
            \/ ~running' /\ stream[s].reader # "done" /\ stream'[s].reader = "done"
<1> DEFINE st == stream[s]
<1> USE DEF loop
<1>1. stream \in [Streams -> StreamStates] /\ st \in StreamStates
      BY DEF TypeOK
<1>2. ASSUME NEW new, Set(s, new)
      PROVE  /\ pc' = pc /\ current' = current /\ stream'[s] = new
             /\ \A t \in Streams \ {s} : stream'[t] = stream[t]
      BY <1>1, <1>2 DEF Set
<1>3. CASE Connect(s) \/ SubscribeFails(s) \/ ConnectionLost(s)
  <2>1. \E to \in {"read", "returned", "dial"} :
            st.reader # "done" /\ Set(s, [st EXCEPT !.reader = to])
        BY <1>3 DEF Connect, SubscribeFails, ConnectionLost, At
  <2>2. \A to : [st EXCEPT !.reader = to].reader = to
        BY <1>1 DEF StreamStates
  <2> QED BY <1>2, <1>3, <2>1, <2>2 DEF Connect, SubscribeFails, ConnectionLost
<1>4. CASE ReadMessage(s)
  <2>1. PICK m : Set(s, [st EXCEPT !.reader = "send", !.read = [market |-> m, n |-> quotes']])
        BY <1>4 DEF ReadMessage
  <2>2. [st EXCEPT !.reader = "send", !.read = [market |-> m, n |-> quotes']].reader = "send"
        BY <1>1 DEF StreamStates
  <2> QED BY <1>2, <1>4, <2>1, <2>2 DEF ReadMessage
<1>5. CASE SendEvent(s)
  <2>1. [st EXCEPT !.reader = "read", !.read = None,
                   !.events = Append(@, st.read)].reader = "read"
        BY <1>1 DEF StreamStates
  <2> QED BY <1>2, <1>5, <2>1 DEF SendEvent
<1>6. CASE Quit(s)
  <2>1. [st EXCEPT !.reader = "returned", !.read = None].reader = "returned"
        BY <1>1 DEF StreamStates
  <2> QED BY <1>2, <1>6, <2>1 DEF Quit
<1>7. CASE CancelConsumer(s)
  <2>1. [st EXCEPT !.reader = "cancelled", !.cancelled = TRUE].reader = "cancelled"
        BY <1>1 DEF StreamStates
  <2> QED BY <1>2, <1>7, <2>1 DEF CancelConsumer
<1>8. CASE ClearRunning(s)
  <2>1. [st EXCEPT !.reader = "done"].reader = "done"
        BY <1>1 DEF StreamStates
  <2> QED BY <1>2, <1>8, <2>1 DEF ClearRunning, At
<1>9. CASE Receive(s)
  <2>1. [st EXCEPT !.consumer = "save", !.hand = Head(st.events),
                   !.events = Tail(@)].reader = st.reader
        BY <1>1 DEF StreamStates
  <2> QED BY <1>2, <1>9, <2>1 DEF Receive
<1>10. CASE SaveLiveMarketState(s)
  <2>1. [st EXCEPT !.consumer = "select", !.hand = None].reader = st.reader
        BY <1>1 DEF StreamStates
  <2> QED BY <1>2, <1>10, <2>1 DEF SaveLiveMarketState
<1>11. CASE ConsumerReturns(s)
  <2>1. [st EXCEPT !.consumer = "done"].reader = st.reader
        BY <1>1 DEF StreamStates
  <2> QED BY <1>2, <1>11, <2>1 DEF ConsumerReturns
<1> QED BY <1>3, <1>4, <1>5, <1>6, <1>7, <1>8, <1>9, <1>10, <1>11 DEF Reader, Consume

LEMMA OneReaderPreserved ==
  ASSUME TypeOK, OneReader, [Next]_vars
  PROVE  OneReader'
<1> USE DEF OneReader, Reading
<1>1. ASSUME NEW s \in Streams, Reader(s) \/ Consume(s) PROVE OneReader'
      BY <1>1, ReaderSteps
<1>2. ASSUME NEW s \in Streams, Start(s) PROVE OneReader'
  <2> DEFINE new == [NoStream EXCEPT !.known = markets, !.reader = "dial", !.consumer = "select"]
  <2>1. new.reader = "dial"
        BY DEF NoStream
  <2>2. stream'[s] = new /\ \A t \in Streams \ {s} : stream'[t] = stream[t]
        BY <1>2 DEF Start, TypeOK
  <2>3. \A t \in Streams : stream[t].reader = "done"
        BY <1>2 DEF Start
  <2> HIDE DEF new
  <2> QED BY <1>2, <2>1, <2>2, <2>3 DEF Start
<1>3. CASE Stop
  <2>1. ASSUME NEW s \in Streams PROVE stream'[s].reader = stream[s].reader
    <3>1. stream[s] \in StreamStates
          BY DEF TypeOK
    <3>2. stream'[s] \in {stream[s], [stream[s] EXCEPT !.cancelled = TRUE]}
          BY <1>3 DEF Stop
    <3> QED BY <3>1, <3>2 DEF StreamStates
  <2> QED BY <1>3, <2>1 DEF Stop
<1>4. CASE Restart
  <2>1. \A s \in Streams : stream'[s].reader = "done"
        BY <1>4 DEF Restart, NoStream
  <2> QED BY <1>4, <2>1 DEF Restart
<1>5. ASSUME UNCHANGED <<flags, stream>>, pc' # "stopped" => pc # "stopped"
      PROVE  OneReader'
      BY <1>5 DEF flags
<1>6. ASSUME NEW m \in Markets, SaveMarket(m) \/ Announce(m) PROVE OneReader'
      BY <1>5, <1>6 DEF SaveMarket, Announce
<1>7. CASE \/ FetchMarkets \/ SaveMarketsDone \/ RefreshDone \/ RefreshFails
           \/ StartAlreadyRunning \/ Tick
      BY <1>5, <1>7 DEF FetchMarkets, SaveMarketsDone, RefreshDone, RefreshFails,
                        StartAlreadyRunning, Tick
<1>8. CASE Signal \/ SaveUpdate \/ UNCHANGED vars
      BY <1>5, <1>8 DEF Signal, SaveUpdate, loop, vars
<1> QED BY <1>1, <1>2, <1>3, <1>4, <1>6, <1>7, <1>8 DEF Next, Refresh

(* For any number of streams, restarts and lost connections: no two        *)
(* readers at a time, and until Stop the flag tells whether there is one.  *)
THEOREM ReaderIsAlone == Spec => []OneReader
<1>1. Init => OneReader
      BY DEF Init, OneReader, Reading, NoStream
<1>2. TypeOK /\ OneReader /\ [Next]_vars => OneReader'
      BY OneReaderPreserved
<1> QED BY TypeCorrect, <1>1, <1>2, PTL DEF Spec

-----------------------------------------------------------------------------
(* Rows first.                                                             *)

\* What a stream knows, has read, has passed on and has in hand has a row.
HasRows(st) ==
    /\ st.known \subseteq markets
    /\ st.reader = "send" => st.read.market \in markets
    /\ \A k \in 1..Len(st.events) : st.events[k].market \in markets
    /\ st.consumer = "save" => st.hand.market \in markets

\* A refresh announces what it has saved; the updates on their way to the
\* -position group are of markets with rows.
RowsInv ==
    /\ announced \subseteq markets
    /\ pc = "save" => selected \ todo \subseteq markets
    /\ pc = "announce" => selected \subseteq markets
    /\ \A m \in Markets : live[m] # None => m \in markets
    /\ \A k \in 1..Len(updates) : updates[k].market \in markets
    /\ \A s \in Streams : HasRows(stream[s])

\* A step of one stream leaves the other streams and the refresh alone.
LEMMA SetRows ==
  ASSUME TypeOK, RowsInv, NEW s \in Streams, NEW st, HasRows(st), Set(s, st),
         UNCHANGED <<markets, announced>>,
         \A m \in Markets : live'[m] # None => m \in markets,
         \A k \in 1..Len(updates') : updates'[k].market \in markets
  PROVE  RowsInv'
BY DEF TypeOK, RowsInv, HasRows, Set, loop

LEMMA ReaderRows ==
  ASSUME TypeOK, RowsInv, NEW s \in Streams, Reader(s)
  PROVE  RowsInv'
<1> DEFINE st == stream[s]
<1> USE DEF store
<1>1. st \in StreamStates /\ HasRows(st)
      BY DEF TypeOK, RowsInv
<1>2. /\ \A m \in Markets : live[m] # None => m \in markets
      /\ \A k \in 1..Len(updates) : updates[k].market \in markets
      BY DEF RowsInv
<1>3. \A to \in {"dial", "read", "returned", "done"} : HasRows([st EXCEPT !.reader = to])
      BY <1>1 DEF HasRows, StreamStates
<1>4. CASE Connect(s) \/ SubscribeFails(s) \/ ConnectionLost(s) \/ ClearRunning(s)
      BY <1>2, <1>3, <1>4, SetRows
      DEF Connect, SubscribeFails, ConnectionLost, ClearRunning, At
<1>5. CASE ReadMessage(s)
  <2>1. PICK m \in st.known :
            Set(s, [st EXCEPT !.reader = "send", !.read = [market |-> m, n |-> quotes']])
        BY <1>5 DEF ReadMessage
  <2>2. HasRows([st EXCEPT !.reader = "send", !.read = [market |-> m, n |-> quotes']])
        BY <1>1 DEF HasRows, StreamStates
  <2> QED BY <1>2, <1>5, <2>1, <2>2, SetRows DEF ReadMessage
<1>6. CASE SendEvent(s)
  <2> DEFINE events == Append(st.events, st.read)
  <2>1. st.events \in Seq(Quotes) /\ st.read \in Quotes
        BY <1>6 DEF SendEvent, TypeOK, StreamStates
  <2>2. \A k \in 1..Len(events) : events[k].market \in markets
        BY <1>1, <1>6, <2>1 DEF HasRows, SendEvent
  <2>3. Set(s, [st EXCEPT !.reader = "read", !.read = None, !.events = events])
        BY <1>6 DEF SendEvent
  <2> HIDE DEF events
  <2>4. HasRows([st EXCEPT !.reader = "read", !.read = None, !.events = events])
        BY <1>1, <2>2 DEF HasRows, StreamStates
  <2> QED BY <1>2, <1>6, <2>3, <2>4, SetRows DEF SendEvent
<1>7. CASE Quit(s)
  <2>1. HasRows([st EXCEPT !.reader = "returned", !.read = None])
        BY <1>1 DEF HasRows, StreamStates
  <2> QED BY <1>2, <1>7, <2>1, SetRows DEF Quit
<1>8. CASE CancelConsumer(s)
  <2>1. HasRows([st EXCEPT !.reader = "cancelled", !.cancelled = TRUE])
        BY <1>1 DEF HasRows, StreamStates
  <2> QED BY <1>2, <1>8, <2>1, SetRows DEF CancelConsumer
<1> QED BY <1>4, <1>5, <1>6, <1>7, <1>8 DEF Reader

LEMMA ConsumerRows ==
  ASSUME TypeOK, RowsInv, NEW s \in Streams, Consume(s)
  PROVE  RowsInv'
<1> DEFINE st == stream[s]
<1> USE DEF store
<1>1. st \in StreamStates /\ HasRows(st)
      BY DEF TypeOK, RowsInv
<1>2. /\ \A m \in Markets : live[m] # None => m \in markets
      /\ \A k \in 1..Len(updates) : updates[k].market \in markets
      BY DEF RowsInv
<1>3. CASE Receive(s)
  <2> DEFINE first == Head(st.events)
             rest  == Tail(st.events)
  <2>1. st.events \in Seq(Quotes) /\ st.events # <<>>
        BY <1>1, <1>3 DEF StreamStates, Receive
  <2>2. /\ first.market \in markets
        /\ \A k \in 1..Len(rest) : rest[k].market \in markets
        BY <1>1, <2>1, HeadAndTail DEF HasRows
  <2>3. Set(s, [st EXCEPT !.consumer = "save", !.hand = first, !.events = rest])
        BY <1>3 DEF Receive
  <2> HIDE DEF first, rest
  <2>4. HasRows([st EXCEPT !.consumer = "save", !.hand = first, !.events = rest])
        BY <1>1, <2>2 DEF HasRows, StreamStates
  <2> QED BY <1>2, <1>3, <2>3, <2>4, SetRows DEF Receive
<1>4. CASE SaveLiveMarketState(s)
  <2>1. st.hand \in Quotes /\ st.hand.market \in markets
        BY <1>1, <1>4 DEF HasRows, TypeOK, SaveLiveMarketState
  <2>2. HasRows([st EXCEPT !.consumer = "select", !.hand = None])
        BY <1>1 DEF HasRows, StreamStates
  <2>3. \A m \in Markets : live'[m] # None => m \in markets
        BY <1>2, <1>4, <2>1 DEF SaveLiveMarketState, TypeOK
  <2>4. \A k \in 1..Len(updates') : updates'[k].market \in markets
        BY <1>2, <1>4, <2>1 DEF SaveLiveMarketState, TypeOK
  <2> QED BY <1>4, <2>2, <2>3, <2>4, SetRows DEF SaveLiveMarketState
<1>5. CASE ConsumerReturns(s)
  <2>1. HasRows([st EXCEPT !.consumer = "done"])
        BY <1>1 DEF HasRows, StreamStates
  <2> QED BY <1>2, <1>5, <2>1, SetRows DEF ConsumerReturns
<1> QED BY <1>3, <1>4, <1>5 DEF Consume

LEMMA RowsPreserved == ASSUME TypeOK, RowsInv, [Next]_vars PROVE RowsInv'
<1> USE DEF loop, flags, store, bounds
<1>1. ASSUME NEW s \in Streams, Reader(s) \/ Consume(s) PROVE RowsInv'
      BY <1>1, ReaderRows, ConsumerRows
<1>2. CASE FetchMarkets
      BY <1>2 DEF RowsInv, HasRows, FetchMarkets
<1>3. ASSUME NEW m \in Markets, SaveMarket(m) PROVE RowsInv'
      BY <1>3 DEF RowsInv, HasRows, SaveMarket
<1>4. ASSUME NEW m \in Markets, Announce(m) PROVE RowsInv'
      BY <1>4 DEF RowsInv, HasRows, Announce, TypeOK
<1>5. CASE SaveMarketsDone
      BY <1>5 DEF RowsInv, HasRows, SaveMarketsDone, AllSaved
<1>6. CASE RefreshDone \/ RefreshFails \/ StartAlreadyRunning \/ Tick \/ Signal
      BY <1>6 DEF RowsInv, HasRows, RefreshDone, RefreshFails, StartAlreadyRunning,
                  Tick, Signal
<1>7. ASSUME NEW s \in Streams, Start(s) PROVE RowsInv'
  <2> DEFINE new == [NoStream EXCEPT !.known = markets, !.reader = "dial", !.consumer = "select"]
  <2>1. HasRows(new)
        BY EmptySeq DEF HasRows, NoStream
  <2>2. stream' = [stream EXCEPT ![s] = new]
        BY <1>7 DEF Start
  <2> HIDE DEF new
  <2> QED BY <1>7, <2>1, <2>2 DEF RowsInv, HasRows, Start, TypeOK
<1>8. CASE Stop
  <2>1. ASSUME NEW s \in Streams PROVE HasRows(stream'[s])
    <3>1. stream[s] \in StreamStates /\ HasRows(stream[s])
          BY DEF TypeOK, RowsInv
    <3>2. stream'[s] \in {stream[s], [stream[s] EXCEPT !.cancelled = TRUE]}
          BY <1>8 DEF Stop
    <3> QED BY <3>1, <3>2 DEF StreamStates, HasRows
  <2> QED BY <1>8, <2>1 DEF RowsInv, HasRows, Stop
<1>9. CASE Restart
  <2>1. HasRows(NoStream)
        BY EmptySeq DEF HasRows, NoStream
  <2> QED BY <1>9, <2>1 DEF RowsInv, HasRows, Restart
<1>10. CASE SaveUpdate
  <2>1. /\ Head(updates) = updates[1] /\ 1 \in 1..Len(updates)
        /\ Head(updates) \in Quotes /\ Tail(updates) \in Seq(Quotes)
        /\ \A k \in 1..Len(Tail(updates)) :
              k + 1 \in 1..Len(updates) /\ Tail(updates)[k] = updates[k + 1]
        BY <1>10, HeadAndTail DEF TypeOK, SaveUpdate
  <2>2. \A k \in 1..Len(updates') : updates'[k].market \in markets
        BY <1>10, <2>1 DEF RowsInv, SaveUpdate
  <2>3. \A m \in Markets : live'[m] # None => m \in markets
        BY <1>10, <2>1 DEF RowsInv, SaveUpdate, TypeOK
  <2> QED BY <1>10, <2>2, <2>3 DEF RowsInv, HasRows, SaveUpdate
<1>11. CASE UNCHANGED vars
      BY <1>11 DEF RowsInv, HasRows, vars
<1> QED BY <1>1, <1>2, <1>3, <1>4, <1>5, <1>6, <1>7, <1>8, <1>9, <1>10, <1>11
        DEF Next, Refresh

(* For any markets, streams and restarts: nothing is announced, subscribed *)
(* to or quoted without a row, late writers and the -position group        *)
(* included.                                                               *)
THEOREM RowsComeFirst == Spec => []RowsFirst
<1>1. Init => RowsInv
      BY EmptySeq DEF Init, RowsInv, HasRows, NoStream
<1>2. TypeOK /\ RowsInv /\ [Next]_vars => RowsInv'
      BY RowsPreserved
<1>3. RowsInv => RowsFirst
      BY DEF RowsInv, HasRows, RowsFirst
<1> QED BY TypeCorrect, <1>1, <1>2, <1>3, PTL DEF Spec

-----------------------------------------------------------------------------
(***************************************************************************)
(* Old quotes.  A live state goes back only if what is written is older    *)
(* than what was; NewestInv says that whatever the running stream has in   *)
(* flight, from the web socket to the consumer's hand, is newer than every *)
(* row, every update on its way and all that a stopped stream still holds. *)
(***************************************************************************)
InFlight(st) ==
    {st.events[k] : k \in 1..Len(st.events)}
      \cup (IF st.consumer = "save" THEN {st.hand} ELSE {})
      \cup (IF st.reader = "send" THEN {st.read} ELSE {})

Written == ({live[m] : m \in Markets} \ {None}) \cup {updates[k] : k \in 1..Len(updates)}

Below(Q, q) == \A r \in Q : r.n < q.n

InOrder(st) ==
    /\ \A j, k \in 1..Len(st.events) : j < k => st.events[j].n < st.events[k].n
    /\ st.consumer = "save" => \A k \in 1..Len(st.events) : st.hand.n < st.events[k].n
    /\ st.reader = "send" => \A k \in 1..Len(st.events) : st.events[k].n < st.read.n
    /\ st.reader = "send" /\ st.consumer = "save" => st.hand.n < st.read.n

NewestInv ==
    /\ \A q \in Written : q.n <= quotes
    /\ \A s \in Streams : \A q \in InFlight(stream[s]) : q.n <= quotes
    /\ \A s \in Streams : Reading(s) =>
          /\ InOrder(stream[s])
          /\ \A q \in InFlight(stream[s]) :
                Below(Written, q) /\ \A t \in Streams \ {s} : Below(InFlight(stream[t]), q)

LEMMA FlightQuotes ==
  ASSUME TypeOK, NEW s \in Streams
  PROVE  /\ stream[s] \in StreamStates
         /\ stream[s].events \in Seq(Quotes)
         /\ \A k \in 1..Len(stream[s].events) : stream[s].events[k] \in Quotes
         /\ InFlight(stream[s]) \subseteq Quotes
<1>1. /\ stream[s] \in StreamStates
      /\ stream[s].events \in Seq(Quotes)
      /\ stream[s].reader = "send" => stream[s].read \in Quotes
      /\ stream[s].consumer = "save" => stream[s].hand \in Quotes
      BY DEF TypeOK, StreamStates
<1>2. \A k \in 1..Len(stream[s].events) : stream[s].events[k] \in Quotes
      BY <1>1, ElementOfSeq
<1> QED BY <1>1, <1>2 DEF InFlight

\* A stream that lets go of its hand or of its read.
LEMMA FewerInFlight ==
  ASSUME NEW st, NEW new, new.events = st.events,
         new.consumer = "save" => st.consumer = "save" /\ new.hand = st.hand,
         new.reader = "send" => st.reader = "send" /\ new.read = st.read
  PROVE  /\ InFlight(new) \subseteq InFlight(st)
         /\ InOrder(st) => InOrder(new)
BY DEF InFlight, InOrder

\* No quote is read, and nothing is saved or published anew.
LEMMA NothingNewer ==
  ASSUME NewestInv, quotes' = quotes, Written' \subseteq Written,
         \A s \in Streams : InFlight(stream'[s]) \subseteq InFlight(stream[s]),
         \A s \in Streams : stream'[s].reader # "done" =>
            /\ Reading(s) \/ InFlight(stream'[s]) = {}
            /\ InOrder(stream'[s])
  PROVE  NewestInv'
<1>1. PICK W : W = Written'
      OBVIOUS
<1>2. /\ \A q \in W : q \in Written /\ q.n <= quotes
      /\ \A s \in Streams : \A q \in InFlight(stream'[s]) : q.n <= quotes
      BY <1>1 DEF NewestInv
<1>3. ASSUME NEW s \in Streams, stream'[s].reader # "done", NEW q \in InFlight(stream'[s])
      PROVE  /\ Below(W, q)
             /\ \A t \in Streams \ {s} : Below(InFlight(stream'[t]), q)
  <2>1. Reading(s) /\ q \in InFlight(stream[s])
        BY <1>3
  <2>2. Below(Written, q) /\ \A t \in Streams \ {s} : Below(InFlight(stream[t]), q)
        BY <2>1 DEF NewestInv
  <2> QED BY <1>2, <2>2 DEF Below
<1> QED BY <1>1, <1>2, <1>3 DEF NewestInv, Reading, InFlight, InOrder, Below

\* A step of one stream, which may read the newest quote or write its hand.
LEMMA OneStreamNewer ==
  ASSUME TypeOK, OneReader, NewestInv, NEW s \in Streams, NEW new, Set(s, new),
         quotes' \in {quotes, quotes + 1},
         new.reader # "done" => Reading(s) /\ (InOrder(stream[s]) => InOrder(new)),
         \A q \in InFlight(new) :
            \/ q \in InFlight(stream[s])
            \/ Reading(s) /\ q.n = quotes + 1 /\ quotes' = quotes + 1 /\ Written' = Written,
         \A q \in Written' :
            \/ q \in Written
            \/ /\ q \in InFlight(stream[s])
               /\ new.reader # "done" => \A r \in InFlight(new) : q.n < r.n
  PROVE  NewestInv'
<1>1. PICK W : W = Written'
      OBVIOUS
<1>2. /\ stream'[s] = new /\ \A t \in Streams \ {s} : stream'[t] = stream[t]
      /\ quotes \in Nat
      BY MaxAssumption DEF Set, TypeOK
<1>3. \A q \in Written \cup UNION {InFlight(stream[t]) : t \in Streams} :
         q.n \in Nat /\ q.n <= quotes
  <2>1. \A q \in Written : q \in Quotes
        BY ElementOfSeq DEF Written, TypeOK
  <2>2. \A t \in Streams : \A q \in InFlight(stream[t]) : q \in Quotes
        BY FlightQuotes
  <2> QED BY <2>1, <2>2, MaxAssumption DEF NewestInv, Quotes
<1>4. /\ \A q \in W : q.n <= quotes'
      /\ \A t \in Streams : \A q \in InFlight(stream'[t]) : q.n <= quotes'
      BY <1>1, <1>2, <1>3
<1>5. ASSUME NEW t \in Streams, stream'[t].reader # "done"
      PROVE  /\ Reading(t) /\ InOrder(stream'[t])
      BY <1>2, <1>5 DEF NewestInv, Reading
<1>6. ASSUME NEW t \in Streams, stream'[t].reader # "done", NEW q \in InFlight(stream'[t])
      PROVE  /\ Below(W, q)
             /\ \A u \in Streams \ {t} : Below(InFlight(stream'[u]), q)
  <2>1. CASE q \in InFlight(stream[t])
    <3>1. /\ Below(Written, q)
          /\ \A u \in Streams \ {t} : Below(InFlight(stream[u]), q)
          BY <1>5, <1>6, <2>1 DEF NewestInv
    <3>2. Below(W, q)
          BY <1>1, <1>2, <1>6, <3>1 DEF Below
    <3>3. ASSUME NEW u \in Streams \ {t}, NEW r \in InFlight(stream'[u]) PROVE r.n < q.n
      <4>1. CASE r \in InFlight(stream[u])
            BY <3>1, <4>1 DEF Below
      <4>2. CASE r \notin InFlight(stream[u])
        <5>1. u = s /\ Reading(s)
              BY <1>2, <3>3, <4>2
        <5> QED BY <1>5, <1>6, <3>3, <5>1 DEF OneReader
      <4> QED BY <4>1, <4>2
    <3> QED BY <3>2, <3>3 DEF Below
  <2>2. CASE q \notin InFlight(stream[t])
    <3>1. t = s /\ q.n = quotes + 1 /\ W = Written
          BY <1>1, <1>2, <1>6, <2>2
    <3> QED BY <1>2, <1>3, <3>1 DEF Below
  <2> QED BY <2>1, <2>2
<1> QED BY <1>1, <1>4, <1>5, <1>6 DEF NewestInv, Reading, InFlight, InOrder, Below

\* The first event comes to hand, the rest stays in the channel.
LEMMA ReceiveInFlight ==
  ASSUME TypeOK, NEW s \in Streams, Receive(s), NEW new,
         new = [stream[s] EXCEPT !.consumer = "save", !.hand = Head(stream[s].events),
                                 !.events = Tail(@)]
  PROVE  /\ InFlight(new) \subseteq InFlight(stream[s])
         /\ InOrder(stream[s]) => InOrder(new)
<1> DEFINE st == stream[s]
<1>1. PICK ev : ev = st.events /\ ev \in Seq(Quotes) /\ ev # <<>>
      BY FlightQuotes DEF Receive
<1>2. /\ new.reader = st.reader /\ new.read = st.read /\ new.consumer = "save"
      /\ new.hand = Head(ev) /\ new.events = Tail(ev)
      BY <1>1, FlightQuotes DEF StreamStates
<1>3. /\ Head(ev) = ev[1] /\ 1 \in 1..Len(ev)
      /\ \A k \in 1..Len(Tail(ev)) : k + 1 \in 1..Len(ev) /\ Tail(ev)[k] = ev[k + 1]
      BY <1>1, HeadAndTail
<1>4. ASSUME NEW q \in InFlight(new) PROVE q \in InFlight(st)
  <2>1. CASE q = Head(ev)
        BY <1>1, <1>3, <2>1 DEF InFlight
  <2>2. CASE new.reader = "send" /\ q = new.read
        BY <1>2, <2>2 DEF InFlight
  <2>3. CASE \E k \in 1..Len(Tail(ev)) : q = Tail(ev)[k]
    <3>1. PICK k \in 1..Len(Tail(ev)) : q = Tail(ev)[k]
          BY <2>3
    <3>2. k + 1 \in 1..Len(ev) /\ q = ev[k + 1]
          BY <1>3, <3>1
    <3> QED BY <1>1, <3>2 DEF InFlight
  <2> QED BY <1>2, <1>4, <2>1, <2>2, <2>3 DEF InFlight
<1>5. ASSUME InOrder(st) PROVE InOrder(new)
  <2>1. /\ \A j, k \in 1..Len(ev) : j < k => ev[j].n < ev[k].n
        /\ st.reader = "send" => \A k \in 1..Len(ev) : ev[k].n < st.read.n
        BY <1>1, <1>5 DEF InOrder
  <2>2. \A k \in 1..Len(Tail(ev)) : Head(ev).n < Tail(ev)[k].n
    <3>1. ASSUME NEW k \in 1..Len(Tail(ev)) PROVE 1 < k + 1
          OBVIOUS
    <3> QED BY <1>3, <2>1, <3>1
  <2>3. ASSUME NEW j \in 1..Len(Tail(ev)), NEW k \in 1..Len(Tail(ev)), j < k
        PROVE  Tail(ev)[j].n < Tail(ev)[k].n
    <3>1. j + 1 < k + 1
          BY <2>3
    <3> QED BY <1>3, <2>1, <3>1
  <2>4. new.reader = "send" =>
           Head(ev).n < new.read.n /\ \A k \in 1..Len(Tail(ev)) : Tail(ev)[k].n < new.read.n
        BY <1>2, <1>3, <2>1
  <2> QED BY <1>2, <2>2, <2>3, <2>4 DEF InOrder
<1> QED BY <1>4, <1>5

\* What was read goes to the end of the channel.
LEMMA SendInFlight ==
  ASSUME TypeOK, NEW s \in Streams, SendEvent(s), NEW new,
         new = [stream[s] EXCEPT !.reader = "read", !.read = None,
                                 !.events = Append(@, stream[s].read)]
  PROVE  /\ InFlight(new) \subseteq InFlight(stream[s])
         /\ InOrder(stream[s]) => InOrder(new)
<1> DEFINE st == stream[s]
<1>1. PICK ev : ev = st.events /\ ev \in Seq(Quotes)
      BY FlightQuotes
<1>2. PICK x \in Quotes : x = st.read /\ st.reader = "send"
      BY DEF SendEvent, TypeOK
<1>3. PICK rest : rest = Append(ev, x)
      OBVIOUS
<1>4. /\ new.reader = "read" /\ new.consumer = st.consumer /\ new.hand = st.hand
      /\ new.events = rest
      BY <1>1, <1>2, <1>3, FlightQuotes DEF StreamStates
<1>5. /\ Len(ev) \in Nat /\ Len(rest) = Len(ev) + 1 /\ rest[Len(ev) + 1] = x
      /\ \A k \in 1..Len(ev) : rest[k] = ev[k]
      BY <1>1, <1>3, AppendProperties, LenProperties
<1>6. \A k \in 1..Len(rest) : k \in 1..Len(ev) \/ k = Len(ev) + 1
      BY <1>5
<1>7. ASSUME NEW q \in InFlight(new) PROVE q \in InFlight(st)
  <2>1. CASE new.consumer = "save" /\ q = new.hand
        BY <1>4, <2>1 DEF InFlight
  <2>2. CASE \E k \in 1..Len(rest) : q = rest[k]
    <3>1. (\E k \in 1..Len(ev) : q = ev[k]) \/ q = x
          BY <1>5, <1>6, <2>2
    <3> QED BY <1>1, <1>2, <3>1 DEF InFlight
  <2> QED BY <1>4, <1>7, <2>1, <2>2 DEF InFlight
<1>8. ASSUME InOrder(st) PROVE InOrder(new)
  <2>1. /\ \A j, k \in 1..Len(ev) : j < k => ev[j].n < ev[k].n
        /\ st.consumer = "save" => st.hand.n < x.n /\ \A k \in 1..Len(ev) : st.hand.n < ev[k].n
        /\ \A k \in 1..Len(ev) : ev[k].n < x.n
        BY <1>1, <1>2, <1>8 DEF InOrder
  <2>2. ASSUME NEW j \in 1..Len(rest), NEW k \in 1..Len(rest), j < k
        PROVE  rest[j].n < rest[k].n
    <3>1. j \in 1..Len(ev)
          BY <1>5, <2>2
    <3> QED BY <1>5, <1>6, <2>1, <2>2, <3>1
  <2>3. new.consumer = "save" => \A k \in 1..Len(rest) : new.hand.n < rest[k].n
        BY <1>4, <1>5, <1>6, <2>1
  <2> QED BY <1>4, <2>2, <2>3 DEF InOrder
<1> QED BY <1>7, <1>8

LEMMA ReaderNewest ==
  ASSUME TypeOK, OneReader, NewestInv, NEW s \in Streams, Reader(s)
  PROVE  NewestInv'
<1> DEFINE st == stream[s]
<1>1. st \in StreamStates /\ InFlight(st) \subseteq Quotes
      BY FlightQuotes
<1>2. ASSUME NEW new, Set(s, new), InFlight(new) \subseteq InFlight(st),
             InOrder(st) => InOrder(new), Reading(s),
             UNCHANGED <<live, updates, quotes>>
      PROVE  NewestInv'
  <2>1. Written' = Written
        BY <1>2 DEF Written
  <2> QED BY <1>2, <2>1, OneStreamNewer
<1>3. CASE Connect(s) \/ SubscribeFails(s) \/ ConnectionLost(s) \/ ClearRunning(s)
  <2>1. PICK to \in {"read", "returned", "dial", "done"} :
            Set(s, [st EXCEPT !.reader = to]) /\ Reading(s)
        BY <1>3 DEF Connect, SubscribeFails, ConnectionLost, ClearRunning, At, Reading
  <2>2. PICK new : new = [st EXCEPT !.reader = to]
        OBVIOUS
  <2>3. new.reader = to /\ new.events = st.events /\ new.consumer = st.consumer
        /\ new.hand = st.hand
        BY <1>1, <2>2 DEF StreamStates
  <2>4. InFlight(new) \subseteq InFlight(st) /\ (InOrder(st) => InOrder(new))
        BY <2>3, FewerInFlight
  <2> QED BY <1>2, <1>3, <2>1, <2>2, <2>4
          DEF Connect, SubscribeFails, ConnectionLost, ClearRunning, Set, store
<1>4. CASE Quit(s) \/ CancelConsumer(s)
  <2>1. PICK new : /\ Set(s, new) /\ Reading(s)
                   /\ \/ new = [st EXCEPT !.reader = "returned", !.read = None]
                      \/ new = [st EXCEPT !.reader = "cancelled", !.cancelled = TRUE]
        BY <1>4 DEF Quit, CancelConsumer, Reading
  <2>2. new.reader # "send" /\ new.events = st.events /\ new.consumer = st.consumer
        /\ new.hand = st.hand
        BY <1>1, <2>1 DEF StreamStates
  <2>3. InFlight(new) \subseteq InFlight(st) /\ (InOrder(st) => InOrder(new))
        BY <2>2, FewerInFlight
  <2> QED BY <1>2, <1>4, <2>1, <2>3 DEF Quit, CancelConsumer, store
<1>5. CASE SendEvent(s)
  <2>1. PICK new : /\ Set(s, new) /\ Reading(s)
                   /\ new = [st EXCEPT !.reader = "read", !.read = None,
                                       !.events = Append(@, st.read)]
        BY <1>5 DEF SendEvent, Reading
  <2>2. InFlight(new) \subseteq InFlight(st) /\ (InOrder(st) => InOrder(new))
        BY <1>5, <2>1, SendInFlight
  <2> QED BY <1>2, <1>5, <2>1, <2>2 DEF SendEvent, store
<1>6. CASE ReadMessage(s)
  <2>1. PICK m : Set(s, [st EXCEPT !.reader = "send", !.read = [market |-> m, n |-> quotes']])
        BY <1>6 DEF ReadMessage
  <2>2. PICK q : q = [market |-> m, n |-> quotes'] /\ q.n = quotes'
    <3>1. PICK q : q = [market |-> m, n |-> quotes']
          OBVIOUS
    <3>2. q.n = quotes'
          BY <3>1
    <3> QED BY <3>1, <3>2
  <2>3. PICK new : new = [st EXCEPT !.reader = "send", !.read = q]
        OBVIOUS
  <2>4. /\ quotes' = quotes + 1 /\ Reading(s) /\ st.reader = "read"
        /\ UNCHANGED <<live, updates>>
        BY <1>6 DEF ReadMessage, Reading, store
  <2>5. /\ new.reader = "send" /\ new.read = q /\ new.events = st.events
        /\ new.consumer = st.consumer /\ new.hand = st.hand
        BY <1>1, <2>3 DEF StreamStates
  <2>6. \A r \in InFlight(new) : r \in InFlight(st) \/ r = q
        BY <2>5 DEF InFlight
  <2>7. \A r \in InFlight(st) : r.n < q.n
    <3>1. \A r \in InFlight(st) : r.n \in Nat /\ r.n <= quotes
          BY <1>1, MaxAssumption DEF NewestInv, Quotes
    <3> QED BY <2>2, <2>4, <3>1, MaxAssumption DEF TypeOK
  <2>8. InOrder(st) => InOrder(new)
        BY <2>5, <2>7 DEF InOrder, InFlight
  <2>9. Written' = Written
        BY <2>4 DEF Written
  <2> QED BY <2>1, <2>2, <2>3, <2>4, <2>6, <2>8, <2>9, OneStreamNewer
<1> QED BY <1>3, <1>4, <1>5, <1>6 DEF Reader

LEMMA ConsumerNewest ==
  ASSUME TypeOK, OneReader, NewestInv, NEW s \in Streams, Consume(s)
  PROVE  NewestInv'
<1> DEFINE st == stream[s]
<1>1. st \in StreamStates /\ InFlight(st) \subseteq Quotes
      BY FlightQuotes
<1>2. ASSUME NEW new, Set(s, new), InFlight(new) \subseteq InFlight(st),
             InOrder(st) => InOrder(new), new.reader = st.reader, quotes' = quotes,
             \A q \in Written' :
                \/ q \in Written
                \/ /\ q \in InFlight(st)
                   /\ Reading(s) => \A r \in InFlight(new) : q.n < r.n
      PROVE  NewestInv'
      BY <1>2, OneStreamNewer DEF Reading
<1>3. CASE Receive(s)
  <2>1. PICK new : /\ Set(s, new)
                   /\ new = [st EXCEPT !.consumer = "save", !.hand = Head(st.events),
                                       !.events = Tail(@)]
        BY <1>3 DEF Receive
  <2>2. /\ InFlight(new) \subseteq InFlight(st) /\ (InOrder(st) => InOrder(new))
        /\ new.reader = st.reader
        BY <1>1, <1>3, <2>1, ReceiveInFlight DEF StreamStates
  <2>3. Written' = Written /\ quotes' = quotes
        BY <1>3 DEF Receive, Written, store
  <2> QED BY <1>2, <2>1, <2>2, <2>3
<1>4. CASE ConsumerReturns(s)
  <2>1. PICK new : Set(s, new) /\ new = [st EXCEPT !.consumer = "done"]
        BY <1>4 DEF ConsumerReturns
  <2>2. /\ new.reader = st.reader /\ new.events = st.events /\ new.read = st.read
        /\ new.consumer # "save"
        BY <1>1, <2>1 DEF StreamStates
  <2>3. InFlight(new) \subseteq InFlight(st) /\ (InOrder(st) => InOrder(new))
        BY <2>2, FewerInFlight
  <2>4. Written' = Written /\ quotes' = quotes
        BY <1>4 DEF ConsumerReturns, Written, store
  <2> QED BY <1>2, <2>1, <2>2, <2>3, <2>4
<1>5. CASE SaveLiveMarketState(s)
  <2>1. PICK new : Set(s, new) /\ new = [st EXCEPT !.consumer = "select", !.hand = None]
        BY <1>5 DEF SaveLiveMarketState
  <2>2. /\ new.reader = st.reader /\ new.events = st.events /\ new.read = st.read
        /\ new.consumer # "save"
        BY <1>1, <2>1 DEF StreamStates
  <2>3. InFlight(new) \subseteq InFlight(st) /\ (InOrder(st) => InOrder(new))
        BY <2>2, FewerInFlight
  <2>4. /\ st.hand \in Quotes /\ st.hand \in InFlight(st) /\ st.consumer = "save"
        BY <1>1, <1>5 DEF SaveLiveMarketState, InFlight
  <2>5. Reading(s) => \A r \in InFlight(new) : st.hand.n < r.n
    <3>1. Reading(s) => InOrder(st)
          BY DEF NewestInv
    <3> QED BY <2>2, <2>4, <3>1 DEF InOrder, InFlight
  <2>6. \A q \in Written' : q \in Written \/ q = st.hand
    <3>1. PICK W : W = Written'
          OBVIOUS
    <3>2. \A m \in Markets : live'[m] = live[m] \/ live'[m] = st.hand
          BY <1>5 DEF SaveLiveMarketState, TypeOK
    <3>3. \A k \in 1..Len(updates') :
             (\E j \in 1..Len(updates) : updates'[k] = updates[j]) \/ updates'[k] = st.hand
      <4>1. updates \in Seq(Quotes) /\ Len(updates) \in Nat
            BY LenProperties DEF TypeOK
      <4>2. updates' = updates \/ updates' = Append(updates, st.hand)
            BY <1>5 DEF SaveLiveMarketState
      <4>3. CASE updates' = updates
            BY <4>3
      <4>4. CASE updates' = Append(updates, st.hand)
        <5>1. /\ Len(updates') = Len(updates) + 1 /\ updates'[Len(updates) + 1] = st.hand
              /\ \A k \in 1..Len(updates) : updates'[k] = updates[k]
              BY <2>4, <4>1, <4>4, AppendProperties
        <5> QED BY <4>1, <5>1
      <4> QED BY <4>2, <4>3, <4>4
    <3> QED BY <3>1, <3>2, <3>3 DEF Written
  <2>7. quotes' = quotes
        BY <1>5 DEF SaveLiveMarketState
  <2> QED BY <1>2, <2>1, <2>2, <2>3, <2>4, <2>5, <2>6, <2>7
<1> QED BY <1>3, <1>4, <1>5 DEF Consume

LEMMA NewestPreserved ==
  ASSUME TypeOK, OneReader, NewestInv, [Next]_vars
  PROVE  NewestInv'
<1> USE DEF loop, flags, store, bounds
<1>1. ASSUME NEW s \in Streams, Reader(s) \/ Consume(s) PROVE NewestInv'
      BY <1>1, ReaderNewest, ConsumerNewest
<1>2. ASSUME UNCHANGED <<stream, live, updates, quotes>> PROVE NewestInv'
  <2>1. Written' \subseteq Written
        BY <1>2 DEF Written
  <2> QED BY <1>2, <2>1, NothingNewer DEF Reading, NewestInv
<1>3. /\ InFlight(NoStream) = {} /\ InOrder(NoStream) /\ NoStream.reader = "done"
      /\ \A known :
            LET new == [NoStream EXCEPT !.known = known, !.reader = "dial", !.consumer = "select"]
            IN  InFlight(new) = {} /\ InOrder(new)
  <2>1. Len(<<>>) = 0
        BY EmptySeq
  <2> QED BY <2>1 DEF InFlight, InOrder, NoStream
<1>4. ASSUME NEW s \in Streams, Start(s) PROVE NewestInv'
  <2>1. PICK new : /\ stream' = [stream EXCEPT ![s] = new]
                   /\ InFlight(new) = {} /\ InOrder(new)
        BY <1>3, <1>4 DEF Start
  <2>2. stream'[s] = new /\ \A t \in Streams \ {s} : stream'[t] = stream[t]
        BY <2>1 DEF TypeOK
  <2>3. Written' \subseteq Written /\ quotes' = quotes
        BY <1>4 DEF Start, Written
  <2> QED BY <2>1, <2>2, <2>3, NothingNewer DEF Reading, NewestInv
<1>5. CASE Stop
  <2>1. ASSUME NEW s \in Streams
        PROVE  /\ InFlight(stream'[s]) \subseteq InFlight(stream[s])
               /\ stream'[s].reader = stream[s].reader
               /\ InOrder(stream[s]) => InOrder(stream'[s])
    <3>1. stream[s] \in StreamStates
          BY DEF TypeOK
    <3>2. stream'[s] \in {stream[s], [stream[s] EXCEPT !.cancelled = TRUE]}
          BY <1>5 DEF Stop
    <3>3. /\ stream'[s].reader = stream[s].reader /\ stream'[s].read = stream[s].read
          /\ stream'[s].consumer = stream[s].consumer /\ stream'[s].hand = stream[s].hand
          /\ stream'[s].events = stream[s].events
          BY <3>1, <3>2 DEF StreamStates
    <3> QED BY <3>3, FewerInFlight
  <2>2. Written' \subseteq Written /\ quotes' = quotes
        BY <1>5 DEF Stop, Written
  <2> QED BY <2>1, <2>2, NothingNewer DEF Reading, NewestInv
<1>6. CASE Restart
  <2>1. \A s \in Streams : stream'[s] = NoStream
        BY <1>6 DEF Restart
  <2>2. Written' \subseteq Written /\ quotes' = quotes
        BY <1>6 DEF Restart, Written
  <2> QED BY <1>3, <2>1, <2>2, NothingNewer
<1>7. CASE SaveUpdate
  <2>1. /\ Head(updates) = updates[1] /\ 1 \in 1..Len(updates)
        /\ \A k \in 1..Len(Tail(updates)) :
              k + 1 \in 1..Len(updates) /\ Tail(updates)[k] = updates[k + 1]
        BY <1>7, HeadAndTail DEF TypeOK, SaveUpdate
  <2>2. Written' \subseteq Written
    <3>1. \A m \in Markets : live'[m] = live[m] \/ live'[m] = updates[1]
          BY <1>7, <2>1 DEF SaveUpdate, TypeOK
    <3>2. \A k \in 1..Len(updates') : \E j \in 1..Len(updates) : updates'[k] = updates[j]
          BY <1>7, <2>1 DEF SaveUpdate
    <3>3. PICK W : W = Written'
          OBVIOUS
    <3> QED BY <2>1, <3>1, <3>2, <3>3 DEF Written
  <2>3. UNCHANGED <<stream, quotes>>
        BY <1>7 DEF SaveUpdate
  <2> QED BY <2>2, <2>3, NothingNewer DEF Reading, NewestInv
<1>8. ASSUME NEW m \in Markets, SaveMarket(m) \/ Announce(m) PROVE NewestInv'
      BY <1>2, <1>8 DEF SaveMarket, Announce
<1>9. CASE \/ FetchMarkets \/ SaveMarketsDone \/ RefreshDone \/ RefreshFails
           \/ StartAlreadyRunning \/ Tick \/ Signal
      BY <1>2, <1>9 DEF FetchMarkets, SaveMarketsDone, RefreshDone, RefreshFails,
                        StartAlreadyRunning, Tick, Signal
<1>10. CASE UNCHANGED vars
      BY <1>2, <1>10 DEF vars
<1> QED BY <1>1, <1>4, <1>5, <1>6, <1>7, <1>8, <1>9, <1>10 DEF Next, Refresh

(* A live state goes back only by the hand of a consumer that outlived its *)
(* stream or by the -position group, for any channel, any number of        *)
(* streams, restarts and lost connections.                                 *)
THEOREM OnlyLateWritersGoBack == Spec => OlderQuotesAreLate
<1>1. Init => NewestInv
  <2> SUFFICES ASSUME Init PROVE NewestInv
      OBVIOUS
  <2>1. Len(<<>>) = 0
        BY EmptySeq
  <2> QED BY <2>1, MaxAssumption DEF Init, NewestInv, Written, InFlight, InOrder, NoStream, Reading
<1>2. TypeOK /\ OneReader /\ NewestInv /\ [Next]_vars => NewestInv'
      BY NewestPreserved
<1>3. TypeOK /\ NewestInv /\ [Next]_vars =>
        [\A m \in Markets :
           live[m] # None /\ live'[m].n < live[m].n
              => \/ \E s \in Streams : ~Reading(s) /\ stream[s].hand = live'[m]
                 \/ updates # <<>> /\ Head(updates) = live'[m]]_vars
  <2> SUFFICES ASSUME TypeOK, NewestInv, Next, NEW m \in Markets,
                      live[m] # None, live'[m].n < live[m].n
               PROVE  \/ \E s \in Streams : ~Reading(s) /\ stream[s].hand = live'[m]
                      \/ updates # <<>> /\ Head(updates) = live'[m]
      OBVIOUS
  <2>1. live[m] \in Quotes /\ live[m] \in Written /\ live[m].n \in Nat
        BY DEF TypeOK, Written, Quotes
  <2>2. live'[m] # live[m]
        BY <2>1
  <2>3. ASSUME NEW s \in Streams, SaveLiveMarketState(s)
        PROVE  ~Reading(s) /\ stream[s].hand = live'[m]
    <3>1. stream[s].hand = live'[m] /\ stream[s].consumer = "save"
          BY <2>2, <2>3 DEF SaveLiveMarketState, TypeOK
    <3>2. stream[s].hand \in InFlight(stream[s]) /\ stream[s].hand \in Quotes
          BY <3>1 DEF InFlight, TypeOK
    <3>3. Reading(s) => live[m].n < stream[s].hand.n
          BY <2>1, <3>2 DEF NewestInv, Below
    <3>4. stream[s].hand.n \in Nat
          BY <3>2 DEF Quotes
    <3> QED BY <2>1, <3>1, <3>3, <3>4
  <2>4. CASE SaveUpdate
        BY <2>2, <2>4 DEF SaveUpdate, TypeOK
  <2>5. CASE live' = live
        BY <2>2, <2>5
  <2>6. ASSUME NEW s \in Streams, Reader(s) \/ Receive(s) \/ ConsumerReturns(s)
        PROVE  live' = live
        BY <2>6 DEF Reader, Receive, ConsumerReturns, Connect, SubscribeFails, ConnectionLost,
           ReadMessage, SendEvent, Quit, CancelConsumer, ClearRunning, Set, store
  <2>7. CASE Refresh \/ RefreshFails \/ Tick \/ Signal \/ Stop \/ Restart
        BY <2>7, <2>5 DEF Refresh, RefreshFails, Tick, Signal, Stop, Restart, FetchMarkets,
           SaveMarket, Announce, SaveMarketsDone, RefreshDone, Start, StartAlreadyRunning, store
  <2> QED BY <2>3, <2>4, <2>5, <2>6, <2>7 DEF Next, Consume
<1> QED BY <1>1, <1>2, <1>3, TypeCorrect, ReaderIsAlone, PTL DEF Spec, OlderQuotesAreLate

=============================================================================
