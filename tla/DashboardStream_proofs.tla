----------------------- MODULE DashboardStream_proofs -----------------------
(* Theorems about DashboardStream: the throttle over both paths of an      *)
(* event, and the survival of critical events in a full buffer.            *)
EXTENDS DashboardStream, SequenceTheorems, WellFoundedInduction, TLAPS

(* Values are of their types, and the locals of Publish are set exactly    *)
(* where the code uses them: a channel while one session's offer is under  *)
(* way, an old event while it is out of the buffer, and that one critical. *)
ValuesOK ==
    /\ clock \in Nat /\ count \in Nat
    /\ topic \in Seq(Events)
    /\ session \in [Sessions -> {"absent", "open", "closed"}]
    /\ buffer \in [Sessions -> Seq(Entries)]
    /\ received \in [Sessions -> Seq(Entries)]
    /\ lastSent \in [Keys -> Nat \cup {None}]
    /\ pc \in [Publishers -> PCs]
    /\ event \in [Publishers -> Events \cup {None}]
    /\ targets \in [Publishers -> SUBSET Sessions]
    /\ channel \in [Publishers -> Sessions \cup {None}]
    /\ old \in [Publishers -> Entries \cup {None}]

LocalsOK ==
    \A p \in Publishers :
        /\ pc[p] # "idle" => event[p] \in Events
        /\ pc[p] \in {"idle", "copy"} => targets[p] = {}
        /\ pc[p] \in {"take", "putBack", "again"} => channel[p] \in targets[p]
        /\ IF pc[p] = "putBack" THEN old[p] \in Entries /\ ~IsNonCritical(old[p])
                                ELSE old[p] = None

TypeInv == ValuesOK /\ LocalsOK

(***************************************************************************)
(* StatesSpaced alone is not inductive: an event is checked against        *)
(* lastSent when it is published and reaches the sessions much later.      *)
(* SpacedInv adds that lastSent is the newest of all that was let through, *)
(* and that what is still to be offered is apart from what a session has   *)
(* and from what other publishers hold.                                    *)
(***************************************************************************)
Apart(x, y) == x.at - y.at >= Throttle \/ y.at - x.at >= Throttle
SameState(x, y) == IsNonCritical(x) /\ x.key = y.key

Spaced(st) ==
    \A i, j \in 1..Len(st) : i # j /\ SameState(st[i], st[j]) => Apart(st[i], st[j])

Marked(x) == IsNonCritical(x) => lastSent[x.key] # None /\ x.at <= lastSent[x.key]

\* p has yet to offer its event to s, or may have.
ToCome(p, s) == pc[p] = "copy" \/ s \in targets[p]

SessionSpaced(s) ==
    /\ Spaced(Stream(s))
    /\ \A i \in 1..Len(Stream(s)) : Marked(Stream(s)[i])
    /\ \A p \in Publishers : ToCome(p, s) =>
          \A i \in 1..Len(Stream(s)) :
             SameState(event[p], Stream(s)[i]) => Apart(event[p], Stream(s)[i])

HeldSpaced ==
    /\ \A p \in Publishers : pc[p] # "idle" => Marked(event[p])
    /\ \A p, q \in Publishers :
          p # q /\ pc[p] # "idle" /\ pc[q] # "idle" /\ SameState(event[p], event[q])
             => Apart(event[p], event[q])

SpacedInv == HeldSpaced /\ \A s \in Sessions : SessionSpaced(s)

-----------------------------------------------------------------------------
(* Sequences: what a write, a send and a take make of a session's stream.  *)

LEMMA StreamParts ==
  ASSUME NEW r \in Seq(Entries), NEW b \in Seq(Entries)
  PROVE  /\ r \o b \in Seq(Entries)
         /\ Len(r) \in Nat /\ Len(b) \in Nat
         /\ Len(r \o b) = Len(r) + Len(b)
         /\ \A i \in 1..Len(r \o b) :
               (r \o b)[i] = IF i <= Len(r) THEN r[i] ELSE b[i - Len(r)]
BY ConcatProperties, LenProperties

LEMMA TailParts ==
  ASSUME NEW b \in Seq(Entries), b # <<>>
  PROVE  /\ Head(b) = b[1] /\ Head(b) \in Entries
         /\ Tail(b) \in Seq(Entries)
         /\ Len(b) \in Nat \ {0} /\ Len(Tail(b)) = Len(b) - 1
         /\ \A i \in 1..Len(b) - 1 : Tail(b)[i] = b[i + 1]
<1>1. Len(b) \in Nat \ {0}
      BY EmptySeq, LenProperties
<1> QED BY <1>1, HeadTailProperties

LEMMA WriteStream ==
  ASSUME NEW r \in Seq(Entries), NEW b \in Seq(Entries), b # <<>>
  PROVE  Append(r, Head(b)) \o Tail(b) = r \o b
<1> DEFINE c == Append(r, Head(b))
<1>1. /\ c \in Seq(Entries) /\ Len(c) = Len(r) + 1
      /\ c[Len(r) + 1] = b[1] /\ \A i \in 1..Len(r) : c[i] = r[i]
      BY TailParts, AppendProperties
<1>2. /\ c \o Tail(b) \in Seq(Entries) /\ r \o b \in Seq(Entries)
      /\ Len(c \o Tail(b)) = Len(r \o b) /\ Len(r \o b) = Len(r) + Len(b)
      /\ Len(r) \in Nat /\ Len(b) \in Nat \ {0}
      BY <1>1, StreamParts, TailParts
<1>3. ASSUME NEW i \in 1..Len(r \o b)
      PROVE  (c \o Tail(b))[i] = (r \o b)[i]
  <2>1. (r \o b)[i] = IF i <= Len(r) THEN r[i] ELSE b[i - Len(r)]
        BY StreamParts
  <2>2. (c \o Tail(b))[i] = IF i <= Len(c) THEN c[i] ELSE Tail(b)[i - Len(c)]
        BY <1>1, <1>2, StreamParts, TailParts
  <2>3. CASE i <= Len(r)
        BY <1>1, <1>2, <2>1, <2>2, <2>3
  <2>4. CASE i = Len(r) + 1
        BY <1>1, <1>2, <2>1, <2>2, <2>4
  <2>5. CASE i > Len(r) + 1
    <3>1. i - Len(c) \in 1..Len(b) - 1 /\ (i - Len(c)) + 1 = i - Len(r)
          BY <1>1, <1>2, <2>5
    <3>2. Tail(b)[i - Len(c)] = b[i - Len(r)]
          BY <3>1, TailParts
    <3> QED BY <1>1, <1>2, <2>1, <2>2, <2>5, <3>2
  <2> QED BY <1>2, <2>3, <2>4, <2>5
<1> HIDE DEF c
<1>4. c \o Tail(b) = r \o b
      BY <1>2, <1>3, SeqEqual
<1> QED BY <1>4 DEF c

LEMMA SendStream ==
  ASSUME NEW r \in Seq(Entries), NEW b \in Seq(Entries), NEW x \in Entries
  PROVE  /\ Len(r \o Append(b, x)) = Len(r \o b) + 1
         /\ (r \o Append(b, x))[Len(r \o b) + 1] = x
         /\ \A i \in 1..Len(r \o b) : (r \o Append(b, x))[i] = (r \o b)[i]
<1> DEFINE c == Append(b, x)
<1>1. /\ c \in Seq(Entries) /\ Len(c) = Len(b) + 1
      /\ c[Len(b) + 1] = x /\ \A i \in 1..Len(b) : c[i] = b[i]
      BY AppendProperties
<1>2. /\ Len(r) \in Nat /\ Len(b) \in Nat /\ Len(r \o b) = Len(r) + Len(b)
      /\ \A i \in 1..Len(r \o b) : (r \o b)[i] = IF i <= Len(r) THEN r[i] ELSE b[i - Len(r)]
      BY StreamParts
<1>3. /\ Len(r \o c) = Len(r) + Len(c)
      /\ \A i \in 1..Len(r \o c) : (r \o c)[i] = IF i <= Len(r) THEN r[i] ELSE c[i - Len(r)]
      BY <1>1, StreamParts
<1> HIDE DEF c
<1>4. (r \o c)[Len(r \o b) + 1] = x
  <2>1. Len(r \o b) + 1 \in 1..Len(r \o c) /\ ~(Len(r \o b) + 1 <= Len(r))
        /\ Len(r \o b) + 1 - Len(r) = Len(b) + 1
        BY <1>1, <1>2, <1>3
  <2> QED BY <1>1, <1>3, <2>1
<1>5. ASSUME NEW i \in 1..Len(r \o b) PROVE (r \o c)[i] = (r \o b)[i]
  <2>1. i \in 1..Len(r \o c)
        BY <1>1, <1>2, <1>3
  <2>2. CASE i <= Len(r)
        BY <1>2, <1>3, <2>1, <2>2
  <2>3. CASE ~(i <= Len(r))
    <3>1. i - Len(r) \in 1..Len(b)
          BY <1>2, <2>3
    <3> QED BY <1>1, <1>2, <1>3, <2>1, <2>3, <3>1
  <2> QED BY <2>2, <2>3
<1> QED BY <1>1, <1>2, <1>3, <1>4, <1>5 DEF c

\* What is left when the first of the buffer is taken, and where it was.
LEMMA TakeStream ==
  ASSUME NEW r \in Seq(Entries), NEW b \in Seq(Entries), b # <<>>
  PROVE  /\ Spaced(r \o b) => Spaced(r \o Tail(b))
         /\ \A j \in 1..Len(r \o Tail(b)) :
               \E i \in 1..Len(r \o b) : (r \o Tail(b))[j] = (r \o b)[i]
<1> DEFINE g(j) == IF j <= Len(r) THEN j ELSE j + 1
<1>1. /\ Len(r) \in Nat /\ Len(b) \in Nat \ {0} /\ Len(r \o b) = Len(r) + Len(b)
      /\ Len(r \o Tail(b)) = Len(r) + Len(b) - 1
      BY StreamParts, TailParts
<1>2. ASSUME NEW j \in 1..Len(r \o Tail(b))
      PROVE  g(j) \in 1..Len(r \o b) /\ (r \o Tail(b))[j] = (r \o b)[g(j)]
  <2>1. g(j) \in 1..Len(r \o b)
        BY <1>1
  <2>2. (r \o Tail(b))[j] = IF j <= Len(r) THEN r[j] ELSE Tail(b)[j - Len(r)]
        BY TailParts, StreamParts
  <2>3. (r \o b)[g(j)] = IF g(j) <= Len(r) THEN r[g(j)] ELSE b[g(j) - Len(r)]
        BY <2>1, StreamParts
  <2>4. CASE j <= Len(r)
        BY <2>1, <2>2, <2>3, <2>4
  <2>5. CASE ~(j <= Len(r))
    <3>1. j - Len(r) \in 1..Len(b) - 1 /\ (j - Len(r)) + 1 = g(j) - Len(r) /\ ~(g(j) <= Len(r))
          BY <1>1, <2>5
    <3>2. Tail(b)[j - Len(r)] = b[g(j) - Len(r)]
          BY <3>1, TailParts
    <3> QED BY <2>1, <2>2, <2>3, <2>5, <3>1, <3>2
  <2> QED BY <2>4, <2>5
<1>3. \A i, j \in 1..Len(r \o Tail(b)) : i # j => g(i) # g(j)
      BY <1>1
<1> HIDE DEF g
<1> QED BY <1>2, <1>3 DEF Spaced

-----------------------------------------------------------------------------
(* Type correctness.                                                       *)

LEMMA InitTypeInv == Init => TypeInv
BY DEF Init, TypeInv, ValuesOK, LocalsOK, Publishers, PCs

LEMMA EntryOK ==
  ASSUME TypeInv, NEW p \in Publishers, pc[p] # "idle"
  PROVE  /\ Entry(p) \in Entries /\ Entry(p).key = event[p].key /\ Entry(p).at = event[p].at
         /\ event[p] \in Events
BY DEF TypeInv, LocalsOK, Entry, Events, Entries

\* A step of one session's client.
LEMMA SessionTypeInv ==
  ASSUME TypeInv, NEW s \in Sessions, Subscribe(s) \/ Write(s) \/ Unsubscribe(s)
  PROVE  TypeInv'
<1>1. UNCHANGED <<clock, count, topic, lastSent, locals>>
      BY DEF Subscribe, Write, Unsubscribe
<1>2. session' \in [Sessions -> {"absent", "open", "closed"}]
      BY DEF Subscribe, Write, Unsubscribe, TypeInv, ValuesOK
<1>3. buffer' \in [Sessions -> Seq(Entries)] /\ received' \in [Sessions -> Seq(Entries)]
  <2>1. CASE Write(s)
    <3>1. buffer[s] \in Seq(Entries) /\ received[s] \in Seq(Entries) /\ buffer[s] # <<>>
          BY <2>1 DEF Write, TypeInv, ValuesOK
    <3>2. Tail(buffer[s]) \in Seq(Entries) /\ Append(received[s], Head(buffer[s])) \in Seq(Entries)
          BY <3>1, TailParts, AppendProperties
    <3> QED BY <2>1, <3>2 DEF Write, TypeInv, ValuesOK
  <2>2. CASE Subscribe(s)
        BY <2>2 DEF Subscribe, TypeInv, ValuesOK
  <2>3. CASE Unsubscribe(s)
    <3>1. <<>> \in Seq(Entries)
          BY EmptySeq
    <3> QED BY <2>3, <3>1 DEF Unsubscribe, TypeInv, ValuesOK
  <2> QED BY <2>1, <2>2, <2>3
<1> QED BY <1>1, <1>2, <1>3 DEF TypeInv, ValuesOK, LocalsOK, locals

\* An event that is let through, or only sent to Kafka.
LEMMA PublishTypeInv ==
  ASSUME TypeInv,
         \/ Tick
         \/ \E k \in Keys \cup {Critical} :
               FetchPublish(k) \/ \E p \in Services : Publish(p, k)
         \/ Consume
  PROVE  TypeInv'
<1> USE DEF TypeInv, ValuesOK, LocalsOK, Publishers, PCs, sse, locals
<1>1. CASE Tick
      BY <1>1 DEF Tick
<1>2. ASSUME NEW k \in Keys \cup {Critical}, FetchPublish(k)
      PROVE  TypeInv'
  <2>1. [n |-> count + 1, key |-> k, at |-> clock] \in Events
        BY DEF Events
  <2> QED BY <1>2, <2>1 DEF FetchPublish
<1>3. ASSUME NEW k \in Keys \cup {Critical}, NEW p \in Services, Publish(p, k)
      PROVE  TypeInv'
  <2>0. [n |-> count + 1, key |-> k, at |-> clock] \in Events
        BY DEF Events
  <2>1. PICK e \in Events : /\ e = [n |-> count + 1, key |-> k, at |-> clock]
                            /\ e.key = k /\ e.at = clock
        BY <2>0
  <2>2. /\ pc[p] = "idle" /\ count' = count + 1
        /\ IF Throttled(e)
           THEN SendToKafka(e) /\ UNCHANGED <<lastSent, pc, event>>
           ELSE /\ Mark(e) /\ UNCHANGED topic
                /\ event' = [event EXCEPT ![p] = e]
                /\ pc' = [pc EXCEPT ![p] = "copy"]
        /\ UNCHANGED <<clock, session, buffer, received, targets, channel, old>>
        BY <1>3, <2>1 DEF Publish
  <2>3. topic' \in Seq(Events)
    <3>1. topic' = topic \/ topic' = Append(topic, e)
          BY <2>2 DEF SendToKafka
    <3>2. topic \in Seq(Events)
          OBVIOUS
    <3> QED BY ONLY <3>1, <3>2, e \in Events, AppendProperties
  <2>4. lastSent' \in [Keys -> Nat \cup {None}]
        BY <2>1, <2>2 DEF Mark, IsNonCritical
  <2>5. CASE Throttled(e)
        BY <2>2, <2>3, <2>5
  <2>6. CASE ~Throttled(e)
    <3>1. ValuesOK'
      <4>1. pc' \in [Publishers -> PCs] /\ event' \in [Publishers -> Events \cup {None}]
            BY <2>1, <2>2, <2>6
      <4> QED BY <2>2, <2>3, <2>4, <4>1
    <3>2. LocalsOK'
          BY <2>1, <2>2, <2>6
    <3> QED BY <3>1, <3>2 DEF TypeInv
  <2> QED BY <2>5, <2>6
<1>4. CASE Consume
  <2>1. topic # <<>> /\ Head(topic) \in Events /\ Tail(topic) \in Seq(Events)
        BY <1>4, HeadTailProperties, EmptySeq, LenProperties DEF Consume
  <2>2. PICK e \in Events : e = Head(topic)
        BY <2>1
  <2>3. /\ pc[Consumer] = "idle" /\ topic' = Tail(topic)
        /\ IF Throttled(e)
           THEN UNCHANGED <<lastSent, pc, event>>
           ELSE /\ Mark(e)
                /\ event' = [event EXCEPT ![Consumer] = e]
                /\ pc' = [pc EXCEPT ![Consumer] = "copy"]
        /\ UNCHANGED <<clock, count, session, buffer, received, targets, channel, old>>
        BY <1>4, <2>2 DEF Consume
  <2>4. lastSent' \in [Keys -> Nat \cup {None}]
        BY <2>2, <2>3 DEF Mark, IsNonCritical, Events
  <2> QED BY <2>1, <2>2, <2>3, <2>4
<1> QED BY <1>1, <1>2, <1>3, <1>4

\* A publisher that is done with one session goes on to the next.
LEMMA OfferedTypeInv ==
  ASSUME TypeInv, NEW p \in Publishers, NEW s \in Sessions, pc[p] # "idle",
         Offered(p, s), buffer' \in [Sessions -> Seq(Entries)],
         UNCHANGED <<clock, count, topic, session, received, lastSent>>
  PROVE  TypeInv'
BY DEF Offered, TypeInv, ValuesOK, LocalsOK, PCs

LEMMA SendTypeInv ==
  ASSUME TypeInv, NEW p \in Publishers, NEW s \in Sessions, pc[p] # "idle",
         NEW x \in Entries, Send(p, s, x),
         UNCHANGED <<clock, count, topic, session, received, lastSent>>
  PROVE  TypeInv'
<1>1. buffer' \in [Sessions -> Seq(Entries)]
      BY DEF Send, TypeInv, ValuesOK
<1> QED BY <1>1, OfferedTypeInv DEF Send

LEMMA PanicTypeInv ==
  ASSUME TypeInv, NEW p \in Publishers, Panic(p),
         UNCHANGED <<clock, count, topic, session, received, lastSent>>
  PROVE  TypeInv'
BY DEF Panic, TypeInv, ValuesOK, LocalsOK, PCs

LEMMA StepTypeInv ==
  ASSUME TypeInv, NEW p \in Publishers, PublisherStep(p)
  PROVE  TypeInv'
<1>1. CASE CopySubscribers(p)
  <2>1. Open \in SUBSET Sessions
        BY DEF Open
  <2> QED BY <1>1, <2>1 DEF CopySubscribers, TypeInv, ValuesOK, LocalsOK, PCs, sse
<1>2. CASE Return(p)
  <2>1. topic' \in Seq(Events)
    <3>1. [event[p] EXCEPT !.at = clock] \in Events
          BY <1>2, EntryOK DEF Return, TypeInv, ValuesOK, Events
    <3>2. topic' = topic \/ topic' = Append(topic, [event[p] EXCEPT !.at = clock])
          BY <1>2 DEF Return, SendToKafka
    <3>3. topic \in Seq(Events)
          BY DEF TypeInv, ValuesOK
    <3> QED BY ONLY <3>1, <3>2, <3>3, AppendProperties
  <2> QED BY <1>2, <2>1 DEF Return, TypeInv, ValuesOK, LocalsOK, PCs, sse
<1>3. ASSUME NEW s \in Sessions, FirstTry(p, s)
      PROVE  TypeInv'
  <2>1. CASE Send(p, s, Entry(p))
        BY <1>3, <2>1, EntryOK, SendTypeInv DEF FirstTry
  <2>2. CASE FindFull(p, s)
        BY <1>3, <2>2 DEF FirstTry, FindFull, TypeInv, ValuesOK, LocalsOK, PCs
  <2>3. CASE Panic(p)
        BY <1>3, <2>3, PanicTypeInv DEF FirstTry
  <2> QED BY <1>3, <2>1, <2>2, <2>3 DEF FirstTry
<1>4. ASSUME NEW s \in Sessions, Take(p, s)
      PROVE  TypeInv'
  <2>1. CASE TakeOldest(p, s)
    <3>1. buffer[s] \in Seq(Entries) /\ buffer[s] # <<>>
          BY <2>1 DEF TakeOldest, TypeInv, ValuesOK
    <3>2. Head(buffer[s]) \in Entries /\ Tail(buffer[s]) \in Seq(Entries)
          BY <3>1, TailParts
    <3>3. buffer' \in [Sessions -> Seq(Entries)]
          BY <2>1, <3>2 DEF TakeOldest, TypeInv, ValuesOK
    <3>4. CASE IsNonCritical(Head(buffer[s]))
      <4>1. /\ pc' = [pc EXCEPT ![p] = "again"]
            /\ UNCHANGED <<clock, count, topic, session, received, lastSent, event, targets, channel, old>>
            /\ pc[p] = "take"
            BY <1>4, <2>1, <3>4 DEF Take, TakeOldest
      <4>2. ValuesOK'
            BY <3>3, <4>1 DEF TypeInv, ValuesOK, PCs
      <4>3. LocalsOK'
            BY <4>1 DEF TypeInv, ValuesOK, LocalsOK
      <4> QED BY <4>2, <4>3 DEF TypeInv
    <3>5. CASE ~IsNonCritical(Head(buffer[s]))
      <4>1. /\ pc' = [pc EXCEPT ![p] = "putBack"]
            /\ old' = [old EXCEPT ![p] = Head(buffer[s])]
            /\ pc[p] = "take" /\ s = channel[p]
            /\ UNCHANGED <<clock, count, topic, session, received, lastSent, event, targets, channel>>
            BY <1>4, <2>1, <3>5 DEF Take, TakeOldest
      <4>2. ValuesOK'
            BY <3>2, <3>3, <4>1 DEF TypeInv, ValuesOK, PCs
      <4>3. LocalsOK'
            BY <3>2, <3>5, <4>1 DEF TypeInv, ValuesOK, LocalsOK
      <4> QED BY <4>2, <4>3 DEF TypeInv
    <3> QED BY <3>4, <3>5
  <2>2. CASE FindEmpty(p, s)
        BY <1>4, <2>2 DEF Take, FindEmpty, TypeInv, ValuesOK, LocalsOK, PCs
  <2>3. CASE Panic(p)
        BY <1>4, <2>3, PanicTypeInv DEF Take
  <2> QED BY <1>4, <2>1, <2>2, <2>3 DEF Take
<1>5. ASSUME NEW s \in Sessions, NEW x \in Entries,
             pc[p] # "idle", Send(p, s, x) \/ Drop(p, s) \/ Panic(p),
             UNCHANGED <<clock, count, topic, session, received, lastSent>>
      PROVE  TypeInv'
  <2>1. CASE Drop(p, s)
        BY <1>5, <2>1, OfferedTypeInv DEF Drop, TypeInv, ValuesOK
  <2> QED BY <1>5, <2>1, SendTypeInv, PanicTypeInv
<1>6. ASSUME NEW s \in Sessions, PutBack(p, s)
      PROVE  TypeInv'
  <2>1. old[p] \in Entries
        BY <1>6 DEF PutBack, TypeInv, LocalsOK
  <2> QED BY <1>5, <1>6, <2>1 DEF PutBack
<1>7. ASSUME NEW s \in Sessions, SecondTry(p, s)
      PROVE  TypeInv'
      BY <1>5, <1>7, EntryOK DEF SecondTry
<1> QED BY <1>1, <1>2, <1>3, <1>4, <1>6, <1>7 DEF PublisherStep

LEMMA NextTypeInv == TypeInv /\ [Next]_vars => TypeInv'
<1> SUFFICES ASSUME TypeInv, [Next]_vars PROVE TypeInv'
    OBVIOUS
<1>1. CASE UNCHANGED vars
      BY <1>1 DEF vars, sse, locals, TypeInv, ValuesOK, LocalsOK
<1> QED BY <1>1, SessionTypeInv, PublishTypeInv, StepTypeInv DEF Next

(* Every value of every variable is of its type, in every behaviour.       *)
THEOREM StreamTypes == Spec => []TypeInv
<1> QED BY InitTypeInv, NextTypeInv, PTL DEF Spec

-----------------------------------------------------------------------------
(* The throttle.                                                           *)

LEMMA StreamOK ==
  ASSUME TypeInv, NEW s \in Sessions
  PROVE  /\ received[s] \in Seq(Entries) /\ buffer[s] \in Seq(Entries)
         /\ Stream(s) \in Seq(Entries) /\ Len(Stream(s)) \in Nat
         /\ \A i \in 1..Len(Stream(s)) : Stream(s)[i] \in Entries
<1>1. received[s] \in Seq(Entries) /\ buffer[s] \in Seq(Entries)
      BY DEF TypeInv, ValuesOK
<1>2. Stream(s) \in Seq(Entries)
      BY <1>1, StreamParts DEF Stream
<1> QED BY <1>1, <1>2, LenProperties, ElementOfSeq

\* What is marked stays marked, and an event that is let through is apart
\* from all of it.
LEMMA MarkedApart ==
  ASSUME TypeInv, NEW e \in Events, ~Throttled(e), Mark(e),
         NEW x, x.key \in Keys \cup {Critical}, x.at \in Nat, Marked(x)
  PROVE  /\ Marked(x)'
         /\ SameState(e, x) => Apart(e, x) /\ Apart(x, e)
<1> USE DEF IsNonCritical
<1>1. /\ Throttle \in Nat /\ e.at \in Nat /\ e.key \in Keys \cup {Critical}
      /\ lastSent \in [Keys -> Nat \cup {None}] /\ None \notin Nat
      BY ThrottleAssumption, NoneAssumption DEF TypeInv, ValuesOK, Events
<1>2. CASE ~IsNonCritical(x)
      BY <1>2 DEF Marked, SameState
<1>3. CASE IsNonCritical(x)
  <2>1. x.key \in Keys /\ lastSent[x.key] \in Nat /\ x.at <= lastSent[x.key]
        BY <1>1, <1>3 DEF Marked
  <2>2. CASE x.key = e.key
    <3>1. e.at - lastSent[e.key] >= Throttle
          BY <1>1, <1>3, <2>1, <2>2 DEF Throttled
    <3>2. lastSent'[x.key] = e.at
          BY <1>1, <1>3, <2>1, <2>2 DEF Mark
    <3>3. x.at <= e.at /\ e.at - x.at >= Throttle
          BY <1>1, <2>1, <2>2, <3>1
    <3> QED BY <1>1, <3>2, <3>3 DEF Marked, Apart
  <2>3. CASE x.key # e.key
    <3>1. lastSent'[x.key] = lastSent[x.key]
          BY <1>1, <2>1, <2>3 DEF Mark
    <3> QED BY <2>1, <2>3, <3>1, <1>1 DEF Marked, SameState
  <2> QED BY <2>2, <2>3
<1> QED BY <1>2, <1>3

\* The step that lets an event through, by a service or the consumer.
LEMMA LetThroughSpaced ==
  ASSUME TypeInv, SpacedInv, NEW p \in Publishers, pc[p] = "idle",
         NEW e \in Events, ~Throttled(e), Mark(e),
         event' = [event EXCEPT ![p] = e], pc' = [pc EXCEPT ![p] = "copy"],
         UNCHANGED <<sse, targets>>
  PROVE  SpacedInv'
<1>1. /\ event'[p] = e /\ pc'[p] = "copy"
      /\ \A q \in Publishers \ {p} : event'[q] = event[q] /\ pc'[q] = pc[q]
      BY DEF TypeInv, ValuesOK
<1>2. ASSUME NEW q \in Publishers \ {p}, pc[q] # "idle"
      PROVE  /\ Marked(event[q])'
             /\ SameState(e, event'[q]) => Apart(e, event'[q]) /\ Apart(event'[q], e)
  <2>1. PICK x : x = event[q] /\ x \in Events /\ Marked(x)
        BY <1>2, EntryOK DEF SpacedInv, HeldSpaced
  <2>2. x.key \in Keys \cup {Critical} /\ x.at \in Nat
        BY <2>1 DEF Events
  <2>3. Marked(x)' /\ (SameState(e, x) => Apart(e, x) /\ Apart(x, e))
        BY <2>1, <2>2, MarkedApart
  <2>4. event'[q] = x
        BY <1>1, <2>1
  <2> QED BY ONLY <2>3, <2>4 DEF Marked
<1>3. Marked(e)'
  <2>1. /\ lastSent \in [Keys -> Nat \cup {None}] /\ e.key \in Keys \cup {Critical}
        /\ e.at \in Nat /\ None \notin Nat
        BY NoneAssumption DEF TypeInv, ValuesOK, Events
  <2> QED BY <2>1 DEF Marked, Mark, IsNonCritical
<1>4. HeldSpaced'
  <2>1. ASSUME NEW q \in Publishers, pc'[q] # "idle" PROVE Marked(event[q])'
    <3>1. CASE q = p
          BY <1>1, <1>3, <3>1 DEF Marked
    <3>2. CASE q # p
          BY <1>1, <1>2, <2>1, <3>2
    <3> QED BY <3>1, <3>2
  <2>2. ASSUME NEW q \in Publishers, NEW r \in Publishers, q # r,
               pc'[q] # "idle", pc'[r] # "idle", SameState(event[q], event[r])'
        PROVE  Apart(event[q], event[r])'
    <3>1. CASE q # p /\ r # p
          BY <1>1, <2>2, <3>1 DEF SpacedInv, HeldSpaced, SameState, Apart
    <3>2. CASE q = p
          BY <1>1, <1>2, <2>2, <3>2 DEF SameState, Apart
    <3>3. CASE r = p
          BY <1>1, <1>2, <2>2, <3>3 DEF SameState, Apart, IsNonCritical
    <3> QED BY <3>1, <3>2, <3>3
  <2> QED BY <2>1, <2>2 DEF HeldSpaced
<1>5. ASSUME NEW s \in Sessions PROVE SessionSpaced(s)'
  <2>1. PICK st \in Seq(Entries) : st = Stream(s) /\ Stream(s)' = st
        BY StreamOK DEF Stream, sse
  <2>2. /\ Spaced(st) /\ \A i \in 1..Len(st) : Marked(st[i])
        /\ \A q \in Publishers : ToCome(q, s) =>
              \A i \in 1..Len(st) : SameState(event[q], st[i]) => Apart(event[q], st[i])
        BY <2>1 DEF SpacedInv, SessionSpaced
  <2>3. ASSUME NEW i \in 1..Len(st)
        PROVE  /\ Marked(st[i])'
               /\ SameState(e, st[i]) => Apart(e, st[i])
    <3>1. PICK x \in Entries : x = st[i] /\ Marked(x)
          BY <2>2, ElementOfSeq
    <3>2. x.key \in Keys \cup {Critical} /\ x.at \in Nat
          BY DEF Entries
    <3> QED BY <3>1, <3>2, MarkedApart
  <2>4. ASSUME NEW q \in Publishers, ToCome(q, s)', NEW i \in 1..Len(st),
               SameState(event'[q], st[i])
        PROVE  Apart(event'[q], st[i])
    <3>1. CASE q = p
          BY <1>1, <2>3, <2>4, <3>1
    <3>2. CASE q # p
          BY <1>1, <2>2, <2>4, <3>2 DEF ToCome
    <3> QED BY <3>1, <3>2
  <2> QED BY <2>1, <2>2, <2>3, <2>4 DEF SessionSpaced, SameState, Apart, Spaced, Marked
<1> QED BY <1>4, <1>5 DEF SpacedInv

\* A step that lets nothing through and gives no session anything.
LEMMA NothingNew ==
  ASSUME TypeInv, TypeInv', SpacedInv, UNCHANGED lastSent,
         \A p \in Publishers : pc'[p] # "idle" => pc[p] # "idle" /\ event'[p] = event[p],
         \A p \in Publishers, s \in Sessions : ToCome(p, s)' => ToCome(p, s),
         \A s \in Sessions :
            \/ Stream(s)' = Stream(s)
            \/ /\ Spaced(Stream(s))'
               /\ \A j \in 1..Len(Stream(s)') :
                     \E i \in 1..Len(Stream(s)) : Stream(s)'[j] = Stream(s)[i]
  PROVE  SpacedInv'
<1>1. HeldSpaced'
      BY DEF SpacedInv, HeldSpaced, Marked, SameState, Apart
<1>2. ASSUME NEW s \in Sessions PROVE SessionSpaced(s)'
  <2>1. PICK st, tt : st = Stream(s) /\ tt = Stream(s)'
        OBVIOUS
  <2>2. /\ Spaced(st) /\ \A i \in 1..Len(st) : Marked(st[i])
        /\ \A q \in Publishers : ToCome(q, s) =>
              \A i \in 1..Len(st) : SameState(event[q], st[i]) => Apart(event[q], st[i])
        BY <2>1 DEF SpacedInv, SessionSpaced
  <2>3. Spaced(tt) /\ \A j \in 1..Len(tt) : \E i \in 1..Len(st) : tt[j] = st[i]
    <3>1. CASE Stream(s)' = Stream(s)
          BY <2>1, <2>2, <3>1
    <3>2. CASE /\ Spaced(Stream(s))'
               /\ \A j \in 1..Len(Stream(s)') :
                     \E i \in 1..Len(Stream(s)) : Stream(s)'[j] = Stream(s)[i]
          BY <2>1, <3>2 DEF Spaced, SameState, Apart
    <3> QED BY <3>1, <3>2
  <2>4. \A j \in 1..Len(tt) : Marked(tt[j])
        BY ONLY <2>2, <2>3 DEF Marked
  <2>5. ASSUME NEW q \in Publishers, ToCome(q, s)', NEW j \in 1..Len(tt),
               SameState(event'[q], tt[j])
        PROVE  Apart(event'[q], tt[j])
    <3>1. pc'[q] # "idle"
          BY <2>5 DEF ToCome, TypeInv, LocalsOK
    <3>2. ToCome(q, s) /\ event'[q] = event[q]
          BY <2>5, <3>1
    <3> QED BY <2>2, <2>3, <2>5, <3>2
  <2>6. \A j \in 1..Len(tt) : Marked(tt[j])'
        BY <2>4 DEF Marked
  <2> QED BY <2>1, <2>3, <2>5, <2>6 DEF SessionSpaced, Spaced, SameState, Apart, Marked
<1> QED BY <1>1, <1>2 DEF SpacedInv

\* A session is sent an event: a critical one, or one that was to come.
LEMMA SendSpaced ==
  ASSUME TypeInv, TypeInv', SpacedInv, NEW p \in Publishers, NEW s \in Sessions,
         NEW x \in Entries, pc[p] # "idle", Send(p, s, x),
         UNCHANGED <<clock, count, topic, session, received, lastSent>>,
         \/ ~IsNonCritical(x)
         \/ x = Entry(p) /\ s \in targets[p] /\ pc[p] # "copy"
  PROVE  SpacedInv'
<1>1. /\ buffer' = [buffer EXCEPT ![s] = Append(@, x)] /\ event' = event
      /\ pc' = [pc EXCEPT ![p] = "offer"] /\ targets' = [targets EXCEPT ![p] = @ \ {s}]
      BY DEF Send, Offered
<1>2. /\ pc'[p] = "offer" /\ targets'[p] = targets[p] \ {s}
      /\ \A q \in Publishers \ {p} : pc'[q] = pc[q] /\ targets'[q] = targets[q]
      BY <1>1 DEF TypeInv, ValuesOK
<1>3. \A q \in Publishers, t \in Sessions : ToCome(q, t)' => ToCome(q, t) /\ <<q, t>> # <<p, s>>
      BY <1>2 DEF ToCome
<1>4. /\ Marked(x)
      /\ \A q \in Publishers \ {p} :
            pc[q] # "idle" /\ SameState(event[q], x) => Apart(event[q], x)
  <2>1. CASE ~IsNonCritical(x)
        BY <2>1 DEF Marked, SameState, IsNonCritical
  <2>2. CASE x = Entry(p)
    <3>1. x.key = event[p].key /\ x.at = event[p].at
          BY <2>2, EntryOK
    <3> QED BY <3>1 DEF SpacedInv, HeldSpaced, Marked, SameState, Apart, IsNonCritical
  <2> QED BY <2>1, <2>2
<1>5. HeldSpaced'
      BY <1>1, <1>2 DEF SpacedInv, HeldSpaced, Marked, SameState, Apart
<1>6. ASSUME NEW t \in Sessions PROVE SessionSpaced(t)'
  <2>1. PICK st \in Seq(Entries) : st = Stream(t)
        BY StreamOK
  <2>2. /\ Spaced(st) /\ \A i \in 1..Len(st) : Marked(st[i])
        /\ \A q \in Publishers : ToCome(q, t) =>
              \A i \in 1..Len(st) : SameState(event[q], st[i]) => Apart(event[q], st[i])
        BY <2>1 DEF SpacedInv, SessionSpaced
  <2>3. CASE t # s
    <3>1. Stream(t)' = st
          BY <1>1, <2>1, <2>3 DEF Stream, TypeInv, ValuesOK
    <3>2. \A i \in 1..Len(st) : Marked(st[i])'
          BY <2>2 DEF Marked
    <3> QED BY <1>1, <1>3, <2>2, <3>1, <3>2
            DEF SessionSpaced, Spaced, SameState, Apart, Marked
  <2>4. CASE t = s
    <3>1. PICK tt : tt = Stream(s)'
          OBVIOUS
    <3>2. /\ Len(st) \in Nat /\ Len(tt) = Len(st) + 1 /\ tt[Len(st) + 1] = x
          /\ \A i \in 1..Len(st) : tt[i] = st[i]
      <4>1. tt = received[s] \o Append(buffer[s], x)
            BY <1>1, <3>1 DEF Stream, TypeInv, ValuesOK
      <4>2. PICK r \in Seq(Entries), b \in Seq(Entries) : r = received[s] /\ b = buffer[s]
            BY StreamOK
      <4>3. st = r \o b /\ tt = r \o Append(b, x)
            BY <2>1, <2>4, <4>1, <4>2 DEF Stream
      <4>4. Len(r \o b) \in Nat
            BY StreamParts
      <4> QED BY ONLY <4>3, <4>4, SendStream, x \in Entries
    <3>3. \A i \in 1..Len(st) : SameState(x, st[i]) => Apart(x, st[i])
      <4>1. CASE ~IsNonCritical(x)
            BY <4>1 DEF SameState
      <4>2. CASE x = Entry(p) /\ s \in targets[p]
        <5>1. x.key = event[p].key /\ x.at = event[p].at /\ ToCome(p, s)
              BY <4>2, EntryOK DEF ToCome
        <5>2. \A i \in 1..Len(st) : SameState(event[p], st[i]) => Apart(event[p], st[i])
              BY <2>2, <2>4, <5>1
        <5> QED BY <5>1, <5>2 DEF SameState, Apart, IsNonCritical
      <4> QED BY <4>1, <4>2
    <3>4. Spaced(tt)
      <4>1. ASSUME NEW i \in 1..Len(tt), NEW j \in 1..Len(tt), i # j, SameState(tt[i], tt[j])
            PROVE  Apart(tt[i], tt[j])
        <5>1. CASE i = Len(st) + 1
              BY <3>2, <3>3, <4>1, <5>1
        <5>2. CASE j = Len(st) + 1
          <6>1. i \in 1..Len(st) /\ tt[j] = x /\ tt[i] = st[i]
                BY <3>2, <4>1, <5>2
          <6>2. SameState(x, st[i])
                BY <4>1, <6>1 DEF SameState, IsNonCritical
          <6> QED BY <3>3, <6>1, <6>2 DEF Apart
        <5>3. CASE i # Len(st) + 1 /\ j # Len(st) + 1
          <6>1. i \in 1..Len(st) /\ j \in 1..Len(st) /\ tt[i] = st[i] /\ tt[j] = st[j]
                BY <3>2, <5>3
          <6> QED BY <2>2, <4>1, <6>1 DEF Spaced
        <5> QED BY <5>1, <5>2, <5>3
      <4> QED BY <4>1 DEF Spaced
    <3>5. \A i \in 1..Len(tt) : Marked(tt[i])'
      <4>1. \A i \in 1..Len(tt) : Marked(tt[i])
        <5>1. ASSUME NEW i \in 1..Len(tt) PROVE i \in 1..Len(st) \/ i = Len(st) + 1
              BY <3>2
        <5> QED BY <1>4, <2>2, <3>2, <5>1
      <4> QED BY <4>1 DEF Marked
    <3>6. ASSUME NEW q \in Publishers, ToCome(q, s)', NEW i \in 1..Len(tt),
                 SameState(event[q], tt[i])
          PROVE  Apart(event[q], tt[i])
      <4>1. ToCome(q, s) /\ q # p
            BY <1>3, <3>6
      <4>2. CASE i = Len(st) + 1
        <5>1. pc[q] # "idle" /\ tt[i] = x
              BY <3>2, <4>1, <4>2 DEF ToCome, TypeInv, LocalsOK
        <5> QED BY <1>4, <3>6, <4>1, <5>1
      <4>3. CASE i # Len(st) + 1
        <5>1. i \in 1..Len(st) /\ tt[i] = st[i]
              BY <3>2, <4>3
        <5> QED BY <2>2, <2>4, <3>6, <4>1, <5>1
      <4> QED BY <4>2, <4>3
    <3> QED BY <1>1, <2>4, <3>1, <3>4, <3>5, <3>6
            DEF SessionSpaced, Spaced, SameState, Apart, Marked
  <2> QED BY <2>3, <2>4
<1> QED BY <1>5, <1>6 DEF SpacedInv

LEMMA InitSpaced == Init => SpacedInv
<1> SUFFICES ASSUME Init PROVE SpacedInv
    OBVIOUS
<1>1. HeldSpaced
      BY DEF Init, HeldSpaced
<1>2. ASSUME NEW s \in Sessions PROVE SessionSpaced(s)
  <2>1. /\ Stream(s) = <<>> \o <<>> /\ Len(<<>> \o <<>>) = 0
        BY EmptySeq, ConcatProperties DEF Init, Stream
  <2> QED BY <2>1 DEF SessionSpaced, Spaced
<1> QED BY <1>1, <1>2 DEF SpacedInv

LEMMA SessionKeepsSpaced ==
  ASSUME TypeInv, TypeInv', SpacedInv,
         NEW s \in Sessions, Subscribe(s) \/ Write(s) \/ Unsubscribe(s)
  PROVE  SpacedInv'
<1>1. /\ UNCHANGED <<lastSent, pc, event, targets>>
      BY DEF Subscribe, Write, Unsubscribe, locals
<1>2. ASSUME NEW t \in Sessions
      PROVE  \/ Stream(t)' = Stream(t)
             \/ Spaced(Stream(t))' /\ Len(Stream(t)') = 0
  <2>1. CASE Subscribe(s)
        BY <2>1 DEF Subscribe, Stream
  <2>2. CASE Write(s)
    <3>1. CASE t = s
      <4>1. /\ buffer[s] # <<>> /\ received'[s] = Append(received[s], Head(buffer[s]))
            /\ buffer'[s] = Tail(buffer[s])
            BY <2>2 DEF Write, TypeInv, ValuesOK
      <4> QED BY <3>1, <4>1, StreamOK, WriteStream DEF Stream
    <3>2. CASE t # s
          BY <2>2, <3>2 DEF Write, Stream, TypeInv, ValuesOK
    <3> QED BY <3>1, <3>2
  <2>3. CASE Unsubscribe(s)
    <3>1. CASE t = s
      <4>1. Stream(s)' = <<>> \o <<>> /\ Len(<<>> \o <<>>) = 0
            BY <2>3, EmptySeq, ConcatProperties DEF Unsubscribe, Stream, TypeInv, ValuesOK
      <4> QED BY <3>1, <4>1 DEF Spaced
    <3>2. CASE t # s
          BY <2>3, <3>2 DEF Unsubscribe, Stream, TypeInv, ValuesOK
    <3> QED BY <3>1, <3>2
  <2> QED BY <2>1, <2>2, <2>3
<1>3. \A p \in Publishers, t \in Sessions : ToCome(p, t)' => ToCome(p, t)
      BY <1>1 DEF ToCome
<1>4. \A t \in Sessions :
         \/ Stream(t)' = Stream(t)
         \/ /\ Spaced(Stream(t))'
            /\ \A j \in 1..Len(Stream(t)') :
                  \E i \in 1..Len(Stream(t)) : Stream(t)'[j] = Stream(t)[i]
      BY <1>2
<1> QED BY <1>1, <1>3, <1>4, NothingNew

\* What NothingNew asks of a step that leaves the sessions alone.
LEMMA StreamsKept ==
  ASSUME TypeInv, TypeInv', SpacedInv, UNCHANGED <<lastSent, received, buffer>>,
         \A p \in Publishers : pc'[p] # "idle" => pc[p] # "idle" /\ event'[p] = event[p],
         \A p \in Publishers, s \in Sessions : ToCome(p, s)' => ToCome(p, s)
  PROVE  SpacedInv'
<1>1. \A s \in Sessions : Stream(s)' = Stream(s)
      BY DEF Stream
<1> QED BY <1>1, NothingNew

LEMMA PublishKeepsSpaced ==
  ASSUME TypeInv, TypeInv', SpacedInv,
         \/ Tick
         \/ \E k \in Keys \cup {Critical} :
               FetchPublish(k) \/ \E p \in Services : Publish(p, k)
         \/ Consume
  PROVE  SpacedInv'
<1> USE DEF Publishers, sse, locals
<1>1. ASSUME UNCHANGED <<lastSent, received, buffer, pc, event, targets>>
      PROVE  SpacedInv'
      BY <1>1, StreamsKept DEF ToCome
<1>2. CASE Tick
      BY <1>1, <1>2 DEF Tick
<1>3. ASSUME NEW k \in Keys \cup {Critical}, FetchPublish(k)
      PROVE  SpacedInv'
      BY <1>1, <1>3 DEF FetchPublish
<1>4. ASSUME NEW k \in Keys \cup {Critical}, NEW p \in Services, Publish(p, k)
      PROVE  SpacedInv'
  <2>1. PICK e \in Events : e = [n |-> count + 1, key |-> k, at |-> clock]
    <3>1. [n |-> count + 1, key |-> k, at |-> clock] \in Events
          BY DEF Events, TypeInv, ValuesOK
    <3> QED BY <3>1
  <2>2. /\ pc[p] = "idle"
        /\ IF Throttled(e)
           THEN UNCHANGED <<lastSent, pc, event>>
           ELSE /\ Mark(e)
                /\ event' = [event EXCEPT ![p] = e]
                /\ pc' = [pc EXCEPT ![p] = "copy"]
        /\ UNCHANGED <<session, buffer, received, targets>>
        BY <1>4, <2>1 DEF Publish
  <2>3. CASE Throttled(e)
        BY <1>1, <2>2, <2>3
  <2>4. CASE ~Throttled(e)
        BY <2>2, <2>4, LetThroughSpaced
  <2> QED BY <2>3, <2>4
<1>5. CASE Consume
  <2>1. topic # <<>> /\ Head(topic) \in Events
        BY <1>5, HeadTailProperties, EmptySeq, LenProperties DEF Consume, TypeInv, ValuesOK
  <2>2. PICK e \in Events : e = Head(topic)
        BY <2>1
  <2>3. /\ pc[Consumer] = "idle"
        /\ IF Throttled(e)
           THEN UNCHANGED <<lastSent, pc, event>>
           ELSE /\ Mark(e)
                /\ event' = [event EXCEPT ![Consumer] = e]
                /\ pc' = [pc EXCEPT ![Consumer] = "copy"]
        /\ UNCHANGED <<session, buffer, received, targets>>
        BY <1>5, <2>2 DEF Consume
  <2>4. CASE Throttled(e)
        BY <1>1, <2>3, <2>4
  <2>5. CASE ~Throttled(e)
        BY <2>3, <2>5, LetThroughSpaced
  <2> QED BY <2>4, <2>5
<1> QED BY <1>2, <1>3, <1>4, <1>5

LEMMA StepKeepsSpaced ==
  ASSUME TypeInv, TypeInv', SpacedInv, NEW p \in Publishers, PublisherStep(p)
  PROVE  SpacedInv'
<1>1. CASE CopySubscribers(p)
  <2>1. /\ pc[p] = "copy" /\ pc' = [pc EXCEPT ![p] = "offer"]
        /\ targets' = [targets EXCEPT ![p] = Open]
        /\ UNCHANGED <<lastSent, received, buffer, event>>
        BY <1>1 DEF CopySubscribers, sse
  <2> QED BY <2>1, StreamsKept DEF ToCome, TypeInv, ValuesOK
<1>2. CASE Return(p)
  <2>1. /\ pc' = [pc EXCEPT ![p] = "idle"] /\ event' = [event EXCEPT ![p] = None]
        /\ UNCHANGED <<lastSent, received, buffer, targets>>
        BY <1>2 DEF Return, sse
  <2> QED BY <2>1, StreamsKept DEF ToCome, TypeInv, ValuesOK
<1>3. ASSUME Panic(p), UNCHANGED <<received, lastSent>>
      PROVE  SpacedInv'
      BY <1>3, StreamsKept DEF Panic, ToCome, TypeInv, ValuesOK
<1>4. ASSUME NEW s \in Sessions, Drop(p, s), pc[p] # "idle", UNCHANGED <<received, lastSent>>
      PROVE  SpacedInv'
      BY <1>4, StreamsKept DEF Drop, Offered, ToCome, TypeInv, ValuesOK
<1>5. ASSUME NEW s \in Sessions, FirstTry(p, s)
      PROVE  SpacedInv'
  <2>1. /\ pc[p] = "offer" /\ s \in targets[p]
        /\ UNCHANGED <<clock, count, topic, session, received, lastSent>>
        BY <1>5 DEF FirstTry
  <2>2. CASE Send(p, s, Entry(p))
        BY <2>1, <2>2, EntryOK, SendSpaced
  <2>3. CASE FindFull(p, s)
    <3>1. /\ UNCHANGED <<buffer, event, targets>>
          /\ \E c \in {"take", "again"} : pc' = [pc EXCEPT ![p] = c]
          BY <2>3 DEF FindFull
    <3> QED BY <2>1, <3>1, StreamsKept DEF ToCome, TypeInv, ValuesOK
  <2> QED BY <1>3, <1>5, <2>1, <2>2, <2>3 DEF FirstTry
<1>6. ASSUME NEW s \in Sessions, Take(p, s)
      PROVE  SpacedInv'
  <2>1. /\ pc[p] = "take"
        /\ UNCHANGED <<clock, count, topic, session, received, lastSent>>
        BY <1>6 DEF Take
  <2>2. CASE TakeOldest(p, s)
    <3>1. /\ buffer[s] # <<>> /\ buffer' = [buffer EXCEPT ![s] = Tail(@)]
          /\ UNCHANGED <<event, targets>>
          /\ \E c \in {"again", "putBack"} : pc' = [pc EXCEPT ![p] = c]
          BY <2>2 DEF TakeOldest
    <3>2. ASSUME NEW t \in Sessions, t # s PROVE Stream(t)' = Stream(t)
          BY <2>1, <3>1, <3>2 DEF Stream, TypeInv, ValuesOK
    <3>3. /\ Spaced(Stream(s))'
          /\ \A j \in 1..Len(Stream(s)') :
                \E i \in 1..Len(Stream(s)) : Stream(s)'[j] = Stream(s)[i]
      <4>1. PICK r \in Seq(Entries), b \in Seq(Entries) : r = received[s] /\ b = buffer[s]
            BY StreamOK
      <4>2. Stream(s) = r \o b /\ Stream(s)' = r \o Tail(b) /\ b # <<>>
            BY <2>1, <3>1, <4>1 DEF Stream, TypeInv, ValuesOK
      <4>3. Spaced(Stream(s))
            BY DEF SpacedInv, SessionSpaced
      <4>4. /\ Spaced(r \o Tail(b))
            /\ \A j \in 1..Len(r \o Tail(b)) :
                  \E i \in 1..Len(r \o b) : (r \o Tail(b))[j] = (r \o b)[i]
            BY <4>2, <4>3, TakeStream
      <4> QED BY ONLY <4>2, <4>4 DEF Spaced, SameState, Apart
    <3>4. \A q \in Publishers : pc'[q] # "idle" => pc[q] # "idle" /\ event'[q] = event[q]
          BY <2>1, <3>1 DEF TypeInv, ValuesOK
    <3>5. \A q \in Publishers, t \in Sessions : ToCome(q, t)' => ToCome(q, t)
          BY <2>1, <3>1 DEF ToCome, TypeInv, ValuesOK
    <3>6. \A t \in Sessions :
             \/ Stream(t)' = Stream(t)
             \/ /\ Spaced(Stream(t))'
                /\ \A j \in 1..Len(Stream(t)') :
                      \E i \in 1..Len(Stream(t)) : Stream(t)'[j] = Stream(t)[i]
          BY <3>2, <3>3
    <3> QED BY <2>1, <3>4, <3>5, <3>6, NothingNew
  <2>3. CASE FindEmpty(p, s)
        BY <2>1, <2>3, StreamsKept DEF FindEmpty, ToCome, TypeInv, ValuesOK
  <2> QED BY <1>3, <1>6, <2>1, <2>2, <2>3 DEF Take
<1>7. ASSUME NEW s \in Sessions, PutBack(p, s)
      PROVE  SpacedInv'
  <2>1. /\ pc[p] = "putBack" /\ old[p] \in Entries /\ ~IsNonCritical(old[p])
        /\ UNCHANGED <<clock, count, topic, session, received, lastSent>>
        BY <1>7 DEF PutBack, TypeInv, LocalsOK
  <2>2. CASE Send(p, s, old[p])
        BY <2>1, <2>2, SendSpaced
  <2> QED BY <1>3, <1>4, <1>7, <2>1, <2>2 DEF PutBack
<1>8. ASSUME NEW s \in Sessions, SecondTry(p, s)
      PROVE  SpacedInv'
  <2>1. /\ pc[p] = "again" /\ s \in targets[p]
        /\ UNCHANGED <<clock, count, topic, session, received, lastSent>>
        BY <1>8 DEF SecondTry, TypeInv, LocalsOK
  <2>2. CASE Send(p, s, Entry(p))
        BY <2>1, <2>2, EntryOK, SendSpaced
  <2> QED BY <1>3, <1>4, <1>8, <2>1, <2>2 DEF SecondTry
<1> QED BY <1>1, <1>2, <1>5, <1>6, <1>7, <1>8 DEF PublisherStep

(* Two states of one market, position or portfolio that a session gets are *)
(* the throttle apart, whatever path they took, however late the copies    *)
(* come back from Kafka, and for any number of sessions and publishers.    *)
THEOREM StatesStaySpaced == Spec => []StatesSpaced
<1>1. SpacedInv => StatesSpaced
  <2> SUFFICES ASSUME SpacedInv PROVE StatesSpaced
      OBVIOUS
  <2>1. \A s \in Sessions : Spaced(Stream(s))
        BY DEF SpacedInv, SessionSpaced
  <2> QED BY <2>1 DEF Spaced, SameState, Apart, StatesSpaced
<1>2. TypeInv /\ TypeInv' /\ SpacedInv /\ [Next]_vars => SpacedInv'
  <2> SUFFICES ASSUME TypeInv, TypeInv', SpacedInv, [Next]_vars PROVE SpacedInv'
      OBVIOUS
  <2>1. CASE UNCHANGED vars
        BY <2>1, StreamsKept DEF vars, sse, locals, ToCome
  <2> QED BY <2>1, SessionKeepsSpaced, PublishKeepsSpaced, StepKeepsSpaced DEF Next
<1> QED BY <1>1, <1>2, InitSpaced, StreamTypes, PTL DEF Spec

-----------------------------------------------------------------------------
(* Critical events.                                                        *)

\* What a step may do to the critical events a session holds.
Survives(s) ==
    \A e \in Held(s) : ~IsNonCritical(e) /\ session'[s] = "open" =>
        \/ e \in Held(s)'
        \/ received'[s] = Append(received[s], e)
        \/ FindsNoRoomFor(e, s)

LEMMA HeldKept ==
  ASSUME NEW s, buffer'[s] = buffer[s],
         \A q \in Publishers : channel[q] = s /\ old[q] # None =>
            channel'[q] = s /\ old'[q] = old[q]
  PROVE  Survives(s)
BY DEF Survives, Held

\* The first of the buffer leaves it, and is accounted for.
LEMMA HeadGone ==
  ASSUME TypeInv, NEW s \in Sessions, buffer[s] # <<>>, buffer'[s] = Tail(buffer[s]),
         \A q \in Publishers : channel[q] = s /\ old[q] # None =>
            channel'[q] = s /\ old'[q] = old[q],
         \/ IsNonCritical(Head(buffer[s]))
         \/ Head(buffer[s]) \in Held(s)'
         \/ received'[s] = Append(received[s], Head(buffer[s]))
  PROVE  Survives(s)
<1> SUFFICES ASSUME NEW e \in Held(s), ~IsNonCritical(e), e # Head(buffer[s])
             PROVE  e \in Held(s)'
    BY DEF Survives
<1>1. PICK b \in Seq(Entries) : b = buffer[s] /\ b # <<>> /\ buffer'[s] = Tail(b)
      BY StreamOK
<1>2. ASSUME NEW i \in 1..Len(b), e = b[i]
      PROVE  \E j \in 1..Len(Tail(b)) : Tail(b)[j] = e
  <2>1. /\ Head(b) = b[1] /\ Len(b) \in Nat \ {0} /\ Len(Tail(b)) = Len(b) - 1
        /\ \A j \in 1..Len(b) - 1 : Tail(b)[j] = b[j + 1]
        BY <1>1, TailParts
  <2>2. i # 1
        BY <1>1, <1>2, <2>1
  <2>3. i - 1 \in 1..Len(Tail(b)) /\ Tail(b)[i - 1] = e
        BY <1>2, <2>1, <2>2
  <2> QED BY <2>3
<1>3. CASE \E i \in 1..Len(b) : e = b[i]
      BY <1>1, <1>2, <1>3 DEF Held
<1>4. CASE ~\E i \in 1..Len(b) : e = b[i]
      BY <1>1, <1>4 DEF Held
<1> QED BY <1>3, <1>4

\* A session is sent x, the event a publisher had taken out if it has one.
LEMMA SentSurvives ==
  ASSUME TypeInv, NEW p \in Publishers, NEW t \in Sessions, NEW s \in Sessions, NEW x \in Entries,
         Send(p, t, x), old[p] # None => channel[p] = t /\ old[p] = x
  PROVE  Survives(s)
<1>1. /\ buffer' = [buffer EXCEPT ![t] = Append(@, x)]
      /\ channel' = [channel EXCEPT ![p] = None] /\ old' = [old EXCEPT ![p] = None]
      BY DEF Send, Offered
<1>2. /\ \A q \in Publishers \ {p} : channel'[q] = channel[q] /\ old'[q] = old[q]
      /\ \A u \in Sessions \ {t} : buffer'[u] = buffer[u]
      /\ buffer'[t] = Append(buffer[t], x)
      BY <1>1 DEF TypeInv, ValuesOK
<1>3. CASE s # t
      BY <1>2, <1>3, HeldKept
<1>4. CASE s = t
  <2>1. PICK b \in Seq(Entries) : b = buffer[s] /\ buffer'[s] = Append(b, x)
        BY <1>2, <1>4, StreamOK
  <2>2. /\ Len(b) \in Nat /\ Len(Append(b, x)) = Len(b) + 1 /\ Append(b, x)[Len(b) + 1] = x
        /\ \A i \in 1..Len(b) : Append(b, x)[i] = b[i]
        BY AppendProperties, LenProperties
  <2>3. \A i \in 1..Len(b) + 1 : Append(b, x)[i] \in Held(s)'
        BY <2>1, <2>2 DEF Held
  <2>4. ASSUME NEW e \in Held(s) PROVE e \in Held(s)'
    <3>1. CASE \E i \in 1..Len(b) : e = b[i]
      <4>1. PICK i \in 1..Len(b) : e = b[i]
            BY <3>1
      <4> QED BY <2>2, <2>3, <4>1
    <3>2. CASE ~\E i \in 1..Len(b) : e = b[i]
      <4>1. PICK q \in Publishers : channel[q] = s /\ old[q] # None /\ e = old[q]
            BY <2>1, <3>2 DEF Held
      <4>2. CASE q = p
        <5>1. Len(b) + 1 \in 1..Len(b) + 1 /\ e = x
              BY <2>2, <4>1, <4>2
        <5> QED BY <2>2, <2>3, <5>1
      <4>3. CASE q # p
            BY <1>2, <4>1, <4>3 DEF Held
      <4> QED BY <4>2, <4>3
    <3> QED BY <3>1, <3>2
  <2> QED BY <2>4 DEF Survives
<1> QED BY <1>3, <1>4

LEMMA PublisherSurvives ==
  ASSUME TypeInv, NEW p \in Publishers, PublisherStep(p), NEW s \in Open
  PROVE  Survives(s)
<1>0. s \in Sessions /\ session[s] = "open" /\ None \notin Entries /\ None \notin Sessions
      BY NamesAssumption, NoneAssumption DEF Open
<1>1. ASSUME UNCHANGED <<buffer, channel, old>>
      PROVE  Survives(s)
      BY <1>1, HeldKept
<1>2. CASE CopySubscribers(p) \/ Return(p)
      BY <1>1, <1>2 DEF CopySubscribers, Return, sse
<1>3. ASSUME NEW t \in Sessions, FirstTry(p, t) \/ SecondTry(p, t)
      PROVE  Survives(s)
  <2>1. old[p] = None /\ Entry(p) \in Entries
        BY <1>3, EntryOK DEF FirstTry, SecondTry, TypeInv, LocalsOK
  <2>2. CASE Send(p, t, Entry(p))
        BY <1>0, <2>1, <2>2, SentSurvives
  <2>3. CASE FindFull(p, t) \/ Drop(p, t) \/ Panic(p)
    <3>1. /\ UNCHANGED buffer
          /\ \A q \in Publishers \ {p} : channel'[q] = channel[q] /\ old'[q] = old[q]
          BY <2>3 DEF FindFull, Drop, Offered, Panic, TypeInv, ValuesOK
    <3> QED BY <2>1, <3>1, HeldKept
  <2> QED BY <1>3, <2>2, <2>3 DEF FirstTry, SecondTry
<1>4. ASSUME NEW t \in Sessions, Take(p, t)
      PROVE  Survives(s)
  <2>1. old[p] = None /\ t = channel[p]
        BY <1>4 DEF Take, TypeInv, LocalsOK
  <2>2. CASE TakeOldest(p, t)
    <3>1. /\ buffer[t] # <<>> /\ channel' = channel
          /\ buffer'[t] = Tail(buffer[t]) /\ \A u \in Sessions \ {t} : buffer'[u] = buffer[u]
          /\ \A q \in Publishers \ {p} : old'[q] = old[q]
          /\ ~IsNonCritical(Head(buffer[t])) => old'[p] = Head(buffer[t])
          BY <2>2 DEF TakeOldest, TypeInv, ValuesOK
    <3>2. CASE s # t
          BY <2>1, <3>1, <3>2, <1>0, HeldKept
    <3>3. CASE s = t
      <4>1. Head(buffer[s]) \in Entries
            BY <1>0, <3>1, <3>3, StreamOK, TailParts
      <4>2. ~IsNonCritical(Head(buffer[s])) => Head(buffer[s]) \in Held(s)'
            BY <1>0, <2>1, <3>1, <3>3, <4>1 DEF Held
      <4> QED BY <1>0, <2>1, <3>1, <3>3, <4>2, HeadGone
    <3> QED BY <3>2, <3>3
  <2>3. CASE FindEmpty(p, t)
        BY <1>1, <2>3 DEF FindEmpty
  <2>4. CASE Panic(p)
    <3>1. /\ UNCHANGED buffer
          /\ \A q \in Publishers \ {p} : channel'[q] = channel[q] /\ old'[q] = old[q]
          BY <2>4 DEF Panic, TypeInv, ValuesOK
    <3> QED BY <2>1, <3>1, HeldKept
  <2> QED BY <1>4, <2>2, <2>3, <2>4 DEF Take
<1>5. ASSUME NEW t \in Sessions, PutBack(p, t)
      PROVE  Survives(s)
  <2>1. old[p] \in Entries /\ t = channel[p]
        BY <1>5 DEF PutBack, TypeInv, LocalsOK
  <2>2. CASE Send(p, t, old[p])
        BY <1>0, <2>1, <2>2, SentSurvives
  <2>3. CASE Drop(p, t) \/ (session[t] = "closed" /\ Panic(p))
    <3>1. /\ UNCHANGED buffer
          /\ \A q \in Publishers \ {p} : channel'[q] = channel[q] /\ old'[q] = old[q]
          BY <2>3 DEF Drop, Offered, Panic, TypeInv, ValuesOK
    <3>2. CASE s # t
          BY <2>1, <3>1, <3>2, HeldKept
    <3>3. CASE s = t /\ Drop(p, t)
      <4>1. /\ Full(s) /\ pc[p] = "putBack" /\ channel[p] = s /\ pc'[p] = "offer"
            /\ old[p] \in Held(s)
            BY <1>0, <1>5, <2>1, <3>3 DEF PutBack, Drop, Offered, TypeInv, ValuesOK, Held
      <4>2. FindsNoRoomFor(old[p], s)
            BY <4>1 DEF FindsNoRoomFor
      <4>3. ASSUME NEW e \in Held(s), e # old[p] PROVE e \in Held(s)'
            BY <3>1, <4>3 DEF Held
      <4> QED BY <4>2, <4>3 DEF Survives
    <3> QED BY <1>0, <2>3, <3>2, <3>3
  <2>4. Send(p, t, old[p]) \/ Drop(p, t) \/ (session[t] = "closed" /\ Panic(p))
        BY <1>5 DEF PutBack
  <2> QED BY <2>2, <2>3, <2>4
<1> QED BY <1>2, <1>3, <1>4, <1>5 DEF PublisherStep

\* A client reads its stream or goes away.
LEMMA ClientSurvives ==
  ASSUME TypeInv, NEW t \in Sessions, Subscribe(t) \/ Write(t) \/ Unsubscribe(t), NEW s \in Open
  PROVE  Survives(s)
<1>1. s \in Sessions /\ session[s] = "open" /\ UNCHANGED <<channel, old>>
      BY DEF Open, Subscribe, Write, Unsubscribe, locals
<1>2. CASE buffer'[s] = buffer[s]
      BY <1>1, <1>2, HeldKept
<1>3. CASE buffer'[s] # buffer[s]
  <2>1. s = t /\ ~Subscribe(t)
        BY <1>1, <1>3 DEF Subscribe, Write, Unsubscribe, TypeInv, ValuesOK
  <2>2. CASE Write(t)
    <3>1. /\ buffer[s] # <<>> /\ buffer'[s] = Tail(buffer[s])
          /\ received'[s] = Append(received[s], Head(buffer[s]))
          BY <1>1, <2>1, <2>2 DEF Write, TypeInv, ValuesOK
    <3> QED BY <1>1, <3>1, HeadGone
  <2>3. CASE Unsubscribe(t)
        BY <1>1, <2>1, <2>3 DEF Unsubscribe, Survives, TypeInv, ValuesOK
  <2> QED BY <2>1, <2>2, <2>3
<1> QED BY <1>2, <1>3

(* Making room in a full buffer spares critical events: one that a session *)
(* holds leaves it only to be sent, or when the publisher that has it in   *)
(* hand finds the buffer filled by others; for every buffer size and any   *)
(* publishers.                                                             *)
THEOREM CriticalEventsSurvive == Spec => CriticalSurvives
<1>1. TypeInv /\ [Next]_vars =>
        [\A s \in Open : \A e \in Held(s) :
            ~IsNonCritical(e) /\ session'[s] = "open" =>
              \/ e \in Held(s)'
              \/ received'[s] = Append(received[s], e)
              \/ FindsNoRoomFor(e, s)]_vars
  <2> SUFFICES ASSUME TypeInv, Next, NEW s \in Open PROVE Survives(s)
      BY DEF Survives
  <2>1. ASSUME UNCHANGED <<buffer, channel, old>> PROVE Survives(s)
        BY <2>1, HeldKept
  <2>2. CASE \/ Tick
             \/ \E k \in Keys \cup {Critical} :
                   FetchPublish(k) \/ \E p \in Services : Publish(p, k)
             \/ Consume
        BY <2>1, <2>2 DEF Tick, FetchPublish, Publish, Consume, sse, locals
  <2> QED BY <2>2, ClientSurvives, PublisherSurvives DEF Next
<1> QED BY <1>1, StreamTypes, PTL DEF Spec, CriticalSurvives

-----------------------------------------------------------------------------
(* A session that keeps up.  Via is a function on the prefixes of a        *)
(* sequence that is chosen to meet its own equation: that there is one,    *)
(* and that it grows with the sequence, follows by induction on the length.*)

LEMMA CountedInduction ==
  ASSUME NEW Good, 0 \in Good, \A n \in Nat : n \in Good => n + 1 \in Good
  PROVE  Nat \subseteq Good
<1> DEFINE Bad == Nat \ Good
           R == OpToRel(<, Nat)
<1>1. ASSUME Bad # {} PROVE FALSE
  <2>1. \E n \in Bad : \A m \in Bad : ~ (<<m, n>> \in R)
    <3>1. IsWellFoundedOn(R, Nat)
          BY NatLessThanWellFounded
    <3> HIDE DEF R
    <3> QED BY <1>1, <3>1, WFMin
  <2>2. PICK n \in Bad : \A m \in Bad : ~(m < n)
        BY <2>1 DEF OpToRel
  <2>3. n \in Nat \ {0} /\ n - 1 \in Nat /\ n - 1 < n /\ n - 1 + 1 = n
        OBVIOUS
  <2>4. n - 1 \in Good
        BY <2>2, <2>3
  <2> QED BY <2>3, <2>4
<1> QED BY <1>1

\* f holds the selections from the prefixes of st.
Selects(f, st, p) ==
    f = [i \in 0..Len(st) |->
            IF i = 0 THEN <<>>
            ELSE IF st[i].via = p THEN Append(f[i - 1], st[i])
            ELSE f[i - 1]]

Grows(f, st, p) ==
    /\ DOMAIN f = 0..Len(st) /\ f[0] = <<>>
    /\ \A i \in 1..Len(st) : f[i] = IF st[i].via = p THEN Append(f[i - 1], st[i]) ELSE f[i - 1]

LEMMA SelectsAt ==
  ASSUME NEW st, NEW p, Len(st) \in Nat, NEW f, Selects(f, st, p)
  PROVE  Grows(f, st, p)
<1>1. DOMAIN f = 0..Len(st)
      BY Zenon DEF Selects
<1>2. ASSUME NEW i \in 0..Len(st)
      PROVE  f[i] = IF i = 0 THEN <<>>
                    ELSE IF st[i].via = p THEN Append(f[i - 1], st[i])
                    ELSE f[i - 1]
      BY <1>2, Zenon DEF Selects
<1>3. 0 \in 0..Len(st) /\ \A i \in 1..Len(st) : i \in 0..Len(st) /\ i # 0
      OBVIOUS
<1> QED BY <1>1, <1>2, <1>3, Zenon DEF Grows

LEMMA SelectsIsFunction ==
  ASSUME NEW st, NEW p, NEW f, Selects(f, st, p)
  PROVE  f = [i \in 0..Len(st) |-> f[i]]
BY Zenon DEF Selects

LEMMA SelectionExists ==
  ASSUME NEW st \in Seq(Entries), NEW p
  PROVE  \E f \in [0..Len(st) -> Seq(Entries)] : Selects(f, st, p) /\ Via(st, p) = f[Len(st)]
<1> DEFINE Upto(f, n) ==
              /\ f \in [0..n -> Seq(Entries)]
              /\ f[0] = <<>>
              /\ \A i \in 1..n : f[i] = IF st[i].via = p THEN Append(f[i - 1], st[i]) ELSE f[i - 1]
           Good == {n \in Nat : n <= Len(st) => \E f : Upto(f, n)}
           chosen == CHOOSE f : Selects(f, st, p)
<1>0. Len(st) \in Nat /\ \A i \in 1..Len(st) : st[i] \in Entries
      BY LenProperties, ElementOfSeq
<1>1. 0 \in Good
  <2>1. Upto([i \in 0..0 |-> <<>>], 0)
        BY EmptySeq
  <2> QED BY <2>1
<1>2. ASSUME NEW n \in Nat, n \in Good, n + 1 <= Len(st)
      PROVE  \E g : Upto(g, n + 1)
  <2>1. PICK f : Upto(f, n)
    <3>1. n <= Len(st)
          BY <1>0, <1>2
    <3> HIDE DEF Upto
    <3> QED BY <1>2, <3>1
  <2>2. st[n + 1] \in Entries /\ f[n] \in Seq(Entries)
        BY <1>0, <1>2, <2>1
  <2> DEFINE x == IF st[n + 1].via = p THEN Append(f[n], st[n + 1]) ELSE f[n]
             g == [i \in 0..(n + 1) |-> IF i = n + 1 THEN x ELSE f[i]]
  <2>3. x \in Seq(Entries)
        BY <2>2, AppendProperties
  <2> HIDE DEF x
  <2>4. g \in [0..(n + 1) -> Seq(Entries)] /\ g[0] = <<>>
        BY <2>1, <2>3
  <2>5. ASSUME NEW i \in 1..(n + 1)
        PROVE  g[i] = IF st[i].via = p THEN Append(g[i - 1], st[i]) ELSE g[i - 1]
    <3>1. CASE i = n + 1
          BY <3>1 DEF x
    <3>2. CASE i # n + 1
      <4>1. /\ i \in 1..n /\ g[i] = f[i] /\ g[i - 1] = f[i - 1]
            BY <3>2
      <4> HIDE DEF g
      <4> QED BY <2>1, <4>1
    <3> QED BY <3>1, <3>2
  <2> QED BY <2>4, <2>5
<1>3. Len(st) \in Good
  <2>1. ASSUME NEW n \in Nat, n \in Good PROVE n + 1 \in Good
    <3> HIDE DEF Upto
    <3> QED BY <1>2, <2>1
  <2> HIDE DEF Good
  <2> QED BY <1>0, <1>1, <2>1, CountedInduction
<1>4. PICK f : Upto(f, Len(st))
      BY <1>0, <1>3
<1>5. Selects(f, st, p)
  <2>1. ASSUME NEW i \in 0..Len(st)
        PROVE  f[i] = IF i = 0 THEN <<>>
                      ELSE IF st[i].via = p THEN Append(f[i - 1], st[i])
                      ELSE f[i - 1]
    <3>1. i = 0 \/ i \in 1..Len(st)
          BY <1>0
    <3> QED BY <1>4, <3>1
  <2>2. DOMAIN f = 0..Len(st) /\ f = [i \in 0..Len(st) |-> f[i]]
        BY <1>4
  <2> HIDE DEF Upto
  <2> QED BY <2>1, <2>2, Zenon DEF Selects
<1>6. Selects(chosen, st, p)
  <2> HIDE DEF Upto
  <2> QED BY <1>5
<1>7. Via(st, p) = chosen[Len(st)]
      BY Zenon DEF Via, Selects
<1> HIDE DEF chosen
<1>8. Upto(chosen, Len(st))
  <2> DEFINE Typed == {n \in Nat : n <= Len(st) => chosen[n] \in Seq(Entries)}
  <2>1. /\ chosen[0] = <<>> /\ DOMAIN chosen = 0..Len(st)
        /\ \A i \in 1..Len(st) :
              chosen[i] = IF st[i].via = p THEN Append(chosen[i - 1], st[i]) ELSE chosen[i - 1]
        BY <1>0, <1>6, SelectsAt DEF Grows
  <2>2. 0 \in Typed
        BY <2>1, EmptySeq
  <2>3. ASSUME NEW n \in Nat, n \in Typed PROVE n + 1 \in Typed
    <3> SUFFICES ASSUME n + 1 <= Len(st) PROVE chosen[n + 1] \in Seq(Entries)
        OBVIOUS
    <3>1. chosen[n] \in Seq(Entries) /\ st[n + 1] \in Entries
          BY <1>0, <2>3
    <3>2. chosen[n + 1] = IF st[n + 1].via = p THEN Append(chosen[n], st[n + 1]) ELSE chosen[n]
          BY <1>0, <2>1
    <3> QED BY <3>1, <3>2, AppendProperties
  <2>4. Nat \subseteq Typed
    <3> HIDE DEF Typed
    <3> QED BY <2>2, <2>3, CountedInduction
  <2>5. \A i \in 0..Len(st) : chosen[i] \in Seq(Entries)
        BY <1>0, <2>4
  <2>6. chosen = [i \in 0..Len(st) |-> chosen[i]]
        BY <1>6, SelectsIsFunction
  <2> QED BY <2>1, <2>5, <2>6
<1> QED BY <1>6, <1>7, <1>8

LEMMA ViaAppend ==
  ASSUME NEW st \in Seq(Entries), NEW e \in Entries, NEW p
  PROVE  /\ Via(st, p) \in Seq(Entries)
         /\ Via(Append(st, e), p) = IF e.via = p THEN Append(Via(st, p), e) ELSE Via(st, p)
<1> DEFINE n == Len(st)
           more == Append(st, e)
<1>1. /\ n \in Nat /\ more \in Seq(Entries) /\ Len(more) = n + 1 /\ more[n + 1] = e
      /\ \A i \in 1..n : more[i] = st[i]
      BY AppendProperties, LenProperties
<1>2. PICK f \in [0..n -> Seq(Entries)] : Selects(f, st, p) /\ Via(st, p) = f[n]
      BY SelectionExists
<1> HIDE DEF more
<1>3. PICK g \in [0..(n + 1) -> Seq(Entries)] : Selects(g, more, p) /\ Via(more, p) = g[n + 1]
      BY <1>1, SelectionExists
<1> DEFINE Same == {i \in Nat : i <= n => g[i] = f[i]}
<1>4. /\ f[0] = <<>> /\ g[0] = <<>>
      /\ \A i \in 1..n : f[i] = IF st[i].via = p THEN Append(f[i - 1], st[i]) ELSE f[i - 1]
      /\ \A i \in 1..n + 1 : g[i] = IF more[i].via = p THEN Append(g[i - 1], more[i]) ELSE g[i - 1]
  <2>1. Selects(f, st, p) /\ Selects(g, more, p) /\ Len(st) \in Nat /\ Len(more) \in Nat
        BY <1>1, <1>2, <1>3
  <2>2. Grows(f, st, p) /\ Grows(g, more, p)
        BY <2>1, SelectsAt
  <2> QED BY <1>1, <2>2 DEF Grows
<1>5. ASSUME NEW i \in Nat, i \in Same PROVE i + 1 \in Same
  <2> SUFFICES ASSUME i + 1 <= n PROVE g[i + 1] = f[i + 1]
      OBVIOUS
  <2>1. i + 1 \in 1..n /\ i + 1 \in 1..n + 1 /\ (i + 1) - 1 = i /\ g[i] = f[i]
        BY <1>1, <1>5
  <2>2. /\ f[i + 1] = IF st[i + 1].via = p THEN Append(f[i], st[i + 1]) ELSE f[i]
        /\ g[i + 1] = IF more[i + 1].via = p THEN Append(g[i], more[i + 1]) ELSE g[i]
        BY <1>4, <2>1
  <2> QED BY <1>1, <2>1, <2>2
<1>6. g[n] = f[n]
  <2>1. 0 \in Same
        BY <1>4
  <2>2. Nat \subseteq Same
    <3> HIDE DEF Same
    <3> QED BY <1>5, <2>1, CountedInduction
  <2> QED BY <1>1, <2>2
<1>7. g[n + 1] = IF e.via = p THEN Append(g[n], e) ELSE g[n]
  <2>1. n + 1 \in 1..n + 1 /\ (n + 1) - 1 = n
        BY <1>1
  <2> QED BY <1>1, <1>4, <2>1
<1>8. Via(st, p) \in Seq(Entries)
      BY <1>1, <1>2
<1> QED BY <1>2, <1>3, <1>6, <1>7, <1>8 DEF more

LEMMA ViaNothing == ASSUME NEW p PROVE Via(<<>>, p) = <<>>
<1>1. <<>> \in Seq(Entries) /\ Len(<<>>) = 0
      BY EmptySeq
<1>2. PICK f \in [0..0 -> Seq(Entries)] : Selects(f, <<>>, p) /\ Via(<<>>, p) = f[0]
      BY <1>1, SelectionExists
<1> QED BY <1>1, <1>2 DEF Selects

(***************************************************************************)
(* KeepsUpGetsAll alone is not inductive: the second try, the put-back and *)
(* the taking of the oldest would break it.  They never meet a session     *)
(* that keeps up, since only a full buffer leads to them; and only an open *)
(* session keeps up, so that a copy of the open ones misses none.          *)
(***************************************************************************)
Making(p) == pc[p] \in {"take", "putBack", "again"}

OnlyKeepers ==
    /\ due \in [Sessions -> Seq(Entries) \cup {None}]
    /\ \A s \in Sessions : due[s] # None => session[s] = "open"
    /\ \A s \in Sessions : session[s] = "absent" =>
          /\ received[s] = <<>> /\ buffer[s] = <<>>
          /\ \A p \in Publishers : s \notin targets[p]
    /\ \A p \in Publishers : Making(p) => due[channel[p]] = None

KeepInv == OnlyKeepers /\ KeepsUpGetsAll

LEMMA InitKeeps == Init => KeepInv
<1> SUFFICES ASSUME Init PROVE KeepInv
    OBVIOUS
<1>1. OnlyKeepers
      BY DEF Init, OnlyKeepers, Making
<1>2. KeepsUpGetsAll
      BY DEF Init, KeepsUpGetsAll
<1> QED BY <1>1, <1>2 DEF KeepInv

\* What a step leaves to a session that goes on keeping up.
Unmoved(s) ==
    /\ due'[s] = due[s] /\ Stream(s)' = Stream(s)
    /\ \A p \in Publishers :
          /\ s \in targets'[p] <=> s \in targets[p]
          /\ s \in targets[p] => event'[p] = event[p]

LEMMA UnmovedKeeps ==
  ASSUME KeepsUpGetsAll, NEW s \in Sessions, Unmoved(s), due'[s] # None, NEW p \in Publishers
  PROVE  Via(due'[s], p) = Via(Stream(s)', p) \o (IF s \in targets'[p] THEN <<Entry(p)'>> ELSE <<>>)
BY DEF KeepsUpGetsAll, Unmoved, Entry

LEMMA AllUnmovedKeep ==
  ASSUME KeepsUpGetsAll, \A s \in Sessions : due'[s] # None => Unmoved(s)
  PROVE  KeepsUpGetsAll'
BY UnmovedKeeps DEF KeepsUpGetsAll

LEMMA ClientKeepsUp ==
  ASSUME TypeInv, KeepInv, NEW t \in Sessions, Subscribe(t) \/ Write(t) \/ Unsubscribe(t)
  PROVE  KeepInv'
<1>1. UNCHANGED locals
      BY DEF Subscribe, Write, Unsubscribe
<1>2. CASE Subscribe(t)
  <2>1. /\ session[t] = "absent" /\ session' = [session EXCEPT ![t] = "open"]
        /\ due' = [due EXCEPT ![t] = <<>>] /\ UNCHANGED <<buffer, received>>
        BY <1>2 DEF Subscribe
  <2>2. OnlyKeepers'
    <3>1. <<>> \in Seq(Entries)
          BY EmptySeq
    <3>2. \A p \in Publishers : Making(p) => channel[p] # t
          BY <2>1 DEF KeepInv, OnlyKeepers, Making, TypeInv, LocalsOK
    <3> QED BY <1>1, <2>1, <3>1, <3>2 DEF KeepInv, OnlyKeepers, Making, TypeInv, ValuesOK, LocalsOK, locals
  <2>3. ASSUME NEW s \in Sessions, s # t PROVE Unmoved(s)
        BY <1>1, <2>1, <2>3 DEF Unmoved, Stream, locals, KeepInv, OnlyKeepers
  <2>4. ASSUME NEW p \in Publishers
        PROVE  Via(due'[t], p) = Via(Stream(t)', p) \o (IF t \in targets'[p] THEN <<Entry(p)'>> ELSE <<>>)
    <3>1. due'[t] = <<>> /\ received'[t] = <<>> /\ buffer'[t] = <<>> /\ t \notin targets'[p]
          BY <1>1, <2>1 DEF KeepInv, OnlyKeepers, locals
    <3>2. Stream(t)' = <<>>
          BY <3>1 DEF Stream
    <3>3. Via(<<>>, p) = <<>>
          BY ViaNothing
    <3>4. <<>> \o <<>> = <<>>
          BY EmptySeq, ConcatEmptySeq
    <3> QED BY <3>1, <3>2, <3>3, <3>4
  <2>5. KeepsUpGetsAll'
        BY <2>3, <2>4, UnmovedKeeps DEF KeepInv, KeepsUpGetsAll
  <2> QED BY <2>2, <2>5 DEF KeepInv
<1>3. CASE Write(t)
  <2>1. /\ buffer[t] # <<>> /\ session[t] = "open" /\ UNCHANGED <<session, due>>
        /\ received' = [received EXCEPT ![t] = Append(@, Head(buffer[t]))]
        /\ buffer' = [buffer EXCEPT ![t] = Tail(@)]
        BY <1>3 DEF Write
  <2>2. OnlyKeepers'
        BY <1>1, <2>1 DEF KeepInv, OnlyKeepers, Making, TypeInv, ValuesOK, locals
  <2>3. Stream(t)' = Stream(t)
    <3>1. PICK r \in Seq(Entries), b \in Seq(Entries) : r = received[t] /\ b = buffer[t]
          BY StreamOK
    <3>2. Stream(t)' = Append(r, Head(b)) \o Tail(b) /\ Stream(t) = r \o b /\ b # <<>>
          BY <2>1, <3>1 DEF Stream, TypeInv, ValuesOK
    <3> QED BY <3>2, WriteStream
  <2>4. ASSUME NEW s \in Sessions, s # t PROVE Stream(s)' = Stream(s)
        BY <2>1, <2>4 DEF Stream, TypeInv, ValuesOK
  <2>5. ASSUME NEW s \in Sessions PROVE Unmoved(s)
        BY <1>1, <2>1, <2>3, <2>4 DEF Unmoved, locals
  <2> QED BY <2>2, <2>5, AllUnmovedKeep DEF KeepInv
<1>4. CASE Unsubscribe(t)
  <2>1. /\ session[t] = "open" /\ session' = [session EXCEPT ![t] = "closed"]
        /\ received' = [received EXCEPT ![t] = <<>>] /\ buffer' = [buffer EXCEPT ![t] = <<>>]
        /\ due' = [due EXCEPT ![t] = None]
        BY <1>4 DEF Unsubscribe
  <2>2. OnlyKeepers'
        BY <1>1, <2>1 DEF KeepInv, OnlyKeepers, Making, TypeInv, ValuesOK, LocalsOK, locals
  <2>3. ASSUME NEW s \in Sessions, due'[s] # None PROVE Unmoved(s)
        BY <1>1, <2>1, <2>3 DEF Unmoved, Stream, locals, KeepInv, OnlyKeepers, TypeInv, ValuesOK
  <2> QED BY <2>2, <2>3, AllUnmovedKeep DEF KeepInv
<1> QED BY <1>2, <1>3, <1>4

\* A step that changes neither sessions nor targets: the event that is let
\* through is that of an idle publisher.
LEMMA PublishKeepsUp ==
  ASSUME TypeInv, KeepInv,
         \/ Tick
         \/ \E k \in Keys \cup {Critical} :
               FetchPublish(k) \/ \E p \in Services : Publish(p, k)
         \/ Consume
  PROVE  KeepInv'
<1>1. /\ UNCHANGED <<sse, due, targets, channel>>
      /\ \/ UNCHANGED <<pc, event>>
         \/ \E p \in Publishers, e \in {event'[q] : q \in Publishers} :
               pc[p] = "idle" /\ pc' = [pc EXCEPT ![p] = "copy"] /\ event' = [event EXCEPT ![p] = e]
  <2>1. ASSUME NEW p \in Publishers, NEW e, event' = [event EXCEPT ![p] = e]
        PROVE  e \in {event'[q] : q \in Publishers}
        BY <2>1 DEF TypeInv, ValuesOK
  <2> QED BY <2>1 DEF Tick, FetchPublish, Publish, Consume, locals, Publishers
<1>2. OnlyKeepers'
      BY <1>1 DEF KeepInv, OnlyKeepers, Making, TypeInv, ValuesOK, sse
<1>3. ASSUME NEW s \in Sessions PROVE Unmoved(s)
      BY <1>1 DEF Unmoved, Stream, sse, TypeInv, ValuesOK, LocalsOK
<1> QED BY <1>2, <1>3, AllUnmovedKeep DEF KeepInv

\* A session that is sent an event by a publisher that has it still to offer.
LEMMA SendKeepsUp ==
  ASSUME TypeInv, KeepInv, NEW p \in Publishers, NEW t \in Sessions, t \in targets[p],
         pc[p] # "idle", Send(p, t, Entry(p)), UNCHANGED received
  PROVE  KeepsUpGetsAll'
<1>1. /\ buffer' = [buffer EXCEPT ![t] = Append(@, Entry(p))]
      /\ targets' = [targets EXCEPT ![p] = @ \ {t}] /\ UNCHANGED <<event, due>>
      BY DEF Send, Offered
<1>2. ASSUME NEW s \in Sessions, s # t PROVE Unmoved(s)
  <2>1. Stream(s)' = Stream(s)
        BY <1>1, <1>2 DEF Stream, TypeInv, ValuesOK
  <2>2. \A q \in Publishers : s \in targets'[q] <=> s \in targets[q]
        BY <1>1, <1>2 DEF TypeInv, ValuesOK
  <2> QED BY <1>1, <2>1, <2>2 DEF Unmoved
<1>3. ASSUME NEW q \in Publishers, due[t] # None
      PROVE  Via(due[t], q) = Via(Stream(t)', q) \o (IF t \in targets'[q] THEN <<Entry(q)'>> ELSE <<>>)
  <2>1. PICK st \in Seq(Entries) : st = Stream(t)
        BY StreamOK
  <2>2. PICK e \in Entries : e = Entry(p)
        BY EntryOK
  <2>3. Stream(t)' = Append(st, e)
    <3>1. PICK r \in Seq(Entries), b \in Seq(Entries) : r = received[t] /\ b = buffer[t]
          BY StreamOK
    <3>2. Stream(t)' = r \o Append(b, e) /\ st = r \o b
          BY <1>1, <2>1, <2>2, <3>1 DEF Stream, TypeInv, ValuesOK
    <3>3. r \o Append(b, e) = Append(r \o b, e)
      <4> DEFINE x == r \o Append(b, e)
                 y == Append(r \o b, e)
      <4>1. r \o b \in Seq(Entries) /\ Append(b, e) \in Seq(Entries) /\ Len(r \o b) \in Nat
            BY StreamParts, AppendProperties, LenProperties
      <4>2. x \in Seq(Entries) /\ y \in Seq(Entries) /\ Len(y) = Len(r \o b) + 1
            /\ y[Len(r \o b) + 1] = e /\ \A i \in 1..Len(r \o b) : y[i] = (r \o b)[i]
            BY <4>1, StreamParts, AppendProperties
      <4>3. Len(x) = Len(r \o b) + 1 /\ x[Len(r \o b) + 1] = e
            /\ \A i \in 1..Len(r \o b) : x[i] = (r \o b)[i]
            BY SendStream
      <4> HIDE DEF x, y
      <4>4. ASSUME NEW i \in 1..Len(x) PROVE x[i] = y[i]
        <5>1. i \in 1..Len(r \o b) \/ i = Len(r \o b) + 1
              BY <4>1, <4>3
        <5> QED BY <4>2, <4>3, <5>1
      <4>5. x = y
            BY <4>2, <4>3, <4>4, SeqEqual
      <4> QED BY <4>5 DEF x, y
    <3> QED BY <3>2, <3>3
  <2>4. /\ Via(st, q) \in Seq(Entries)
        /\ Via(Append(st, e), q) = IF e.via = q THEN Append(Via(st, q), e) ELSE Via(st, q)
        BY ViaAppend
  <2>5. Via(due[t], q) = Via(st, q) \o (IF t \in targets[q] THEN <<Entry(q)>> ELSE <<>>)
        BY <1>3, <2>1 DEF KeepInv, KeepsUpGetsAll
  <2>6. e.via = p
        BY <2>2 DEF Entry
  <2>7. CASE q = p
    <3>1. t \notin targets'[q] /\ t \in targets[q]
          BY <1>1, <2>7 DEF TypeInv, ValuesOK
    <3>2. Via(st, q) \o <<e>> = Append(Via(st, q), e) /\ Append(Via(st, q), e) \in Seq(Entries)
          BY <2>4, AppendIsConcat, AppendProperties
    <3>3. Append(Via(st, q), e) \o <<>> = Append(Via(st, q), e)
          BY <3>2, ConcatEmptySeq
    <3> QED BY <2>2, <2>3, <2>4, <2>5, <2>6, <2>7, <3>1, <3>2, <3>3
  <2>8. CASE q # p
    <3>1. (t \in targets'[q] <=> t \in targets[q]) /\ Entry(q)' = Entry(q)
          BY <1>1, <2>8 DEF TypeInv, ValuesOK, Entry
    <3> QED BY <2>3, <2>4, <2>5, <2>6, <2>8, <3>1
  <2> QED BY <2>7, <2>8
<1>4. ASSUME NEW s \in Sessions, NEW q \in Publishers, due'[s] # None
      PROVE  Via(due'[s], q) = Via(Stream(s)', q) \o (IF s \in targets'[q] THEN <<Entry(q)'>> ELSE <<>>)
  <2>1. CASE s = t
        BY <1>1, <1>3, <1>4, <2>1
  <2>2. CASE s # t
        BY <1>2, <1>4, <2>2, UnmovedKeeps DEF KeepInv
  <2> QED BY <2>1, <2>2
<1> QED BY <1>4 DEF KeepsUpGetsAll

\* The copy of the map: from here on the event is due to every open session.
LEMMA CopyKeepsUp ==
  ASSUME TypeInv, KeepInv, NEW p \in Publishers, CopySubscribers(p)
  PROVE  KeepInv'
<1>1. /\ pc[p] = "copy" /\ pc' = [pc EXCEPT ![p] = "offer"]
      /\ targets' = [targets EXCEPT ![p] = Open]
      /\ due' = [s \in Sessions |-> IF due[s] = None THEN None ELSE Append(due[s], Entry(p))]
      /\ UNCHANGED <<session, buffer, received, event, channel>>
      BY DEF CopySubscribers, sse
<1>2. PICK e \in Entries : e = Entry(p)
      BY <1>1, EntryOK
<1>3. OnlyKeepers'
  <2>1. due' \in [Sessions -> Seq(Entries) \cup {None}]
        BY <1>1, <1>2, AppendProperties DEF KeepInv, OnlyKeepers
  <2>2. \A s \in Sessions : due'[s] # None => due[s] # None
        BY <1>1
  <2>3. \A q \in Publishers : Making(q)' => due'[channel'[q]] = None
    <3>1. ASSUME NEW q \in Publishers, Making(q)' PROVE due'[channel'[q]] = None
      <4>1. Making(q) /\ channel[q] \in Sessions
            BY <1>1, <3>1 DEF Making, TypeInv, ValuesOK, LocalsOK
      <4> QED BY <1>1, <4>1 DEF KeepInv, OnlyKeepers
    <3> QED BY <3>1
  <2>4. \A s \in Open : session[s] = "open"
        BY DEF Open
  <2> QED BY <1>1, <2>1, <2>2, <2>3, <2>4 DEF KeepInv, OnlyKeepers, TypeInv, ValuesOK
<1>4. ASSUME NEW s \in Sessions, NEW q \in Publishers, due'[s] # None
      PROVE  Via(due'[s], q) = Via(Stream(s)', q) \o (IF s \in targets'[q] THEN <<Entry(q)'>> ELSE <<>>)
  <2>1. PICK d \in Seq(Entries) : d = due[s] /\ due[s] # None /\ due'[s] = Append(d, e) /\ s \in Open
        BY <1>1, <1>2, <1>4 DEF KeepInv, OnlyKeepers, Open
  <2>2. Via(d, q) = Via(Stream(s), q) \o (IF s \in targets[q] THEN <<Entry(q)>> ELSE <<>>)
        BY <2>1 DEF KeepInv, KeepsUpGetsAll
  <2>3. PICK st \in Seq(Entries) : st = Stream(s)
        BY StreamOK
  <2>4. /\ Via(st, q) \in Seq(Entries)
        /\ Via(Append(d, e), q) = IF e.via = q THEN Append(Via(d, q), e) ELSE Via(d, q)
        BY <2>3, ViaAppend
  <2>5. Stream(s)' = st /\ Entry(q)' = Entry(q) /\ e.via = p
        BY <1>1, <1>2, <2>3 DEF Stream, Entry
  <2>6. CASE q = p
    <3>1. s \notin targets[q] /\ s \in targets'[q]
          BY <1>1, <2>1, <2>6 DEF TypeInv, ValuesOK, LocalsOK
    <3>2. Via(d, q) = Via(st, q)
          BY <2>2, <2>3, <2>4, <3>1, ConcatEmptySeq
    <3>3. Append(Via(st, q), e) = Via(st, q) \o <<e>>
          BY <2>4, AppendIsConcat
    <3> QED BY <1>2, <2>1, <2>4, <2>5, <2>6, <3>1, <3>2, <3>3
  <2>7. CASE q # p
    <3>1. s \in targets'[q] <=> s \in targets[q]
          BY <1>1, <2>7 DEF TypeInv, ValuesOK
    <3> QED BY <2>1, <2>2, <2>3, <2>4, <2>5, <2>7, <3>1
  <2> QED BY <2>6, <2>7
<1>5. KeepsUpGetsAll'
      BY <1>4 DEF KeepsUpGetsAll
<1> QED BY <1>3, <1>5 DEF KeepInv

LEMMA StepKeepsUp ==
  ASSUME TypeInv, KeepInv, NEW p \in Publishers, PublisherStep(p)
  PROVE  KeepInv'
<1>1. CASE Return(p)
  <2>1. /\ targets[p] = {} /\ pc' = [pc EXCEPT ![p] = "idle"] /\ event' = [event EXCEPT ![p] = None]
        /\ UNCHANGED <<sse, targets, channel, due>>
        BY <1>1 DEF Return
  <2>2. OnlyKeepers'
        BY <2>1 DEF KeepInv, OnlyKeepers, Making, TypeInv, ValuesOK, sse
  <2>3. ASSUME NEW s \in Sessions PROVE Unmoved(s)
        BY <2>1 DEF Unmoved, Stream, sse, TypeInv, ValuesOK
  <2> QED BY <2>2, <2>3, AllUnmovedKeep DEF KeepInv
<1>2. ASSUME Panic(p), UNCHANGED <<session, received>>
      PROVE  KeepInv'
  <2>1. /\ pc' = [pc EXCEPT ![p] = "idle"] /\ event' = [event EXCEPT ![p] = None]
        /\ targets' = [targets EXCEPT ![p] = {}] /\ channel' = [channel EXCEPT ![p] = None]
        /\ due' = [s \in Sessions |-> IF s \in targets[p] THEN None ELSE due[s]]
        /\ UNCHANGED buffer
        BY <1>2 DEF Panic
  <2>2. OnlyKeepers'
    <3>1. \A q \in Publishers : Making(q)' => Making(q) /\ channel'[q] = channel[q] /\ channel[q] \in Sessions
          BY <2>1 DEF Making, TypeInv, ValuesOK, LocalsOK
    <3> QED BY <1>2, <2>1, <3>1 DEF KeepInv, OnlyKeepers, TypeInv, ValuesOK
  <2>3. ASSUME NEW s \in Sessions, due'[s] # None PROVE Unmoved(s)
        BY <1>2, <2>1, <2>3 DEF Unmoved, Stream, TypeInv, ValuesOK
  <2> QED BY <2>2, <2>3, AllUnmovedKeep DEF KeepInv
\* A publisher that makes room meets only sessions that missed something.
<1>3. ASSUME NEW t \in Sessions, due[t] = None, UNCHANGED <<session, received, due>>,
             \A s \in Sessions \ {t} : buffer'[s] = buffer[s],
             session[t] = "open",
             UNCHANGED event,
             \/ UNCHANGED <<targets, channel>> /\ Making(p)
             \/ targets' = [targets EXCEPT ![p] = @ \ {t}],
             \A q \in Publishers : Making(q)' => Making(q) /\ channel'[q] = channel[q]
      PROVE  KeepInv'
  <2>1. \A q \in Publishers : targets'[q] \in SUBSET targets[q]
        BY <1>3 DEF TypeInv, ValuesOK
  <2>2. OnlyKeepers'
        BY <1>3, <2>1 DEF KeepInv, OnlyKeepers
  <2>3. ASSUME NEW s \in Sessions, due'[s] # None PROVE Unmoved(s)
        BY <1>3, <2>3 DEF Unmoved, Stream, TypeInv, ValuesOK
  <2> QED BY <2>2, <2>3, AllUnmovedKeep DEF KeepInv
<1>4. ASSUME NEW t \in Sessions, FirstTry(p, t)
      PROVE  KeepInv'
  <2>1. /\ pc[p] = "offer" /\ t \in targets[p] /\ ~Making(p)
        /\ UNCHANGED <<session, received>>
        BY <1>4 DEF FirstTry, Making
  <2>2. CASE Send(p, t, Entry(p))
    <3>1. /\ session[t] = "open" /\ buffer' = [buffer EXCEPT ![t] = Append(@, Entry(p))]
          /\ pc' = [pc EXCEPT ![p] = "offer"] /\ targets' = [targets EXCEPT ![p] = @ \ {t}]
          /\ channel' = [channel EXCEPT ![p] = None] /\ UNCHANGED <<event, due>>
          BY <2>2 DEF Send, Offered
    <3>2. OnlyKeepers'
          BY <2>1, <3>1 DEF KeepInv, OnlyKeepers, Making, TypeInv, ValuesOK
    <3> QED BY <2>1, <2>2, <3>2, SendKeepsUp DEF KeepInv
  <2>3. CASE FindFull(p, t)
    <3>1. /\ channel' = [channel EXCEPT ![p] = t] /\ due' = [due EXCEPT ![t] = None]
          /\ \E c \in {"take", "again"} : pc' = [pc EXCEPT ![p] = c]
          /\ UNCHANGED <<buffer, event, targets>>
          BY <2>3 DEF FindFull
    <3>2. OnlyKeepers'
      <4>1. ASSUME NEW q \in Publishers, Making(q)' PROVE due'[channel'[q]] = None
        <5>1. CASE q = p
              BY <3>1, <5>1 DEF KeepInv, OnlyKeepers, TypeInv, ValuesOK
        <5>2. CASE q # p
          <6>1. Making(q) /\ channel'[q] = channel[q] /\ channel[q] \in Sessions
                BY <3>1, <4>1, <5>2 DEF Making, TypeInv, ValuesOK, LocalsOK
          <6> QED BY <3>1, <6>1 DEF KeepInv, OnlyKeepers
        <5> QED BY <5>1, <5>2
      <4> QED BY <2>1, <3>1, <4>1 DEF KeepInv, OnlyKeepers
    <3>3. ASSUME NEW s \in Sessions, due'[s] # None PROVE Unmoved(s)
          BY <2>1, <3>1, <3>3 DEF Unmoved, Stream, KeepInv, OnlyKeepers
    <3> QED BY <3>2, <3>3, AllUnmovedKeep DEF KeepInv
  <2> QED BY <1>2, <1>4, <2>1, <2>2, <2>3 DEF FirstTry
<1>5. ASSUME NEW t \in Sessions, Take(p, t) \/ PutBack(p, t) \/ SecondTry(p, t)
      PROVE  KeepInv'
  <2>1. /\ Making(p) /\ t = channel[p] /\ due[t] = None
        /\ UNCHANGED <<session, received>>
        BY <1>5 DEF Take, PutBack, SecondTry, Making, KeepInv, OnlyKeepers
  <2>2. ASSUME NEW x, Send(p, t, x) \/ Drop(p, t)
        PROVE  KeepInv'
    <3>1. /\ session[t] = "open" /\ Offered(p, t) /\ UNCHANGED due
          /\ \A s \in Sessions \ {t} : buffer'[s] = buffer[s]
          BY <2>2 DEF Send, Drop, TypeInv, ValuesOK
    <3>2. /\ targets' = [targets EXCEPT ![p] = @ \ {t}] /\ UNCHANGED event
          /\ \A q \in Publishers : Making(q)' => Making(q) /\ channel'[q] = channel[q]
          BY <3>1 DEF Offered, Making, TypeInv, ValuesOK
    <3> QED BY <1>3, <2>1, <3>1, <3>2
  <2>3. CASE TakeOldest(p, t) \/ FindEmpty(p, t)
    <3>1. /\ session[t] = "open" /\ UNCHANGED <<event, targets, channel, due>>
          /\ \A s \in Sessions \ {t} : buffer'[s] = buffer[s]
          /\ \E c \in {"again", "putBack"} : pc' = [pc EXCEPT ![p] = c]
          BY <2>3 DEF TakeOldest, FindEmpty, TypeInv, ValuesOK
    <3>2. \A q \in Publishers : Making(q)' => Making(q)
          BY <2>1, <3>1 DEF Making, TypeInv, ValuesOK
    <3> QED BY <1>3, <2>1, <3>1, <3>2
  <2> QED BY <1>2, <1>5, <2>1, <2>2, <2>3 DEF Take, PutBack, SecondTry
<1> QED BY <1>1, <1>4, <1>5, CopyKeepsUp DEF PublisherStep

(* A session that keeps up has every event published since it subscribed,  *)
(* each publisher's in order and once, but for the one still being         *)
(* offered: for any number of publishers and sessions and any buffer.      *)
THEOREM KeepingUpGetsAll == Spec => []KeepsUpGetsAll
<1>1. KeepInv => KeepsUpGetsAll
      BY DEF KeepInv
<1>2. TypeInv /\ KeepInv /\ [Next]_vars => KeepInv'
  <2> SUFFICES ASSUME TypeInv, KeepInv, [Next]_vars PROVE KeepInv'
      OBVIOUS
  <2>1. CASE UNCHANGED vars
    <3>1. OnlyKeepers'
          BY <2>1 DEF vars, sse, locals, KeepInv, OnlyKeepers, Making
    <3>2. ASSUME NEW s \in Sessions PROVE Unmoved(s)
          BY <2>1 DEF vars, sse, locals, Unmoved, Stream
    <3> QED BY <3>1, <3>2, AllUnmovedKeep DEF KeepInv
  <2> QED BY <2>1, ClientKeepsUp, PublishKeepsUp, StepKeepsUp DEF Next
<1> QED BY <1>1, <1>2, InitKeeps, StreamTypes, PTL DEF Spec

=============================================================================
