--------------------------- MODULE KafkaConsumer ---------------------------
(***************************************************************************)
(* One partition read by one consumer group: HandleMessage with its retry, *)
(* dead-letter and commit paths, driven by the ConsumeClaim loop, under    *)
(* rebalances and crashes.  Auto-commit is off and a group without a       *)
(* committed offset starts at the newest message.                          *)
(***************************************************************************)
EXTENDS Integers, Sequences

CONSTANTS
    MaxMessages,        \* bound on the log
    MaxAttempts,        \* RetryConfig.MaxAttempts
    MaxDisruptions,     \* bound on rebalances and crashes
    HasProducer,        \* is Consumer.producer set?
    DlqFails,           \* may PublishDLQ return an error?
    NoOffset

ASSUME OffsetAssumption == NoOffset \notin Int
ASSUME AttemptsAssumption == MaxAttempts \in Int

VARIABLES
    log,          \* the partition: kinds of messages, offsets from 1
    committed,    \* the group's committed offset: the next one to read
    base,         \* first offset of the group's reading (bookkeeping)
    settled,      \* offsets handled, dead-lettered or without a handler
    givenUp,      \* offsets that this session returned from without a commit,
                  \* with the session's state at that moment
    session,      \* "none", "active" or "cancelled"
    next,         \* offset the claim delivers next
    pc,           \* where HandleMessage is
    msg,          \* offset of the message in hand
    attempt,      \* attempts made by retry
    marked,       \* highest offset marked in this session
    disruptions   \* rebalances and crashes so far

broker   == <<log, committed, base>>
consumer == <<session, next, pc, msg, attempt, marked>>
history  == <<settled, givenUp>>
vars     == <<broker, history, consumer, disruptions>>

\* An envelope that does not parse, a topic without handler, a business event.
Kinds    == {"bad", "unhandled", "event"}
Sessions == {"none", "active", "cancelled"}
PCs      == {"idle", "handler", "backoff", "failed", "badEnvelope", "commit"}

\* retry makes at least one attempt.
Attempts == IF MaxAttempts <= 0 THEN 1 ELSE MaxAttempts

Init ==
    /\ log = <<>>
    /\ committed = NoOffset
    /\ base = NoOffset
    /\ settled = {}
    /\ givenUp = {}
    /\ session = "none"
    /\ next = 1
    /\ pc = "idle"
    /\ msg = 0
    /\ attempt = 0
    /\ marked = 0
    /\ disruptions = 0

Publish(kind) ==
    /\ Len(log) < MaxMessages
    /\ log' = Append(log, kind)
    /\ UNCHANGED <<committed, base, history, consumer, disruptions>>

-----------------------------------------------------------------------------
(* Sessions of the consumer group.                                         *)

\* Fault: every session starts at the first message again.
JoinOldest ==
    /\ session = "none"
    /\ session' = "active"
    /\ next' = IF committed = NoOffset THEN Len(log) + 1 ELSE base
    /\ base' = IF committed = NoOffset THEN Len(log) + 1 ELSE base
    /\ marked' = 0
    /\ givenUp' = {}
    /\ UNCHANGED <<log, committed, settled, pc, msg, attempt, disruptions>>

Join ==
    /\ session = "none"
    /\ session' = "active"
    /\ next' = IF committed = NoOffset THEN Len(log) + 1 ELSE committed
    /\ base' = IF committed = NoOffset THEN Len(log) + 1 ELSE base
    /\ marked' = 0
    /\ givenUp' = {}
    /\ UNCHANGED <<log, committed, settled, pc, msg, attempt, disruptions>>

\* Rebalance or shutdown: the session's context is cancelled.
Cancel ==
    /\ session = "active"
    /\ disruptions < MaxDisruptions
    /\ disruptions' = disruptions + 1
    /\ session' = "cancelled"
    /\ UNCHANGED <<broker, history, next, pc, msg, attempt, marked>>

\* The claim's channel is closed and empty, so ConsumeClaim returns.  How many
\* messages it still held when the session was cancelled is left open.
Leave ==
    /\ session = "cancelled"
    /\ pc = "idle"
    /\ session' = "none"
    /\ UNCHANGED <<broker, history, next, pc, msg, attempt, marked, disruptions>>

Crash ==
    /\ session # "none"
    /\ disruptions < MaxDisruptions
    /\ disruptions' = disruptions + 1
    /\ session' = "none"
    /\ pc' = "idle"
    /\ UNCHANGED <<broker, history, next, msg, attempt, marked>>

-----------------------------------------------------------------------------
(* HandleMessage.                                                          *)

\* Fault: an abandoned message is committed.
AbandonCommitting ==
    /\ pc' = "commit"
    /\ UNCHANGED givenUp

\* A return without a commit.  The error is dropped by ConsumeClaim, which
\* goes on to the next message of the channel, in a cancelled session too.
Abandon ==
    /\ pc' = "idle"
    /\ givenUp' = givenUp \cup {<<msg, session>>}

\* Fault: the claim does not advance.
DeliverAgain ==
    /\ session = "active"
    /\ pc = "idle"
    /\ next <= Len(log)
    /\ msg' = next
    /\ attempt' = 1
    /\ \/ log[next] = "bad" /\ pc' = "badEnvelope" /\ UNCHANGED settled
       \/ log[next] = "event" /\ pc' = "handler" /\ UNCHANGED settled
       \/ log[next] = "unhandled" /\ pc' = "commit" /\ settled' = settled \cup {next}
    /\ UNCHANGED <<broker, givenUp, next, session, marked, disruptions>>

\* The channel is read until it is closed, whatever the session's context says.
Deliver ==
    /\ session # "none"
    /\ pc = "idle"
    /\ next <= Len(log)
    /\ msg' = next
    /\ next' = next + 1
    /\ attempt' = 1
    /\ \/ log[next] = "bad" /\ pc' = "badEnvelope" /\ UNCHANGED settled
       \/ log[next] = "event" /\ pc' = "handler" /\ UNCHANGED settled
       \/ log[next] = "unhandled" /\ pc' = "commit" /\ settled' = settled \cup {next}
    /\ UNCHANGED <<broker, givenUp, session, marked, disruptions>>

HandlerSucceeds ==
    /\ pc = "handler"
    /\ settled' = settled \cup {msg}
    /\ pc' = "commit"
    /\ UNCHANGED <<broker, givenUp, session, next, msg, attempt, marked, disruptions>>

HandlerFails ==
    /\ pc = "handler"
    /\ pc' = IF attempt = Attempts THEN "failed" ELSE "backoff"
    /\ UNCHANGED <<broker, history, session, next, msg, attempt, marked, disruptions>>

\* Fault: attempts are not counted.
BackoffUncounted ==
    /\ pc = "backoff"
    /\ pc' = "handler"
    /\ UNCHANGED <<broker, history, session, next, msg, attempt, marked, disruptions>>

BackoffExpires ==
    /\ pc = "backoff"
    /\ attempt' = attempt + 1
    /\ pc' = "handler"
    /\ UNCHANGED <<broker, history, session, next, msg, marked, disruptions>>

BackoffCancelled ==
    /\ pc = "backoff"
    /\ session = "cancelled"
    /\ Abandon
    /\ UNCHANGED <<broker, settled, session, next, msg, attempt, marked, disruptions>>

\* Both PublishEnvelope and the failed handler's path look at the context.
MayDeadLetter ==
    /\ HasProducer
    /\ pc \in {"failed", "badEnvelope"}
    /\ session # "cancelled"

DeadLetter ==
    /\ MayDeadLetter
    /\ settled' = settled \cup {msg}
    /\ pc' = "commit"
    /\ UNCHANGED <<broker, givenUp, session, next, msg, attempt, marked, disruptions>>

\* No producer, a cancelled context or a failed PublishDLQ.
GiveUp ==
    /\ pc \in {"failed", "badEnvelope"}
    /\ MayDeadLetter => DlqFails
    /\ Abandon
    /\ UNCHANGED <<broker, settled, session, next, msg, attempt, marked, disruptions>>

MarkBeyond(o) == IF o + 1 > marked THEN o + 1 ELSE marked

\* MarkMessage, then Commit; a commit that fails is made up for by the next.
Commit ==
    /\ pc = "commit"
    /\ marked' = MarkBeyond(msg)
    /\ committed' \in {committed, marked'}
    /\ pc' = "idle"
    /\ UNCHANGED <<log, base, history, session, next, msg, attempt, disruptions>>

HandleMessage ==
    \/ Deliver
    \/ HandlerSucceeds
    \/ HandlerFails
    \/ BackoffExpires
    \/ BackoffCancelled
    \/ DeadLetter
    \/ GiveUp
    \/ Commit

Next ==
    \/ \E kind \in Kinds : Publish(kind)
    \/ Join
    \/ Cancel
    \/ Leave
    \/ Crash
    \/ HandleMessage

Spec == Init /\ [][Next]_vars

\* Start consumes again whenever a session ends, and the claim's goroutine
\* keeps running.
Fairness == WF_vars(Join) /\ WF_vars(Leave) /\ WF_vars(HandleMessage)

FairSpec == Spec /\ Fairness

-----------------------------------------------------------------------------
(* Offsets have their types; a message is in hand exactly inside a session *)
(* and is the one delivered last.                                          *)
TypeOK ==
    /\ log \in Seq(Kinds)
    /\ committed \in Nat \cup {NoOffset}
    /\ base \in Nat \cup {NoOffset}
    /\ settled \subseteq Nat
    /\ givenUp \subseteq Nat \X Sessions
    /\ session \in Sessions
    /\ next \in Nat
    /\ pc \in PCs
    /\ msg \in Nat
    /\ attempt \in Nat
    /\ marked \in Nat
    /\ disruptions \in Nat
    /\ pc # "idle" => session # "none" /\ msg + 1 = next

(* Where the group would start reading if it joined again.                 *)
Low == IF committed = NoOffset THEN base ELSE committed

(* What a commit skips: when the committed offset moves, every message it  *)
(* moves past was handled, dead-lettered or without a handler, or was      *)
(* given up in this very session (consumer.go:84, 88, 91, 110), whose      *)
(* error ConsumeClaim drops.  A crash, a failed commit and a message given *)
(* up in an earlier session lose nothing: the message is read again first. *)
CommitSkips ==
    [][committed' # committed =>
          \A o \in Low..(committed' - 1) :
              o \in settled \/ \E s \in Sessions : <<o, s>> \in givenUp]_vars

(* The committed offset never moves back.                                  *)
CommitForward ==
    [][committed # NoOffset => committed' # NoOffset /\ committed' >= committed]_vars

(* A message that was settled is handed over again only after a rebalance  *)
(* or a crash.                                                             *)
RedeliveryNeedsDisruption ==
    [][Deliver /\ next \in settled => disruptions > 0]_vars

(* The messages the group has yet to commit: those before a base chosen    *)
(* anew, because nothing was ever committed, are not among them.           *)
Due(o) == base # NoOffset /\ Low <= o /\ o <= Len(log)

(* No message blocks the partition: one that fails for ever, one given up  *)
(* to a rebalance or one left by a crash is read again and settled in the  *)
(* end, unless an active session had its dead letter refused or a commit   *)
(* moved past it.                                                          *)
EventuallySettled ==
    \A o \in 1..MaxMessages :
        Due(o) ~> (o \in settled \/ <<o, "active">> \in givenUp \/ ~Due(o))
=============================================================================
