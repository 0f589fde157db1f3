------------------------ MODULE KafkaConsumer_proofs ------------------------
(***************************************************************************)
(* Proofs about KafkaConsumer for logs of any length, any retry            *)
(* configuration and any number of rebalances and crashes.                 *)
(***************************************************************************)
EXTENDS KafkaConsumer, SequenceTheorems, TLAPS

LEMMA InitTypeOK == Init => TypeOK
BY DEF Init, TypeOK, Kinds, Sessions, PCs

LEMMA NextTypeOK == TypeOK /\ [Next]_vars => TypeOK'
<1> SUFFICES ASSUME TypeOK, [Next]_vars
             PROVE  TypeOK'
    OBVIOUS
<1> USE OffsetAssumption DEF TypeOK, Kinds, Sessions, PCs, broker, consumer, history
<1>1. ASSUME NEW kind \in Kinds, Publish(kind)
      PROVE  TypeOK'
  <2>1. log' \in Seq(Kinds)
        BY <1>1, AppendProperties DEF Publish
  <2> QED BY <1>1, <2>1 DEF Publish
<1>2. CASE Join
  <2>1. Len(log) + 1 \in Nat
        BY LenProperties
  <2> QED BY <1>2, <2>1 DEF Join
<1>3. CASE Cancel
      BY <1>3 DEF Cancel
<1>4. CASE Leave
      BY <1>4 DEF Leave
<1>5. CASE Crash
      BY <1>5 DEF Crash
<1>6. CASE Deliver
  <2>1. /\ pc' \in {"badEnvelope", "handler", "commit"}
        /\ settled' \in {settled, settled \cup {next}}
        /\ session \in {"active", "cancelled"}
        BY <1>6 DEF Deliver
  <2>2. /\ msg' = next /\ next' = next + 1 /\ attempt' = 1
        /\ UNCHANGED <<broker, givenUp, session, marked, disruptions>>
        BY <1>6 DEF Deliver
  <2> QED BY <2>1, <2>2
<1>7. CASE HandlerSucceeds
      BY <1>7 DEF HandlerSucceeds
<1>8. CASE HandlerFails
      BY <1>8 DEF HandlerFails
<1>9. CASE BackoffExpires
      BY <1>9 DEF BackoffExpires
<1>10. CASE BackoffCancelled
      BY <1>10 DEF BackoffCancelled, Abandon
<1>11. CASE DeadLetter
      BY <1>11 DEF DeadLetter, MayDeadLetter
<1>12. CASE GiveUp
      BY <1>12 DEF GiveUp, Abandon
<1>13. CASE Commit
      BY <1>13 DEF Commit, MarkBeyond
<1>14. CASE UNCHANGED vars
      BY <1>14 DEF vars
<1> QED BY <1>1, <1>2, <1>3, <1>4, <1>5, <1>6, <1>7, <1>8, <1>9, <1>10, <1>11,
           <1>12, <1>13, <1>14 DEF Next, HandleMessage

(* Offsets and control stay well formed whatever the broker and the        *)
(* handlers do.                                                            *)
THEOREM TypeCorrect == Spec => []TypeOK
BY InitTypeOK, NextTypeOK, PTL DEF Spec

-----------------------------------------------------------------------------
(* The committed offset: a session starts there and reads upwards, so what *)
(* it commits lies above.                                                  *)
Frontier == IF pc = "idle" THEN next ELSE msg

CommitBehind ==
    session # "none" =>
        /\ marked <= Frontier
        /\ committed # NoOffset => committed <= Frontier

LEMMA NextCommitBehind ==
  ASSUME TypeOK, CommitBehind, [Next]_vars
  PROVE  /\ CommitBehind'
         /\ committed # NoOffset => committed' # NoOffset /\ committed' >= committed
<1> USE OffsetAssumption DEF TypeOK, Sessions, PCs, broker, consumer, history, CommitBehind, Frontier
<1> DEFINE Goal == /\ CommitBehind'
                   /\ committed # NoOffset => committed' # NoOffset /\ committed' >= committed
<1>1. ASSUME NEW kind \in Kinds, Publish(kind)
      PROVE  Goal
      BY <1>1 DEF Publish
<1>2. CASE Join
      BY <1>2 DEF Join
<1>3. CASE Cancel \/ Leave \/ Crash
      BY <1>3 DEF Cancel, Leave, Crash
<1>4. CASE Deliver
  <2>1. /\ session # "none" /\ pc = "idle" /\ pc' # "idle"
        /\ msg' = next
        /\ UNCHANGED <<committed, session, marked>>
        BY <1>4 DEF Deliver
  <2> QED BY <2>1
<1>5. CASE HandlerSucceeds \/ BackoffExpires
      BY <1>5 DEF HandlerSucceeds, BackoffExpires
<1>6. CASE HandlerFails
      BY <1>6 DEF HandlerFails
<1>7. CASE BackoffCancelled
      BY <1>7 DEF BackoffCancelled, Abandon
<1>8. CASE DeadLetter
      BY <1>8 DEF DeadLetter, MayDeadLetter
<1>9. CASE GiveUp
      BY <1>9 DEF GiveUp, Abandon
<1>10. CASE Commit
  <2>1. /\ pc = "commit" /\ pc' = "idle" /\ session # "none" /\ next = msg + 1
        /\ UNCHANGED <<session, next, msg>>
        /\ marked' \in {marked, msg + 1} /\ marked' >= msg + 1
        /\ committed' \in {committed, marked'}
        BY <1>10 DEF Commit, MarkBeyond
  <2>2. marked' <= next' /\ (committed' # NoOffset => committed' <= next')
        BY <2>1
  <2>3. CommitBehind'
        BY <2>1, <2>2
  <2>4. ASSUME committed # NoOffset
        PROVE  committed' # NoOffset /\ committed' >= committed
        BY <2>1, <2>4
  <2> QED BY <2>3, <2>4
<1>11. CASE UNCHANGED vars
      BY <1>11 DEF vars
<1> QED BY <1>1, <1>2, <1>3, <1>4, <1>5, <1>6, <1>7, <1>8, <1>9, <1>10, <1>11
        DEF Next, HandleMessage

(* The committed offset never moves back, with or without a dead-letter    *)
(* topic and whatever is still read after a cancellation.                  *)
THEOREM CommitMovesForward == Spec => CommitForward
<1>1. Init => TypeOK /\ CommitBehind
      BY InitTypeOK DEF Init, CommitBehind
<1>2. TypeOK /\ CommitBehind /\ [Next]_vars => (TypeOK /\ CommitBehind)'
      BY NextTypeOK, NextCommitBehind
<1>3. TypeOK /\ CommitBehind /\ [Next]_vars =>
         [committed # NoOffset => committed' # NoOffset /\ committed' >= committed]_vars
      BY NextCommitBehind
<1> QED BY <1>1, <1>2, <1>3, PTL DEF Spec, CommitForward

-----------------------------------------------------------------------------
(***************************************************************************)
(* What commits skip.  The commit of a message covers every offset below   *)
(* it, so what must be invariant is that a session leaves nothing behind   *)
(* from where it joined up to the message in hand, but what it settled and *)
(* what it gave up itself.  What an earlier session gave up does not count *)
(* for it, since it starts at the committed offset.                        *)
(***************************************************************************)
Accounted(o) == o \in settled \/ \E s \in Sessions : <<o, s>> \in givenUp

SkipInv ==
    /\ session # "none" => base # NoOffset /\ \A o \in Low..(Frontier - 1) : Accounted(o)
    /\ committed # NoOffset => base # NoOffset
    /\ pc = "commit" => msg \in settled

SkipsOnly == \A o \in Low..(committed' - 1) : Accounted(o)

LEMMA NextSkipInv ==
  ASSUME TypeOK, CommitBehind, SkipInv, [Next]_vars
  PROVE  /\ SkipInv'
         /\ committed' # committed => SkipsOnly
<1> USE OffsetAssumption
    DEF TypeOK, PCs, broker, consumer, history, SkipInv, Low, Frontier, Accounted
<1> DEFINE Goal == SkipInv' /\ (committed' # committed => SkipsOnly)
<1>1. ASSUME NEW kind \in Kinds, Publish(kind)
      PROVE  Goal
      BY <1>1 DEF Publish
<1>2. CASE Join
  <2>1. /\ pc = "idle" /\ pc' = "idle" /\ committed' = committed
        /\ next' = Low' /\ base' # NoOffset
        BY <1>2, LenProperties DEF Join
  <2>2. Low'..(Frontier' - 1) = {}
        BY <2>1, <1>2, LenProperties DEF Join
  <2> QED BY <2>1, <2>2
<1>3. CASE Cancel \/ Leave \/ Crash
      BY <1>3 DEF Cancel, Leave, Crash, Sessions
<1>4. CASE Deliver
  <2>1. /\ session # "none" /\ pc = "idle" /\ pc' # "idle"
        /\ msg' = next
        /\ UNCHANGED <<committed, base, session, givenUp>>
        /\ settled' \in {settled, settled \cup {next}}
        /\ pc' = "commit" => settled' = settled \cup {next}
        BY <1>4 DEF Deliver
  <2> QED BY <2>1
<1>5. CASE HandlerSucceeds \/ DeadLetter
      BY <1>5 DEF HandlerSucceeds, DeadLetter, MayDeadLetter
<1>6. CASE HandlerFails \/ BackoffExpires
      BY <1>6 DEF HandlerFails, BackoffExpires
<1>7. CASE BackoffCancelled \/ GiveUp
  <2>1. /\ pc # "idle" /\ pc' = "idle" /\ next = msg + 1
        /\ session \in Sessions
        /\ givenUp' = givenUp \cup {<<msg, session>>}
        /\ UNCHANGED <<committed, base, settled, session, next, msg>>
        BY <1>7 DEF BackoffCancelled, GiveUp, Abandon
  <2>2. Accounted(msg)'
        BY <2>1
  <2>3. ASSUME session # "none", NEW o \in Low..(next - 1)
        PROVE  Accounted(o)'
    <3>1. CASE o = msg
          BY <2>2, <3>1, <2>1
    <3>2. CASE o # msg
      <4>1. o \in Low..(Frontier - 1)
            BY <2>1, <2>3, <3>2
      <4>2. Accounted(o)
            BY <4>1, <2>3
      <4> QED BY <4>2, <2>1
    <3> QED BY <3>1, <3>2
  <2>4. SkipInv'
        BY <2>1, <2>3
  <2> QED BY <2>1, <2>4
<1>8. CASE Commit
  <2>1. /\ pc = "commit" /\ pc' = "idle" /\ session # "none" /\ next = msg + 1
        /\ msg \in settled
        /\ UNCHANGED <<base, settled, session, next, msg, givenUp>>
        /\ marked' \in {marked, msg + 1} /\ marked' >= msg + 1
        /\ committed' \in {committed, marked'}
        BY <1>8 DEF Commit, MarkBeyond
  <2>2. marked' <= next
        BY <2>1 DEF CommitBehind
  <2>3. ASSUME NEW o \in Low..(next - 1)
        PROVE  Accounted(o)
    <3>1. CASE o = msg
          BY <2>1, <3>1
    <3>2. CASE o # msg
      <4>1. Low \in Nat /\ o \in Low..(Frontier - 1)
            BY <2>1, <3>2
      <4> QED BY <4>1, <2>1
    <3> QED BY <3>1, <3>2
  <2>4. ASSUME committed' # committed
        PROVE  SkipsOnly
    <3>1. committed' \in Nat /\ committed' <= next /\ Low \in Nat
          BY <2>1, <2>2, <2>4
    <3>2. ASSUME NEW lo \in Nat, NEW hi \in Nat, NEW top \in Nat, hi <= top
          PROVE  lo..(hi - 1) \subseteq lo..(top - 1)
          BY <3>2
    <3>3. next \in Nat
          OBVIOUS
    <3> HIDE DEF Low, Accounted
    <3>4. Low..(committed' - 1) \subseteq Low..(next - 1)
          BY <3>1, <3>2, <3>3, Zenon
    <3> QED BY <2>3, <3>4 DEF SkipsOnly
  <2>5. SkipInv'
    <3>1. CASE committed' = committed
          BY <2>1, <2>3, <3>1
    <3>2. CASE committed' # committed
      <4>1. committed' = next /\ base # NoOffset
            BY <2>1, <2>2, <3>2
      <4>2. Low'..(Frontier' - 1) = {}
            BY <2>1, <4>1
      <4> QED BY <2>1, <4>1, <4>2
    <3> QED BY <3>1, <3>2
  <2> QED BY <2>4, <2>5
<1>9. CASE UNCHANGED vars
      BY <1>9 DEF vars
<1> QED BY <1>1, <1>2, <1>3, <1>4, <1>5, <1>6, <1>7, <1>8, <1>9
        DEF Next, HandleMessage

LEMMA SkipInvHolds == Spec => [](TypeOK /\ CommitBehind /\ SkipInv)
<1>1. Init => TypeOK /\ CommitBehind /\ SkipInv
      BY InitTypeOK DEF Init, CommitBehind, SkipInv
<1>2. TypeOK /\ CommitBehind /\ SkipInv /\ [Next]_vars =>
         (TypeOK /\ CommitBehind /\ SkipInv)'
      BY NextTypeOK, NextCommitBehind, NextSkipInv
<1> QED BY <1>1, <1>2, PTL DEF Spec

(* In every configuration - with or without a producer, a dead-letter      *)
(* topic that accepts, commits that succeed, and however many buffered     *)
(* messages a cancelled session still reads - a commit moves past no       *)
(* message but those settled and those its own session gave up.            *)
THEOREM CommitsSkipOnlyGivenUp == Spec => CommitSkips
<1>1. TypeOK /\ CommitBehind /\ SkipInv /\ [Next]_vars =>
         [committed' # committed =>
            \A o \in Low..(committed' - 1) :
                o \in settled \/ \E s \in Sessions : <<o, s>> \in givenUp]_vars
      BY NextSkipInv DEF SkipsOnly, Accounted
<1> QED BY <1>1, SkipInvHolds, PTL DEF Spec, CommitSkips

(* The loss that remains takes a session that is being cancelled: with the *)
(* consumer that main builds and a dead-letter topic that accepts, what an *)
(* active session commits past was settled.                                *)
ActiveCommitsSettled ==
    [][session = "active" /\ committed' # committed =>
          \A o \in Low..(committed' - 1) : o \in settled]_vars

ActiveGivesUpNothing == session = "active" => givenUp = {}

LEMMA NextActiveGivesUpNothing ==
  ASSUME HasProducer, ~DlqFails, ActiveGivesUpNothing, [Next]_vars
  PROVE  ActiveGivesUpNothing'
<1> USE DEF ActiveGivesUpNothing, broker, consumer, history
<1>1. ASSUME NEW kind \in Kinds, Publish(kind)
      PROVE  ActiveGivesUpNothing'
      BY <1>1 DEF Publish
<1>2. CASE Join \/ Cancel \/ Leave \/ Crash
      BY <1>2 DEF Join, Cancel, Leave, Crash
<1>3. CASE Deliver \/ HandlerSucceeds \/ HandlerFails \/ BackoffExpires \/ DeadLetter \/ Commit
      BY <1>3 DEF Deliver, HandlerSucceeds, HandlerFails, BackoffExpires, DeadLetter, Commit
<1>4. CASE BackoffCancelled
      BY <1>4 DEF BackoffCancelled
<1>5. CASE GiveUp
      BY <1>5 DEF GiveUp, MayDeadLetter
<1>6. CASE UNCHANGED vars
      BY <1>6 DEF vars
<1> QED BY <1>1, <1>2, <1>3, <1>4, <1>5, <1>6 DEF Next, HandleMessage

(* As stated above: rebalances, crashes and failed commits in earlier      *)
(* sessions, and any number of failing handlers in this one, do not make   *)
(* an active session lose a message.                                       *)
THEOREM NoLossWhileActive ==
  ASSUME HasProducer, ~DlqFails
  PROVE  Spec => ActiveCommitsSettled
<1>1. Init => ActiveGivesUpNothing
      BY DEF Init, ActiveGivesUpNothing
<1>2. ActiveGivesUpNothing /\ [Next]_vars => ActiveGivesUpNothing'
      BY NextActiveGivesUpNothing
<1>3. /\ TypeOK /\ CommitBehind /\ SkipInv /\ ActiveGivesUpNothing /\ [Next]_vars
      => [session = "active" /\ committed' # committed =>
            \A o \in Low..(committed' - 1) : o \in settled]_vars
      BY NextSkipInv DEF SkipsOnly, Accounted, ActiveGivesUpNothing
<1> QED BY <1>1, <1>2, <1>3, SkipInvHolds, PTL DEF Spec, ActiveCommitsSettled

-----------------------------------------------------------------------------
(* Redelivery: as long as nothing was disrupted there has been one session *)
(* at most, and its claim lies beyond everything that was settled.         *)
FreshInv ==
    disruptions = 0 =>
        /\ session # "cancelled"
        /\ session = "none" => settled = {}
        /\ \A o \in settled : o < next

LEMMA NextFreshInv ==
  ASSUME TypeOK, FreshInv, [Next]_vars
  PROVE  FreshInv'
<1> USE DEF TypeOK, Sessions, broker, consumer, history, FreshInv
<1>1. ASSUME NEW kind \in Kinds, Publish(kind)
      PROVE  FreshInv'
      BY <1>1 DEF Publish
<1>2. CASE Join
      BY <1>2 DEF Join
<1>3. CASE Cancel \/ Leave \/ Crash
      BY <1>3 DEF Cancel, Leave, Crash
<1>4. CASE Deliver
  <2>1. /\ session # "none" /\ next' = next + 1
        /\ UNCHANGED <<session, disruptions>>
        /\ settled' \in {settled, settled \cup {next}}
        BY <1>4 DEF Deliver
  <2> QED BY <2>1
<1>5. CASE HandlerSucceeds \/ DeadLetter
  <2>1. /\ pc # "idle" /\ settled' = settled \cup {msg}
        /\ UNCHANGED <<session, next, disruptions>>
        BY <1>5 DEF HandlerSucceeds, DeadLetter, MayDeadLetter
  <2> QED BY <2>1
<1>6. CASE HandlerFails \/ BackoffExpires \/ BackoffCancelled \/ GiveUp \/ Commit
      BY <1>6 DEF HandlerFails, BackoffExpires, BackoffCancelled, GiveUp, Commit, Abandon
<1>7. CASE UNCHANGED vars
      BY <1>7 DEF vars
<1> QED BY <1>1, <1>2, <1>3, <1>4, <1>5, <1>6, <1>7 DEF Next, HandleMessage

(* Without a rebalance or a crash no settled message is handed over again, *)
(* whatever the handlers, the dead-letter topic and the commits do.        *)
THEOREM RedeliveryIsDisruption == Spec => RedeliveryNeedsDisruption
<1>1. Init => FreshInv
      BY DEF Init, FreshInv
<1>2. TypeOK /\ FreshInv /\ [Next]_vars => FreshInv'
      BY NextFreshInv
<1>3. TypeOK /\ FreshInv /\ [Next]_vars => [Deliver /\ next \in settled => disruptions > 0]_vars
      BY DEF TypeOK, FreshInv
<1> QED BY <1>1, <1>2, <1>3, TypeCorrect, PTL DEF Spec, RedeliveryNeedsDisruption

=============================================================================
