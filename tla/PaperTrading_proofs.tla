------------------------ MODULE PaperTrading_proofs ------------------------
(***************************************************************************)
(* Proofs about PaperTrading for every set of orders, fills, threads and   *)
(* every limit.                                                            *)
(***************************************************************************)
EXTENDS PaperTrading, FiniteSetTheorems, SequenceTheorems, TLAPS

-----------------------------------------------------------------------------
(* Type correctness, one lemma per part of the cycle.                      *)

LEMMA InitTypeOK == Init => TypeOK
BY IdsAssumption
   DEF Init, TypeOK, ColumnsOK, LocalsOK, ControlOK, Holds, Threads, Statuses,
       PCs, SyntheticCap

\* The steps that open an order keep the types.
LEMMA PlaceOrderTypeOK == TypeOK /\ (RunOnceStart \/ PlaceOrder) => TypeOK'
<1> SUFFICES ASSUME TypeOK, RunOnceStart \/ PlaceOrder
             PROVE  TypeOK'
    OBVIOUS
<1> USE IdsAssumption
    DEF TypeOK, ColumnsOK, LocalsOK, ControlOK, Holds, Threads, Statuses, PCs,
        GoTo, tables
<1>1. CASE RunOnceStart
      BY <1>1 DEF RunOnceStart
<1>2. CASE RiskApprove
      BY <1>2 DEF RiskApprove
<1>3. CASE PlaceOrderRefused
      BY <1>3 DEF PlaceOrderRefused
<1>4. ASSUME NEW i \in Ids, NEW f \in Fills[i], SaveOpenTrade(i, f)
      PROVE  TypeOK'
  <2>1. f \in AllFills
        BY <1>4 DEF AllFills
  <2> QED BY <1>4, <2>1 DEF SaveOpenTrade
<1>5. CASE SaveOpenPosition
      BY <1>5 DEF SaveOpenPosition
<1> QED BY <1>1, <1>2, <1>3, <1>4, <1>5 DEF PlaceOrder

\* The steps of the position monitor keep the types.
LEMMA MonitorTypeOK ==
  ASSUME NEW t \in Threads, TypeOK, Monitor(t)
  PROVE  TypeOK'
<1> USE IdsAssumption
    DEF TypeOK, ColumnsOK, LocalsOK, ControlOK, Holds, Threads, Statuses, PCs,
        GoTo, tables
<1>1. CASE ListOpenPositions(t)
      BY <1>1 DEF ListOpenPositions, MonitorStart, OpenIds
<1>2. CASE MonitorFails(t)
      BY <1>2 DEF MonitorFails, MonitorStart
<1>3. ASSUME NEW i \in Ids, UpdateOpenPosition(t, i)
      PROVE  TypeOK'
  <2>1. exits[t] \in Seq(Ids) /\ i \in Ids
        BY <1>3
  <2>2. Append(exits[t], i) \in Seq(Ids) /\ Append(exits[t], i) # <<>>
        BY ONLY <2>1, AppendProperties
  <2>3. exits' \in {exits, [exits EXCEPT ![t] = Append(exits[t], i)]}
        BY <1>3 DEF UpdateOpenPosition, Decide
  <2>4. exits' \in [Threads -> Seq(Ids)]
        BY ONLY <2>2, <2>3, exits \in [Threads -> Seq(Ids)]
  <2>5. \A u \in Threads : exits[u] # <<>> => exits'[u] # <<>>
        BY ONLY <2>2, <2>3, exits \in [Threads -> Seq(Ids)]
  <2>6. position' \in [Ids -> Statuses]
        BY <1>3 DEF UpdateOpenPosition
  <2>7. candidates' \subseteq Ids
        BY <1>3 DEF UpdateOpenPosition, Decide
  <2>8. ColumnsOK'
        BY <1>3, <2>6, <2>7 DEF UpdateOpenPosition
  <2>9. LocalsOK'
        BY <1>3, <2>4 DEF UpdateOpenPosition
  <2>10. ControlOK'
        BY <1>3, <2>5 DEF UpdateOpenPosition
  <2> QED BY <2>8, <2>9, <2>10
<1>4. ASSUME NEW i \in Ids, SkipOpenPosition(t, i)
      PROVE  TypeOK'
      BY <1>4 DEF SkipOpenPosition
<1>5. CASE MonitorDone(t)
      BY <1>5 DEF MonitorDone, Resume
<1> QED BY <1>1, <1>2, <1>3, <1>4, <1>5 DEF Monitor

\* The steps of a close keep the types.
LEMMA CloseTypeOK ==
  ASSUME NEW t \in Threads, TypeOK, Close(t)
  PROVE  TypeOK'
<1> USE IdsAssumption
    DEF TypeOK, ColumnsOK, LocalsOK, ControlOK, Holds, Threads, Statuses, PCs,
        GoTo, tables
<1>1. CASE NextExit(t)
  <2>1. Head(exits[t]) \in Ids /\ Tail(exits[t]) \in Seq(Ids)
        BY <1>1, HeadTailProperties DEF NextExit
  <2> QED BY <1>1, <2>1 DEF NextExit, Load
<1>2. CASE SaveClosedPosition(t)
      BY <1>2 DEF SaveClosedPosition
<1>3. CASE CloseFails(t)
      BY <1>3 DEF CloseFails, Return, Resume
<1>4. CASE MatchOpenTrade(t)
  <2>1. \E j \in Ids \cup {NoId} : match' = [match EXCEPT ![t] = j]
        BY <1>4 DEF MatchOpenTrade, MatchingOpenTrades
  <2> QED BY <1>4, <2>1 DEF MatchOpenTrade
<1>5. CASE SaveClosedTrade(t)
      BY <1>5 DEF SaveClosedTrade, Return, Resume
<1>6. CASE InsertClosedTrade(t)
      BY <1>6 DEF InsertClosedTrade, Return, Resume, SyntheticCap
<1>7. CASE SaveTradeFails(t)
      BY <1>7 DEF SaveTradeFails, Return, Resume
<1> QED BY <1>1, <1>2, <1>3, <1>4, <1>5, <1>6, <1>7 DEF Close

\* A new close and a restart keep the types.
LEMMA StartTypeOK ==
  ASSUME NEW t \in Threads, TypeOK, Start(t)
  PROVE  TypeOK'
<1> USE IdsAssumption
    DEF TypeOK, ColumnsOK, LocalsOK, ControlOK, Holds, Threads, Statuses, PCs,
        GoTo, Load, tables
<1>1. ASSUME NEW i \in Ids, CloseRequest(t, i)
      PROVE  TypeOK'
      BY <1>1 DEF CloseRequest
<1>2. ASSUME NEW i \in Ids, ConsumeExitCandidate(t, i)
      PROVE  TypeOK'
      BY <1>2 DEF ConsumeExitCandidate
<1> QED BY <1>1, <1>2 DEF Start

LEMMA CrashTypeOK == TypeOK /\ Crash => TypeOK'
BY IdsAssumption
   DEF Crash, TypeOK, ColumnsOK, LocalsOK, ControlOK, Holds, Threads, Statuses,
       PCs, tables

LEMMA NextTypeOK == TypeOK /\ [Next]_vars => TypeOK'
<1> SUFFICES ASSUME TypeOK, [Next]_vars
             PROVE  TypeOK'
    OBVIOUS
<1>1. CASE RunOnceStart \/ PlaceOrder
      BY <1>1, PlaceOrderTypeOK
<1>2. ASSUME NEW t \in Threads, Step(t)
      PROVE  TypeOK'
      BY <1>2, MonitorTypeOK, CloseTypeOK DEF Step
<1>3. ASSUME NEW t \in Threads, Start(t)
      PROVE  TypeOK'
      BY <1>3, StartTypeOK
<1>4. CASE Crash
      BY <1>4, CrashTypeOK
<1>5. CASE UNCHANGED vars
      BY <1>5
      DEF vars, tables, locals, TypeOK, ColumnsOK, LocalsOK, ControlOK, Holds
<1> QED BY <1>1, <1>2, <1>3, <1>4, <1>5 DEF Next

(* The tables and the threads' locals are well formed in every state, with *)
(* any number of concurrent closes, failures and restarts.                 *)
THEOREM TypeCorrect == Spec => []TypeOK
<1>1. Init => TypeOK
      BY InitTypeOK
<1>2. TypeOK /\ [Next]_vars => TypeOK'
      BY NextTypeOK
<1> QED BY <1>1, <1>2, PTL DEF Spec

-----------------------------------------------------------------------------
(***************************************************************************)
(* The position limit.  OpenLimit is not inductive: a position is saved    *)
(* one step after the trade and two steps after the risk check, and the    *)
(* monitor may turn a closed position back to "open".  LimitInv adds what  *)
(* makes both harmless in the live thread: the check still has its room    *)
(* while an order is under way, since only this thread opens positions,    *)
(* and the copies left to write back fit below the limit together with     *)
(* what is open, since no order is placed while the monitor runs.          *)
(***************************************************************************)
RoomForOrder ==
    pc[Live] \in {"approved", "tradeSaved"} => Cardinality(OpenIds) < MaxTotalOpenPositions

RoomForCopies ==
    pc[Live] = "monitor" => Cardinality(OpenIds \cup todo[Live]) <= MaxTotalOpenPositions

OnlyLiveMonitors == \A t \in Http : pc[t] # "monitor"

LimitInv == RoomForOrder /\ RoomForCopies /\ OnlyLiveMonitors /\ OpenLimit

\* Every set of orders has a cardinality, and a smaller set a smaller one.
LEMMA OrderSets ==
  ASSUME NEW S \in SUBSET Ids, NEW T \in SUBSET S
  PROVE  /\ Cardinality(S) \in Nat
         /\ Cardinality(T) \in Nat
         /\ Cardinality(T) <= Cardinality(S)
<1>1. IsFiniteSet(S)
      BY IdsAssumption, FS_Subset
<1>2. IsFiniteSet(T)
      BY <1>1, FS_Subset
<1> QED BY <1>1, <1>2, FS_Subset, FS_CardinalityType

\* A step that opens nothing and neither starts nor feeds an order or a
\* monitoring pass keeps the invariant.
LEMMA OpensNothing ==
  ASSUME TypeOK, LimitInv,
         OpenIds' \subseteq OpenIds,
         pc'[Live] \in {"approved", "tradeSaved"} => pc[Live] \in {"approved", "tradeSaved"},
         pc'[Live] = "monitor" => pc[Live] = "monitor" /\ todo'[Live] \subseteq todo[Live],
         \A t \in Http : pc'[t] # "monitor"
  PROVE  LimitInv'
<1>1. OpenIds \subseteq Ids /\ todo[Live] \subseteq Ids
      BY DEF OpenIds, TypeOK, LocalsOK, Threads
<1>2. Cardinality(OpenIds') \in Nat /\ Cardinality(OpenIds) \in Nat
        /\ Cardinality(OpenIds') <= Cardinality(OpenIds)
      BY <1>1, OrderSets
<1>3. RoomForOrder'
      BY <1>2, LimitAssumption DEF LimitInv, RoomForOrder
<1>4. RoomForCopies'
  <2> SUFFICES ASSUME pc'[Live] = "monitor"
               PROVE  Cardinality(OpenIds' \cup todo'[Live]) <= MaxTotalOpenPositions
      BY DEF RoomForCopies
  <2>1. Cardinality(OpenIds \cup todo[Live]) <= MaxTotalOpenPositions
        BY DEF LimitInv, RoomForCopies
  <2>2. OpenIds' \cup todo'[Live] \subseteq OpenIds \cup todo[Live]
        OBVIOUS
  <2>3. /\ Cardinality(OpenIds \cup todo[Live]) \in Nat
        /\ Cardinality(OpenIds' \cup todo'[Live]) \in Nat
        /\ Cardinality(OpenIds' \cup todo'[Live]) <= Cardinality(OpenIds \cup todo[Live])
        BY <1>1, <2>2, OrderSets
  <2> QED BY <2>1, <2>3, LimitAssumption
<1>5. OnlyLiveMonitors'
      BY DEF OnlyLiveMonitors
<1>6. OpenLimit'
      BY <1>2, LimitAssumption DEF LimitInv, OpenLimit
<1> QED BY <1>3, <1>4, <1>5, <1>6 DEF LimitInv

LEMMA InitLimitInv == Init => LimitInv
<1> SUFFICES ASSUME Init PROVE LimitInv
    OBVIOUS
<1>1. OpenIds = {}
      BY DEF Init, OpenIds
<1>2. Cardinality(OpenIds) = 0
      BY <1>1, FS_EmptySet
<1>3. /\ pc[Live] = "idle"
      /\ \A t \in Http : pc[t] = "idle"
      BY DEF Init, Threads
<1> QED BY <1>2, <1>3, LimitAssumption
        DEF LimitInv, RoomForOrder, RoomForCopies, OnlyLiveMonitors, OpenLimit

LEMMA PlaceOrderLimitInv ==
  ASSUME TypeOK, LimitInv, "risk" \notin FailingReads, RunOnceStart \/ PlaceOrder
  PROVE  LimitInv'
<1> USE ThreadsAssumption
    DEF TypeOK, LocalsOK, ControlOK, ColumnsOK, Holds, Threads, GoTo, tables
<1>0. OnlyLiveMonitors /\ RoomForOrder /\ RoomForCopies /\ OpenLimit
      BY DEF LimitInv
<1>1. CASE RunOnceStart
      BY <1>1, <1>0, OpensNothing DEF RunOnceStart, OnlyLiveMonitors, OpenIds
<1>2. CASE RiskApprove
  <2>1. /\ OpenIds' = OpenIds
        /\ pc'[Live] = "approved"
        /\ \A t \in Http : pc'[t] = pc[t]
        BY <1>2 DEF RiskApprove, OpenIds
  <2>2. Cardinality(OpenIds) < MaxTotalOpenPositions
        BY <1>2 DEF RiskApprove, ListedByRisk, RiskGate
  <2> QED BY <1>0, <2>1, <2>2
          DEF LimitInv, RoomForOrder, RoomForCopies, OnlyLiveMonitors, OpenLimit
<1>3. CASE PlaceOrderRefused
      BY <1>3, <1>0, OpensNothing DEF PlaceOrderRefused, OnlyLiveMonitors, OpenIds
<1>4. ASSUME NEW i \in Ids, NEW f \in Fills[i], SaveOpenTrade(i, f)
      PROVE  LimitInv'
      BY <1>4, <1>0, OpensNothing DEF SaveOpenTrade, OnlyLiveMonitors, OpenIds
<1>5. CASE SaveOpenPosition
  <2>1. /\ pc[Live] = "tradeSaved" /\ pc'[Live] = "articles"
        /\ \A t \in Http : pc'[t] = pc[t]
        BY <1>5 DEF SaveOpenPosition
  <2>2. order \in Ids
        BY <2>1
  <2>3. OpenIds \subseteq Ids /\ IsFiniteSet(OpenIds)
        BY IdsAssumption, FS_Subset DEF OpenIds
  <2>4. Cardinality(OpenIds) \in Nat /\ Cardinality(OpenIds) < MaxTotalOpenPositions
        BY <2>1, <2>3, <1>0, FS_CardinalityType DEF RoomForOrder
  <2>5. OpenIds' \subseteq OpenIds \cup {order}
        BY <1>5, <2>2 DEF SaveOpenPosition, OpenIds
  <2>6. Cardinality(OpenIds \cup {order}) \in {Cardinality(OpenIds), Cardinality(OpenIds) + 1}
        BY <2>3, FS_AddElement
  <2>7. /\ Cardinality(OpenIds') \in Nat
        /\ Cardinality(OpenIds') <= Cardinality(OpenIds \cup {order})
    <3>1. OpenIds \cup {order} \in SUBSET Ids
          BY <2>2, <2>3
    <3> QED BY <3>1, <2>5, OrderSets
  <2>8. OpenLimit'
        BY <2>4, <2>6, <2>7, LimitAssumption DEF OpenLimit
  <2> QED BY <1>0, <2>1, <2>8 DEF LimitInv, RoomForOrder, RoomForCopies, OnlyLiveMonitors
<1> QED BY <1>1, <1>2, <1>3, <1>4, <1>5 DEF PlaceOrder

LEMMA MonitorLimitInv ==
  ASSUME NEW t \in Threads, TypeOK, LimitInv, "risk" \notin FailingReads, Consumers = {}, Monitor(t)
  PROVE  LimitInv'
<1> USE ThreadsAssumption
    DEF TypeOK, LocalsOK, ControlOK, ColumnsOK, Holds, Threads, GoTo, tables
<1>0. OnlyLiveMonitors /\ RoomForOrder /\ RoomForCopies /\ OpenLimit
      BY DEF LimitInv
<1>1. CASE ListOpenPositions(t)
  <2>1. /\ t = Live
        /\ OpenIds' = OpenIds
        /\ pc'[Live] = "monitor"
        /\ todo'[Live] = OpenIds
        /\ \A u \in Http : pc'[u] = pc[u]
        BY <1>1 DEF ListOpenPositions, MonitorStart, OpenIds
  <2>2. OpenIds' \cup todo'[Live] = OpenIds
        BY <2>1
  <2> QED BY <1>0, <2>1, <2>2
          DEF LimitInv, RoomForOrder, RoomForCopies, OnlyLiveMonitors, OpenLimit
<1>2. CASE MonitorFails(t)
      BY <1>2, <1>0, OpensNothing
         DEF MonitorFails, MonitorStart, OnlyLiveMonitors, OpenIds
<1>3. ASSUME NEW i \in Ids, UpdateOpenPosition(t, i)
      PROVE  LimitInv'
  <2>1. /\ t = Live /\ pc' = pc /\ pc[Live] = "monitor"
        /\ i \in todo[Live] /\ todo'[Live] = todo[Live] \ {i}
        BY <1>3, <1>0 DEF UpdateOpenPosition, OnlyLiveMonitors
  <2>2. OpenIds' \subseteq OpenIds \cup {i}
        BY <1>3 DEF UpdateOpenPosition, OpenIds
  <2>3. /\ OpenIds \cup todo[Live] \in SUBSET Ids
        /\ OpenIds' \cup todo'[Live] \in SUBSET (OpenIds \cup todo[Live])
        /\ OpenIds' \in SUBSET (OpenIds \cup todo[Live])
        BY <2>1, <2>2 DEF OpenIds
  <2>4. Cardinality(OpenIds \cup todo[Live]) <= MaxTotalOpenPositions
        BY <1>0, <2>1 DEF RoomForCopies
  <2>5. /\ Cardinality(OpenIds \cup todo[Live]) \in Nat
        /\ Cardinality(OpenIds') \in Nat
        /\ Cardinality(OpenIds') <= Cardinality(OpenIds \cup todo[Live])
        /\ Cardinality(OpenIds' \cup todo'[Live]) \in Nat
        /\ Cardinality(OpenIds' \cup todo'[Live]) <= Cardinality(OpenIds \cup todo[Live])
        BY <2>3, OrderSets
  <2> QED BY <1>0, <2>1, <2>4, <2>5, LimitAssumption
          DEF LimitInv, RoomForOrder, RoomForCopies, OnlyLiveMonitors, OpenLimit
<1>4. ASSUME NEW i \in Ids, SkipOpenPosition(t, i)
      PROVE  LimitInv'
      BY <1>4, <1>0, OpensNothing DEF SkipOpenPosition, OnlyLiveMonitors, OpenIds
<1>5. CASE MonitorDone(t)
      BY <1>5, <1>0, OpensNothing DEF MonitorDone, Resume, OnlyLiveMonitors, OpenIds
<1> QED BY <1>1, <1>2, <1>3, <1>4, <1>5 DEF Monitor

LEMMA CloseLimitInv ==
  ASSUME NEW t \in Threads, TypeOK, LimitInv, Close(t)
  PROVE  LimitInv'
<1> USE ThreadsAssumption
    DEF TypeOK, LocalsOK, ControlOK, ColumnsOK, Holds, Threads, GoTo, tables
<1>0. OnlyLiveMonitors
      BY DEF LimitInv
<1>1. CASE NextExit(t)
      BY <1>1, <1>0, OpensNothing DEF NextExit, Load, OnlyLiveMonitors, OpenIds
<1>2. CASE SaveClosedPosition(t)
      BY <1>2, <1>0, OpensNothing DEF SaveClosedPosition, OnlyLiveMonitors, OpenIds
<1>3. CASE CloseFails(t)
      BY <1>3, <1>0, OpensNothing DEF CloseFails, Return, Resume, OnlyLiveMonitors, OpenIds
<1>4. CASE MatchOpenTrade(t)
      BY <1>4, <1>0, OpensNothing DEF MatchOpenTrade, OnlyLiveMonitors, OpenIds
<1>5. CASE SaveClosedTrade(t)
      BY <1>5, <1>0, OpensNothing DEF SaveClosedTrade, Return, Resume, OnlyLiveMonitors, OpenIds
<1>6. CASE InsertClosedTrade(t)
      BY <1>6, <1>0, OpensNothing DEF InsertClosedTrade, Return, Resume, OnlyLiveMonitors, OpenIds
<1>7. CASE SaveTradeFails(t)
      BY <1>7, <1>0, OpensNothing DEF SaveTradeFails, Return, Resume, OnlyLiveMonitors, OpenIds
<1> QED BY <1>1, <1>2, <1>3, <1>4, <1>5, <1>6, <1>7 DEF Close

LEMMA NextLimitInv ==
  ASSUME TypeOK, LimitInv, "risk" \notin FailingReads, Consumers = {}, [Next]_vars
  PROVE  LimitInv'
<1> USE ThreadsAssumption DEF TypeOK, LocalsOK, Threads, GoTo, tables
<1>0. OnlyLiveMonitors
      BY DEF LimitInv
<1>1. CASE RunOnceStart \/ PlaceOrder
      BY <1>1, PlaceOrderLimitInv
<1>2. ASSUME NEW t \in Threads, Step(t)
      PROVE  LimitInv'
      BY <1>2, MonitorLimitInv, CloseLimitInv DEF Step
<1>3. ASSUME NEW t \in Threads, NEW i \in Ids, CloseRequest(t, i)
      PROVE  LimitInv'
      BY <1>3, <1>0, OpensNothing DEF CloseRequest, Load, OnlyLiveMonitors, OpenIds
<1>4. ASSUME NEW t \in Threads, NEW i \in Ids, ConsumeExitCandidate(t, i)
      PROVE  LimitInv'
      BY <1>4 DEF ConsumeExitCandidate
<1>5. CASE Crash
      BY <1>5, OpensNothing DEF Crash, OpenIds
<1>6. CASE UNCHANGED vars
      BY <1>6, <1>0, OpensNothing DEF vars, locals, OnlyLiveMonitors, OpenIds
<1> QED BY <1>1, <1>2, <1>3, <1>4, <1>5, <1>6 DEF Next, Start

(* Without the -position consumers, and as long as the risk engine's own   *)
(* read does not fail, RunOnce and any number of concurrent close          *)
(* requests, other failed reads and saves, and restarts never leave more   *)
(* open positions than the limit allows.                                   *)
THEOREM OpenLimitHolds ==
  ASSUME Consumers = {}, "risk" \notin FailingReads
  PROVE  Spec => []OpenLimit
<1>1. Init => TypeOK /\ LimitInv
      BY InitTypeOK, InitLimitInv
<1>2. TypeOK /\ LimitInv /\ [Next]_vars => (TypeOK /\ LimitInv)'
      BY NextTypeOK, NextLimitInv
<1>3. LimitInv => OpenLimit
      BY DEF LimitInv
<1> QED BY <1>1, <1>2, <1>3, PTL DEF Spec

-----------------------------------------------------------------------------
(***************************************************************************)
(* PaperTrading implements TradeLedger when only RunOnce works on the      *)
(* tables, for every set of orders and fills, every limit, failing reads   *)
(* (but for the risk engine's own) and saves, and restarts.  Then: what    *)
(* any number of threads that close positions make of the trades.          *)
(***************************************************************************)

(***************************************************************************)
(* A close checks neither that the position is open nor that it is         *)
(* unbooked; what it is given makes it so.  LedgerInv says what every part *)
(* of the cycle may rely on: the copies the monitor holds are still open,  *)
(* the exit decisions are distinct, open and none of them is being closed, *)
(* and the close under way has an unbooked target and an open match.       *)
(***************************************************************************)
Unbooked(i) == synthetic[i] = 0 /\ \A j \in Ids : pnl[j] # i

ColumnsAgree ==
    \A i \in Ids :
        /\ position[i] # "closed" => Unbooked(i)
        /\ position[i] # "absent" => trade[i] # "absent"
        /\ trade[i] # "closed" => pnl[i] = NoId

OrderIsNew == order # NoId => position[order] = "absent" /\ trade[order] # "absent"

CopiesAreOpen == \A i \in todo[Live] : position[i] = "open" /\ pc[Live] = "monitor"

ExitsAreOpen ==
    /\ \A k \in 1..Len(exits[Live]) :
          /\ position[exits[Live][k]] = "open"
          /\ exits[Live][k] \notin todo[Live]
          /\ exits[Live][k] # target[Live]
          /\ pc[Live] \notin {"idle", "articles", "approved", "tradeSaved"}
    /\ \A j, k \in 1..Len(exits[Live]) : exits[Live][j] = exits[Live][k] => j = k

CloseIsDue ==
    /\ pc[Live] = "loaded" => position[target[Live]] = "open"
    /\ pc[Live] \in {"posClosed", "matched"} =>
          position[target[Live]] = "closed" /\ Unbooked(target[Live])
    /\ pc[Live] = "matched" /\ match[Live] # NoId => trade[match[Live]] = "open"

LedgerInv == ColumnsAgree /\ OrderIsNew /\ CopiesAreOpen /\ ExitsAreOpen /\ CloseIsDue

\* What the proofs assume of the configuration.
OneThread == Http = {} /\ Consumers = {} /\ "risk" \notin FailingReads

LEMMA InitLedgerInv == Init => LedgerInv
BY IdsAssumption
   DEF Init, LedgerInv, ColumnsAgree, OrderIsNew, CopiesAreOpen, ExitsAreOpen,
       CloseIsDue, Unbooked, Threads

-----------------------------------------------------------------------------
(* The steps that touch no column keep what they do not concern.           *)

LEMMA PlaceOrderLedgerInv ==
  ASSUME TypeOK, LedgerInv, RunOnceStart \/ PlaceOrder
  PROVE  LedgerInv'
<1> USE IdsAssumption
    DEF TypeOK, ColumnsOK, LocalsOK, ControlOK, Holds, Threads, GoTo, tables,
        LedgerInv, ColumnsAgree, OrderIsNew, CopiesAreOpen, ExitsAreOpen,
        CloseIsDue, Unbooked
<1>1. CASE RunOnceStart
      BY <1>1 DEF RunOnceStart
<1>2. CASE RiskApprove
      BY <1>2 DEF RiskApprove
<1>3. CASE PlaceOrderRefused
      BY <1>3 DEF PlaceOrderRefused
<1>4. ASSUME NEW i \in Ids, NEW f \in Fills[i], SaveOpenTrade(i, f)
      PROVE  LedgerInv'
      BY <1>4 DEF SaveOpenTrade
<1>5. CASE SaveOpenPosition
      BY <1>5 DEF SaveOpenPosition
<1> QED BY <1>1, <1>2, <1>3, <1>4, <1>5 DEF PlaceOrder

LEMMA MonitorLedgerInv ==
  ASSUME TypeOK, LedgerInv, Consumers = {}, Monitor(Live)
  PROVE  LedgerInv'
<1> USE IdsAssumption
    DEF TypeOK, ColumnsOK, LocalsOK, ControlOK, Holds, Threads, GoTo, tables,
        LedgerInv, ColumnsAgree, OrderIsNew, CopiesAreOpen, ExitsAreOpen,
        CloseIsDue, Unbooked
<1>1. CASE ListOpenPositions(Live)
      BY <1>1 DEF ListOpenPositions, MonitorStart, OpenIds
<1>2. CASE MonitorFails(Live)
      BY <1>2 DEF MonitorFails, MonitorStart
<1>3. ASSUME NEW i \in Ids, UpdateOpenPosition(Live, i)
      PROVE  LedgerInv'
  <2>1. /\ i \in todo[Live] /\ position[i] = "open"
        /\ pc[Live] = "monitor" /\ pc' = pc
        /\ todo'[Live] = todo[Live] \ {i}
        /\ target' = target /\ match' = match /\ order' = order
        /\ trade' = trade /\ pnl' = pnl /\ synthetic' = synthetic
        BY <1>3 DEF UpdateOpenPosition
  <2>2. position' = position
        BY <1>3, <2>1 DEF UpdateOpenPosition
  <2>3. target[Live] = NoId
        BY <2>1
  <2>4. \/ exits' = exits
        \/ exits'[Live] = Append(exits[Live], i)
        BY <1>3 DEF UpdateOpenPosition, Decide
  <2>5. CASE exits' = exits
        BY <2>1, <2>2, <2>5
  <2>6. CASE exits'[Live] = Append(exits[Live], i)
    <3>1. exits[Live] \in Seq(Ids)
          OBVIOUS
    <3>2. /\ Len(exits'[Live]) = Len(exits[Live]) + 1
          /\ Len(exits[Live]) \in Nat
          /\ \A k \in 1..Len(exits[Live]) : exits'[Live][k] = exits[Live][k]
          /\ exits'[Live][Len(exits[Live]) + 1] = i
          BY ONLY <2>6, <3>1
    <3>3. \A k \in 1..Len(exits'[Live]) :
             k \in 1..Len(exits[Live]) \/ k = Len(exits[Live]) + 1
          BY ONLY <3>2
    <3>4. \A k \in 1..Len(exits[Live]) :
             /\ position[exits[Live][k]] = "open"
             /\ exits[Live][k] \notin todo[Live]
          OBVIOUS
    <3>5. \A j, k \in 1..Len(exits[Live]) : exits[Live][j] = exits[Live][k] => j = k
          OBVIOUS
    <3>6. \A k \in 1..Len(exits'[Live]) :
             /\ position[exits'[Live][k]] = "open"
             /\ exits'[Live][k] \notin todo[Live] \ {i}
             /\ exits'[Live][k] \in todo[Live] => k = Len(exits[Live]) + 1
          BY ONLY <2>1, <3>2, <3>3, <3>4
    <3>7. \A j, k \in 1..Len(exits'[Live]) : exits'[Live][j] = exits'[Live][k] => j = k
          BY ONLY <2>1, <3>2, <3>3, <3>4, <3>5
    <3>8. \A k \in 1..Len(exits'[Live]) : exits'[Live][k] # NoId
      <4>1. \A k \in 1..Len(exits[Live]) : exits[Live][k] \in Ids
            BY ONLY <3>1
      <4>2. \A k \in 1..Len(exits'[Live]) : exits'[Live][k] \in Ids
            BY ONLY <3>2, <3>3, <4>1, i \in Ids
      <4> QED BY ONLY <4>2, IdsAssumption
    <3>9. ExitsAreOpen'
          BY <2>1, <2>2, <2>3, <3>6, <3>7, <3>8
    <3>10. ColumnsAgree' /\ OrderIsNew'
          BY <2>1, <2>2
    <3>11. CopiesAreOpen'
          BY <2>1, <2>2
    <3>12. CloseIsDue'
          BY <2>1, <2>2
    <3> QED BY <3>9, <3>10, <3>11, <3>12
  <2> QED BY <2>4, <2>5, <2>6
<1>4. ASSUME NEW i \in Ids, SkipOpenPosition(Live, i)
      PROVE  LedgerInv'
      BY <1>4 DEF SkipOpenPosition
<1>5. CASE MonitorDone(Live)
  <2>1. /\ todo[Live] = {} /\ todo' = todo /\ exits' = exits /\ target' = target
        /\ order' = order /\ position' = position /\ trade' = trade
        /\ pnl' = pnl /\ synthetic' = synthetic
        /\ pc'[Live] = "exits" \/ (pc'[Live] = "idle" /\ exits[Live] = <<>>)
        BY <1>5 DEF MonitorDone, Resume
  <2>2. exits[Live] = <<>> => 1..Len(exits[Live]) = {}
        OBVIOUS
  <2>3. ExitsAreOpen'
        BY <2>1, <2>2
  <2>4. ColumnsAgree' /\ OrderIsNew'
        BY <2>1
  <2>5. CopiesAreOpen'
        BY <2>1
  <2>6. CloseIsDue'
        BY <2>1
  <2> QED BY <2>3, <2>4, <2>5, <2>6
<1> QED BY <1>1, <1>2, <1>3, <1>4, <1>5 DEF Monitor

\* Returning from a close keeps the rest, whatever was saved before.
LEMMA ReturnLedgerInv ==
  ASSUME TypeOK, LedgerInv, Return(Live),
         pc[Live] \in {"loaded", "matched"},
         UNCHANGED <<position, order, todo, exits>>,
         ColumnsAgree'
  PROVE  LedgerInv'
<1>1. /\ pc'[Live] = "exits" \/ (pc'[Live] = "idle" /\ exits[Live] = <<>>)
      /\ target'[Live] = NoId
      /\ exits' = exits /\ todo' = todo /\ order' = order /\ position' = position
      /\ exits[Live] \in Seq(Ids)
      /\ order = NoId
      BY DEF Return, Resume, GoTo, TypeOK, LocalsOK, ControlOK, Threads
<1>2. \A k \in 1..Len(exits[Live]) : exits[Live][k] # NoId
      BY <1>1, IdsAssumption
<1>3. exits[Live] = <<>> => 1..Len(exits[Live]) = {}
      OBVIOUS
<1>4. ExitsAreOpen'
      BY <1>1, <1>2, <1>3 DEF LedgerInv, ExitsAreOpen
<1>5. OrderIsNew'
      BY <1>1 DEF OrderIsNew
<1>6. CopiesAreOpen'
      BY <1>1 DEF LedgerInv, CopiesAreOpen
<1>7. CloseIsDue'
      BY <1>1 DEF CloseIsDue
<1> QED BY <1>4, <1>5, <1>6, <1>7 DEF LedgerInv

LEMMA CloseLedgerInv ==
  ASSUME TypeOK, LedgerInv, Close(Live)
  PROVE  LedgerInv'
<1> USE IdsAssumption
    DEF TypeOK, ColumnsOK, LocalsOK, ControlOK, Holds, Threads, GoTo, tables,
        LedgerInv, ColumnsAgree, OrderIsNew, CopiesAreOpen, ExitsAreOpen,
        CloseIsDue, Unbooked
<1>1. CASE NextExit(Live)
  <2>1. /\ exits[Live] \in Seq(Ids) /\ exits[Live] # <<>>
        /\ exits'[Live] = Tail(exits[Live])
        /\ target'[Live] = Head(exits[Live])
        /\ pc[Live] = "exits" /\ pc'[Live] = "loaded"
        /\ position' = position /\ trade' = trade /\ todo' = todo
        /\ pnl' = pnl /\ synthetic' = synthetic /\ order' = order
        BY <1>1 DEF NextExit, Load
  <2>2. /\ Len(exits[Live]) \in Nat \ {0}
        /\ Head(exits[Live]) = exits[Live][1]
        /\ Len(Tail(exits[Live])) = Len(exits[Live]) - 1
        /\ \A k \in 1..Len(Tail(exits[Live])) :
              Tail(exits[Live])[k] = exits[Live][k + 1]
        BY ONLY <2>1, HeadTailProperties, EmptySeq, LenProperties
  <2>3. /\ 1 \in 1..Len(exits[Live])
        /\ \A k \in 1..Len(Tail(exits[Live])) :
              k + 1 \in 1..Len(exits[Live]) /\ k + 1 # 1
        /\ \A j, k \in 1..Len(Tail(exits[Live])) : j + 1 = k + 1 => j = k
        BY ONLY <2>2
  <2>4. ExitsAreOpen'
        BY <2>1, <2>2, <2>3
  <2>5. CloseIsDue'
        BY <2>1, <2>2, <2>3
  <2> QED BY <2>1, <2>4, <2>5
<1>2. CASE SaveClosedPosition(Live)
  <2>1. /\ target[Live] \in Ids
        /\ position[target[Live]] = "open"
        /\ pc[Live] = "loaded" /\ pc'[Live] = "posClosed"
        /\ order = NoId
        BY <1>2 DEF SaveClosedPosition
  <2>2. /\ position' = [position EXCEPT ![target[Live]] = "closed"]
        /\ UNCHANGED <<trade, fill, pnl, synthetic, order, todo, exits, target, match>>
        BY <1>2 DEF SaveClosedPosition
  <2>3. todo[Live] = {}
        BY <2>1
  <2>4. ExitsAreOpen'
    <3>1. \A k \in 1..Len(exits[Live]) : exits[Live][k] \in Ids
          BY exits[Live] \in Seq(Ids)
    <3> QED BY <2>1, <2>2, <2>3, <3>1
  <2>5. ColumnsAgree' /\ OrderIsNew' /\ CopiesAreOpen' /\ CloseIsDue'
        BY <2>1, <2>2, <2>3
  <2> QED BY <2>4, <2>5
<1>3. CASE CloseFails(Live)
      BY <1>3, ReturnLedgerInv DEF CloseFails
<1>4. CASE MatchOpenTrade(Live)
  <2>1. match'[Live] # NoId => match'[Live] \in Ids /\ trade[match'[Live]] = "open"
        BY <1>4 DEF MatchOpenTrade, MatchingOpenTrades
  <2> QED BY <1>4, <2>1 DEF MatchOpenTrade
<1>5. CASE SaveClosedTrade(Live)
  <2>1. /\ target[Live] \in Ids /\ match[Live] \in Ids
        /\ position[target[Live]] = "closed"
        /\ trade[match[Live]] = "open"
        BY <1>5 DEF SaveClosedTrade
  <2>2. ColumnsAgree'
        BY <1>5, <2>1 DEF SaveClosedTrade
  <2> QED BY <1>5, <2>2, ReturnLedgerInv DEF SaveClosedTrade
<1>6. CASE InsertClosedTrade(Live)
  <2>1. target[Live] \in Ids /\ position[target[Live]] = "closed"
        BY <1>6 DEF InsertClosedTrade
  <2>2. ColumnsAgree'
        BY <1>6, <2>1 DEF InsertClosedTrade
  <2> QED BY <1>6, <2>2, ReturnLedgerInv DEF InsertClosedTrade
<1>7. CASE SaveTradeFails(Live)
      BY <1>7, ReturnLedgerInv DEF SaveTradeFails
<1> QED BY <1>1, <1>2, <1>3, <1>4, <1>5, <1>6, <1>7 DEF Close

LEMMA NextLedgerInv ==
  ASSUME TypeOK, LedgerInv, OneThread, [Next]_vars
  PROVE  LedgerInv'
<1> USE DEF OneThread
<1>1. CASE RunOnceStart \/ PlaceOrder
      BY <1>1, PlaceOrderLedgerInv
<1>2. ASSUME NEW t \in Threads, Step(t)
      PROVE  LedgerInv'
      BY <1>2, MonitorLedgerInv, CloseLedgerInv DEF Step, Threads
<1>3. ASSUME NEW t \in Threads, Start(t)
      PROVE  LedgerInv'
      BY <1>3 DEF Start, CloseRequest, ConsumeExitCandidate
<1>4. CASE Crash
      BY <1>4
      DEF Crash, Threads, tables, LedgerInv, ColumnsAgree, OrderIsNew,
          CopiesAreOpen, ExitsAreOpen, CloseIsDue, Unbooked
<1>5. CASE UNCHANGED vars
      BY <1>5
      DEF vars, tables, locals, LedgerInv, ColumnsAgree, OrderIsNew,
          CopiesAreOpen, ExitsAreOpen, CloseIsDue, Unbooked
<1> QED BY <1>1, <1>2, <1>3, <1>4, <1>5 DEF Next

-----------------------------------------------------------------------------
(* The refinement: every step is one of the ledger's or leaves it alone.   *)

Booked == [i \in Ids |-> Rows(i)]

\* A position without a PnL row counts none, and one row or one inserted
\* trade counts one.
LEMMA RowsCount ==
  ASSUME NEW i \in Ids
  PROVE  /\ Unbooked(i) => Rows(i) = 0
         /\ synthetic[i] = 1 /\ (\A j \in Ids : pnl[j] # i) => Rows(i) = 1
         /\ \A k \in Ids : synthetic[i] = 0 /\ {j \in Ids : pnl[j] = i} = {k} => Rows(i) = 1
<1>1. ASSUME \A j \in Ids : pnl[j] # i
      PROVE  Cardinality({j \in Ids : pnl[j] = i}) = 0
  <2>1. {j \in Ids : pnl[j] = i} = {}
        BY <1>1
  <2> QED BY <2>1, FS_EmptySet
<1>2. ASSUME NEW k \in Ids, {j \in Ids : pnl[j] = i} = {k}
      PROVE  Cardinality({j \in Ids : pnl[j] = i}) = 1
      BY <1>2, FS_Singleton
<1> QED BY <1>1, <1>2 DEF Unbooked, Rows

LEMMA SameRows ==
  ASSUME UNCHANGED <<pnl, synthetic>>
  PROVE  Booked' = Booked
BY DEF Booked, Rows

LEMMA InitLedger == Init => Ledger!Init
<1> SUFFICES ASSUME Init PROVE Ledger!Init
    OBVIOUS
<1>1. \A i \in Ids : Unbooked(i)
      BY IdsAssumption DEF Init, Unbooked
<1>2. \A i \in Ids : Rows(i) = 0
      BY <1>1, RowsCount
<1> QED BY <1>2 DEF Init, Ledger!Init

\* Opening a position below the limit.
LEMMA OpenLedgerStep ==
  ASSUME TypeOK, LedgerInv, LimitInv, RunOnceStart \/ PlaceOrder
  PROVE  [Ledger!Next]_(Ledger!vars)
<1> USE DEF Ledger!vars, tables
<1>1. CASE RunOnceStart
      BY <1>1, SameRows DEF RunOnceStart, Booked
<1>2. CASE RiskApprove
      BY <1>2, SameRows DEF RiskApprove, Booked
<1>3. CASE PlaceOrderRefused
      BY <1>3, SameRows DEF PlaceOrderRefused, Booked
<1>4. ASSUME NEW i \in Ids, NEW f \in Fills[i], SaveOpenTrade(i, f)
      PROVE  [Ledger!Next]_(Ledger!vars)
      BY <1>4, SameRows DEF SaveOpenTrade, Booked
<1>5. CASE SaveOpenPosition
  <2>1. order \in Ids /\ position[order] = "absent"
        BY <1>5 DEF SaveOpenPosition, TypeOK, LocalsOK, ControlOK, LedgerInv, OrderIsNew
  <2>2. Cardinality(OpenIds) < MaxTotalOpenPositions
        BY <1>5 DEF SaveOpenPosition, LimitInv, RoomForOrder
  <2>3. Booked' = Booked
        BY <1>5, SameRows DEF SaveOpenPosition
  <2>4. CASE position' = [position EXCEPT ![order] = "open"]
    <3>1. Ledger!OpenPosition(order)
          BY <2>1, <2>2, <2>3, <2>4
          DEF Ledger!OpenPosition, Ledger!OpenIds, OpenIds, Booked,
              Ledger!Cardinality, Cardinality
    <3> QED BY <2>1, <3>1 DEF Ledger!Next
  <2>5. CASE position' = position
        BY <2>3, <2>5 DEF Booked
  <2> QED BY <1>5, <2>4, <2>5 DEF SaveOpenPosition
<1> QED BY <1>1, <1>2, <1>3, <1>4, <1>5 DEF PlaceOrder

\* The monitor writes "open" only where it stands already.
LEMMA MonitorLedgerStep ==
  ASSUME TypeOK, LedgerInv, Monitor(Live)
  PROVE  UNCHANGED Ledger!vars
<1> USE DEF Ledger!vars, tables
<1>1. CASE ListOpenPositions(Live)
      BY <1>1, SameRows DEF ListOpenPositions, Booked
<1>2. CASE MonitorFails(Live)
      BY <1>2, SameRows DEF MonitorFails, Booked
<1>3. ASSUME NEW i \in Ids, UpdateOpenPosition(Live, i)
      PROVE  UNCHANGED Ledger!vars
  <2>1. position' = position
        BY <1>3 DEF UpdateOpenPosition, LedgerInv, CopiesAreOpen, TypeOK, ColumnsOK
  <2> QED BY <1>3, <2>1, SameRows DEF UpdateOpenPosition, Booked
<1>4. ASSUME NEW i \in Ids, SkipOpenPosition(Live, i)
      PROVE  UNCHANGED Ledger!vars
      BY <1>4, SameRows DEF SkipOpenPosition, Booked
<1>5. CASE MonitorDone(Live)
      BY <1>5, SameRows DEF MonitorDone, Booked
<1> QED BY <1>1, <1>2, <1>3, <1>4, <1>5 DEF Monitor

\* Booking one row for a closed position that had none.
LEMMA BookLedgerStep ==
  ASSUME NEW i \in Ids, position[i] = "closed", Unbooked(i),
         UNCHANGED position,
         Rows(i)' = 1,
         \A k \in Ids \ {i} : Rows(k)' = Rows(k)
  PROVE  Ledger!Next
<1>1. Rows(i) = 0
      BY RowsCount
<1>2. Booked' = [Booked EXCEPT ![i] = 1]
      BY DEF Booked
<1>3. Ledger!BookPnL(i)
      BY <1>1, <1>2 DEF Ledger!BookPnL, Booked
<1> QED BY <1>3 DEF Ledger!Next

LEMMA CloseLedgerStep ==
  ASSUME TypeOK, LedgerInv, Close(Live)
  PROVE  [Ledger!Next]_(Ledger!vars)
<1> USE DEF tables
<1>1. CASE NextExit(Live)
      BY <1>1, SameRows DEF NextExit, Booked, Ledger!vars
<1>2. CASE SaveClosedPosition(Live)
  <2>1. target[Live] \in Ids /\ position[target[Live]] = "open"
        BY <1>2, IdsAssumption
        DEF SaveClosedPosition, TypeOK, LocalsOK, ControlOK, Holds, Threads,
            LedgerInv, CloseIsDue
  <2>2. Booked' = Booked
        BY <1>2, SameRows DEF SaveClosedPosition
  <2>3. Ledger!ClosePosition(target[Live])
        BY <1>2, <2>1, <2>2 DEF SaveClosedPosition, Ledger!ClosePosition, Booked
  <2> QED BY <2>1, <2>3 DEF Ledger!Next
<1>3. CASE CloseFails(Live)
      BY <1>3, SameRows DEF CloseFails, Booked, Ledger!vars
<1>4. CASE MatchOpenTrade(Live)
      BY <1>4, SameRows DEF MatchOpenTrade, Booked, Ledger!vars
<1>5. CASE SaveClosedTrade(Live) \/ InsertClosedTrade(Live)
  <2>1. PICK i \in Ids :
        /\ i = target[Live] /\ position[i] = "closed" /\ Unbooked(i)
        /\ UNCHANGED position
        /\ pnl \in [Ids -> Ids \cup {NoId}]
        /\ synthetic \in [Ids -> 0..SyntheticCap]
        BY <1>5, IdsAssumption
        DEF SaveClosedTrade, InsertClosedTrade, TypeOK, LocalsOK, ColumnsOK,
            ControlOK, Holds, Threads, LedgerInv, CloseIsDue
  <2>2. CASE SaveClosedTrade(Live)
    <3>1. PICK m \in Ids :
          /\ m = match[Live] /\ pnl[m] = NoId
          /\ pnl' = [pnl EXCEPT ![m] = i]
          /\ synthetic' = synthetic
          BY <2>1, <2>2
          DEF SaveClosedTrade, TypeOK, LocalsOK, Threads, LedgerInv, CloseIsDue,
              ColumnsAgree
    <3>2. {j \in Ids : pnl'[j] = i} = {m} /\ synthetic'[i] = 0
          BY <2>1, <3>1 DEF Unbooked
    <3>3. Rows(i)' = 1
      <4>1. Cardinality({j \in Ids : pnl'[j] = i}) = 1
            BY ONLY <3>2, FS_Singleton
      <4> QED BY ONLY <4>1, <3>2 DEF Rows
    <3>4. ASSUME NEW k \in Ids \ {i}
          PROVE  Rows(k)' = Rows(k)
      <4>1. {j \in Ids : pnl'[j] = k} = {j \in Ids : pnl[j] = k}
            BY <2>1, <3>1, IdsAssumption
      <4> QED BY <3>1, <4>1 DEF Rows
    <3> QED BY <2>1, <3>3, <3>4, BookLedgerStep
  <2>3. CASE InsertClosedTrade(Live)
    <3>1. pnl' = pnl /\ synthetic[i] = 0
          BY <2>1, <2>3 DEF InsertClosedTrade, Unbooked
    <3>2. /\ {j \in Ids : pnl'[j] = i} = {}
          /\ synthetic'[i] = 1
          /\ \A k \in Ids \ {i} : synthetic'[k] = synthetic[k]
          BY <2>1, <2>3, <3>1 DEF InsertClosedTrade, Unbooked, SyntheticCap
    <3>3. Rows(i)' = 1
      <4>1. Cardinality({j \in Ids : pnl'[j] = i}) = 0
            BY ONLY <3>2, FS_EmptySet
      <4> QED BY ONLY <4>1, <3>2 DEF Rows
    <3>4. \A k \in Ids \ {i} : Rows(k)' = Rows(k)
          BY <3>1, <3>2 DEF Rows
    <3> QED BY <2>1, <3>3, <3>4, BookLedgerStep
  <2> QED BY <1>5, <2>2, <2>3
<1>6. CASE SaveTradeFails(Live)
      BY <1>6, SameRows DEF SaveTradeFails, Booked, Ledger!vars
<1> QED BY <1>1, <1>2, <1>3, <1>4, <1>5, <1>6 DEF Close

LEMMA NextLedgerStep ==
  ASSUME TypeOK, LedgerInv, LimitInv, OneThread, [Next]_vars
  PROVE  [Ledger!Next]_(Ledger!vars)
<1> USE DEF OneThread
<1>1. CASE RunOnceStart \/ PlaceOrder
      BY <1>1, OpenLedgerStep
<1>2. ASSUME NEW t \in Threads, Step(t)
      PROVE  [Ledger!Next]_(Ledger!vars)
      BY <1>2, MonitorLedgerStep, CloseLedgerStep DEF Step, Threads
<1>3. ASSUME NEW t \in Threads, Start(t)
      PROVE  FALSE
      BY <1>3 DEF Start, CloseRequest, ConsumeExitCandidate
<1>4. CASE Crash
      BY <1>4, SameRows DEF Crash, Booked, tables, Ledger!vars
<1>5. CASE UNCHANGED vars
      BY <1>5, SameRows DEF vars, Booked, tables, Ledger!vars
<1> QED BY <1>1, <1>2, <1>3, <1>4, <1>5 DEF Next

(* As long as RunOnce is the only thread and the risk engine can read the  *)
(* book, every position opens at most once and below the limit, closes at  *)
(* most once, and is booked at most once and only after it closed, however *)
(* alike the orders are, whatever else fails and whenever the process      *)
(* stops.                                                                  *)
THEOREM ImplementsLedger ==
  ASSUME OneThread
  PROVE  Spec => LedgerSpec
<1>1. Init => TypeOK /\ LimitInv /\ LedgerInv /\ Ledger!Init
      BY InitTypeOK, InitLimitInv, InitLedgerInv, InitLedger
<1>2. TypeOK /\ LimitInv /\ LedgerInv /\ [Next]_vars
        => (TypeOK /\ LimitInv /\ LedgerInv)' /\ [Ledger!Next]_(Ledger!vars)
      BY NextTypeOK, NextLimitInv, NextLedgerInv, NextLedgerStep DEF OneThread
<1> QED BY <1>1, <1>2, PTL DEF Spec, LedgerSpec, Ledger!Spec

-----------------------------------------------------------------------------
(***************************************************************************)
(* Booking.  ClosedIsBooked is not inductive: what a close under way will  *)
(* write depends on the trade it found, and nothing ties that trade to the *)
(* position but the equality of quantities or sizes.  BookInv says that    *)
(* the trade found is the position's own, that a close which found none    *)
(* came after another that booked it, and that no trade is closed without  *)
(* its PnL.  It holds while the fills tell the orders apart, and rests on  *)
(* KnownAreTraded, which holds always.                                     *)
(***************************************************************************)
\* Whatever a thread or the topic knows of was opened with a trade.
Traded(S) == \A i \in S : trade[i] # "absent"

KnownAreTraded ==
    /\ \A i \in Ids : trade[i] = "absent" <=> fill[i] = NoId
    /\ Traded({i \in Ids : position[i] # "absent"})
    /\ Traded(candidates)
    /\ Traded({order} \ {NoId})
    /\ \A t \in Threads :
          /\ Traded(todo[t])
          /\ Traded({target[t], match[t]} \ {NoId})
          /\ \A k \in 1..Len(exits[t]) : trade[exits[t][k]] # "absent"

LEMMA InitKnown == Init => KnownAreTraded
<1> SUFFICES ASSUME Init PROVE KnownAreTraded
    OBVIOUS
<1>1. \A t \in Threads : 1..Len(exits[t]) = {}
      BY EmptySeq DEF Init
<1> QED BY <1>1 DEF Init, KnownAreTraded, Traded

\* The exit decisions of a thread are its old ones, perhaps without the
\* first or with one more, or none.
LEMMA ExitsStayTraded ==
  ASSUME TypeOK, KnownAreTraded, NEW t \in Threads, NEW i \in Ids, trade[i] # "absent",
         NEW e,
         \/ e = exits[t]
         \/ e = Append(exits[t], i)
         \/ e = Tail(exits[t]) /\ exits[t] # <<>>
         \/ e = <<>>
  PROVE  \A k \in 1..Len(e) : trade[e[k]] # "absent"
<1>1. exits[t] \in Seq(Ids) /\ \A k \in 1..Len(exits[t]) : trade[exits[t][k]] # "absent"
      BY DEF TypeOK, LocalsOK, KnownAreTraded
<1>2. CASE e = exits[t]
      BY <1>1, <1>2
<1>3. CASE e = Append(exits[t], i)
      BY <1>1, <1>3
<1>4. CASE e = Tail(exits[t]) /\ exits[t] # <<>>
  <2>1. /\ Len(exits[t]) \in Nat /\ Len(e) = Len(exits[t]) - 1
        /\ \A k \in 1..Len(e) : e[k] = exits[t][k + 1]
        BY ONLY <1>1, <1>4, HeadTailProperties, EmptySeq, LenProperties
  <2>2. \A k \in 1..Len(e) : k + 1 \in 1..Len(exits[t])
        BY ONLY <2>1
  <2> QED BY <1>1, <2>1, <2>2
<1>5. CASE e = <<>>
      BY <1>5, EmptySeq
<1> QED BY <1>2, <1>3, <1>4, <1>5

LEMMA PlaceOrderKnown ==
  ASSUME TypeOK, KnownAreTraded, RunOnceStart \/ PlaceOrder
  PROVE  KnownAreTraded'
<1> USE IdsAssumption
    DEF TypeOK, ColumnsOK, LocalsOK, ControlOK, Threads, GoTo, tables,
        KnownAreTraded, Traded
<1>1. CASE RunOnceStart
      BY <1>1 DEF RunOnceStart
<1>2. CASE RiskApprove
      BY <1>2 DEF RiskApprove
<1>3. CASE PlaceOrderRefused
      BY <1>3 DEF PlaceOrderRefused
<1>4. ASSUME NEW i \in Ids, NEW f \in Fills[i], SaveOpenTrade(i, f)
      PROVE  KnownAreTraded'
  <2>1. f # NoId
        BY FillsAssumption
  <2>2. \A t \in Threads : \A k \in 1..Len(exits[t]) : exits[t][k] \in Ids
    <3>1. \A t \in Threads : exits[t] \in Seq(Ids)
          OBVIOUS
    <3> QED BY ONLY <3>1
  <2> QED BY <1>4, <2>1, <2>2 DEF SaveOpenTrade
<1>5. CASE SaveOpenPosition
      BY <1>5 DEF SaveOpenPosition
<1> QED BY <1>1, <1>2, <1>3, <1>4, <1>5 DEF PlaceOrder

LEMMA StepKnown ==
  ASSUME TypeOK, KnownAreTraded, NEW t \in Threads, Step(t) \/ Start(t)
  PROVE  KnownAreTraded'
<1> USE IdsAssumption
    DEF TypeOK, ColumnsOK, LocalsOK, ControlOK, Holds, GoTo, tables,
        KnownAreTraded, Traded
<1>1. CASE ListOpenPositions(t)
      BY <1>1 DEF ListOpenPositions, OpenIds
<1>2. CASE MonitorFails(t)
      BY <1>2 DEF MonitorFails
<1>3. ASSUME NEW i \in Ids, UpdateOpenPosition(t, i)
      PROVE  KnownAreTraded'
  <2>1. trade[i] # "absent"
        BY <1>3 DEF UpdateOpenPosition
  <2>2. \/ exits' = exits
        \/ exits' = [exits EXCEPT ![t] = Append(@, i)]
        BY <1>3 DEF UpdateOpenPosition, Decide
  <2>3. \A s \in Threads : \A k \in 1..Len(exits'[s]) : trade[exits'[s][k]] # "absent"
    <3>1. exits'[t] = exits[t] \/ exits'[t] = Append(exits[t], i)
          BY <2>2
    <3>2. \A k \in 1..Len(exits'[t]) : trade[exits'[t][k]] # "absent"
      <4> HIDE DEF TypeOK, KnownAreTraded
      <4> QED BY <2>1, <3>1, ExitsStayTraded
    <3>3. \A s \in Threads \ {t} : exits'[s] = exits[s]
          BY <2>2
    <3>4. \A s \in Threads : \A k \in 1..Len(exits[s]) : trade[exits[s][k]] # "absent"
          OBVIOUS
    <3> QED BY ONLY <3>2, <3>3, <3>4
  <2> QED BY <1>3, <2>1, <2>3 DEF UpdateOpenPosition, Decide
<1>4. ASSUME NEW i \in Ids, SkipOpenPosition(t, i)
      PROVE  KnownAreTraded'
      BY <1>4 DEF SkipOpenPosition
<1>5. CASE MonitorDone(t)
      BY <1>5 DEF MonitorDone
<1>6. CASE NextExit(t)
  <2>1. /\ exits' = [exits EXCEPT ![t] = Tail(@)]
        /\ exits[t] \in Seq(Ids) /\ exits[t] # <<>>
        BY <1>6 DEF NextExit
  <2>2. Head(exits[t]) \in Ids /\ trade[Head(exits[t])] # "absent"
    <3>1. Head(exits[t]) = exits[t][1] /\ 1 \in 1..Len(exits[t])
          BY ONLY <2>1, HeadTailProperties, EmptySeq, LenProperties
    <3> QED BY <2>1, <3>1
  <2>3. \A s \in Threads : \A k \in 1..Len(exits'[s]) : trade[exits'[s][k]] # "absent"
    <3>1. \A k \in 1..Len(exits'[t]) : trade[exits'[t][k]] # "absent"
      <4>1. exits'[t] = Tail(exits[t])
            BY <2>1
      <4> QED BY <2>1, <2>2, <4>1, ExitsStayTraded
    <3> QED BY <2>1, <3>1
  <2> QED BY <1>6, <2>2, <2>3 DEF NextExit, Load
<1>7. CASE SaveClosedPosition(t)
      BY <1>7 DEF SaveClosedPosition
<1>8. CASE CloseFails(t)
      BY <1>8 DEF CloseFails, Return
<1>9. CASE MatchOpenTrade(t)
  <2>1. /\ match' = [match EXCEPT ![t] = match'[t]]
        /\ match'[t] # NoId => match'[t] \in Ids /\ trade[match'[t]] = "open"
        BY <1>9 DEF MatchOpenTrade, MatchingOpenTrades
  <2> QED BY <1>9, <2>1 DEF MatchOpenTrade
<1>10. CASE SaveClosedTrade(t)
  <2>1. match[t] \in Ids
        BY <1>10 DEF SaveClosedTrade
  <2> QED BY <1>10, <2>1 DEF SaveClosedTrade, Return
<1>11. CASE InsertClosedTrade(t)
      BY <1>11 DEF InsertClosedTrade, Return
<1>12. CASE SaveTradeFails(t)
      BY <1>12 DEF SaveTradeFails, Return
<1>13. ASSUME NEW i \in Ids, CloseRequest(t, i)
       PROVE  KnownAreTraded'
      BY <1>13 DEF CloseRequest, Load
<1>14. ASSUME NEW i \in Ids, ConsumeExitCandidate(t, i)
       PROVE  KnownAreTraded'
      BY <1>14 DEF ConsumeExitCandidate, Load
<1> QED BY <1>1, <1>2, <1>3, <1>4, <1>5, <1>6, <1>7, <1>8, <1>9, <1>10, <1>11, <1>12,
           <1>13, <1>14
        DEF Step, Start, Monitor, Close

LEMMA NextKnown ==
  ASSUME TypeOK, KnownAreTraded, [Next]_vars
  PROVE  KnownAreTraded'
<1>1. CASE RunOnceStart \/ PlaceOrder
      BY <1>1, PlaceOrderKnown
<1>2. ASSUME NEW t \in Threads, Step(t) \/ Start(t)
      PROVE  KnownAreTraded'
      BY <1>2, StepKnown
<1>3. CASE Crash
  <2>1. \A t \in Threads : 1..Len(exits'[t]) = {}
        BY <1>3, EmptySeq DEF Crash
  <2> QED BY <1>3, <2>1 DEF Crash, KnownAreTraded, Traded, tables
<1>4. CASE UNCHANGED vars
      BY <1>4 DEF vars, tables, locals, KnownAreTraded, Traded
<1> QED BY <1>1, <1>2, <1>3, <1>4 DEF Next

-----------------------------------------------------------------------------
\* A close finds its own trade, or finds none because it was booked before.
MatchIsOwn ==
    \A t \in Threads : pc[t] = "matched" =>
        IF match[t] = NoId THEN trade[target[t]] = "closed" ELSE match[t] = target[t]

ClosedTradeIsPriced == \A i \in Ids : trade[i] = "closed" => pnl[i] = i

BookInv == MatchIsOwn /\ ClosedTradeIsPriced /\ ClosedIsBooked

\* What a close relies on: ListTrades answers, SaveTrade succeeds, and the
\* process does not stop between the two rows.
ClosesRunThrough == "trades" \notin FailingReads /\ ~WriteFails /\ ~Crashes

LEMMA InitBook == Init => BookInv
BY DEF Init, BookInv, MatchIsOwn, ClosedTradeIsPriced, ClosedIsBooked, Threads

\* A fill is written once, so orders told apart later were told apart before.
LEMMA DistinctBefore ==
  ASSUME TypeOK, KnownAreTraded, [Next]_vars, DistinctFills'
  PROVE  DistinctFills
<1>1. \A k \in Ids : fill[k] # NoId => fill'[k] = fill[k]
  <2>1. ASSUME NEW i \in Ids, NEW f \in Fills[i], SaveOpenTrade(i, f)
        PROVE  \A k \in Ids : fill[k] # NoId => fill'[k] = fill[k]
        BY <2>1 DEF SaveOpenTrade, KnownAreTraded, TypeOK, ColumnsOK
  <2>2. ASSUME NEW t \in Threads, Step(t) \/ Start(t)
        PROVE  fill' = fill
    <3>1. CASE Monitor(t)
          BY <3>1 DEF Monitor, ListOpenPositions, MonitorFails, UpdateOpenPosition,
                      SkipOpenPosition, MonitorDone, tables
    <3>2. CASE Close(t)
          BY <3>2 DEF Close, NextExit, SaveClosedPosition, CloseFails, MatchOpenTrade,
                      SaveClosedTrade, InsertClosedTrade, SaveTradeFails, tables
    <3>3. CASE Start(t)
          BY <3>3 DEF Start, CloseRequest, ConsumeExitCandidate, tables
    <3> QED BY <2>2, <3>1, <3>2, <3>3 DEF Step
  <2>3. CASE RunOnceStart \/ RiskApprove \/ PlaceOrderRefused \/ SaveOpenPosition
             \/ Crash \/ UNCHANGED vars
        BY <2>3 DEF RunOnceStart, RiskApprove, PlaceOrderRefused, SaveOpenPosition,
                    Crash, vars, tables
  <2> QED BY <2>1, <2>2, <2>3 DEF Next, PlaceOrder
<1> QED BY <1>1 DEF DistinctFills

\* A step that closes no trade and leaves nothing closed behind.
LEMMA KeepBook ==
  ASSUME TypeOK, BookInv, KnownAreTraded,
         UNCHANGED pnl,
         \A i \in Ids : trade[i] # "absent" => trade'[i] = trade[i],
         \A i \in Ids : trade'[i] = "closed" => trade[i] = "closed",
         \A t \in Threads : pc'[t] = "matched" =>
            pc[t] = "matched" /\ UNCHANGED <<match[t], target[t]>>,
         \A i \in Ids : Closing(i) => Closing(i)',
         \A i \in Ids : position'[i] = "closed" => position[i] = "closed" \/ Closing(i)'
  PROVE  BookInv'
<1>1. ASSUME NEW t \in Threads, pc'[t] = "matched"
      PROVE  IF match'[t] = NoId THEN trade'[target'[t]] = "closed"
                                 ELSE match'[t] = target'[t]
  <2>1. pc[t] = "matched" /\ match'[t] = match[t] /\ target'[t] = target[t]
        BY <1>1
  <2>2. target[t] \in Ids /\ trade[target[t]] # "absent"
        BY <2>1 DEF TypeOK, LocalsOK, ControlOK, Holds, KnownAreTraded, Traded
  <2> QED BY <2>1, <2>2 DEF BookInv, MatchIsOwn
<1>2. ClosedTradeIsPriced'
      BY DEF BookInv, ClosedTradeIsPriced
<1>3. ClosedIsBooked'
      BY DEF BookInv, ClosedIsBooked
<1> QED BY <1>1, <1>2, <1>3 DEF BookInv, MatchIsOwn

LEMMA PlaceOrderBook ==
  ASSUME TypeOK, KnownAreTraded, BookInv, RunOnceStart \/ PlaceOrder
  PROVE  BookInv'
<1>1. /\ UNCHANGED <<pnl, target, match>>
      /\ \E l \in {"articles", "approved", "tradeSaved"} : GoTo(Live, l)
      /\ pc[Live] \in {"idle", "articles", "approved", "tradeSaved"}
      /\ \/ UNCHANGED trade
         \/ \E i \in Ids : trade[i] = "absent" /\ trade' = [trade EXCEPT ![i] = "open"]
      /\ \/ UNCHANGED position
         \/ position' = [position EXCEPT ![order] = "open"]
      BY DEF RunOnceStart, PlaceOrder, RiskApprove, PlaceOrderRefused, SaveOpenTrade,
             SaveOpenPosition, tables
<1>2. /\ \A i \in Ids : trade[i] # "absent" => trade'[i] = trade[i]
      /\ \A i \in Ids : trade'[i] = "closed" => trade[i] = "closed"
      BY <1>1 DEF TypeOK, ColumnsOK
<1>3. \A i \in Ids : position'[i] = "closed" => position[i] = "closed"
      BY <1>1 DEF TypeOK, ColumnsOK
<1>4. \A t \in Threads : pc'[t] = pc[t] \/ pc'[t] \notin {"posClosed", "matched"}
      BY <1>1 DEF GoTo, TypeOK, LocalsOK, Threads
<1>5. \A t \in Threads : pc[t] \in {"posClosed", "matched"} => pc'[t] = pc[t]
      BY <1>1 DEF GoTo, TypeOK, LocalsOK, Threads
<1>6. \A i \in Ids : Closing(i) => Closing(i)'
      BY <1>1, <1>5 DEF Closing
<1> QED BY <1>1, <1>2, <1>3, <1>4, <1>6, KeepBook

LEMMA StepBook ==
  ASSUME TypeOK, KnownAreTraded, BookInv, DistinctFills, ClosesRunThrough,
         NEW t \in Threads, Step(t) \/ Start(t)
  PROVE  BookInv'
<1>0. /\ target \in [Threads -> Ids \cup {NoId}] /\ match \in [Threads -> Ids \cup {NoId}]
      /\ pc \in [Threads -> PCs]
      /\ position \in [Ids -> Statuses] /\ trade \in [Ids -> Statuses]
      /\ pnl \in [Ids -> Ids \cup {NoId}]
      /\ \A s \in Threads : Holds(s) <=> target[s] # NoId
      BY DEF TypeOK, LocalsOK, ColumnsOK, ControlOK
<1>1. ASSUME UNCHANGED <<trade, pnl>>,
             pc[t] \notin {"posClosed", "matched"},
             \A s \in Threads \ {t} : UNCHANGED <<pc[s], target[s], match[s]>>,
             pc'[t] # "matched",
             \A i \in Ids : position'[i] = "closed" =>
                position[i] = "closed" \/ (i = target'[t] /\ pc'[t] = "posClosed")
      PROVE  BookInv'
  <2>1. \A i \in Ids : Closing(i) => Closing(i)'
        BY <1>1 DEF Closing
  <2>2. \A i \in Ids : position'[i] = "closed" => position[i] = "closed" \/ Closing(i)'
        BY <1>1 DEF Closing
  <2> QED BY <1>1, <2>1, <2>2, KeepBook
<1>2. CASE Monitor(t)
  <2>1. /\ UNCHANGED <<trade, pnl, target, match>>
        /\ pc[t] \in {"idle", "articles", "monitor"}
        /\ pc' = pc \/ \E l \in {"idle", "exits", "monitor"} : GoTo(t, l)
        /\ \/ UNCHANGED position
           \/ \E i \in Ids : position' = [position EXCEPT ![i] = "open"]
        BY <1>2 DEF Monitor, ListOpenPositions, MonitorFails, UpdateOpenPosition,
                    SkipOpenPosition, MonitorDone, MonitorStart, Resume, tables
  <2>2. \A s \in Threads \ {t} : pc'[s] = pc[s]
        BY <1>0, <2>1 DEF GoTo
  <2>3. pc'[t] # "matched"
        BY <1>0, <2>1 DEF GoTo
  <2>4. \A i \in Ids : position'[i] = "closed" => position[i] = "closed"
        BY <1>0, <2>1
  <2> QED BY <1>1, <2>1, <2>2, <2>3, <2>4
<1>3. CASE NextExit(t) \/ Start(t)
  <2>1. /\ UNCHANGED <<position, trade, pnl, match>>
        /\ pc[t] \in {"idle", "exits"}
        /\ \E i : target' = [target EXCEPT ![t] = i]
        /\ pc' = [pc EXCEPT ![t] = "loaded"]
        BY <1>3 DEF NextExit, Start, CloseRequest, ConsumeExitCandidate, Load, GoTo, tables
  <2> QED BY <1>0, <1>1, <2>1
<1>4. CASE SaveClosedPosition(t) \/ CloseFails(t)
  <2>1. CASE SaveClosedPosition(t)
    <3>1. target[t] \in Ids
          BY <1>0, <2>1 DEF SaveClosedPosition, Holds
    <3> QED BY <1>0, <1>1, <2>1, <3>1 DEF SaveClosedPosition, GoTo
  <2>2. CASE CloseFails(t)
        BY <1>0, <1>1, <2>2 DEF CloseFails, Return, Resume, GoTo, tables
  <2> QED BY <1>4, <2>1, <2>2
<1>5. CASE MatchOpenTrade(t)
  <2>1. target[t] \in Ids /\ trade[target[t]] # "absent" /\ fill[target[t]] # NoId
        BY <1>0, <1>5 DEF MatchOpenTrade, Holds, KnownAreTraded, Traded
  <2>2. \A j \in MatchingOpenTrades(target[t]) : j = target[t]
    <3>1. ASSUME NEW j \in MatchingOpenTrades(target[t])
          PROVE  j = target[t]
      <4>1. j \in Ids /\ fill[j] # NoId /\ SameFill(fill[j], fill[target[t]])
            BY <3>1 DEF MatchingOpenTrades, KnownAreTraded
      <4> QED BY <2>1, <4>1 DEF DistinctFills, SameFill
    <3> QED BY <3>1
  <2>3. MatchingOpenTrades(target[t]) = {} => trade[target[t]] = "closed"
    <3>1. SameFill(fill[target[t]], fill[target[t]])
          BY DEF SameFill
    <3>2. trade[target[t]] = "open" => target[t] \in MatchingOpenTrades(target[t])
          BY <2>1, <3>1 DEF MatchingOpenTrades
    <3> QED BY <1>0, <2>1, <3>2 DEF Statuses
  <2>4. /\ UNCHANGED <<position, trade, pnl, target>>
        /\ pc' = [pc EXCEPT ![t] = "matched"] /\ pc[t] = "posClosed"
        /\ match' = [match EXCEPT ![t] = match'[t]]
        /\ \/ match'[t] \in MatchingOpenTrades(target[t])
           \/ match'[t] = NoId /\ MatchingOpenTrades(target[t]) = {}
        BY <1>0, <1>5 DEF MatchOpenTrade, ClosesRunThrough, GoTo, tables
  <2>5. match'[t] = NoId => trade[target[t]] = "closed"
        BY <2>1, <2>2, <2>3, <2>4, IdsAssumption
  <2>6. match'[t] # NoId => match'[t] = target[t]
        BY <2>2, <2>4
  <2>7. MatchIsOwn'
        BY <1>0, <2>4, <2>5, <2>6 DEF BookInv, MatchIsOwn
  <2>8. \A i \in Ids : Closing(i) => Closing(i)'
        BY <1>0, <2>4 DEF Closing
  <2>9. ClosedTradeIsPriced' /\ ClosedIsBooked'
        BY <2>4, <2>8 DEF BookInv, ClosedTradeIsPriced, ClosedIsBooked
  <2> QED BY <2>7, <2>9 DEF BookInv
<1>6. ASSUME pc[t] = "matched", Return(t), UNCHANGED position,
             target[t] \in Ids, pnl'[target[t]] = target[t],
             \A i \in Ids \ {target[t]} : UNCHANGED <<trade[i], pnl[i]>>,
             trade[target[t]] = "closed" => trade'[target[t]] = "closed"
      PROVE  BookInv'
  <2>1. /\ \A s \in Threads \ {t} : UNCHANGED <<pc[s], target[s], match[s]>>
        /\ pc'[t] \in {"idle", "exits"}
        BY <1>0, <1>6 DEF Return, Resume, GoTo
  <2>2. MatchIsOwn'
    <3>1. ASSUME NEW s \in Threads, pc'[s] = "matched"
          PROVE  IF match'[s] = NoId THEN trade'[target'[s]] = "closed"
                                     ELSE match'[s] = target'[s]
      <4>1. s # t /\ pc[s] = "matched" /\ match'[s] = match[s] /\ target'[s] = target[s]
            BY <2>1, <3>1
      <4>2. target[s] \in Ids
            BY <1>0, <4>1 DEF Holds
      <4>3. trade[target[s]] = "closed" => trade'[target[s]] = "closed"
            BY <1>6, <4>2
      <4> QED BY <4>1, <4>3 DEF BookInv, MatchIsOwn
    <3> QED BY <3>1 DEF MatchIsOwn
  <2>3. ClosedTradeIsPriced'
        BY <1>6 DEF BookInv, ClosedTradeIsPriced
  <2>4. ClosedIsBooked'
    <3>1. ASSUME NEW i \in Ids \ {target[t]}, Closing(i)
          PROVE  Closing(i)'
          BY <2>1, <3>1 DEF Closing
    <3> QED BY <1>6, <3>1 DEF BookInv, ClosedIsBooked
  <2> QED BY <2>2, <2>3, <2>4 DEF BookInv
<1>7. CASE SaveClosedTrade(t)
  <2>1. target[t] \in Ids /\ match[t] = target[t]
        BY <1>0, <1>7 DEF SaveClosedTrade, Holds, BookInv, MatchIsOwn
  <2> QED BY <1>0, <1>6, <1>7, <2>1 DEF SaveClosedTrade
<1>8. CASE InsertClosedTrade(t)
  <2>1. target[t] \in Ids /\ pnl[target[t]] = target[t]
        BY <1>0, <1>8 DEF InsertClosedTrade, Holds, BookInv, MatchIsOwn, ClosedTradeIsPriced
  <2> QED BY <1>6, <1>8, <2>1 DEF InsertClosedTrade
<1>9. CASE SaveTradeFails(t)
      BY <1>9 DEF SaveTradeFails, ClosesRunThrough
<1> QED BY <1>2, <1>3, <1>4, <1>5, <1>7, <1>8, <1>9 DEF Step, Close

LEMMA NextBook ==
  ASSUME TypeOK, KnownAreTraded, DistinctFills => BookInv, ClosesRunThrough,
         [Next]_vars, DistinctFills'
  PROVE  BookInv'
<1>0. DistinctFills /\ BookInv
      BY DistinctBefore
<1>1. CASE RunOnceStart \/ PlaceOrder
      BY <1>0, <1>1, PlaceOrderBook
<1>2. ASSUME NEW t \in Threads, Step(t) \/ Start(t)
      PROVE  BookInv'
      BY <1>0, <1>2, StepBook
<1>3. CASE Crash
      BY <1>3 DEF Crash, ClosesRunThrough
<1>4. CASE UNCHANGED vars
      BY <1>0, <1>4
      DEF vars, tables, locals, BookInv, MatchIsOwn, ClosedTradeIsPriced,
          ClosedIsBooked, Closing
<1> QED BY <1>1, <1>2, <1>3, <1>4 DEF Next

(* However many threads close a position, and in whatever order their      *)
(* reads and writes fall, its PnL ends on the trade it was opened with: as *)
(* long as quantity and size tell the orders apart, ListTrades answers,    *)
(* saves succeed and the process is not stopped between the two rows.      *)
THEOREM ClosedAreBooked ==
  ASSUME ClosesRunThrough
  PROVE  Spec => [](DistinctFills => ClosedIsBooked)
<1>1. Init => TypeOK /\ KnownAreTraded /\ (DistinctFills => BookInv)
      BY InitTypeOK, InitKnown, InitBook
<1>2. TypeOK /\ KnownAreTraded /\ (DistinctFills => BookInv) /\ [Next]_vars
        => (TypeOK /\ KnownAreTraded /\ (DistinctFills => BookInv))'
      BY NextTypeOK, NextKnown, NextBook
<1>3. (DistinctFills => BookInv) => (DistinctFills => ClosedIsBooked)
      BY DEF BookInv
<1> QED BY <1>1, <1>2, <1>3, PTL DEF Spec

-----------------------------------------------------------------------------
(* Cash and exposure.  An order under way is the only one whose trade has  *)
(* no position.                                                            *)
TradedIsPlaced ==
    \A i \in Ids : position[i] = "absent" /\ trade[i] # "absent" => order = i

LEMMA NextPlaced ==
  ASSUME TypeOK, KnownAreTraded, TradedIsPlaced, ClosesRunThrough, [Next]_vars
  PROVE  TradedIsPlaced'
<1> USE DEF TypeOK, ColumnsOK, LocalsOK, ControlOK, tables, TradedIsPlaced
<1>1. CASE RunOnceStart \/ RiskApprove \/ PlaceOrderRefused
      BY <1>1 DEF RunOnceStart, RiskApprove, PlaceOrderRefused
<1>2. ASSUME NEW i \in Ids, NEW f \in Fills[i], SaveOpenTrade(i, f)
      PROVE  TradedIsPlaced'
      BY <1>2, IdsAssumption DEF SaveOpenTrade
<1>3. CASE SaveOpenPosition
      BY <1>3 DEF SaveOpenPosition, ClosesRunThrough
<1>4. ASSUME NEW t \in Threads, Monitor(t)
      PROVE  TradedIsPlaced'
  <2>1. /\ UNCHANGED <<trade, order>>
        /\ \/ UNCHANGED position
           \/ \E i \in Ids : position' = [position EXCEPT ![i] = "open"]
        BY <1>4 DEF Monitor, ListOpenPositions, MonitorFails, UpdateOpenPosition,
                    SkipOpenPosition, MonitorDone
  <2> QED BY <2>1
<1>5. ASSUME NEW t \in Threads, Close(t)
      PROVE  TradedIsPlaced'
  <2>1. /\ UNCHANGED order
        /\ UNCHANGED position \/ position' = [position EXCEPT ![target[t]] = "closed"]
        /\ \/ UNCHANGED trade
           \/ match[t] # NoId /\ trade' = [trade EXCEPT ![match[t]] = "closed"]
        BY <1>5 DEF Close, NextExit, SaveClosedPosition, CloseFails, MatchOpenTrade,
                    SaveClosedTrade, InsertClosedTrade, SaveTradeFails
  <2>2. \A i \in Ids : trade'[i] # "absent" => trade[i] # "absent"
        BY <2>1, IdsAssumption DEF KnownAreTraded, Traded
  <2>3. \A i \in Ids : position'[i] = "absent" => position[i] = "absent"
        BY <2>1
  <2> QED BY <2>1, <2>2, <2>3
<1>6. ASSUME NEW t \in Threads, Start(t)
      PROVE  TradedIsPlaced'
      BY <1>6 DEF Start, CloseRequest, ConsumeExitCandidate
<1>7. CASE Crash
      BY <1>7 DEF Crash, ClosesRunThrough
<1>8. CASE UNCHANGED vars
      BY <1>8 DEF vars, locals
<1> QED BY <1>1, <1>2, <1>3, <1>4, <1>5, <1>6, <1>7, <1>8 DEF Next, PlaceOrder, Step

(* Between two cycles Portfolio's cash, which counts open trades, and its  *)
(* exposure, which counts open positions, are of the same orders, under    *)
(* the conditions of the two theorems above together.                      *)
THEOREM MirrorHolds ==
  ASSUME OneThread, ClosesRunThrough
  PROVE  Spec => []TradesMirrorPositions
<1> DEFINE MirrorInv ==
        TypeOK /\ LedgerInv /\ KnownAreTraded /\ (DistinctFills => BookInv) /\ TradedIsPlaced
<1>1. Init => MirrorInv
  <2>1. Init => TradedIsPlaced
        BY DEF Init, TradedIsPlaced
  <2> QED BY <2>1, InitTypeOK, InitLedgerInv, InitKnown, InitBook
<1>2. MirrorInv /\ [Next]_vars => MirrorInv'
      BY NextTypeOK, NextLedgerInv, NextKnown, NextBook, NextPlaced
<1>3. MirrorInv => TradesMirrorPositions
  <2> SUFFICES ASSUME MirrorInv, DistinctFills, \A t \in Threads : pc[t] = "idle",
                      NEW i \in Ids
               PROVE  trade[i] = "open" <=> position[i] = "open"
      BY DEF TradesMirrorPositions
  <2>1. order = NoId /\ ~Closing(i)
        BY DEF TypeOK, ControlOK, Threads, Closing
  <2>2. trade[i] \in Statuses /\ position[i] \in Statuses
        BY DEF TypeOK, ColumnsOK
  <2>3. position[i] = "absent" => trade[i] = "absent"
        BY <2>1, IdsAssumption DEF TradedIsPlaced
  <2>4. position[i] = "closed" => trade[i] = "closed"
        BY <2>1, IdsAssumption DEF BookInv, ClosedIsBooked, LedgerInv, ColumnsAgree
  <2>5. position[i] = "open" => trade[i] \notin {"absent", "closed"}
        BY DEF BookInv, ClosedTradeIsPriced, LedgerInv, ColumnsAgree, Unbooked
  <2> QED BY <2>2, <2>3, <2>4, <2>5 DEF Statuses
<1> QED BY <1>1, <1>2, <1>3, PTL DEF Spec

=============================================================================
