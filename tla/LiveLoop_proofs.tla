--------------------------- MODULE LiveLoop_proofs ---------------------------
(***************************************************************************)
(* Proofs about SeenTracker, for any ids and any bound, and about LiveLoop *)
(* for any number of loop goroutines, requests and articles.               *)
(***************************************************************************)
EXTENDS LiveLoop, SequenceTheorems, FiniteSetTheorems, FunctionTheorems, TLAPS

-----------------------------------------------------------------------------
(* The seen tracker.                                                       *)

(* Adding an id that is not remembered drops the first n entries of the    *)
(* lengthened order, where n is 0 or 1, and nothing else.                  *)
LEMMA AddDropsPrefix ==
  ASSUME TrackerOK, TrackerBounded, NEW id \in Articles, ~Has(id), Add(id)
  PROVE  \E n \in {0, 1} :
           LET longer == Append(order, id)
           IN  /\ longer \in Seq(Articles)
               /\ n <= Len(longer)
               /\ Len(order') = Len(longer) - n
               /\ MaxSeen > 0 => Len(order') <= MaxSeen
               /\ n = 1 => MaxSeen > 0 /\ Len(order') = MaxSeen
               /\ order' \in Seq(Articles)
               /\ \A k \in 1..Len(order') : order'[k] = longer[k + n]
               /\ items' = (items \cup {id}) \ {longer[k] : k \in 1..n}
<1> DEFINE longer == Append(order, id)
           n == Excess(longer)
<1>1. /\ order \in Seq(Articles)
      /\ longer \in Seq(Articles)
      /\ Len(longer) = Len(order) + 1
      /\ Len(order) \in Nat
      BY AppendProperties, LenProperties DEF TrackerOK
<1>2. /\ n \in {0, 1} /\ n <= Len(longer)
      /\ MaxSeen > 0 => Len(longer) - n <= MaxSeen
      /\ n = 1 => MaxSeen > 0 /\ Len(longer) - n = MaxSeen
      BY <1>1, MaxSeenAssumption DEF Excess, TrackerBounded
<1>3. /\ order' = SubSeq(longer, n + 1, Len(longer))
      /\ items' = (items \cup {id}) \ {longer[k] : k \in 1..n}
      BY DEF Add
<1> HIDE DEF longer, n
<1>4. /\ order' \in Seq(Articles)
      /\ Len(order') = Len(longer) - n
      /\ \A k \in 1..(Len(longer) - n) : order'[k] = longer[k + n]
  <2>1. \A k \in (n + 1)..Len(longer) : longer[k] \in Articles
        BY <1>1, <1>2, ElementOfSeq
  <2>2. \A k \in 1..(Len(longer) - n) : (n + 1) + k - 1 = k + n
        BY <1>1, <1>2
  <2> QED BY <1>1, <1>2, <1>3, <2>1, <2>2, SubSeqProperties
<1> QED BY <1>1, <1>2, <1>3, <1>4 DEF longer

LEMMA AddPreserves ==
  ASSUME TrackerOK, TrackerBounded, NEW id \in Articles, Add(id)
  PROVE  /\ TrackerOK' /\ TrackerBounded'
         /\ \A j, k \in 1..Len(order) :
               (j < k /\ order[j] \in items') => order[k] \in items'
<1>1. CASE Has(id)
  <2>1. UNCHANGED tracker
        BY <1>1 DEF Add
  <2> QED BY <2>1 DEF tracker, TrackerOK, TrackerBounded
<1>2. CASE ~Has(id)
  <2> DEFINE longer == Append(order, id)
             len == Len(order)
  <2>1. PICK n \in {0, 1} :
           /\ longer \in Seq(Articles)
           /\ n <= Len(longer)
           /\ Len(order') = Len(longer) - n
           /\ MaxSeen > 0 => Len(order') <= MaxSeen
           /\ order' \in Seq(Articles)
           /\ \A k \in 1..Len(order') : order'[k] = longer[k + n]
           /\ items' = (items \cup {id}) \ {longer[k] : k \in 1..n}
        BY <1>2, AddDropsPrefix
  <2>2. /\ len \in Nat /\ Len(longer) = len + 1
        /\ \A k \in 1..len : longer[k] = order[k]
        /\ longer[len + 1] = id
        BY AppendProperties, LenProperties DEF TrackerOK
  <2>3. \A k \in 1..len : order[k] \in items
        BY DEF TrackerOK
  <2>4. id \notin items
        BY <1>2 DEF Has
  <2>5. \A x \in items : \E k \in 1..len : x = order[k]
        BY DEF TrackerOK
  <2>6. \A j, k \in 1..len : order[j] = order[k] => j = k
        BY DEF TrackerOK
  <2> HIDE DEF longer, len
  <2>7. \A j, k \in 1..(len + 1) : longer[j] = longer[k] => j = k
    <3> SUFFICES ASSUME NEW j \in 1..(len + 1), NEW k \in 1..(len + 1), longer[j] = longer[k]
                 PROVE  j = k
        OBVIOUS
    <3>1. CASE j \in 1..len /\ k \in 1..len
          BY <3>1, <2>2, <2>6
    <3>2. CASE j = len + 1 /\ k \in 1..len
          BY <3>2, <2>2, <2>3, <2>4
    <3>3. CASE j \in 1..len /\ k = len + 1
          BY <3>3, <2>2, <2>3, <2>4
    <3>4. CASE j = len + 1 /\ k = len + 1
          BY <3>4
    <3> QED BY <2>2, <3>1, <3>2, <3>3, <3>4
  <2>8. \A x : x \in items \cup {id} <=> \E k \in 1..(len + 1) : x = longer[k]
    <3>1. ASSUME NEW x, x \in items
          PROVE  \E k \in 1..(len + 1) : x = longer[k]
          BY <3>1, <2>2, <2>5
    <3>2. \E k \in 1..(len + 1) : id = longer[k]
          BY <2>2
    <3>3. ASSUME NEW k \in 1..(len + 1)
          PROVE  longer[k] \in items \cup {id}
      <4>1. CASE k \in 1..len
            BY <4>1, <2>2, <2>3
      <4>2. CASE k = len + 1
            BY <4>2, <2>2
      <4> QED BY <2>2, <4>1, <4>2
    <3> QED BY <3>1, <3>2, <3>3
  <2>9. \A x : x \in items' <=> \E k \in (n + 1)..(len + 1) : x = longer[k]
    <3>1. ASSUME NEW x, x \in items'
          PROVE  \E k \in (n + 1)..(len + 1) : x = longer[k]
      <4>1. PICK k \in 1..(len + 1) : x = longer[k]
            BY <3>1, <2>1, <2>8
      <4>2. k \notin 1..n
            BY <3>1, <2>1, <4>1
      <4> QED BY <4>1, <4>2, <2>2
    <3>2. ASSUME NEW k \in (n + 1)..(len + 1)
          PROVE  longer[k] \in items'
      <4>1. k \in 1..(len + 1) /\ k \notin 1..n /\ 1..n \subseteq 1..(len + 1)
            BY <2>1, <2>2
      <4>2. longer[k] \notin {longer[i] : i \in 1..n}
            BY <4>1, <2>7
      <4> QED BY <4>1, <4>2, <2>8, <2>1
    <3> QED BY <3>1, <3>2
  <2>10. TrackerOK'
    <3>1. \A k \in 1..Len(order') : k + n \in (n + 1)..(len + 1) /\ order'[k] = longer[k + n]
          BY <2>1, <2>2
    <3>2. \A k \in (n + 1)..(len + 1) : k - n \in 1..Len(order') /\ order'[k - n] = longer[k]
          BY <2>1, <2>2
    <3>3. items' = {order'[k] : k \in 1..Len(order')}
      <4>1. ASSUME NEW x, x \in items'
            PROVE  \E k \in 1..Len(order') : x = order'[k]
        <5>1. PICK k \in (n + 1)..(len + 1) : x = longer[k]
              BY <4>1, <2>9
        <5> QED BY <5>1, <3>2
      <4>2. \A k \in 1..Len(order') : order'[k] \in items'
            BY <2>9, <3>1
      <4> QED BY <4>1, <4>2
    <3>4. \A j, k \in 1..Len(order') : order'[j] = order'[k] => j = k
          BY <2>1, <2>2, <2>7, <3>1
    <3> QED BY <2>1, <3>3, <3>4 DEF TrackerOK
  <2>11. TrackerBounded'
         BY <2>1 DEF TrackerBounded
  <2>12. ASSUME NEW j \in 1..len, NEW k \in 1..len, j < k, order[j] \in items'
         PROVE  order[k] \in items'
    <3>1. PICK i \in (n + 1)..(len + 1) : longer[j] = longer[i]
          BY <2>12, <2>2, <2>9
    <3>2. j = i
          BY <3>1, <2>1, <2>2, <2>7
    <3>3. k \in (n + 1)..(len + 1) /\ longer[k] = order[k]
          BY <3>2, <2>12, <2>1, <2>2
    <3> QED BY <3>3, <2>9
  <2> QED BY <2>10, <2>11, <2>12 DEF len
<1> QED BY <1>1, <1>2

(* Set and order agree, and at most MaxSeen ids are remembered, whatever   *)
(* ids are added in whatever order.                                        *)
THEOREM TrackerCorrect == TrackerSpec => [](TrackerOK /\ TrackerBounded)
<1>1. TrackerInit => TrackerOK /\ TrackerBounded
      BY MaxSeenAssumption, EmptySeq DEF TrackerInit, TrackerOK, TrackerBounded
<1>2. ASSUME TrackerOK /\ TrackerBounded, [\E id \in Articles : Add(id)]_tracker
      PROVE  (TrackerOK /\ TrackerBounded)'
  <2>1. CASE \E id \in Articles : Add(id)
        BY <1>2, <2>1, AddPreserves
  <2>2. CASE UNCHANGED tracker
        BY <1>2, <2>2 DEF tracker, TrackerOK, TrackerBounded
  <2> QED BY <1>2, <2>1, <2>2
<1> QED BY <1>1, <1>2, PTL DEF TrackerSpec

(* An eviction forgets the id inserted first.                              *)
THEOREM EvictionInOrder == TrackerSpec => EvictsOldest
<1>1. TrackerSpec => [](TrackerOK /\ TrackerBounded)
      BY TrackerCorrect
<1>2. ASSUME TrackerOK /\ TrackerBounded, [\E id \in Articles : Add(id)]_tracker
      PROVE  [\A j, k \in 1..Len(order) :
                 (j < k /\ order[j] \in items') => order[k] \in items']_tracker
      BY <1>2, AddPreserves
<1> QED BY <1>1, <1>2, PTL DEF TrackerSpec, EvictsOldest

-----------------------------------------------------------------------------
(* The live loop.                                                          *)

LEMMA ListingsAreSeqs == ASSUME stored \subseteq Articles PROVE Listings \subseteq Seq(Articles)
<1>1. IsFiniteSet(stored) /\ Cardinality(stored) \in Nat
      BY ArticlesAssumption, FS_Subset, FS_CardinalityType
<1>2. Count \in Nat
      BY <1>1, ListLimitAssumption DEF Count
<1> SUFFICES ASSUME NEW s \in Listings
             PROVE  s \in Seq(Articles)
    OBVIOUS
<1>3. s \in [1..Count -> Articles]
      BY DEF Listings
<1> QED BY <1>2, <1>3, SeqDef

LEMMA ArticlesAreNumbers == Articles \subseteq Nat /\ Never \in Int /\ SinceCap \in Nat
<1>1. Cardinality(Articles) \in Nat
      BY ArticlesAssumption, FS_CardinalityType
<1> QED BY <1>1, ArticlesAssumption, MaxSeenAssumption, LoopSeenAssumption DEF Never, SinceCap

\* The last conjunct of TypeOK: who is in a run, and with what.
OneRun ==
    \A r \in Runners :
        /\ phase[r] \in {"run", "process"} <=> runMu = r
        /\ list[r] # <<>> => runMu = r
        /\ phase[r] = "process" => list[r] # <<>> /\ ~Has(Head(list[r]))

LEMMA TypeOKHasOneRun == TypeOK => OneRun
BY DEF TypeOK, OneRun

LEMMA InitTypeOK == Init => TypeOK
<1> SUFFICES ASSUME Init
             PROVE  TypeOK
    OBVIOUS
<1>2. <<>> \in Seq(Articles)
      BY EmptySeq
<1>3. list \in [Runners -> Seq(Articles)]
      BY <1>2, Zenon DEF Init
<1>4. phase \in [Runners -> Phases] /\ since \in [Articles -> Never..SinceCap]
  <2>1. Never \in Never..SinceCap
        BY ArticlesAreNumbers DEF Never
  <2> QED BY <2>1 DEF Init, Phases
<1>5. stored \subseteq Articles
      BY DEF Init
<1>6. /\ running \in BOOLEAN /\ stopping \in BOOLEAN
      /\ cancel \in Loops \cup {NoRunner} /\ runMu \in Runners \cup {NoRunner}
      /\ cancelled \subseteq Loops /\ ticked \subseteq Loops
      BY DEF Init
<1>7. OneRun
      BY RunnersAssumption DEF Init, OneRun, Runners
<1> QED BY <1>3, <1>4, <1>5, <1>6, <1>7 DEF TypeOK, OneRun

\* A step that starts, ends and does nothing in any run.
KeepsRuns ==
    /\ UNCHANGED <<runMu, list, tracker>>
    /\ \A r \in Runners : phase'[r] # phase[r] => {phase[r], phase'[r]} \cap {"run", "process"} = {}

LEMMA KeepRuns == ASSUME OneRun, KeepsRuns PROVE OneRun'
BY DEF OneRun, KeepsRuns, Has, tracker

LEMMA HeadOfList ==
  ASSUME TypeOK, NEW r \in Runners, list[r] # <<>>
  PROVE  Tail(list[r]) \in Seq(Articles) /\ Head(list[r]) \in Articles
<1>1. list[r] \in Seq(Articles)
      BY DEF TypeOK
<1> QED BY <1>1, HeadTailProperties

LEMMA OlderType ==
  ASSUME TypeOK, NEW a \in Articles
  PROVE  Older(a) \in [Articles -> Never..SinceCap]
<1> SUFFICES ASSUME NEW b \in Articles
             PROVE  (IF b = a \/ since[b] \in {Never, SinceCap} THEN since[b] ELSE since[b] + 1)
                       \in Never..SinceCap
    BY DEF Older
<1>1. since[b] \in Never..SinceCap
      BY DEF TypeOK
<1> QED BY <1>1, ArticlesAreNumbers

LEMMA NextTypeOK == TypeOK /\ [Next]_vars => TypeOK'
<1> SUFFICES ASSUME TypeOK, [Next]_vars
             PROVE  TypeOK'
    OBVIOUS
<1>0. OneRun
      BY TypeOKHasOneRun
<1> DEFINE Types == /\ running \in BOOLEAN
                    /\ stopping \in BOOLEAN
                    /\ cancel \in Loops \cup {NoRunner}
                    /\ cancelled \subseteq Loops
                    /\ ticked \subseteq Loops
                    /\ phase \in [Runners -> Phases]
                    /\ runMu \in Runners \cup {NoRunner}
                    /\ list \in [Runners -> Seq(Articles)]
                    /\ stored \subseteq Articles
                    /\ since \in [Articles -> Never..SinceCap]
<1>t. Types
      BY DEF TypeOK
<1>u. Types' /\ OneRun' => TypeOK'
      BY DEF TypeOK, OneRun
<1> USE DEF Phases, Runners, loopState, runState, GoTo
<1>1. ASSUME NEW l \in Loops, Start(l)
      PROVE  TypeOK'
  <2>1. Types'
        BY <1>1, <1>t DEF Start
  <2>2. KeepsRuns
        BY <1>1, <1>t DEF Start, KeepsRuns
  <2> QED BY <1>0, <1>u, <2>1, <2>2, KeepRuns
<1>2. CASE Stop
  <2>1. Types'
        BY <1>2, <1>t DEF Stop
  <2>2. KeepsRuns
        BY <1>2 DEF Stop, KeepsRuns
  <2> QED BY <1>0, <1>u, <2>1, <2>2, KeepRuns
<1>3. ASSUME NEW l \in Loops, Tick(l)
      PROVE  TypeOK'
  <2>1. Types'
        BY <1>3, <1>t DEF Tick
  <2>2. KeepsRuns
        BY <1>3 DEF Tick, KeepsRuns
  <2> QED BY <1>0, <1>u, <2>1, <2>2, KeepRuns
<1>4. ASSUME NEW l \in Loops, SelectTick(l) \/ SelectDone(l)
      PROVE  TypeOK'
  <2>1. Types'
        BY <1>4, <1>t DEF SelectTick, SelectDone
  <2>2. KeepsRuns
        BY <1>4, <1>t DEF SelectTick, SelectDone, KeepsRuns
  <2> QED BY <1>0, <1>u, <2>1, <2>2, KeepRuns
<1>5. ASSUME NEW l \in Loops, Exit(l)
      PROVE  TypeOK'
  <2>1. Types'
        BY <1>5, <1>t DEF Exit
  <2>2. KeepsRuns
        BY <1>5, <1>t DEF Exit, KeepsRuns
  <2> QED BY <1>0, <1>u, <2>1, <2>2, KeepRuns
<1>6. ASSUME NEW r \in Runners, EnterRun(r)
      PROVE  TypeOK'
  <2>1. PICK loaded \in Seq(Articles) : list' = [list EXCEPT ![r] = loaded]
        BY <1>6, <1>t, ListingsAreSeqs, EmptySeq DEF EnterRun
  <2>2. /\ phase[r] = "ready" /\ runMu = NoRunner /\ runMu' = r
        /\ phase' = [phase EXCEPT ![r] = "run"]
        /\ UNCHANGED <<loopState, ticked, since, tracker, stored>>
        BY <1>6 DEF EnterRun
  <2>3. Types'
        BY <1>t, <2>1, <2>2
  <2>4. OneRun'
        BY <1>0, <1>t, <2>1, <2>2, RunnersAssumption DEF OneRun, Has, tracker
  <2> QED BY <1>u, <2>3, <2>4
<1>7. ASSUME NEW r \in Runners, SkipRun(r)
      PROVE  TypeOK'
  <2>1. Types'
        BY <1>7, <1>t DEF SkipRun, AfterRun
  <2>2. KeepsRuns
        BY <1>7, <1>t DEF SkipRun, AfterRun, KeepsRuns
  <2> QED BY <1>0, <1>u, <2>1, <2>2, KeepRuns
<1>8. ASSUME NEW r \in Runners, TakeArticle(r)
      PROVE  TypeOK'
  <2>1. /\ phase[r] = "run" /\ list[r] # <<>>
        /\ UNCHANGED <<loopState, ticked, runMu, tracker, stored>>
        BY <1>8 DEF TakeArticle
  <2>2. Head(list[r]) \in Articles /\ Tail(list[r]) \in Seq(Articles)
        BY <2>1, HeadOfList
  <2>3. CASE Has(Head(list[r]))
    <3>1. list' = [list EXCEPT ![r] = Tail(@)] /\ UNCHANGED <<phase, since>>
          BY <1>8, <2>3 DEF TakeArticle
    <3>2. Types'
          BY <1>t, <2>1, <2>2, <3>1
    <3>3. OneRun'
          BY <1>0, <1>t, <2>1, <3>1 DEF OneRun, Has, tracker
    <3> QED BY <1>u, <3>2, <3>3
  <2>4. CASE ~Has(Head(list[r]))
    <3>1. /\ since' = [since EXCEPT ![Head(list[r])] = 0]
          /\ phase' = [phase EXCEPT ![r] = "process"] /\ UNCHANGED list
          BY <1>8, <2>4 DEF TakeArticle
    <3>2. 0 \in Never..SinceCap
          BY ArticlesAreNumbers DEF Never
    <3>3. Types'
          BY <1>t, <2>1, <2>2, <3>1, <3>2
    <3>4. OneRun'
          BY <1>0, <1>t, <2>1, <2>4, <3>1 DEF OneRun, Has, tracker
    <3> QED BY <1>u, <3>3, <3>4
  <2> QED BY <2>3, <2>4
<1>9. ASSUME NEW r \in Runners, FinishArticle(r)
      PROVE  TypeOK'
  <2>1. /\ phase[r] = "process" /\ list[r] # <<>> /\ runMu = r
        /\ list' = [list EXCEPT ![r] = Tail(@)]
        /\ phase' = [phase EXCEPT ![r] = "run"]
        /\ since' \in {since, Older(Head(list[r]))}
        /\ UNCHANGED <<loopState, ticked, runMu, stored>>
        BY <1>0, <1>9 DEF FinishArticle, OneRun
  <2>2. Head(list[r]) \in Articles /\ Tail(list[r]) \in Seq(Articles)
        BY <2>1, HeadOfList
  <2>3. since' \in [Articles -> Never..SinceCap]
        BY <1>t, <2>1, <2>2, OlderType
  <2>4. Types'
        BY <1>t, <2>1, <2>2, <2>3
  <2>5. \A q \in Runners : q # r => list[q] = <<>> /\ list'[q] = <<>> /\ phase'[q] = phase[q]
                                     /\ phase[q] \notin {"run", "process"}
        BY <1>0, <1>t, <2>1 DEF OneRun
  <2>6. OneRun'
        BY <1>t, <2>1, <2>5 DEF OneRun
  <2> QED BY <1>u, <2>4, <2>6
<1>10. ASSUME NEW r \in Runners, FinishRun(r)
       PROVE  TypeOK'
  <2>1. Types'
        BY <1>10, <1>t DEF FinishRun, AfterRun
  <2>2. OneRun'
        BY <1>0, <1>10, <1>t, RunnersAssumption DEF FinishRun, AfterRun, OneRun, Has, tracker
  <2> QED BY <1>u, <2>1, <2>2
<1>11. ASSUME NEW r \in Runners, PanicInRun(r)
       PROVE  TypeOK'
  <2>1. <<>> \in Seq(Articles)
        BY EmptySeq
  <2>2. Types'
        BY <1>11, <1>t, <2>1 DEF PanicInRun, AfterRun
  <2>3. OneRun'
        BY <1>0, <1>11, <1>t, RunnersAssumption DEF PanicInRun, AfterRun, OneRun, Has, tracker
  <2> QED BY <1>u, <2>2, <2>3
<1>12. ASSUME NEW a \in Articles, Arrive(a)
       PROVE  TypeOK'
  <2>1. Types'
        BY <1>12, <1>t DEF Arrive
  <2>2. KeepsRuns
        BY <1>12 DEF Arrive, KeepsRuns
  <2> QED BY <1>0, <1>u, <2>1, <2>2, KeepRuns
<1>13. CASE UNCHANGED vars
  <2>1. Types'
        BY <1>13, <1>t DEF vars
  <2>2. KeepsRuns
        BY <1>13 DEF vars, KeepsRuns
  <2> QED BY <1>0, <1>u, <2>1, <2>2, KeepRuns
<1> QED BY <1>1, <1>2, <1>3, <1>4, <1>5, <1>6, <1>7, <1>8, <1>9, <1>10, <1>11, <1>12, <1>13
        DEF Next, Loop, RunOnce

(* Flags, locks and lists stay well formed.                                *)
THEOREM TypeCorrect == Spec => []TypeOK
<1> QED BY InitTypeOK, NextTypeOK, PTL DEF Spec

(***************************************************************************)
(* FlagsMatchLoop needs to know, beyond itself, that the context of a loop *)
(* that was never started is not cancelled.                                *)
(***************************************************************************)
FlagsInv ==
    /\ FlagsMatchLoop
    /\ \A l \in Loops : phase[l] = "unborn" => l \notin cancelled

\* What the steps of RunOnce and of the ticker leave alone.
KeepsFlags ==
    /\ UNCHANGED loopState
    /\ \A l \in Loops : Alive(l) <=> Alive(l)'
    /\ \A l \in Loops : phase'[l] = "unborn" => phase[l] = "unborn"

LEMMA KeepFlags == ASSUME FlagsInv, KeepsFlags PROVE FlagsInv'
BY DEF FlagsInv, FlagsMatchLoop, KeepsFlags, loopState

LEMMA RunOnceKeepsFlags ==
  ASSUME TypeOK, NEW r \in Runners, RunOnce(r)
  PROVE  KeepsFlags
<1> USE DEF TypeOK, Runners, Phases, KeepsFlags, Alive, GoTo, AfterRun
<1>1. CASE EnterRun(r)
      BY <1>1 DEF EnterRun
<1>2. CASE SkipRun(r)
      BY <1>2 DEF SkipRun
<1>3. CASE TakeArticle(r)
      BY <1>3 DEF TakeArticle
<1>4. CASE FinishRun(r)
      BY <1>4 DEF FinishRun
<1>5. CASE PanicInRun(r)
      BY <1>5 DEF PanicInRun
<1>6. CASE FinishArticle(r)
      BY <1>6 DEF FinishArticle
<1> QED BY <1>1, <1>2, <1>3, <1>4, <1>5, <1>6 DEF RunOnce

LEMMA NextFlags ==
  ASSUME TypeOK, FlagsInv, [Next]_vars
  PROVE  FlagsInv'
<1>1. ASSUME NEW l \in Loops, Start(l)
      PROVE  FlagsInv'
  <2>1. /\ \A m \in Loops : ~Alive(m)
        /\ l \notin cancelled
        BY <1>1 DEF Start, FlagsInv, FlagsMatchLoop
  <2>2. /\ running' = TRUE /\ stopping' = FALSE /\ cancel' = l /\ cancelled' = cancelled
        /\ Alive(l)'
        /\ \A m \in Loops : m # l => (Alive(m)' <=> Alive(m)) /\ phase'[m] = phase[m]
        /\ phase'[l] = "ready"
        BY <1>1 DEF Start, GoTo, Alive, TypeOK, Runners
  <2> QED BY <2>1, <2>2 DEF FlagsInv, FlagsMatchLoop
<1>2. CASE Stop
  <2>1. cancel # NoRunner /\ cancel \in Loops /\ Alive(cancel)
        BY <1>2, RunnersAssumption DEF Stop, FlagsInv, FlagsMatchLoop, TypeOK
  <2>2. /\ cancelled' = cancelled \cup {cancel}
        /\ UNCHANGED <<running, cancel, phase>> /\ stopping' = TRUE /\ running
        BY <1>2, <2>1 DEF Stop
  <2> QED BY <2>1, <2>2 DEF FlagsInv, FlagsMatchLoop, Alive
<1>3. ASSUME NEW l \in Loops, Tick(l) \/ SelectTick(l) \/ SelectDone(l)
      PROVE  FlagsInv'
  <2>1. KeepsFlags
    <3> USE DEF KeepsFlags, Alive, GoTo, TypeOK, Runners
    <3>1. CASE Tick(l)
          BY <3>1 DEF Tick
    <3>2. CASE SelectTick(l)
          BY <3>2 DEF SelectTick, loopState
    <3>3. CASE SelectDone(l)
          BY <3>3 DEF SelectDone, loopState
    <3> QED BY <1>3, <3>1, <3>2, <3>3
  <2> QED BY <2>1, KeepFlags
<1>4. ASSUME NEW l \in Loops, Exit(l)
      PROVE  FlagsInv'
  <2>1. /\ Alive(l)
        /\ \A m \in Loops : Alive(m) => m = l
        BY <1>4 DEF Exit, Alive, FlagsInv, FlagsMatchLoop
  <2>2. /\ running' = FALSE /\ stopping' = FALSE /\ cancelled' = cancelled
        /\ ~Alive(l)' /\ phase'[l] # "unborn"
        /\ \A m \in Loops : m # l => (Alive(m)' <=> Alive(m)) /\ phase'[m] = phase[m]
        BY <1>4 DEF Exit, GoTo, Alive, TypeOK, Runners
  <2> QED BY <2>1, <2>2 DEF FlagsInv, FlagsMatchLoop
<1>5. ASSUME NEW r \in Runners, RunOnce(r)
      PROVE  FlagsInv'
      BY <1>5, RunOnceKeepsFlags, KeepFlags
<1>6. CASE (\E a \in Articles : Arrive(a)) \/ UNCHANGED vars
  <2>1. KeepsFlags
        BY <1>6 DEF Arrive, vars, KeepsFlags, Alive
  <2> QED BY <2>1, KeepFlags
<1> QED BY <1>1, <1>2, <1>3, <1>4, <1>5, <1>6 DEF Next, Loop, Runners

(* The flags of the service tell the truth about its goroutine: never two  *)
(* loops, never a Stop without effect.                                     *)
THEOREM FlagsHold == Spec => []FlagsMatchLoop
<1>1. Init => FlagsInv
      BY DEF Init, FlagsInv, FlagsMatchLoop, Alive, Runners
<1>2. TypeOK /\ FlagsInv /\ [Next]_vars => FlagsInv'
      BY NextFlags
<1>3. FlagsInv => FlagsMatchLoop
      BY DEF FlagsInv
<1> QED BY <1>1, <1>2, <1>3, TypeCorrect, PTL DEF Spec

-----------------------------------------------------------------------------
(***************************************************************************)
(* RememberedForMaxSeen.  The tracker evicts in the order of insertion, so *)
(* what is known of an article that was processed is its age: it is being  *)
(* processed, or as many articles stand behind it in the order as were     *)
(* remembered since, or MaxSeen were.  That nobody else inserts while one  *)
(* is being processed is what runMu is for.                                *)
(***************************************************************************)
Processing(a) == since[a] = 0 /\ \E r \in Runners : phase[r] = "process" /\ Head(list[r]) = a

InOrder(a) == \E k \in 1..Len(order) : order[k] = a /\ since[a] = Len(order) - k

AgeOK(a) == since[a] \in {Never, MaxSeen} \/ Processing(a) \/ InOrder(a)

AgeInv ==
    /\ TrackerOK /\ TrackerBounded
    /\ \A a \in Articles \ Poisoned : AgeOK(a)

LEMMA InitAgeInv == Init => AgeInv
<1> SUFFICES ASSUME Init PROVE AgeInv
    OBVIOUS
<1>1. TrackerOK /\ TrackerBounded
      BY MaxSeenAssumption, EmptySeq DEF Init, TrackerInit, TrackerOK, TrackerBounded
<1>2. \A a \in Articles : AgeOK(a)
      BY DEF Init, AgeOK
<1> QED BY <1>1, <1>2 DEF AgeInv

\* A step outside of processArticle.
LEMMA KeepAges ==
  ASSUME AgeInv, UNCHANGED <<tracker, since>>,
         \A r \in Runners : phase[r] = "process" => phase'[r] = "process" /\ list'[r] = list[r]
  PROVE  AgeInv'
BY DEF AgeInv, AgeOK, Processing, InOrder, TrackerOK, TrackerBounded, tracker

\* What a run takes up is not remembered, so it is new or long forgotten.
LEMMA TakeIsLate ==
  ASSUME TypeOK, AgeInv, NEW r \in Runners, phase[r] = "run", list[r] # <<>>,
         ~Has(Head(list[r])), Head(list[r]) \notin Poisoned
  PROVE  since[Head(list[r])] \in {Never, MaxSeen}
<1> DEFINE a == Head(list[r])
<1>1. a \in Articles \ Poisoned
      BY HeadOfList
<1>2. ~Processing(a)
      BY TypeOKHasOneRun DEF OneRun, Processing
<1>3. ~InOrder(a)
      BY DEF AgeInv, TrackerOK, InOrder, Has
<1> QED BY <1>1, <1>2, <1>3 DEF AgeInv, AgeOK

LEMMA TakeAges ==
  ASSUME TypeOK, AgeInv, NEW r \in Runners, TakeArticle(r)
  PROVE  AgeInv'
<1>1. /\ phase[r] = "run" /\ list[r] # <<>> /\ UNCHANGED tracker
      BY DEF TakeArticle
<1>2. CASE Has(Head(list[r]))
  <2>1. list' = [list EXCEPT ![r] = Tail(@)] /\ UNCHANGED <<phase, since>>
        BY <1>2 DEF TakeArticle
  <2> QED BY <1>1, <2>1, KeepAges DEF TypeOK
<1>3. CASE ~Has(Head(list[r]))
  <2> DEFINE a == Head(list[r])
  <2>1. /\ since' = [since EXCEPT ![a] = 0]
        /\ phase' = [phase EXCEPT ![r] = "process"] /\ UNCHANGED list
        BY <1>3 DEF TakeArticle, GoTo
  <2>2. TrackerOK' /\ TrackerBounded'
        BY <1>1 DEF AgeInv, TrackerOK, TrackerBounded, tracker
  <2>3. a \in Articles
        BY <1>1, HeadOfList
  <2>4. ASSUME NEW b \in Articles, b = a
        PROVE  AgeOK(b)'
    <3>1. since'[b] = 0 /\ phase'[r] = "process" /\ Head(list'[r]) = b
          BY <2>1, <2>4 DEF TypeOK
    <3> QED BY <3>1 DEF AgeOK, Processing
  <2>5. ASSUME NEW b \in Articles \ Poisoned, b # a
        PROVE  AgeOK(b)'
    <3>1. since'[b] = since[b] /\ AgeOK(b)
          BY <2>1, <2>5 DEF AgeInv, TypeOK
    <3>2. ~Processing(b)
          BY <1>1, TypeOKHasOneRun DEF Processing, OneRun
    <3> QED BY <1>1, <3>1, <3>2 DEF AgeOK, InOrder, tracker
  <2> QED BY <2>2, <2>4, <2>5 DEF AgeInv
<1> QED BY <1>2, <1>3

\* What was processed goes to the end of the order, everything else ages by one,
\* and the oldest leaves at the age of MaxSeen.
LEMMA FinishAges ==
  ASSUME TypeOK, AgeInv, NEW r \in Runners, FinishArticle(r)
  PROVE  AgeInv'
<1> DEFINE b == Head(list[r])
           len == Len(order)
           longer == Append(order, b)
<1>1. /\ phase[r] = "process" /\ list[r] # <<>> /\ ~Has(b) /\ runMu = r
      BY TypeOKHasOneRun DEF FinishArticle, OneRun
<1>2. Add(b) /\ since' = Older(b) /\ b \in Articles
      BY <1>1, HeadOfList DEF FinishArticle
<1>3. TrackerOK' /\ TrackerBounded'
      BY <1>2, AddPreserves DEF AgeInv
<1>4. PICK n \in {0, 1} :
        /\ longer \in Seq(Articles)
        /\ n <= Len(longer)
        /\ Len(order') = Len(longer) - n
        /\ n = 1 => MaxSeen > 0 /\ Len(order') = MaxSeen
        /\ \A k \in 1..Len(order') : order'[k] = longer[k + n]
      BY <1>1, <1>2, AddDropsPrefix DEF AgeInv
<1>5. /\ len \in Nat /\ Len(longer) = len + 1
      /\ \A k \in 1..len : longer[k] = order[k]
      /\ longer[len + 1] = b
  <2>1. order \in Seq(Articles)
        BY DEF AgeInv, TrackerOK
  <2> QED BY <1>2, <2>1, AppendProperties, LenProperties
<1>6. len <= MaxSeen /\ MaxSeen \in Nat \ {0}
      BY MaxSeenAssumption, LoopSeenAssumption DEF AgeInv, TrackerBounded
<1> HIDE DEF b, len, longer
\* Where an entry of the lengthened order is afterwards.
<1>7. ASSUME NEW k \in 1..(len + 1), k > n
      PROVE  /\ k - n \in 1..Len(order') /\ order'[k - n] = longer[k]
             /\ Len(order') - (k - n) = len + 1 - k
      BY <1>4, <1>5, <1>7
<1>8. ASSUME NEW a \in Articles \ Poisoned
      PROVE  AgeOK(a)'
  <2>1. AgeOK(a) /\ since[a] \in Never..SinceCap
        BY DEF AgeInv, TypeOK
  <2>2. since'[a] = IF a = b \/ since[a] \in {Never, SinceCap} THEN since[a] ELSE since[a] + 1
        BY <1>2 DEF Older
  <2>3. CASE since[a] \in {Never, MaxSeen}
        BY <2>2, <2>3 DEF AgeOK, SinceCap
  <2>4. CASE Processing(a)
    <3>1. a = b /\ since[a] = 0
          BY <1>1, <2>4, TypeOKHasOneRun DEF Processing, OneRun, b
    <3>2. since'[a] = 0
          BY <2>2, <3>1
    <3>3. len + 1 \in 1..(len + 1) /\ len + 1 > n
      <4>1. n = 1 => len + 1 > 1
            BY <1>4, <1>5, <1>6
      <4> QED BY <1>5, <4>1
    <3>4. len + 1 - n \in 1..Len(order') /\ order'[len + 1 - n] = b
          /\ Len(order') - (len + 1 - n) = 0
          BY <1>5, <1>7, <3>3
    <3> QED BY <3>1, <3>2, <3>4 DEF AgeOK, InOrder
  <2>5. CASE InOrder(a) /\ since[a] \notin {Never, MaxSeen}
    <3>1. PICK k \in 1..len : order[k] = a /\ since[a] = len - k
          BY <2>5 DEF InOrder, len
    <3>2. a # b
          BY <1>1, <3>1 DEF AgeInv, TrackerOK, Has, len
    <3>3. since'[a] = len + 1 - k
          BY <1>5, <2>2, <2>5, <3>1, <3>2 DEF SinceCap
    <3>4. CASE k > n
      <4>1. k \in 1..(len + 1) /\ longer[k] = a
            BY <1>5, <3>1
      <4>2. k - n \in 1..Len(order') /\ order'[k - n] = a /\ Len(order') - (k - n) = since'[a]
            BY <1>7, <3>3, <3>4, <4>1
      <4> QED BY <4>2 DEF AgeOK, InOrder
    <3>5. CASE ~(k > n)
      <4>1. n = 1 /\ k = 1
            BY <1>4, <1>5, <3>1, <3>5
      <4>2. len = MaxSeen
            BY <1>4, <1>5, <4>1
      <4>3. since'[a] = MaxSeen
            BY <1>5, <3>3, <4>1, <4>2
      <4> QED BY <4>3 DEF AgeOK
    <3> QED BY <3>4, <3>5
  <2> QED BY <2>1, <2>3, <2>4, <2>5 DEF AgeOK
<1> QED BY <1>3, <1>8 DEF AgeInv

LEMMA PanicAges ==
  ASSUME TypeOK, AgeInv, NEW r \in Runners, PanicInRun(r)
  PROVE  AgeInv'
<1>1. /\ phase[r] = "process" /\ Head(list[r]) \in Poisoned
      /\ UNCHANGED <<tracker, since>>
      BY DEF PanicInRun
<1>2. \A q \in Runners : phase[q] = "process" => q = r
      BY <1>1, TypeOKHasOneRun DEF OneRun
<1>3. \A a \in Articles \ Poisoned : ~Processing(a)
      BY <1>1, <1>2 DEF Processing
<1> QED BY <1>1, <1>3 DEF AgeInv, AgeOK, InOrder, TrackerOK, TrackerBounded, tracker

LEMMA NextAgeInv ==
  ASSUME TypeOK, AgeInv, [Next]_vars
  PROVE  AgeInv'
<1> USE DEF Runners, GoTo, runState, loopState
<1>0. phase \in [Runners -> Phases]
      BY DEF TypeOK
<1>1. ASSUME NEW l \in Loops, Start(l) \/ Tick(l) \/ SelectTick(l) \/ SelectDone(l) \/ Exit(l)
      PROVE  AgeInv'
  <2>1. CASE Start(l)
        BY <1>0, <2>1, KeepAges DEF Start
  <2>2. CASE Tick(l)
        BY <2>2, KeepAges DEF Tick
  <2>3. CASE SelectTick(l)
        BY <1>0, <2>3, KeepAges DEF SelectTick
  <2>4. CASE SelectDone(l)
        BY <1>0, <2>4, KeepAges DEF SelectDone
  <2>5. CASE Exit(l)
        BY <1>0, <2>5, KeepAges DEF Exit
  <2> QED BY <1>1, <2>1, <2>2, <2>3, <2>4, <2>5
<1>2. CASE Stop
      BY <1>2, KeepAges DEF Stop
<1>3. ASSUME NEW r \in Runners, RunOnce(r)
      PROVE  AgeInv'
  <2>1. CASE EnterRun(r)
    <3>1. /\ phase[r] = "ready" /\ phase' = [phase EXCEPT ![r] = "run"]
          /\ \E loaded : list' = [list EXCEPT ![r] = loaded]
          /\ UNCHANGED <<tracker, since>>
          BY <2>1 DEF EnterRun
    <3> QED BY <1>0, <3>1, KeepAges DEF TypeOK
  <2>2. CASE SkipRun(r)
        BY <1>0, <2>2, KeepAges DEF SkipRun, AfterRun
  <2>3. CASE TakeArticle(r)
        BY <2>3, TakeAges
  <2>4. CASE FinishArticle(r)
        BY <2>4, FinishAges
  <2>5. CASE FinishRun(r)
        BY <1>0, <2>5, KeepAges DEF FinishRun, AfterRun
  <2>6. CASE PanicInRun(r)
        BY <2>6, PanicAges
  <2> QED BY <1>3, <2>1, <2>2, <2>3, <2>4, <2>5, <2>6 DEF RunOnce
<1>4. CASE \E a \in Articles : Arrive(a)
      BY <1>4, KeepAges DEF Arrive
<1>5. CASE UNCHANGED vars
      BY <1>5, KeepAges DEF vars
<1> QED BY <1>1, <1>2, <1>3, <1>4, <1>5 DEF Next, Loop

\* Only TakeArticle takes a runner from "run" to "process".
LEMMA BeginsIsTake ==
  ASSUME TypeOK, [Next]_vars, NEW r \in Runners, Begins(r)
  PROVE  list[r] # <<>> /\ ~Has(Head(list[r]))
<1> USE DEF Runners, GoTo, runState, loopState, Begins
<1>0. phase \in [Runners -> Phases]
      BY DEF TypeOK
<1>1. ASSUME NEW l \in Loops
      PROVE  ~(Start(l) \/ Tick(l) \/ SelectTick(l) \/ SelectDone(l) \/ Exit(l))
      BY <1>0 DEF Start, Tick, SelectTick, SelectDone, Exit
<1>2. ~(Stop \/ (\E a \in Articles : Arrive(a)) \/ UNCHANGED vars)
      BY DEF Stop, Arrive, vars
<1>3. ASSUME NEW q \in Runners, RunOnce(q)
      PROVE  list[r] # <<>> /\ ~Has(Head(list[r]))
  <2>1. TakeArticle(q)
    <3>1. ~EnterRun(q)
          BY <1>0 DEF EnterRun
    <3>2. ~SkipRun(q)
          BY <1>0 DEF SkipRun, AfterRun
    <3>3. ~FinishArticle(q)
          BY <1>0 DEF FinishArticle
    <3>4. ~FinishRun(q)
          BY <1>0 DEF FinishRun, AfterRun
    <3>5. ~PanicInRun(q)
          BY <1>0 DEF PanicInRun, AfterRun
    <3> QED BY <1>3, <3>1, <3>2, <3>3, <3>4, <3>5 DEF RunOnce
  <2> QED BY <1>0, <2>1 DEF TakeArticle
<1> QED BY <1>1, <1>2, <1>3 DEF Next, Loop

(* Whatever the store lists and in whatever order articles arrive, through *)
(* overlapping requests, stops, starts, failing reads, panics and any      *)
(* number of evictions: an article that does not panic is processed again  *)
(* only after MaxSeen others were remembered since.                        *)
THEOREM ProcessedAgainLate == Spec => RememberedForMaxSeen
<1>1. TypeOK /\ AgeInv /\ [Next]_vars => AgeInv'
      BY NextAgeInv
<1>2. TypeOK /\ AgeInv /\ [Next]_vars =>
         [\A r \in Runners :
             Begins(r) => Head(list[r]) \in Poisoned \/ since[Head(list[r])] \in {Never, MaxSeen}]_vars
  <2> SUFFICES ASSUME TypeOK, AgeInv, [Next]_vars, NEW r \in Runners, Begins(r),
                      Head(list[r]) \notin Poisoned
               PROVE  since[Head(list[r])] \in {Never, MaxSeen}
      OBVIOUS
  <2>1. phase[r] = "run"
        BY DEF Begins
  <2> QED BY <2>1, BeginsIsTake, TakeIsLate
<1> QED BY <1>1, <1>2, InitAgeInv, TypeCorrect, PTL DEF Spec, RememberedForMaxSeen

LEMMA NextTracker ==
  ASSUME TypeOK, TrackerOK, TrackerBounded, [Next]_vars
  PROVE  TrackerOK' /\ TrackerBounded'
<1>1. ASSUME UNCHANGED tracker
      PROVE  TrackerOK' /\ TrackerBounded'
      BY <1>1 DEF tracker, TrackerOK, TrackerBounded
<1>2. ASSUME NEW r \in Runners, RunOnce(r)
      PROVE  TrackerOK' /\ TrackerBounded'
  <2>1. CASE FinishArticle(r)
    <3>1. Head(list[r]) \in Articles
          BY <2>1, HeadOfList, TypeOKHasOneRun DEF FinishArticle, OneRun
    <3>2. Add(Head(list[r]))
          BY <2>1 DEF FinishArticle
    <3> QED BY <1>1, <3>1, <3>2, AddPreserves
  <2>2. CASE EnterRun(r) \/ SkipRun(r) \/ TakeArticle(r) \/ FinishRun(r) \/ PanicInRun(r)
        BY <1>1, <2>2 DEF EnterRun, SkipRun, TakeArticle, FinishRun, PanicInRun, runState
  <2> QED BY <1>2, <2>1, <2>2 DEF RunOnce
<1>3. ASSUME NEW l \in Loops, Start(l) \/ Tick(l) \/ SelectTick(l) \/ SelectDone(l) \/ Exit(l)
      PROVE  TrackerOK' /\ TrackerBounded'
      BY <1>1, <1>3 DEF Start, Tick, SelectTick, SelectDone, Exit, runState
<1>4. CASE Stop \/ (\E a \in Articles : Arrive(a)) \/ UNCHANGED vars
      BY <1>1, <1>4 DEF Stop, Arrive, vars, runState
<1> QED BY <1>2, <1>3, <1>4 DEF Next, Loop, Runners

(* In the live loop the tracker's set and its order always agree, and at   *)
(* most MaxSeen ids are remembered, whatever articles a run panics over.   *)
THEOREM TrackerStaysOK == Spec => [](TrackerOK /\ TrackerBounded)
<1>1. Init => TrackerOK /\ TrackerBounded
      BY InitAgeInv DEF AgeInv
<1>2. TypeOK /\ TrackerOK /\ TrackerBounded /\ [Next]_vars => (TrackerOK /\ TrackerBounded)'
      BY NextTracker
<1> QED BY <1>1, <1>2, TypeCorrect, PTL DEF Spec
=============================================================================
