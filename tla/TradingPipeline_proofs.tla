----------------------- MODULE TradingPipeline_proofs -----------------------
(* Theorems about TradingPipeline: its types, the cause of every dead      *)
(* letter, what a settled event hands on, and how many duplicates there    *)
(* may be.                                                                 *)
EXTENDS TradingPipeline, FiniteSetTheorems, SequenceTheorems, TLAPS

USE DEF News, AI, Probability, Risk, Execution, Trade

-----------------------------------------------------------------------------
(* Rows.                                                                   *)

\* What is appended to a path is what its parent's path lacks.
LEMMA FrontOfAppend ==
  ASSUME NEW p \in Seq(Nat), NEW k \in Nat
  PROVE  /\ Append(p, k) \in Seq(Nat)
         /\ Len(Append(p, k)) = Len(p) + 1
         /\ SubSeq(Append(p, k), 1, Len(p)) = p
<1> DEFINE q == SubSeq(Append(p, k), 1, Len(p))
<1>1. Append(p, k) \in Seq(Nat) /\ Len(Append(p, k)) = Len(p) + 1
      OBVIOUS
<1>2. q \in Seq(Nat) /\ Len(q) = Len(p)
      BY <1>1
<1>3. ASSUME NEW i \in 1..Len(p) PROVE q[i] = p[i]
      BY <1>1, <1>2
<1> QED BY <1>1, <1>2, <1>3

\* What is added to the end of a topic.
LEMMA OneMore ==
  ASSUME NEW S, NEW p \in Seq(S), NEW q \in Seq(S), Len(q) = 1
  PROVE  /\ p \o q \in Seq(S)
         /\ Len(p \o q) = Len(p) + 1
         /\ (p \o q)[Len(p) + 1] = q[1]
         /\ \A n \in 1..Len(p) : (p \o q)[n] = p[n]
BY ConcatProperties

\* The same, where the row is sent twice.
LEMMA TwoMore ==
  ASSUME NEW S, NEW p \in Seq(S), NEW q \in Seq(S), Len(q) = 1
  PROVE  /\ p \o q \o q \in Seq(S)
         /\ Len(p \o q \o q) = Len(p) + 2
         /\ \A n \in {Len(p) + 1, Len(p) + 2} : (p \o q \o q)[n] = q[1]
         /\ \A n \in 1..Len(p) : (p \o q \o q)[n] = p[n]
<1>1. PICK r : r = p \o q
      OBVIOUS
<1>2. /\ r \in Seq(S) /\ Len(r) = Len(p) + 1 /\ r[Len(p) + 1] = q[1]
      /\ \A n \in 1..Len(p) : r[n] = p[n]
      BY <1>1, OneMore
<1>3. /\ r \o q \in Seq(S) /\ Len(r \o q) = Len(r) + 1 /\ (r \o q)[Len(r) + 1] = q[1]
      /\ \A n \in 1..Len(r) : (r \o q)[n] = r[n]
      BY <1>2, OneMore
<1>4. Len(p) \in Nat
      OBVIOUS
<1> QED BY <1>1, <1>2, <1>3, <1>4

\* What a publication adds to the topic of the next stage.
LEMMA Published ==
  ASSUME TypeOK, NEW s \in Stages, Publish(s) \/ PublishAgain(s)
  PROVE  /\ s # Execution /\ s + 1 \in Stages /\ InputOK(s + 1, out[s][1])
         /\ topic' \in [Stages -> Seq(Rows)]
         /\ \A u \in Stages \ {s + 1} : topic'[u] = topic[u]
         /\ \E k \in Nat : \E l \in {k + 1, k + 2} :
               /\ k = Len(topic[s + 1]) /\ l = Len(topic'[s + 1])
               /\ l = k + 1 \/ PublishAgain(s)
               /\ \A n \in 1..k : topic'[s + 1][n] = topic[s + 1][n]
               /\ \A n \in k + 1 .. l : topic'[s + 1][n] = out[s][1]
<1>1. /\ pc[s] = "publish"
      /\ \/ topic' = [topic EXCEPT ![s + 1] = @ \o out[s]]
         \/ PublishAgain(s) /\ topic' = [topic EXCEPT ![s + 1] = @ \o out[s] \o out[s]]
      BY DEF Publish, PublishAgain
<1>2. /\ s # Execution /\ Len(out[s]) = 1 /\ InputOK(s + 1, out[s][1])
      /\ out[s] \in Seq(Rows)
      BY <1>1 DEF TypeOK, HandlersOK
<1>3. s + 1 \in Stages
      BY <1>2 DEF Stages
<1>4. PICK p \in Seq(Rows) : p = topic[s + 1]
      BY <1>3 DEF TypeOK, KafkaOK
<1>5. PICK q \in Seq(Rows) : q = out[s]
      BY <1>2
<1>6. PICK k \in Nat : k = Len(p)
      OBVIOUS
<1>7. PICK r : \/ r = p \o q /\ topic' = [topic EXCEPT ![s + 1] = r]
               \/ r = p \o q \o q /\ PublishAgain(s) /\ topic' = [topic EXCEPT ![s + 1] = r]
      BY <1>1, <1>3, <1>4, <1>5 DEF TypeOK, KafkaOK
<1>8. /\ r \in Seq(Rows) /\ Len(r) \in {k + 1, k + 2}
      /\ Len(r) = k + 1 \/ PublishAgain(s)
      /\ \A n \in 1..k : r[n] = p[n]
      /\ \A n \in k + 1 .. Len(r) : r[n] = out[s][1]
  <2>1. CASE r = p \o q
        BY <1>2, <1>5, <1>6, <2>1, OneMore
  <2>2. CASE r = p \o q \o q /\ PublishAgain(s)
        BY <1>2, <1>5, <1>6, <2>2, TwoMore
  <2> QED BY <1>7, <2>1, <2>2
<1>9. /\ topic' \in [Stages -> Seq(Rows)] /\ topic'[s + 1] = r
      /\ \A u \in Stages \ {s + 1} : topic'[u] = topic[u]
      BY <1>3, <1>7, <1>8 DEF TypeOK, KafkaOK
<1>10. \E j \in Nat : \E l \in {j + 1, j + 2} :
          /\ j = Len(topic[s + 1]) /\ l = Len(topic'[s + 1])
          /\ l = j + 1 \/ PublishAgain(s)
          /\ \A n \in 1..j : topic'[s + 1][n] = topic[s + 1][n]
          /\ \A n \in j + 1 .. l : topic'[s + 1][n] = out[s][1]
  <2>1. PICK l \in {k + 1, k + 2} : l = Len(r)
        BY <1>8
  <2>2. /\ k = Len(topic[s + 1]) /\ l = Len(topic'[s + 1])
        /\ l = k + 1 \/ PublishAgain(s)
        BY <1>4, <1>6, <1>8, <1>9, <2>1
  <2>3. \A n \in 1..k : topic'[s + 1][n] = topic[s + 1][n]
        BY <1>4, <1>8, <1>9
  <2>4. \A n \in k + 1 .. l : topic'[s + 1][n] = out[s][1]
        BY <1>8, <1>9, <2>1
  <2> QED BY <2>2, <2>3, <2>4
<1> QED BY <1>2, <1>3, <1>9, <1>10

\* The row of the event at hand.
LEMMA CurrentOK ==
  ASSUME TypeOK, NEW s \in Stages, Len(outcome[s]) < Len(topic[s])
  PROVE  Current(s) \in Rows /\ InputOK(s, Current(s))
<1>1. Len(outcome[s]) + 1 \in 1..Len(topic[s])
      BY DEF TypeOK, KafkaOK
<1> QED BY <1>1 DEF TypeOK, KafkaOK, Current

\* An output is a row of the next kind, and its parent is the row at hand.
LEMMA OutputOK ==
  ASSUME TypeOK, NEW s \in Stages, pc[s] # "idle",
         NEW m \in Markets, s = News \/ m = Current(s).market
  PROVE  /\ Output(s, m) \in Rows
         /\ Kind(Output(s, m)) = s + 1
         /\ Output(s, m).market = m
         /\ Parent(Output(s, m)) = Current(s)
<1> DEFINE input == Current(s)
           siblings == {r \in made : Parent(r) = input /\ r.market = m}
           k == Cardinality(siblings) + 1
           path == Append(input.path, k)
<1>1. input \in Rows /\ InputOK(s, input)
      BY CurrentOK DEF TypeOK, HandlersOK
<1>2. k \in Nat
  <2>1. IsFiniteSet(siblings)
        BY FS_Subset DEF TypeOK, TablesOK
  <2> QED BY <2>1, FS_CardinalityType
<1>3. input.path \in Seq(Nat) /\ Len(input.path) = s - 1
      BY <1>1 DEF Rows, InputOK, Kind, Stages
<1>4. path \in Seq(Nat) /\ Len(path) = s /\ SubSeq(path, 1, Len(path) - 1) = input.path
      BY <1>2, <1>3, FrontOfAppend DEF Stages
<1>5. Output(s, m) = [article |-> input.article, market |-> m, path |-> path]
      BY DEF Output, Row
<1>6. Parent(Output(s, m)) = input
  <2>1. input = [article |-> input.article, market |-> input.market, path |-> input.path]
        BY <1>1 DEF Rows
  <2>2. CASE s = News
    <3>1. input.path = <<>> /\ input.market = NoMarket
          BY <2>2, <1>1, <1>3 DEF InputOK
    <3> QED BY <3>1, <2>1, <2>2, <1>4, <1>5 DEF Parent, Row
  <2>3. CASE s # News
    <3>1. Len(path) # 1
          BY <2>3, <1>4 DEF Stages
    <3> QED BY <3>1, <2>1, <2>3, <1>4, <1>5 DEF Parent, Row
  <2> QED BY <2>2, <2>3
<1> QED BY <1>1, <1>4, <1>5, <1>6 DEF Rows, Kind, Stages

-----------------------------------------------------------------------------
(* Steps that several actions share.                                       *)

InputsOK == \A u \in Stages : \A n \in 1..Len(topic[u]) : InputOK(u, topic[u][n])

\* A step that takes no row away and leaves the topics well-formed.
Grows ==
    /\ made \subseteq made'
    /\ topic' \in [Stages -> Seq(Rows)]
    /\ \A u \in Stages : Len(topic[u]) <= Len(topic'[u])
    /\ InputsOK'

\* A row stays fit for its stage while no row is taken away.
LEMMA InputStaysOK ==
  ASSUME NEW u, NEW r, InputOK(u, r), made \subseteq made'
  PROVE  InputOK(u, r)'
BY DEF InputOK, Kind

\* A step that touches neither the topics nor the rows made.
LEMMA UnchangedGrows ==
  ASSUME TypeOK, UNCHANGED topic, made \subseteq made'
  PROVE  Grows
<1>1. ASSUME NEW u \in Stages, NEW n \in 1..Len(topic'[u])
      PROVE  InputOK(u, topic[u][n])'
  <2>1. InputOK(u, topic[u][n])
        BY <1>1 DEF TypeOK, KafkaOK
  <2> QED BY <2>1, InputStaysOK DEF InputOK, Kind
<1> QED BY <1>1 DEF Grows, InputsOK, TypeOK, KafkaOK

\* A handler that is left leaves nothing behind that could be wrong.
LEMMA LeaveOK ==
  ASSUME TypeOK, Grows, NEW s \in Stages, NEW l \in {"idle"} \cup Outcomes, LeaveAs(s, l),
         attempt' \in [Stages -> 0..MaxAttempts - 1],
         UNCHANGED committed,
         outcome' \in [Stages -> Seq(Settled)],
         \A u \in Stages : /\ Len(outcome'[u]) <= Len(topic'[u])
                           /\ committed[u] <= Len(outcome'[u]),
         \A u \in Stages : u # s => outcome'[u] = outcome[u],
         l # "idle" => Len(outcome'[s]) < Len(topic'[s])
  PROVE  KafkaOK' /\ HandlersOK'
<1>1. KafkaOK'
      BY DEF Grows, InputsOK, TypeOK, KafkaOK
<1>2. /\ pc' \in [Stages -> {"idle", "work", "publish"} \cup Outcomes]
      /\ todo' \subseteq Markets
      /\ out' \in [Stages -> Seq(Rows)]
      BY DEF LeaveAs, TypeOK, HandlersOK
<1>3. ASSUME NEW u \in Stages, u # s
      PROVE  pc'[u] = pc[u] /\ out'[u] = out[u]
      BY <1>3 DEF LeaveAs, TypeOK, HandlersOK
<1>4. pc'[s] = l /\ l # "publish" /\ out'[s] = <<>>
      BY DEF LeaveAs, TypeOK, HandlersOK, Outcomes
<1>5. ASSUME NEW u \in Stages, pc'[u] # "idle"
      PROVE  Len(outcome'[u]) < Len(topic'[u])
  <2>1. CASE u = s
        BY <1>4, <1>5, <2>1
  <2>2. CASE u # s
    <3>1. Len(outcome[u]) < Len(topic[u]) /\ outcome'[u] = outcome[u]
          BY <1>3, <1>5, <2>2 DEF TypeOK, HandlersOK
    <3>2. /\ Len(topic[u]) <= Len(topic'[u])
          /\ Len(topic[u]) \in Nat /\ Len(topic'[u]) \in Nat /\ Len(outcome[u]) \in Nat
          BY DEF Grows, TypeOK, KafkaOK
    <3> QED BY <3>1, <3>2
  <2> QED BY <2>1, <2>2
<1>6. ASSUME NEW u \in Stages, pc'[u] # "publish"
      PROVE  out'[u] = <<>>
      BY <1>3, <1>4, <1>6 DEF TypeOK, HandlersOK
<1>7. ASSUME NEW u \in Stages, pc'[u] = "publish"
      PROVE  u # Execution /\ Len(out'[u]) = 1 /\ InputOK(u + 1, out[u][1])'
  <2>1. /\ u # Execution /\ Len(out[u]) = 1 /\ out'[u] = out[u]
        /\ InputOK(u + 1, out[u][1])
        BY <1>3, <1>4, <1>7 DEF TypeOK, HandlersOK
  <2> QED BY <2>1 DEF InputOK, Kind, Grows
<1> QED BY <1>1, <1>2, <1>5, <1>6, <1>7 DEF HandlersOK

\* What was read stays within its topic, and beyond what is committed.
LEMMA StillBehind ==
  ASSUME TypeOK, Grows, UNCHANGED <<outcome, committed>>
  PROVE  \A u \in Stages : /\ Len(outcome'[u]) <= Len(topic'[u])
                           /\ committed[u] <= Len(outcome'[u])
<1> SUFFICES ASSUME NEW u \in Stages
             PROVE  Len(outcome'[u]) <= Len(topic'[u]) /\ committed[u] <= Len(outcome'[u])
    OBVIOUS
<1>1. /\ Len(topic[u]) <= Len(topic'[u])
      /\ Len(topic[u]) \in Nat /\ Len(topic'[u]) \in Nat /\ Len(outcome[u]) \in Nat
      BY DEF Grows, TypeOK, KafkaOK
<1>2. Len(outcome[u]) <= Len(topic[u]) /\ committed[u] \in 0..Len(outcome[u])
      BY DEF TypeOK, KafkaOK
<1> QED BY <1>1, <1>2

\* A handler that has returned has the event in hand.
LEMMA SettleOK ==
  ASSUME TypeOK, Grows, SizesAssumption, NEW s \in Stages, NEW o \in Outcomes, Settle(s, o),
         UNCHANGED <<outcome, committed>>, Len(outcome[s]) < Len(topic[s])
  PROVE  KafkaOK' /\ HandlersOK'
<1>1. attempt' \in [Stages -> 0..MaxAttempts - 1]
      BY DEF Settle, TypeOK, HandlersOK, SizesAssumption
<1>2. LeaveAs(s, o) /\ outcome' \in [Stages -> Seq(Settled)]
      BY DEF Settle, TypeOK, KafkaOK
<1>3. Len(outcome'[s]) < Len(topic'[s])
  <2>1. /\ Len(topic[s]) <= Len(topic'[s])
        /\ Len(topic[s]) \in Nat /\ Len(topic'[s]) \in Nat /\ Len(outcome[s]) \in Nat
        BY DEF Grows, TypeOK, KafkaOK
  <2> QED BY <2>1
<1> QED BY <1>1, <1>2, <1>3, StillBehind, LeaveOK

\* A failure is another attempt, or the end of the event.
LEMMA FailOK ==
  ASSUME TypeOK, Grows, SizesAssumption, NEW s \in Stages, Fail(s),
         UNCHANGED <<outcome, committed>>, Len(outcome[s]) < Len(topic[s])
  PROVE  KafkaOK' /\ HandlersOK'
<1>1. CASE attempt[s] + 1 < MaxAttempts
  <2>1. LeaveAs(s, "idle") /\ attempt' = [attempt EXCEPT ![s] = @ + 1]
        BY <1>1 DEF Fail, Leave
  <2>2. attempt' \in [Stages -> 0..MaxAttempts - 1]
        BY <1>1, <2>1 DEF TypeOK, HandlersOK, SizesAssumption
  <2>3. outcome' \in [Stages -> Seq(Settled)]
        BY DEF TypeOK, KafkaOK
  <2> QED BY <2>1, <2>2, <2>3, StillBehind, LeaveOK
<1>2. CASE ~(attempt[s] + 1 < MaxAttempts)
      BY <1>2, SettleOK DEF Fail, Outcomes
<1> QED BY <1>1, <1>2

\* After a publication the news handler goes on, or the event is settled.
LEMMA OnwardOK ==
  ASSUME TypeOK, Grows, SizesAssumption, NEW s \in Stages, pc[s] = "publish", Onward(s),
         UNCHANGED <<outcome, committed>>
  PROVE  KafkaOK' /\ HandlersOK'
<1>1. Len(outcome[s]) < Len(topic[s])
      BY DEF TypeOK, HandlersOK
<1>2. CASE s = News /\ todo # {}
  <2>1. /\ pc' = [pc EXCEPT ![s] = "work"] /\ out' = [out EXCEPT ![s] = <<>>]
        /\ UNCHANGED <<attempt, todo>>
        BY <1>2 DEF Onward
  <2>2. KafkaOK'
        BY StillBehind DEF Grows, InputsOK, TypeOK, KafkaOK
  <2>3. ASSUME NEW u \in Stages, pc'[u] # "idle" PROVE Len(outcome'[u]) < Len(topic'[u])
    <3>1. Len(outcome[u]) < Len(topic[u])
          BY <2>1, <2>3, <1>1 DEF TypeOK, HandlersOK
    <3>2. /\ Len(topic[u]) <= Len(topic'[u])
          /\ Len(topic[u]) \in Nat /\ Len(topic'[u]) \in Nat /\ Len(outcome[u]) \in Nat
          BY DEF Grows, TypeOK, KafkaOK
    <3> QED BY <3>1, <3>2
  <2>4. ASSUME NEW u \in Stages, pc'[u] # "publish" PROVE out'[u] = <<>>
        BY <2>1, <2>4 DEF TypeOK, HandlersOK
  <2>5. ASSUME NEW u \in Stages, pc'[u] = "publish"
        PROVE  u # Execution /\ Len(out'[u]) = 1 /\ InputOK(u + 1, out[u][1])'
    <3>1. /\ u # Execution /\ Len(out[u]) = 1 /\ out'[u] = out[u]
          /\ InputOK(u + 1, out[u][1])
          BY <2>1, <2>5 DEF TypeOK, HandlersOK
    <3> QED BY <3>1 DEF InputOK, Kind, Grows
  <2>6. /\ pc' \in [Stages -> {"idle", "work", "publish"} \cup Outcomes]
        /\ attempt' \in [Stages -> 0..MaxAttempts - 1]
        /\ todo' \subseteq Markets /\ out' \in [Stages -> Seq(Rows)]
        BY <2>1 DEF TypeOK, HandlersOK
  <2> QED BY <2>2, <2>3, <2>4, <2>5, <2>6 DEF HandlersOK
<1>3. CASE ~(s = News /\ todo # {})
      BY <1>1, <1>3, SettleOK DEF Onward, Outcomes
<1> QED BY <1>2, <1>3

-----------------------------------------------------------------------------
(* Type correctness.                                                       *)

LEMMA InitTypeOK ==
  ASSUME SizesAssumption, Init
  PROVE  TypeOK
<1>1. ASSUME NEW i \in 1..Len(feed) PROVE feed[i] \in Articles
      BY <1>1 DEF Init, SizesAssumption
<1>2. feed \in Seq(Articles) /\ Len(feed) \in Nat
      BY DEF Init, SizesAssumption
<1> DEFINE news == [i \in 1..Len(feed) |-> Row(feed[i], NoMarket, <<>>)]
<1>3. \A i \in 1..Len(feed) : Row(feed[i], NoMarket, <<>>) \in Rows
      BY <1>1 DEF Row, Rows
<1>4. news \in Seq(Rows) /\ Len(news) = Len(feed)
      BY <1>2, <1>3
<1>5. KafkaOK
  <2>1. topic = [s \in Stages |-> IF s = News THEN news ELSE <<>>]
        BY DEF Init
  <2>2. topic \in [Stages -> Seq(Rows)]
        BY <1>4, <2>1
  <2>3. outcome \in [Stages -> Seq(Settled)] /\ \A s \in Stages : Len(outcome[s]) = 0
        BY DEF Init
  <2>4. ASSUME NEW s \in Stages, NEW n \in 1..Len(topic[s])
        PROVE  InputOK(s, topic[s][n])
    <3>1. s = News
          BY <2>1, <2>4 DEF Stages
    <3>2. topic[s][n] = Row(feed[n], NoMarket, <<>>)
          BY <3>1, <2>1, <2>4, <1>4 DEF Stages
    <3> QED BY <3>1, <3>2 DEF InputOK, Kind, Row
  <2>5. \A s \in Stages : committed[s] \in 0..Len(outcome[s]) /\ Len(outcome[s]) <= Len(topic[s])
        BY <2>2, <2>3 DEF Init
  <2>6. committed \in [Stages -> Nat]
        BY DEF Init
  <2> QED BY <2>2, <2>3, <2>4, <2>5, <2>6 DEF KafkaOK
<1>6. TablesOK
      BY FS_EmptySet DEF Init, TablesOK
<1>7. HandlersOK
      BY DEF Init, HandlersOK, SizesAssumption
<1>8. CountsOK
      BY DEF Init, CountsOK, SizesAssumption
<1> QED BY <1>5, <1>6, <1>7, <1>8 DEF TypeOK

\* The rows of the store may be any, and lost ones are made.
LEMMA TablesStayOK ==
  ASSUME TypeOK, UNCHANGED <<store, feed>>, catalog' \in BOOLEAN,
         made' = made, lost' \subseteq made, saved' \subseteq Rows
  PROVE  TablesOK'
BY DEF TypeOK, TablesOK, Kind

LEMMA FaultOK ==
  ASSUME TypeOK, SizesAssumption, Fault, UNCHANGED <<store, feed>>,
         restarts' = restarts \/ restarts' = restarts + 1
  PROVE  CountsOK'
<1>1. MaxFaults[store][feed] \in Nat
      BY DEF TypeOK, TablesOK, SizesAssumption
<1> QED BY <1>1 DEF TypeOK, CountsOK, Fault

\* What an engine makes keeps the tables well-formed.
LEMMA SaveOK ==
  ASSUME TypeOK, NEW s \in Stages, pc[s] # "idle",
         NEW m \in Markets, s = News \/ m = Current(s).market,
         Save(Output(s, m)), UNCHANGED <<store, feed, catalog, lost>>
  PROVE  TablesOK' /\ made \subseteq made' /\ Output(s, m) \in made'
<1>1. /\ Output(s, m) \in Rows /\ Kind(Output(s, m)) \in AI..Trade
      /\ Output(s, m).market \in Markets
      BY OutputOK DEF Stages
<1>2. IsFiniteSet(made')
      BY FS_AddElement DEF Save, TypeOK, TablesOK
<1> QED BY <1>1, <1>2 DEF Save, TypeOK, TablesOK, Kind

\* An engine that has a row to publish.
LEMMA MakeOK ==
  ASSUME TypeOK, NEW s \in Stages \ {Execution}, pc[s] = "work",
         NEW m \in Markets, s = News \/ m = Current(s).market,
         Make(s, m), todo' \subseteq Markets
  PROVE  TypeOK'
<1> DEFINE r == Output(s, m)
<1>1. /\ Save(r) /\ out' = [out EXCEPT ![s] = <<r>>] /\ pc' = [pc EXCEPT ![s] = "publish"]
      /\ UNCHANGED <<store, feed, catalog, kafka, attempt, trouble>>
      BY DEF Make
<1>2. UNCHANGED <<topic, lost, outcome, committed, faults, restarts>>
      BY <1>1 DEF kafka, trouble
<1>3. TablesOK' /\ made \subseteq made' /\ r \in made'
      BY <1>1, <1>2, SaveOK
<1>4. r \in Rows /\ Kind(r) = s + 1
      BY OutputOK
<1>5. Grows
      BY <1>2, <1>3, UnchangedGrows
<1>6. KafkaOK'
      BY <1>2, <1>5 DEF Grows, InputsOK, TypeOK, KafkaOK
<1>7. HandlersOK'
  <2>1. ASSUME NEW u \in Stages, pc'[u] = "publish"
        PROVE  u # Execution /\ Len(out'[u]) = 1 /\ (InputOK(u + 1, out[u][1]))'
    <3>1. CASE u = s
      <4>1. out'[u] = <<r>>
            BY <1>1, <3>1 DEF TypeOK, HandlersOK
      <4> QED BY <4>1, <3>1, <1>3, <1>4 DEF InputOK, Kind, Stages
    <3>2. CASE u # s
      <4>1. /\ u # Execution /\ Len(out[u]) = 1 /\ out'[u] = out[u]
            /\ InputOK(u + 1, out[u][1])
            BY <1>1, <2>1, <3>2 DEF TypeOK, HandlersOK
      <4> QED BY <4>1, <1>3 DEF InputOK, Kind
    <3> QED BY <3>1, <3>2
  <2>2. ASSUME NEW u \in Stages, pc'[u] # "idle" PROVE Len(outcome'[u]) < Len(topic'[u])
        BY <1>1, <1>2, <2>2 DEF TypeOK, HandlersOK
  <2>3. ASSUME NEW u \in Stages, pc'[u] # "publish" PROVE out'[u] = <<>>
        BY <1>1, <2>3 DEF TypeOK, HandlersOK
  <2>4. /\ pc' \in [Stages -> {"idle", "work", "publish"} \cup Outcomes]
        /\ attempt' \in [Stages -> 0..MaxAttempts - 1]
        /\ out' \in [Stages -> Seq(Rows)]
        BY <1>1, <1>4 DEF TypeOK, HandlersOK
  <2> QED BY <2>1, <2>2, <2>3, <2>4 DEF HandlersOK
<1> QED BY <1>1, <1>2, <1>3, <1>6, <1>7 DEF TypeOK, CountsOK

\* A handler that ends without a row: declined, refused or failed.
LEMMA EndOK ==
  ASSUME TypeOK, SizesAssumption, NEW s \in Stages, Delivered(s) \/ pc[s] = "work",
         Fail(s) \/ Settle(s, "declined"), UNCHANGED <<tables, kafka>>, CountsOK'
  PROVE  TypeOK'
<1>1. Len(outcome[s]) < Len(topic[s])
      BY DEF Delivered, TypeOK, HandlersOK
<1>2. Grows
      BY UnchangedGrows DEF tables, kafka
<1>3. KafkaOK' /\ HandlersOK'
      BY <1>1, <1>2, SettleOK, FailOK DEF Outcomes, kafka
<1>4. TablesOK'
      BY TablesStayOK DEF tables, kafka, TypeOK, TablesOK
<1> QED BY <1>3, <1>4 DEF TypeOK

LEMMA SaveInputTypeOK ==
  ASSUME TypeOK, SizesAssumption, NEW s \in Stages, SaveInput(s)
  PROVE  TypeOK'
<1>1. /\ saved' = saved \cup {Current(s)} /\ pc' = [pc EXCEPT ![s] = "work"]
      /\ UNCHANGED <<store, feed, made, catalog, topic, lost, outcome, committed, attempt, out>>
      /\ UNCHANGED <<faults, restarts>>
      /\ pc[s] = "idle" /\ Len(outcome[s]) < Len(topic[s])
      BY DEF SaveInput, Delivered, kafka, trouble
<1>2. Current(s) \in Rows
      BY <1>1, CurrentOK
<1>3. TablesOK'
      BY <1>1, <1>2, TablesStayOK DEF TypeOK, TablesOK
<1>4. KafkaOK'
      BY <1>1 DEF TypeOK, KafkaOK, InputOK, Kind
<1>5. todo' \subseteq Markets
  <2>1. Current(s).article \in Articles
        BY <1>2 DEF Rows
  <2> QED BY <2>1 DEF SaveInput, SizesAssumption, TypeOK, HandlersOK
<1>6. HandlersOK'
      BY <1>1, <1>5 DEF TypeOK, HandlersOK, InputOK, Kind
<1> QED BY <1>1, <1>3, <1>4, <1>6 DEF TypeOK, CountsOK

LEMMA EnginesTypeOK ==
  ASSUME TypeOK, SizesAssumption,
         SaveMatch \/ Analyze \/ Calculate \/ Evaluate
  PROVE  TypeOK'
<1>1. CASE SaveMatch
  <2>1. PICK m \in todo : Make(News, m) /\ todo' = todo \ {m}
        BY <1>1 DEF SaveMatch
  <2>2. m \in Markets /\ todo' \subseteq Markets /\ News \in Stages \ {Execution}
        BY <2>1 DEF TypeOK, HandlersOK, Stages
  <2> QED BY <1>1, <2>1, <2>2, MakeOK DEF SaveMatch
<1>2. ASSUME NEW s \in AI..Risk, pc[s] = "work", Make(s, Current(s).market), UNCHANGED todo
      PROVE  TypeOK'
  <2>1. s \in Stages \ {Execution} /\ s # News
        BY DEF Stages
  <2>2. InputOK(s, Current(s))
        BY <1>2, <2>1, CurrentOK DEF TypeOK, HandlersOK
  <2>3. Current(s).market \in Markets
        BY <2>1, <2>2 DEF InputOK, TypeOK, TablesOK
  <2>4. todo' \subseteq Markets
        BY <1>2 DEF TypeOK, HandlersOK
  <2> QED BY <1>2, <2>1, <2>3, <2>4, MakeOK
<1>3. AI \in AI..Risk /\ Probability \in AI..Risk /\ Risk \in AI..Risk
      OBVIOUS
<1> QED BY <1>1, <1>2, <1>3 DEF Analyze, Calculate, Evaluate

LEMMA CreateTypeOK ==
  ASSUME TypeOK, SizesAssumption, CreateFromRiskDecision
  PROVE  TypeOK'
<1> DEFINE m == Current(Execution).market
<1>1. /\ pc[Execution] = "work" /\ Save(Output(Execution, m)) /\ Settle(Execution, "done")
      /\ UNCHANGED <<store, feed, catalog, topic, lost, outcome, committed, faults, restarts>>
      BY DEF CreateFromRiskDecision, kafka, trouble
<1>2. Execution \in Stages
      BY DEF Stages
<1>3. Len(outcome[Execution]) < Len(topic[Execution])
      BY <1>1, <1>2 DEF TypeOK, HandlersOK
<1>4. m \in Markets
      BY <1>2, <1>3, CurrentOK DEF InputOK, TypeOK, TablesOK
<1>5. TablesOK' /\ made \subseteq made'
      BY <1>1, <1>2, <1>4, SaveOK
<1>6. Grows
      BY <1>1, <1>5, UnchangedGrows
<1>7. KafkaOK' /\ HandlersOK'
      BY <1>1, <1>2, <1>3, <1>6, SettleOK DEF Outcomes
<1> QED BY <1>1, <1>5, <1>7 DEF TypeOK, CountsOK

LEMMA PublishTypeOK ==
  ASSUME TypeOK, SizesAssumption, NEW s \in Stages, Publish(s) \/ PublishAgain(s)
  PROVE  TypeOK'
<1>1. /\ pc[s] = "publish" /\ Onward(s)
      /\ UNCHANGED <<store, feed, made, saved, catalog, lost, outcome, committed, restarts>>
      /\ UNCHANGED faults \/ Fault
      BY DEF Publish, PublishAgain, tables, trouble
<1>2. /\ topic' \in [Stages -> Seq(Rows)] /\ InputOK(s + 1, out[s][1])
      /\ \A u \in Stages \ {s + 1} : topic'[u] = topic[u]
      BY Published
<1>3. PICK k \in Nat : \E l \in {k + 1, k + 2} :
               /\ k = Len(topic[s + 1]) /\ l = Len(topic'[s + 1])
               /\ \A n \in 1..k : topic'[s + 1][n] = topic[s + 1][n]
               /\ \A n \in k + 1 .. l : topic'[s + 1][n] = out[s][1]
      BY Published
<1>4. ASSUME NEW u \in Stages
      PROVE  /\ Len(topic[u]) <= Len(topic'[u])
             /\ \A n \in 1..Len(topic'[u]) : (InputOK(u, topic[u][n]))'
  <2>1. ASSUME NEW n \in 1..Len(topic'[u]) PROVE InputOK(u, topic'[u][n])
    <3>1. CASE u = s + 1 /\ n \notin 1..k
          BY <1>2, <1>3, <2>1, <3>1
    <3>2. CASE u # s + 1 \/ n \in 1..k
          BY <1>2, <1>3, <2>1, <3>2 DEF TypeOK, KafkaOK
    <3> QED BY <3>1, <3>2
  <2>2. Len(topic[u]) <= Len(topic'[u])
    <3>1. CASE u = s + 1
          BY <1>3, <3>1
    <3>2. CASE u # s + 1
      <4>1. topic'[u] = topic[u] /\ Len(topic[u]) \in Nat
            BY <1>2, <3>2 DEF TypeOK, KafkaOK
      <4> QED BY <4>1
    <3> QED BY <3>1, <3>2
  <2> QED BY <1>1, <2>1, <2>2 DEF InputOK, Kind
<1>5. Grows
      BY <1>1, <1>2, <1>4 DEF Grows, InputsOK
<1>6. KafkaOK' /\ HandlersOK'
      BY <1>1, <1>5, OnwardOK
<1>7. TablesOK'
      BY <1>1, TablesStayOK DEF TypeOK, TablesOK
<1>8. CountsOK'
      BY <1>1, FaultOK DEF TypeOK, CountsOK
<1> QED BY <1>6, <1>7, <1>8 DEF TypeOK

LEMMA PublishLostTypeOK ==
  ASSUME TypeOK, SizesAssumption, NEW s \in Stages, PublishLost(s)
  PROVE  TypeOK'
<1>1. /\ pc[s] = "publish" /\ lost' = lost \cup {out[s][1]} /\ Onward(s) /\ Fault
      /\ UNCHANGED <<store, feed, made, saved, catalog, topic, outcome, committed, restarts>>
      BY DEF PublishLost, tables
<1>2. out[s][1] \in made
      BY <1>1 DEF TypeOK, HandlersOK, InputOK, Stages
<1>3. TablesOK'
      BY <1>1, <1>2, TablesStayOK DEF TypeOK, TablesOK
<1>4. Grows
      BY <1>1, UnchangedGrows
<1>5. KafkaOK' /\ HandlersOK'
      BY <1>1, <1>4, OnwardOK
<1> QED BY <1>1, <1>3, <1>5, FaultOK DEF TypeOK

\* One event more is behind a group.
LEMMA AppendOK ==
  ASSUME NEW S, NEW p \in Seq(S), NEW x \in S
  PROVE  \E q \in Seq(S) : q = Append(p, x) /\ Len(q) = Len(p) + 1
<1>1. Append(p, x) \in Seq(S) /\ Len(Append(p, x)) = Len(p) + 1
      OBVIOUS
<1> QED BY <1>1

\* A stage resumes with what it read up to its committed offset.
LEMMA ResumedOK ==
  ASSUME TypeOK, NEW s \in Stages
  PROVE  /\ Resumed(s) \in Seq(Settled) /\ Len(Resumed(s)) = committed[s]
         /\ committed[s] \in Nat /\ committed[s] <= Len(topic[s])
         /\ committed[s] <= Len(outcome[s])
         /\ \A n \in 1..committed[s] : n \in 1..Len(outcome[s]) /\ Resumed(s)[n] = outcome[s][n]
<1>1. /\ outcome[s] \in Seq(Settled) /\ committed[s] \in 0..Len(outcome[s])
      /\ Len(outcome[s]) <= Len(topic[s]) /\ topic[s] \in Seq(Rows)
      BY DEF TypeOK, KafkaOK
<1>2. PICK q \in Seq(Settled) : q = outcome[s]
      BY <1>1
<1>3. PICK k \in 0..Len(q) : k = committed[s]
      BY <1>1, <1>2
<1>4. /\ SubSeq(q, 1, k) \in Seq(Settled) /\ Len(SubSeq(q, 1, k)) = k
      /\ \A n \in 1..k : n \in 1..Len(q) /\ SubSeq(q, 1, k)[n] = q[n]
      OBVIOUS
<1> QED BY <1>1, <1>2, <1>3, <1>4 DEF Resumed

\* The handler of s is left, and what it has read is what is committed, or one
\* event more.
LEMMA LeftTypeOK ==
  ASSUME TypeOK, SizesAssumption, NEW s \in Stages,
         Fault, Leave(s), attempt' = [attempt EXCEPT ![s] = 0],
         UNCHANGED <<tables, topic, lost, committed, restarts>>,
         NEW q \in Seq(Settled), outcome' = [outcome EXCEPT ![s] = q],
         committed[s] <= Len(q), Len(q) <= Len(topic[s])
  PROVE  TypeOK'
<1>1. UNCHANGED <<store, feed, made, saved, catalog>>
      BY DEF tables
<1>2. attempt' \in [Stages -> 0..MaxAttempts - 1]
      BY DEF TypeOK, HandlersOK, SizesAssumption
<1>3. outcome' \in [Stages -> Seq(Settled)] /\ \A u \in Stages : u # s => outcome'[u] = outcome[u]
      BY DEF TypeOK, KafkaOK
<1>4. ASSUME NEW u \in Stages
      PROVE  Len(outcome'[u]) <= Len(topic'[u]) /\ committed[u] <= Len(outcome'[u])
      BY DEF TypeOK, KafkaOK
<1>5. LeaveAs(s, "idle") /\ Grows
      BY <1>1, UnchangedGrows DEF Leave
<1>6. KafkaOK' /\ HandlersOK'
      BY <1>2, <1>3, <1>4, <1>5, LeaveOK
<1>7. TablesOK'
      BY <1>1, TablesStayOK DEF TypeOK, TablesOK
<1> QED BY <1>1, <1>6, <1>7, FaultOK DEF TypeOK

LEMMA RebalanceTypeOK ==
  ASSUME TypeOK, SizesAssumption, NEW s \in Stages, Rebalance(s)
  PROVE  TypeOK'
<1>1. PICK q \in Seq(Settled) : q = Resumed(s)
      BY ResumedOK
<1>2. committed[s] <= Len(q) /\ Len(q) <= Len(topic[s])
      BY <1>1, ResumedOK
<1>3. /\ Fault /\ Leave(s) /\ attempt' = [attempt EXCEPT ![s] = 0]
      /\ UNCHANGED <<tables, topic, lost, committed, restarts>>
      /\ outcome' = [outcome EXCEPT ![s] = q]
      BY <1>1 DEF Rebalance
<1> QED BY <1>2, <1>3, LeftTypeOK

LEMMA SkipTypeOK ==
  ASSUME TypeOK, SizesAssumption, NEW s \in Stages, Skip(s)
  PROVE  TypeOK'
<1>1. Len(outcome[s]) < Len(topic[s])
      BY DEF Skip, Delivered, TypeOK, HandlersOK
<1>2. /\ outcome[s] \in Seq(Settled) /\ committed[s] \in 0..Len(outcome[s])
      /\ topic[s] \in Seq(Rows) /\ "skipped" \in Settled
      BY DEF TypeOK, KafkaOK, Settled
<1>3. PICK q \in Seq(Settled) : q = Append(outcome[s], "skipped") /\ Len(q) = Len(outcome[s]) + 1
      BY <1>2, AppendOK
<1>4. committed[s] <= Len(q) /\ Len(q) <= Len(topic[s])
      BY <1>1, <1>2, <1>3
<1>5. /\ Fault /\ Leave(s) /\ attempt' = [attempt EXCEPT ![s] = 0]
      /\ UNCHANGED <<tables, topic, lost, committed, restarts>>
      /\ outcome' = [outcome EXCEPT ![s] = q]
      BY <1>3 DEF Skip
<1> QED BY <1>4, <1>5, LeftTypeOK

\* The group has passed the event in hand, committed or not.
LEMMA ReturnTypeOK ==
  ASSUME TypeOK, SizesAssumption, NEW s \in Stages, Commit(s) \/ CommitFails(s)
  PROVE  TypeOK'
<1>1. /\ pc[s] \in Outcomes /\ outcome' = [outcome EXCEPT ![s] = Append(@, pc[s])]
      /\ pc' = [pc EXCEPT ![s] = "idle"]
      /\ UNCHANGED <<store, feed, made, saved, catalog, topic, lost, attempt, todo, out>>
      BY DEF Commit, CommitFails, Return, tables
<1>2. CountsOK'
  <2>1. CASE Commit(s)
        BY <2>1, <1>1 DEF Commit, trouble, TypeOK, CountsOK
  <2>2. CASE CommitFails(s)
        BY <2>2, <1>1, FaultOK DEF CommitFails
  <2> QED BY <2>1, <2>2
<1>3. TablesOK'
      BY <1>1, TablesStayOK DEF TypeOK, TablesOK
<1>4. /\ outcome[s] \in Seq(Settled) /\ pc[s] \in Settled
      /\ Len(outcome[s]) < Len(topic[s]) /\ topic[s] \in Seq(Rows)
      /\ committed[s] \in 0..Len(outcome[s])
      BY <1>1 DEF TypeOK, KafkaOK, HandlersOK, Outcomes, Settled
<1>5. PICK q \in Seq(Settled) : q = Append(outcome[s], pc[s]) /\ Len(q) = Len(outcome[s]) + 1
      BY <1>4, AppendOK
<1>6. outcome' = [outcome EXCEPT ![s] = q]
      BY <1>1, <1>5
<1>7. \/ committed' = [committed EXCEPT ![s] = Len(outcome[s]) + 1]
      \/ committed' = committed
      BY DEF Commit, CommitFails
<1>8. KafkaOK'
  <2>1. outcome' \in [Stages -> Seq(Settled)] /\ committed' \in [Stages -> Nat]
    <3>1. outcome' \in [Stages -> Seq(Settled)]
          BY <1>6 DEF TypeOK, KafkaOK
    <3>2. Len(outcome[s]) + 1 \in Nat
          BY <1>4
    <3>3. committed' \in [Stages -> Nat]
          BY <1>7, <3>2 DEF TypeOK, KafkaOK
    <3> QED BY <3>1, <3>3
  <2>2. ASSUME NEW u \in Stages
        PROVE  /\ committed'[u] \in 0..Len(outcome'[u]) /\ Len(outcome'[u]) <= Len(topic'[u])
    <3>1. /\ committed[u] \in 0..Len(outcome[u]) /\ Len(outcome[u]) <= Len(topic[u])
          /\ Len(outcome[u]) \in Nat /\ committed \in [Stages -> Nat]
          /\ outcome \in [Stages -> Seq(Settled)]
          BY DEF TypeOK, KafkaOK
    <3>2. CASE u # s
      <4>1. outcome'[u] = outcome[u] /\ committed'[u] = committed[u]
            BY <1>6, <1>7, <3>1, <3>2
      <4> QED BY <1>1, <3>1, <4>1
    <3>3. CASE u = s
      <4>1. /\ outcome'[u] = q
            /\ committed'[u] = committed[u] \/ committed'[u] = Len(outcome[u]) + 1
            BY <1>6, <1>7, <3>1, <3>3
      <4> QED BY <1>1, <1>4, <1>6, <3>1, <3>3, <4>1
    <3> QED BY <3>2, <3>3
  <2>3. \A u \in Stages : \A n \in 1..Len(topic'[u]) : InputOK(u, topic[u][n])'
        BY <1>1 DEF InputOK, Kind, TypeOK, KafkaOK
  <2> QED BY <1>1, <2>1, <2>2, <2>3 DEF TypeOK, KafkaOK
<1>9. HandlersOK'
  <2>1. pc' \in [Stages -> {"idle", "work", "publish"} \cup Outcomes]
        BY <1>1 DEF TypeOK, HandlersOK
  <2>2. ASSUME NEW u \in Stages, u # s
        PROVE  pc'[u] = pc[u] /\ out'[u] = out[u] /\ outcome'[u] = outcome[u]
        BY <1>1, <2>2 DEF TypeOK, HandlersOK, KafkaOK
  <2>3. pc'[s] = "idle" /\ out'[s] = <<>>
        BY <1>1 DEF TypeOK, HandlersOK, Outcomes
  <2>4. ASSUME NEW u \in Stages
        PROVE  /\ pc'[u] # "idle" => Len(outcome'[u]) < Len(topic'[u])
               /\ pc'[u] # "publish" => out'[u] = <<>>
               /\ pc'[u] = "publish" => /\ u # Execution /\ Len(out'[u]) = 1
                                       /\ InputOK(u + 1, out[u][1])'
    <3>1. CASE u = s
          BY <2>3, <3>1
    <3>2. CASE u # s
          BY <1>1, <2>2, <3>2 DEF TypeOK, HandlersOK, InputOK, Kind
    <3> QED BY <3>1, <3>2
  <2> QED BY <1>1, <2>1, <2>4 DEF TypeOK, HandlersOK
<1> QED BY <1>2, <1>3, <1>8, <1>9 DEF TypeOK

LEMMA RestartTypeOK ==
  ASSUME TypeOK, SizesAssumption, Restart
  PROVE  TypeOK'
<1>1. TablesOK'
      BY TablesStayOK DEF Restart, TypeOK, TablesOK
<1>2. KafkaOK'
  <2>1. UNCHANGED <<topic, lost, committed, made>>
        /\ outcome' = [s \in Stages |-> Resumed(s)]
        BY DEF Restart
  <2>2. outcome' \in [Stages -> Seq(Settled)]
        BY <2>1, ResumedOK
  <2>3. ASSUME NEW s \in Stages
        PROVE  committed'[s] \in 0..Len(outcome'[s]) /\ Len(outcome'[s]) <= Len(topic'[s])
        BY <2>1, ResumedOK
  <2> QED BY <2>1, <2>2, <2>3 DEF TypeOK, KafkaOK, InputOK, Kind
<1>3. HandlersOK'
      BY DEF Restart, HandlersOK, SizesAssumption
<1> QED BY <1>1, <1>2, <1>3, FaultOK DEF Restart, TypeOK

LEMMA MarketSelectedTypeOK ==
  ASSUME TypeOK, MarketSelected
  PROVE  TypeOK'
<1>1. TablesOK'
      BY DEF MarketSelected, kafka, TypeOK, TablesOK, Kind
<1>2. KafkaOK'
      BY DEF MarketSelected, kafka, TypeOK, KafkaOK, InputOK, Kind
<1>3. HandlersOK'
      BY DEF MarketSelected, kafka, group, TypeOK, HandlersOK, InputOK, Kind
<1> QED BY <1>1, <1>2, <1>3 DEF MarketSelected, trouble, TypeOK, CountsOK

LEMMA StutterTypeOK ==
  ASSUME TypeOK, UNCHANGED vars
  PROVE  TypeOK'
BY DEF vars, tables, kafka, group, trouble, TypeOK, CountsOK, TablesOK, KafkaOK, HandlersOK,
       InputOK, Kind

\* Tables, topics and handlers are always of their types.
THEOREM TypeCorrect == Spec => []TypeOK
<1> USE SizesAssumption
<1>1. Init => TypeOK
      BY InitTypeOK
<1>2. TypeOK /\ [Next]_vars => TypeOK'
  <2> SUFFICES ASSUME TypeOK, [Next]_vars PROVE TypeOK'
      OBVIOUS
  <2>1. ASSUME NEW s \in Stages, Work(s) PROVE TypeOK'
    <3>1. CASE SaveInput(s)
          BY <3>1, SaveInputTypeOK
    <3>2. CASE Decline(s)
          BY <3>2, EndOK DEF Decline, TypeOK, CountsOK, tables, trouble
    <3>3. CASE Refused(s)
          BY <3>3, EndOK DEF Refused, TypeOK, CountsOK, tables, trouble
    <3>4. CASE SaveMatch \/ Analyze \/ Calculate \/ Evaluate
          BY <3>4, EnginesTypeOK
    <3>5. CASE CreateFromRiskDecision
          BY <3>5, CreateTypeOK
    <3>6. CASE Publish(s)
          BY <3>6, PublishTypeOK
    <3>7. CASE Commit(s)
          BY <3>7, ReturnTypeOK
    <3> QED BY <2>1, <3>1, <3>2, <3>3, <3>4, <3>5, <3>6, <3>7 DEF Work
  <2>2. ASSUME NEW s \in Stages, HandlerFails(s) PROVE TypeOK'
        BY <2>2, EndOK, FaultOK DEF HandlerFails, tables
  <2>3. ASSUME NEW s \in Stages, Rebalance(s) \/ Skip(s) PROVE TypeOK'
        BY <2>3, RebalanceTypeOK, SkipTypeOK
  <2>4. ASSUME NEW s \in Stages, PublishLost(s) \/ PublishAgain(s) \/ CommitFails(s)
        PROVE  TypeOK'
        BY <2>4, PublishLostTypeOK, PublishTypeOK, ReturnTypeOK
  <2>5. CASE Restart
        BY <2>5, RestartTypeOK
  <2>6. CASE MarketSelected
        BY <2>6, MarketSelectedTypeOK
  <2>7. CASE UNCHANGED vars
        BY <2>7, StutterTypeOK
  <2> QED BY <2>1, <2>2, <2>3, <2>4, <2>5, <2>6, <2>7 DEF Next
<1> QED BY <1>1, <1>2, PTL DEF Spec

-----------------------------------------------------------------------------
(* The cause of a dead letter.                                             *)

\* The failures that a stage may owe to the state it finds.
Excused(s) ==
    \/ store = "memory" /\ faults > 0
    \/ store = "postgres" /\ s >= Probability

\* Postgres, and a memory store that has seen no fault, hold the markets, the
\* row at hand, and the parent of every row made.
NothingForgotten == store = "postgres" \/ faults = 0

Working(s) == pc[s] \in {"work", "publish"}

StoreHolds ==
    NothingForgotten =>
        /\ catalog
        /\ \A r \in made : Parent(r) \in saved
        /\ \A s \in Stages : Working(s) => Current(s) \in saved

FailuresCounted == \A s \in Stages : Excused(s) \/ attempt[s] <= faults

\* A dead letter that is not committed yet has its cause too.
DyingHaveCause == \A s \in Stages : pc[s] = "dead" => faults >= MaxAttempts \/ Excused(s)

CauseInv == StoreHolds /\ FailuresCounted /\ DyingHaveCause /\ DeadLettersHaveCause

LEMMA StoreAndFaults ==
  ASSUME SizesAssumption, TypeOK
  PROVE  store \in {"postgres", "memory"} /\ faults \in Nat
BY DEF SizesAssumption, TypeOK, TablesOK, CountsOK

\* A stage is refused only where the store's state excuses it.
LEMMA RefusedIsExcused ==
  ASSUME SizesAssumption, TypeOK, StoreHolds, NEW s \in Stages, Refused(s)
  PROVE  Excused(s)
<1>1. ASSUME ~NothingForgotten PROVE Excused(s)
      BY <1>1, StoreAndFaults DEF NothingForgotten, Excused
<1>2. CASE Delivered(s) /\ Conflict(s)
      BY <1>2 DEF Conflict, Excused
<1>3. CASE MarketMissing
      BY <1>1, <1>3 DEF MarketMissing, StoreHolds
<1>4. ASSUME pc[s] = "work", s \in {AI, Execution}, Parent(Current(s)) \notin saved
      PROVE  Excused(s)
  <2>1. Current(s) \in made
        BY <1>4, CurrentOK DEF TypeOK, HandlersOK, InputOK
  <2> QED BY <1>1, <1>4, <2>1 DEF StoreHolds
<1> QED BY <1>2, <1>3, <1>4 DEF Refused, ArticleMissing, DecisionMissing

\* A step that forgets nothing: handlers that go on have the row they had.
LEMMA StoreStillHolds ==
  ASSUME SizesAssumption, TypeOK, StoreHolds, UNCHANGED store, faults' \in Nat, faults' >= faults,
         NothingForgotten' => (catalog' = catalog) /\ saved \subseteq saved',
         NothingForgotten' => \A r \in made' : r \in made \/ Parent(r) \in saved,
         \A u \in Stages : Working(u)' => Working(u) /\ Current(u)' = Current(u)
  PROVE  StoreHolds'
<1> SUFFICES ASSUME NothingForgotten' PROVE
        /\ catalog'
        /\ \A r \in made' : Parent(r) \in saved'
        /\ \A u \in Stages : Working(u)' => Current(u)' \in saved'
      BY DEF StoreHolds, Parent, Row
<1>1. NothingForgotten
      BY StoreAndFaults DEF NothingForgotten
<1> QED BY <1>1 DEF StoreHolds

\* What was counted stays counted, and a dead letter that is new has a cause.
LEMMA CausesStay ==
  ASSUME SizesAssumption, TypeOK, CauseInv, UNCHANGED store, faults' \in Nat, faults' >= faults,
         \A u \in Stages : \/ attempt'[u] = attempt[u]
                           \/ attempt'[u] = 0
                           \/ Excused(u)'
                           \/ attempt'[u] <= faults',
         \A u \in Stages : pc'[u] = "dead" =>
             pc[u] = "dead" \/ faults' >= MaxAttempts \/ Excused(u)',
         \A u \in Stages : \A n \in 1..Len(outcome'[u]) :
             \/ n \in 1..Len(outcome[u]) /\ outcome'[u][n] = outcome[u][n]
             \/ outcome'[u][n] # "dead"
             \/ pc[u] = "dead"
  PROVE  FailuresCounted' /\ DyingHaveCause' /\ DeadLettersHaveCause'
<1>1. ASSUME NEW u \in Stages, faults >= MaxAttempts \/ Excused(u)
      PROVE  faults' >= MaxAttempts \/ Excused(u)'
      BY <1>1, StoreAndFaults DEF Excused, SizesAssumption
<1>2. ASSUME NEW u \in Stages PROVE Excused(u)' \/ attempt'[u] <= faults'
  <2>1. (Excused(u) \/ attempt[u] <= faults) /\ attempt[u] \in Nat
        BY DEF CauseInv, FailuresCounted, TypeOK, HandlersOK
  <2>2. Excused(u) => Excused(u)'
        BY StoreAndFaults DEF Excused
  <2> QED BY <2>1, <2>2, StoreAndFaults
<1>3. ASSUME NEW u \in Stages, pc'[u] = "dead"
      PROVE  faults' >= MaxAttempts \/ Excused(u)'
      BY <1>1, <1>3 DEF CauseInv, DyingHaveCause
<1>4. ASSUME NEW u \in Stages, NEW n \in 1..Len(outcome'[u]), outcome'[u][n] = "dead"
      PROVE  faults' >= MaxAttempts \/ Excused(u)'
  <2>1. CASE n \in 1..Len(outcome[u]) /\ outcome[u][n] = "dead"
    <3>1. faults >= MaxAttempts \/ Excused(u)
          BY <2>1 DEF CauseInv, DeadLettersHaveCause, Excused
    <3> QED BY <3>1, <1>1
  <2>2. CASE pc[u] = "dead"
        BY <1>1, <2>2 DEF CauseInv, DyingHaveCause
  <2> QED BY <1>4, <2>1, <2>2
<1> QED BY <1>2, <1>3, <1>4 DEF FailuresCounted, DyingHaveCause, DeadLettersHaveCause, Excused

LEMMA SettleCause ==
  ASSUME SizesAssumption, TypeOK, CauseInv, NEW s \in Stages, NEW o \in Outcomes,
         Settle(s, o), UNCHANGED <<store, outcome>>, faults' \in Nat, faults' >= faults,
         o = "dead" => faults' >= MaxAttempts \/ Excused(s)'
  PROVE  FailuresCounted' /\ DyingHaveCause' /\ DeadLettersHaveCause'
<1>1. ASSUME NEW u \in Stages
      PROVE  /\ attempt'[u] = attempt[u] \/ attempt'[u] = 0
             /\ pc'[u] = pc[u] \/ (u = s /\ pc'[u] = o)
      BY DEF Settle, LeaveAs, TypeOK, HandlersOK
<1> QED BY <1>1, CausesStay

LEMMA FailCause ==
  ASSUME SizesAssumption, TypeOK, CauseInv, NEW s \in Stages, Fail(s), UNCHANGED <<store, outcome>>,
         \/ faults' = faults + 1
         \/ faults' = faults /\ Excused(s)
  PROVE  FailuresCounted' /\ DyingHaveCause' /\ DeadLettersHaveCause'
<1>1. /\ faults \in Nat /\ faults' \in Nat /\ faults' >= faults
      /\ Excused(s) => Excused(s)'
      BY StoreAndFaults DEF Excused
<1>2. (Excused(s)' \/ attempt[s] + 1 <= faults') /\ attempt[s] \in Nat
      BY <1>1 DEF CauseInv, FailuresCounted, TypeOK, HandlersOK
<1>3. CASE attempt[s] + 1 < MaxAttempts
  <2>1. attempt' = [attempt EXCEPT ![s] = @ + 1] /\ pc' = [pc EXCEPT ![s] = "idle"]
        BY <1>3 DEF Fail, Leave, LeaveAs
  <2>2. ASSUME NEW u \in Stages
        PROVE  /\ attempt'[u] = attempt[u] \/ Excused(u)' \/ attempt'[u] <= faults'
               /\ pc'[u] = pc[u] \/ pc'[u] = "idle"
        BY <2>1, <1>2 DEF TypeOK, HandlersOK
  <2> QED BY <1>1, <2>1, <2>2, CausesStay
<1>4. CASE ~(attempt[s] + 1 < MaxAttempts)
  <2>1. Settle(s, "dead") /\ (faults' >= MaxAttempts \/ Excused(s)')
        BY <1>1, <1>2, <1>4 DEF Fail, SizesAssumption
  <2> QED BY <1>1, <2>1, SettleCause DEF Outcomes
<1> QED BY <1>3, <1>4

\* A handler that is left takes its row from no other.
LEMMA OthersGoOn ==
  ASSUME TypeOK, NEW s \in Stages, NEW l, l \notin {"work", "publish"}, LeaveAs(s, l),
         UNCHANGED topic,
         \A u \in Stages : u # s => outcome'[u] = outcome[u]
  PROVE  \A u \in Stages : Working(u)' => Working(u) /\ Current(u)' = Current(u)
BY DEF LeaveAs, Working, Current, TypeOK, HandlersOK

\* A handler is left, with no row made: declined, refused or failed.
LEMMA EndCause ==
  ASSUME SizesAssumption, TypeOK, CauseInv, NEW s \in Stages,
         Fail(s) \/ Settle(s, "declined"), UNCHANGED <<tables, kafka>>,
         \/ faults' = faults + 1
         \/ faults' = faults /\ (Excused(s) \/ Settle(s, "declined"))
  PROVE  CauseInv'
<1>1. faults \in Nat /\ faults' \in Nat /\ faults' >= faults
      BY StoreAndFaults
<1>2. FailuresCounted' /\ DyingHaveCause' /\ DeadLettersHaveCause'
  <2>1. CASE Settle(s, "declined")
        BY <1>1, <2>1, SettleCause DEF Outcomes, tables, kafka
  <2>2. CASE ~Settle(s, "declined")
        BY <2>2, FailCause DEF tables, kafka
  <2> QED BY <2>1, <2>2
<1>3. \E l \in {"idle", "dead", "declined"} : LeaveAs(s, l)
      BY DEF Fail, Settle, Leave
<1>4. StoreHolds'
      BY <1>1, <1>3, OthersGoOn, StoreStillHolds DEF CauseInv, tables, kafka
<1> QED BY <1>2, <1>4 DEF CauseInv

LEMMA SaveInputCause ==
  ASSUME SizesAssumption, TypeOK, CauseInv, NEW s \in Stages, SaveInput(s)
  PROVE  CauseInv'
<1>1. /\ saved' = saved \cup {Current(s)} /\ pc' = [pc EXCEPT ![s] = "work"]
      /\ UNCHANGED <<store, made, catalog, topic, outcome, attempt, faults>>
      BY DEF SaveInput, kafka, trouble
<1>2. StoreHolds'
  <2> SUFFICES ASSUME NothingForgotten' PROVE
        /\ catalog'
        /\ \A r \in made' : Parent(r) \in saved'
        /\ \A u \in Stages : Working(u)' => Current(u)' \in saved'
      BY DEF StoreHolds, Parent, Row
  <2>1. NothingForgotten /\ StoreHolds
        BY <1>1 DEF NothingForgotten, CauseInv
  <2>2. \A u \in Stages : Current(u)' = Current(u)
        BY <1>1 DEF Current
  <2>3. ASSUME NEW u \in Stages, Working(u)' PROVE Current(u) \in saved'
        BY <1>1, <2>1, <2>3 DEF StoreHolds, Working, TypeOK, HandlersOK
  <2> QED BY <1>1, <2>1, <2>2, <2>3 DEF StoreHolds
<1>3. FailuresCounted' /\ DyingHaveCause' /\ DeadLettersHaveCause'
      BY <1>1 DEF CauseInv, FailuresCounted, DyingHaveCause, DeadLettersHaveCause, Excused,
                  TypeOK, HandlersOK
<1> QED BY <1>2, <1>3 DEF CauseInv

LEMMA MakeCause ==
  ASSUME SizesAssumption, TypeOK, CauseInv, NEW s \in Stages, pc[s] = "work",
         NEW m \in Markets, s = News \/ m = Current(s).market, Make(s, m)
  PROVE  CauseInv'
<1> DEFINE r == Output(s, m)
<1>1. /\ made' = made \cup {r} /\ saved' = saved \cup {r} /\ pc' = [pc EXCEPT ![s] = "publish"]
      /\ UNCHANGED <<store, catalog, topic, outcome, attempt, faults>>
      BY DEF Make, Save, kafka, trouble
<1>2. Parent(r) = Current(s)
      BY OutputOK
<1>3. NothingForgotten' => Parent(r) \in saved
      BY <1>1, <1>2 DEF NothingForgotten, CauseInv, StoreHolds, Working
<1>4. \A u \in Stages : Working(u)' => Working(u) /\ Current(u)' = Current(u)
      BY <1>1 DEF Working, Current, TypeOK, HandlersOK
<1>5. StoreHolds'
      BY <1>1, <1>3, <1>4, StoreAndFaults, StoreStillHolds DEF CauseInv
<1>6. FailuresCounted' /\ DyingHaveCause' /\ DeadLettersHaveCause'
      BY <1>1 DEF CauseInv, FailuresCounted, DyingHaveCause, DeadLettersHaveCause, Excused,
                  TypeOK, HandlersOK
<1> QED BY <1>5, <1>6 DEF CauseInv

LEMMA EnginesCause ==
  ASSUME SizesAssumption, TypeOK, CauseInv, SaveMatch \/ Analyze \/ Calculate \/ Evaluate
  PROVE  CauseInv'
<1>1. CASE SaveMatch
  <2>1. PICK m \in todo : Make(News, m)
        BY <1>1 DEF SaveMatch
  <2>2. m \in Markets /\ News \in Stages
        BY <2>1 DEF TypeOK, HandlersOK, Stages
  <2> QED BY <1>1, <2>1, <2>2, MakeCause DEF SaveMatch
<1>2. ASSUME NEW s \in AI..Risk, pc[s] = "work", Make(s, Current(s).market)
      PROVE  CauseInv'
  <2>1. s \in Stages /\ s # News
        BY DEF Stages
  <2>2. InputOK(s, Current(s))
        BY <1>2, <2>1, CurrentOK DEF TypeOK, HandlersOK
  <2>3. Current(s).market \in Markets
        BY <2>1, <2>2 DEF InputOK, TypeOK, TablesOK
  <2> QED BY <1>2, <2>1, <2>3, MakeCause
<1>3. AI \in AI..Risk /\ Probability \in AI..Risk /\ Risk \in AI..Risk
      OBVIOUS
<1> QED BY <1>1, <1>2, <1>3 DEF Analyze, Calculate, Evaluate

LEMMA CreateCause ==
  ASSUME SizesAssumption, TypeOK, CauseInv, CreateFromRiskDecision
  PROVE  CauseInv'
<1> DEFINE m == Current(Execution).market
           r == Output(Execution, m)
<1>1. /\ pc[Execution] = "work" /\ Settle(Execution, "done") /\ LeaveAs(Execution, "done")
      /\ made' = made \cup {r} /\ saved' = saved \cup {r}
      /\ UNCHANGED <<store, catalog, topic, outcome, faults>>
      BY DEF CreateFromRiskDecision, Save, Settle, kafka, trouble
<1>2. Execution \in Stages
      BY DEF Stages
<1>3. m \in Markets
  <2>1. InputOK(Execution, Current(Execution))
        BY <1>1, <1>2, CurrentOK DEF TypeOK, HandlersOK
  <2> QED BY <2>1 DEF InputOK, TypeOK, TablesOK
<1>4. Parent(r) = Current(Execution)
      BY <1>1, <1>2, <1>3, OutputOK
<1>5. NothingForgotten' => Parent(r) \in saved
      BY <1>1, <1>2, <1>4 DEF NothingForgotten, CauseInv, StoreHolds, Working
<1>7. \A u \in Stages : Working(u)' => Working(u) /\ Current(u)' = Current(u)
      BY <1>1, <1>2, OthersGoOn
<1>8. StoreHolds'
      BY <1>1, <1>5, <1>7, StoreAndFaults, StoreStillHolds DEF CauseInv
<1>9. FailuresCounted' /\ DyingHaveCause' /\ DeadLettersHaveCause'
      BY <1>1, <1>2, StoreAndFaults, SettleCause DEF Outcomes
<1> QED BY <1>8, <1>9 DEF CauseInv

\* A row is handed on, or lost on the way.
LEMMA PublishCause ==
  ASSUME SizesAssumption, TypeOK, CauseInv, NEW s \in Stages,
         Publish(s) \/ PublishAgain(s) \/ PublishLost(s)
  PROVE  CauseInv'
<1>1. /\ pc[s] = "publish" /\ Onward(s)
      /\ UNCHANGED <<store, made, saved, catalog, outcome>>
      /\ faults \in Nat /\ faults' \in Nat /\ faults' >= faults
  <2>1. faults \in Nat
        BY StoreAndFaults
  <2>2. CASE Publish(s)
        BY <2>1, <2>2 DEF Publish, tables, trouble
  <2>3. CASE PublishAgain(s)
        BY <2>1, <2>3 DEF PublishAgain, Fault, tables
  <2>4. CASE PublishLost(s)
        BY <2>1, <2>4 DEF PublishLost, Fault, tables
  <2> QED BY <2>2, <2>3, <2>4
<1>3. ASSUME NEW u \in Stages, NEW n \in 1..Len(topic[u])
      PROVE  topic'[u][n] = topic[u][n]
  <2>1. CASE Publish(s) \/ PublishAgain(s)
        BY <2>1, Published
  <2>2. CASE PublishLost(s)
        BY <2>2 DEF PublishLost
  <2> QED BY <2>1, <2>2
<1>4. ASSUME NEW u \in Stages, Working(u)
      PROVE  Current(u)' = Current(u)
  <2>1. Len(outcome[u]) < Len(topic[u])
        BY <1>4 DEF Working, TypeOK, HandlersOK
  <2>2. Len(outcome[u]) \in Nat /\ Len(topic[u]) \in Nat
        BY DEF TypeOK, KafkaOK
  <2>3. Len(outcome[u]) + 1 \in 1..Len(topic[u])
        BY <2>1, <2>2
  <2> QED BY <1>1, <1>3, <2>3 DEF Current
<1>5. CASE s = News /\ todo # {}
  <2>1. /\ pc' = [pc EXCEPT ![s] = "work"]
        /\ UNCHANGED attempt
        BY <1>1, <1>5 DEF Onward
  <2>2. \A u \in Stages : Working(u)' => Working(u) /\ Current(u)' = Current(u)
        BY <1>1, <1>4, <2>1 DEF Working, TypeOK, HandlersOK
  <2>3. StoreHolds'
        BY <1>1, <2>2, StoreStillHolds DEF CauseInv
  <2>4. \A u \in Stages : pc'[u] = pc[u] \/ pc'[u] = "work"
        BY <2>1 DEF TypeOK, HandlersOK
  <2>5. FailuresCounted' /\ DyingHaveCause' /\ DeadLettersHaveCause'
        BY <1>1, <2>1, <2>4, CausesStay
  <2> QED BY <2>3, <2>5 DEF CauseInv
<1>6. CASE ~(s = News /\ todo # {})
  <2>1. Settle(s, "done") /\ LeaveAs(s, "done")
        BY <1>1, <1>6 DEF Onward, Settle
  <2>2. \A u \in Stages : Working(u)' => Working(u) /\ Current(u)' = Current(u)
        BY <1>4, <2>1 DEF LeaveAs, Working, TypeOK, HandlersOK
  <2>3. StoreHolds'
        BY <1>1, <2>2, StoreStillHolds DEF CauseInv
  <2>4. FailuresCounted' /\ DyingHaveCause' /\ DeadLettersHaveCause'
        BY <1>1, <2>1, SettleCause DEF Outcomes
  <2> QED BY <2>3, <2>4 DEF CauseInv
<1> QED BY <1>5, <1>6

LEMMA RebalanceCause ==
  ASSUME SizesAssumption, TypeOK, CauseInv, NEW s \in Stages, Rebalance(s) \/ Skip(s)
  PROVE  CauseInv'
<1>1. /\ LeaveAs(s, "idle") /\ attempt' = [attempt EXCEPT ![s] = 0]
      /\ UNCHANGED <<store, made, saved, catalog, topic>>
      /\ faults \in Nat /\ faults' = faults + 1
      BY StoreAndFaults DEF Rebalance, Skip, Fault, Leave, tables
<1>2. \/ outcome' = [outcome EXCEPT ![s] = Resumed(s)]
      \/ outcome' = [outcome EXCEPT ![s] = Append(@, "skipped")]
      BY DEF Rebalance, Skip
<1>3. ASSUME NEW u \in Stages, NEW n \in 1..Len(outcome'[u])
      PROVE  \/ n \in 1..Len(outcome[u]) /\ outcome'[u][n] = outcome[u][n]
             \/ outcome'[u][n] = "skipped"
  <2>1. outcome[u] \in Seq(Settled)
        BY DEF TypeOK, KafkaOK
  <2>2. CASE outcome'[u] = outcome[u]
        BY <1>3, <2>2
  <2>3. CASE outcome'[u] = Resumed(u)
        BY <1>3, <2>3, ResumedOK
  <2>4. CASE outcome'[u] = Append(outcome[u], "skipped")
        BY <1>3, <2>1, <2>4
  <2> QED BY <1>2, <2>2, <2>3, <2>4 DEF TypeOK, KafkaOK
<1>4. \A u \in Stages : u # s => outcome'[u] = outcome[u]
      BY <1>2 DEF TypeOK, KafkaOK
<1>5. StoreHolds'
      BY <1>1, <1>4, OthersGoOn, StoreStillHolds DEF CauseInv
<1>6. \A u \in Stages : /\ attempt'[u] = attempt[u] \/ attempt'[u] = 0
                        /\ pc'[u] = pc[u] \/ pc'[u] = "idle"
      BY <1>1 DEF LeaveAs, TypeOK, HandlersOK
<1>7. FailuresCounted' /\ DyingHaveCause' /\ DeadLettersHaveCause'
      BY <1>1, <1>3, <1>6, CausesStay
<1> QED BY <1>5, <1>7 DEF CauseInv

\* The event in hand is behind the group, with the outcome it had.
LEMMA ReturnCause ==
  ASSUME SizesAssumption, TypeOK, CauseInv, NEW s \in Stages, Commit(s) \/ CommitFails(s)
  PROVE  CauseInv'
<1>1. /\ pc[s] \in Outcomes /\ pc' = [pc EXCEPT ![s] = "idle"]
      /\ outcome' = [outcome EXCEPT ![s] = Append(@, pc[s])]
      /\ UNCHANGED <<store, made, saved, catalog, topic, attempt>>
      /\ faults \in Nat /\ faults' \in Nat /\ faults' >= faults
      BY StoreAndFaults DEF Commit, CommitFails, Return, Fault, tables, trouble
<1>2. ASSUME NEW u \in Stages, NEW n \in 1..Len(outcome'[u])
      PROVE  \/ n \in 1..Len(outcome[u]) /\ outcome'[u][n] = outcome[u][n]
             \/ outcome'[u][n] = pc[u]
  <2>1. outcome[u] \in Seq(Settled)
        BY DEF TypeOK, KafkaOK
  <2>2. outcome'[u] = IF u = s THEN Append(outcome[u], pc[u]) ELSE outcome[u]
        BY <1>1 DEF TypeOK, KafkaOK
  <2> QED BY <1>2, <2>1, <2>2
<1>3. \A u \in Stages : pc'[u] = pc[u] \/ pc'[u] = "idle"
      BY <1>1 DEF TypeOK, HandlersOK
<1>4. \A u \in Stages : Working(u)' => Working(u) /\ Current(u)' = Current(u)
      BY <1>1 DEF Working, Current, TypeOK, HandlersOK, KafkaOK
<1>5. StoreHolds'
      BY <1>1, <1>4, StoreStillHolds DEF CauseInv
<1>6. FailuresCounted' /\ DyingHaveCause' /\ DeadLettersHaveCause'
      BY <1>1, <1>2, <1>3, CausesStay
<1> QED BY <1>5, <1>6 DEF CauseInv

LEMMA RestartCause ==
  ASSUME SizesAssumption, TypeOK, CauseInv, Restart
  PROVE  CauseInv'
<1>1. /\ faults \in Nat /\ faults' = faults + 1
      /\ UNCHANGED <<store, made, topic>>
      /\ \A u \in Stages : pc'[u] = "idle" /\ attempt'[u] = 0 /\ outcome'[u] = Resumed(u)
      /\ store = "postgres" => catalog' /\ saved' = saved
      BY StoreAndFaults DEF Restart, Fault
<1>2. StoreHolds'
  <2> SUFFICES ASSUME NothingForgotten' PROVE
        /\ catalog'
        /\ \A r \in made' : Parent(r) \in saved'
      BY <1>1 DEF StoreHolds, Working, Parent, Row
  <2>1. store = "postgres"
        BY <1>1 DEF NothingForgotten
  <2> QED BY <1>1, <2>1 DEF CauseInv, StoreHolds, NothingForgotten
<1>3. \A u \in Stages : \A n \in 1..Len(outcome'[u]) :
         n \in 1..Len(outcome[u]) /\ outcome'[u][n] = outcome[u][n]
      BY <1>1, ResumedOK
<1>4. FailuresCounted' /\ DyingHaveCause' /\ DeadLettersHaveCause'
      BY <1>1, <1>3, CausesStay
<1> QED BY <1>2, <1>4 DEF CauseInv

LEMMA MarketSelectedCause ==
  ASSUME TypeOK, CauseInv, MarketSelected \/ UNCHANGED vars
  PROVE  CauseInv'
<1>1. /\ UNCHANGED <<store, made, saved, topic, outcome, pc, attempt, faults>>
      /\ catalog' = TRUE \/ catalog' = catalog
      BY DEF MarketSelected, vars, tables, kafka, group, trouble
<1>2. StoreHolds'
      BY <1>1 DEF CauseInv, StoreHolds, NothingForgotten, Working, Current, Parent, Row
<1>3. FailuresCounted' /\ DyingHaveCause' /\ DeadLettersHaveCause'
      BY <1>1 DEF CauseInv, FailuresCounted, DyingHaveCause, DeadLettersHaveCause, Excused,
                  TypeOK, HandlersOK
<1> QED BY <1>2, <1>3 DEF CauseInv

LEMMA InitCause ==
  ASSUME SizesAssumption, Init
  PROVE  CauseInv
BY DEF Init, SizesAssumption, CauseInv, StoreHolds, Working, FailuresCounted, DyingHaveCause,
       DeadLettersHaveCause

\* No stage makes another fail: an event is dead-lettered after MaxAttempts
\* failures from outside, or because the store refuses what it already has
\* (Postgres) or has lost what the stage reads (memory).
THEOREM DeadLettersCaused == Spec => []DeadLettersHaveCause
<1> USE SizesAssumption
<1>1. Init => CauseInv
      BY InitCause
<1>2. TypeOK /\ CauseInv /\ [Next]_vars => CauseInv'
  <2> SUFFICES ASSUME TypeOK, CauseInv, [Next]_vars PROVE CauseInv'
      OBVIOUS
  <2>1. ASSUME NEW s \in Stages, Work(s) PROVE CauseInv'
    <3>1. CASE SaveInput(s)
          BY <3>1, SaveInputCause
    <3>2. CASE Decline(s)
          BY <3>2, EndCause DEF Decline, trouble
    <3>3. CASE Refused(s)
          BY <3>3, RefusedIsExcused, EndCause DEF Refused, CauseInv, trouble
    <3>4. CASE SaveMatch \/ Analyze \/ Calculate \/ Evaluate
          BY <3>4, EnginesCause
    <3>5. CASE CreateFromRiskDecision
          BY <3>5, CreateCause
    <3>6. CASE Publish(s)
          BY <3>6, PublishCause
    <3>7. CASE Commit(s)
          BY <3>7, ReturnCause
    <3> QED BY <2>1, <3>1, <3>2, <3>3, <3>4, <3>5, <3>6, <3>7 DEF Work
  <2>2. ASSUME NEW s \in Stages, HandlerFails(s) PROVE CauseInv'
        BY <2>2, EndCause DEF HandlerFails, Fault
  <2>3. ASSUME NEW s \in Stages, Rebalance(s) \/ Skip(s) PROVE CauseInv'
        BY <2>3, RebalanceCause
  <2>4. ASSUME NEW s \in Stages, PublishLost(s) \/ PublishAgain(s) \/ CommitFails(s)
        PROVE  CauseInv'
        BY <2>4, PublishCause, ReturnCause
  <2>5. CASE Restart
        BY <2>5, RestartCause
  <2>6. CASE MarketSelected \/ UNCHANGED vars
        BY <2>6, MarketSelectedCause
  <2> QED BY <2>1, <2>2, <2>3, <2>4, <2>5, <2>6 DEF Next
<1>3. CauseInv => DeadLettersHaveCause
      BY DEF CauseInv
<1> QED BY <1>1, <1>2, <1>3, TypeCorrect, PTL DEF Spec

-----------------------------------------------------------------------------
(***************************************************************************)
(* What is handed on.  DoneIsHandedOn speaks of settled events; FlowInv    *)
(* says how far the handlers under way have come: a row to publish is an   *)
(* output of the event at hand, and the news handler, which alone makes    *)
(* several, has handed on each match that it has taken from todo.          *)
(***************************************************************************)
HandedOnTo(input, m) ==
    \E r \in made : Parent(r) = input /\ r.market = m /\ HandedOn(r)

AllHandedOn(input) == \A m \in Wanted(input) : HandedOnTo(input, m)

\* What a handler has to publish is an output of its event.
OutputFits(s) ==
    pc[s] = "publish" =>
        /\ Parent(out[s][1]) = Current(s)
        /\ out[s][1].article = Current(s).article
        /\ IF s = News THEN out[s][1].market \notin todo
                       ELSE out[s][1].market = Current(s).market

\* The news handler has handed on the matches that it is done with.
MatchesHandedOn ==
    /\ pc[News] \notin {"work", "publish"} => todo = {}
    /\ pc[News] = "publish" \/ todo # {} =>
          \A m \in Matches[Current(News).article] \ todo :
             \/ HandedOnTo(Current(News), m)
             \/ pc[News] = "publish" /\ out[News][1].market = m

\* An event that its handler is done with is handed on, as yet uncommitted.
EndIsHandedOn(s) == pc[s] = "done" => AllHandedOn(Current(s))

FlowInv ==
    /\ \A s \in Stages : OutputFits(s) /\ EndIsHandedOn(s)
    /\ MatchesHandedOn
    /\ DoneIsHandedOn

\* A step that takes no row from a table or a topic.
Keeps ==
    /\ made \subseteq made' /\ lost \subseteq lost'
    /\ \A u \in Stages : \A n \in 1..Len(topic[u]) :
          n \in 1..Len(topic'[u]) /\ topic'[u][n] = topic[u][n]

LEMMA HandedOnStays ==
  ASSUME TypeOK, Keeps, NEW input, NEW m, HandedOnTo(input, m)
  PROVE  HandedOnTo(input, m)'
<1>1. PICK r \in made : Parent(r) = input /\ r.market = m /\ HandedOn(r)
      BY DEF HandedOnTo
<1>2. r \in made' /\ Kind(r) \in AI..Trade
      BY <1>1 DEF Keeps, TypeOK, TablesOK
<1>3. (HandedOn(r))'
  <2>1. CASE r \in lost \/ Kind(r) = Trade
        BY <2>1 DEF HandedOn, Keeps, Kind
  <2>2. CASE \E n \in 1..Len(topic[Kind(r)]) : topic[Kind(r)][n] = r
    <3>1. CASE Kind(r) = Trade
          BY <3>1, <2>1
    <3>2. CASE Kind(r) # Trade
      <4>1. Kind(r) \in Stages
            BY <1>2, <3>2 DEF Stages
      <4>2. PICK n \in 1..Len(topic[Kind(r)]) : topic[Kind(r)][n] = r
            BY <2>2
      <4>3. n \in 1..Len(topic'[Kind(r)]) /\ topic'[Kind(r)][n] = r
            BY <4>1, <4>2 DEF Keeps
      <4> QED BY <4>3 DEF HandedOn, Kind
    <3> QED BY <3>1, <3>2
  <2> QED BY <1>1, <2>1, <2>2 DEF HandedOn
<1> QED BY <1>1, <1>2, <1>3 DEF HandedOnTo, Parent, Row

LEMMA CurrentStays ==
  ASSUME TypeOK, Keeps, NEW u \in Stages, pc[u] # "idle", outcome'[u] = outcome[u]
  PROVE  Current(u)' = Current(u)
<1>1. Len(outcome[u]) < Len(topic[u])
      BY DEF TypeOK, HandlersOK
<1>2. Len(outcome[u]) \in Nat /\ Len(topic[u]) \in Nat
      BY DEF TypeOK, KafkaOK
<1>3. Len(outcome[u]) + 1 \in 1..Len(topic[u])
      BY <1>1, <1>2
<1> QED BY <1>3 DEF Current, Keeps

LEMMA DoneStays ==
  ASSUME TypeOK, DoneIsHandedOn, Keeps,
         \A u \in Stages : \A n \in 1..Len(outcome'[u]) : outcome'[u][n] = "done" =>
            \/ n \in 1..Len(outcome[u]) /\ outcome[u][n] = "done"
            \/ \A r : r = topic'[u][n] => AllHandedOn(r)'
  PROVE  DoneIsHandedOn'
<1> SUFFICES ASSUME NEW u \in Stages, NEW n \in 1..Len(outcome'[u]), outcome'[u][n] = "done",
                    NEW r, r = topic'[u][n]
             PROVE  AllHandedOn(r)'
    BY DEF DoneIsHandedOn, AllHandedOn, HandedOnTo, Wanted
<1>1. CASE n \in 1..Len(outcome[u]) /\ outcome[u][n] = "done"
  <2>1. n \in 1..Len(topic[u])
        BY <1>1 DEF TypeOK, KafkaOK
  <2>2. AllHandedOn(topic[u][n])
        BY <1>1 DEF DoneIsHandedOn, AllHandedOn, HandedOnTo
  <2>3. r = topic[u][n]
        BY <2>1 DEF Keeps
  <2> QED BY <2>2, <2>3, HandedOnStays DEF AllHandedOn, Wanted, Kind
<1>2. CASE AllHandedOn(r)'
      BY <1>2
<1> QED BY <1>1, <1>2

\* An event in hand that is done stays handed on.
LEMMA EndStays ==
  ASSUME TypeOK, Keeps, NEW u \in Stages, UNCHANGED <<pc[u], outcome[u]>>, EndIsHandedOn(u)
  PROVE  EndIsHandedOn(u)'
<1> SUFFICES ASSUME pc[u] = "done" PROVE EndIsHandedOn(u)'
    BY DEF EndIsHandedOn
<1>1. PICK q : q = Current(u)
      OBVIOUS
<1>2. Current(u)' = q
      BY <1>1, CurrentStays
<1>3. AllHandedOn(q)
      BY <1>1 DEF EndIsHandedOn
<1>4. AllHandedOn(q)'
      BY <1>3, HandedOnStays DEF AllHandedOn, Wanted, Kind
<1> QED BY <1>2, <1>4 DEF EndIsHandedOn, AllHandedOn, HandedOnTo, Wanted, Kind

\* A step of stage s: the other stages' handlers are where they were.
LEMMA FlowStays ==
  ASSUME TypeOK, FlowInv, Keeps, NEW s \in Stages,
         \A u \in Stages \ {s} : UNCHANGED <<pc[u], out[u], outcome[u]>>,
         s # News => UNCHANGED todo,
         \A n \in 1..Len(outcome'[s]) : outcome'[s][n] = "done" =>
            \/ n \in 1..Len(outcome[s]) /\ outcome[s][n] = "done"
            \/ \A r : r = topic'[s][n] => AllHandedOn(r)',
         OutputFits(s)', EndIsHandedOn(s)',
         s = News => MatchesHandedOn'
  PROVE  FlowInv'
<1>1. ASSUME NEW u \in Stages PROVE OutputFits(u)'
  <2>1. CASE u # s /\ pc[u] = "publish"
    <3>1. /\ OutputFits(u) /\ Current(u)' = Current(u)
          /\ out'[u] = out[u] /\ pc'[u] = pc[u]
          BY <2>1, CurrentStays DEF FlowInv
    <3>2. u = News => UNCHANGED todo
          BY <2>1
    <3> QED BY <3>1, <3>2, <2>1 DEF OutputFits, Parent, Row
  <2> QED BY <2>1 DEF OutputFits
<1>2. ASSUME s # News PROVE MatchesHandedOn'
  <2>1. /\ pc'[News] = pc[News] /\ out'[News] = out[News] /\ outcome'[News] = outcome[News]
        /\ todo' = todo /\ MatchesHandedOn /\ News \in Stages
        BY <1>2 DEF FlowInv, Stages
  <2>2. CASE pc[News] = "idle"
        BY <2>1, <2>2 DEF MatchesHandedOn
  <2>3. CASE pc[News] # "idle"
    <3>1. Current(News)' = Current(News)
          BY <2>1, <2>3, CurrentStays
    <3> QED BY <2>1, <2>3, <3>1, HandedOnStays DEF MatchesHandedOn
  <2> QED BY <2>2, <2>3
<1>3. DoneIsHandedOn'
  <2>1. \A u \in Stages : \A n \in 1..Len(outcome'[u]) : outcome'[u][n] = "done" =>
           \/ n \in 1..Len(outcome[u]) /\ outcome[u][n] = "done"
           \/ \A r : r = topic'[u][n] => AllHandedOn(r)'
        OBVIOUS
  <2> QED BY <2>1, DoneStays DEF FlowInv
<1>4. ASSUME NEW u \in Stages, u # s PROVE EndIsHandedOn(u)'
      BY <1>4, EndStays DEF FlowInv
<1> QED BY <1>1, <1>2, <1>3, <1>4 DEF FlowInv

\* A step that leaves the topics alone.
LEMMA QuietKeeps ==
  ASSUME TypeOK, made \subseteq made', lost \subseteq lost', UNCHANGED topic
  PROVE  Keeps
BY DEF Keeps

\* A handler that is left has nothing under way, and settled nothing as done.
LEMMA LeaveFlow ==
  ASSUME TypeOK, FlowInv, NEW s \in Stages, NEW l, l \notin {"work", "publish", "done"},
         LeaveAs(s, l), UNCHANGED <<made, topic, lost>>,
         \A u \in Stages \ {s} : outcome'[u] = outcome[u],
         \A n \in 1..Len(outcome'[s]) :
            outcome'[s][n] = "done" => n \in 1..Len(outcome[s]) /\ outcome[s][n] = "done"
  PROVE  FlowInv'
<1>1. Keeps
      BY QuietKeeps
<1>2. /\ pc'[s] = l /\ \A u \in Stages \ {s} : UNCHANGED <<pc[u], out[u]>>
      /\ todo' = IF s = News THEN {} ELSE todo
      BY DEF LeaveAs, TypeOK, HandlersOK
<1>3. OutputFits(s)' /\ EndIsHandedOn(s)'
      BY <1>2 DEF OutputFits, EndIsHandedOn
<1>4. s = News => MatchesHandedOn'
      BY <1>2 DEF MatchesHandedOn
<1> QED BY <1>1, <1>2, <1>3, <1>4, FlowStays

LEMMA EndFlow ==
  ASSUME TypeOK, FlowInv, NEW s \in Stages,
         Fail(s) \/ Settle(s, "declined"), UNCHANGED <<tables, kafka>>
  PROVE  FlowInv'
<1>1. \E l \in {"idle", "dead", "declined"} : LeaveAs(s, l)
      BY DEF Fail, Settle, Leave
<1>2. UNCHANGED <<made, topic, lost, outcome>>
      BY DEF tables, kafka
<1> QED BY <1>1, <1>2, LeaveFlow

LEMMA RebalanceFlow ==
  ASSUME TypeOK, FlowInv, NEW s \in Stages, Rebalance(s) \/ Skip(s)
  PROVE  FlowInv'
<1>1. /\ LeaveAs(s, "idle") /\ UNCHANGED <<made, topic, lost>>
      /\ \/ outcome' = [outcome EXCEPT ![s] = Resumed(s)]
         \/ outcome' = [outcome EXCEPT ![s] = Append(@, "skipped")]
      BY DEF Rebalance, Skip, Leave, tables
<1>2. \A u \in Stages \ {s} : outcome'[u] = outcome[u]
      BY <1>1 DEF TypeOK, KafkaOK
<1>3. ASSUME NEW n \in 1..Len(outcome'[s]), outcome'[s][n] = "done"
      PROVE  n \in 1..Len(outcome[s]) /\ outcome[s][n] = "done"
  <2>1. outcome[s] \in Seq(Settled)
        BY DEF TypeOK, KafkaOK
  <2>2. CASE outcome'[s] = Resumed(s)
        BY <1>3, <2>2, ResumedOK
  <2>3. CASE outcome'[s] = Append(outcome[s], "skipped")
        BY <1>3, <2>1, <2>3
  <2> QED BY <1>1, <2>2, <2>3 DEF TypeOK, KafkaOK
<1> QED BY <1>1, <1>2, <1>3, LeaveFlow

LEMMA SaveInputFlow ==
  ASSUME TypeOK, FlowInv, NEW s \in Stages, SaveInput(s)
  PROVE  FlowInv'
<1>1. /\ pc[s] = "idle" /\ pc' = [pc EXCEPT ![s] = "work"]
      /\ UNCHANGED <<made, topic, lost, outcome, out>>
      /\ todo' = IF s = News /\ catalog THEN Matches[Current(s).article] ELSE todo
      BY DEF SaveInput, Delivered, kafka
<1>2. Keeps /\ Current(s)' = Current(s)
      BY <1>1, QuietKeeps DEF Current
<1>3. pc'[s] = "work" /\ \A u \in Stages \ {s} : pc'[u] = pc[u]
      BY <1>1 DEF TypeOK, HandlersOK
<1>4. OutputFits(s)' /\ EndIsHandedOn(s)'
      BY <1>3 DEF OutputFits, EndIsHandedOn
<1>5. s = News => MatchesHandedOn'
  <2> SUFFICES ASSUME s = News PROVE MatchesHandedOn'
      OBVIOUS
  <2>1. todo' = {} \/ todo' = Matches[Current(s).article]
        BY <1>1 DEF FlowInv, MatchesHandedOn
  <2> QED BY <1>2, <1>3, <2>1 DEF MatchesHandedOn
<1> QED BY <1>1, <1>2, <1>3, <1>4, <1>5, FlowStays

LEMMA MakeFlow ==
  ASSUME TypeOK, FlowInv, NEW s \in Stages, pc[s] = "work",
         NEW m \in Markets, s = News \/ m = Current(s).market,
         Make(s, m),
         IF s = News THEN m \in todo /\ todo' = todo \ {m} ELSE UNCHANGED todo
  PROVE  FlowInv'
<1> DEFINE r == Output(s, m)
<1>1. /\ made' = made \cup {r} /\ out' = [out EXCEPT ![s] = <<r>>]
      /\ pc' = [pc EXCEPT ![s] = "publish"] /\ UNCHANGED <<topic, lost, outcome>>
      BY DEF Make, Save, kafka
<1>2. Keeps /\ Current(s)' = Current(s)
      BY <1>1, QuietKeeps DEF Current
<1>3. /\ pc'[s] = "publish" /\ out'[s] = <<r>>
      /\ \A u \in Stages \ {s} : UNCHANGED <<pc[u], out[u]>>
      BY <1>1 DEF TypeOK, HandlersOK
<1>4. Parent(r) = Current(s) /\ r.market = m /\ r.article = Current(s).article
  <2>1. r.article = Current(s).article
        BY DEF Output, Row
  <2> QED BY <2>1, OutputOK
<1>5. OutputFits(s)' /\ EndIsHandedOn(s)'
  <2>1. Parent(out[s][1])' = Parent(r)
        BY <1>3 DEF Parent, Row
  <2> QED BY <1>2, <1>3, <1>4, <2>1 DEF OutputFits, EndIsHandedOn
<1>6. s = News => MatchesHandedOn'
  <2> SUFFICES ASSUME s = News PROVE MatchesHandedOn'
      OBVIOUS
  <2>1. ASSUME NEW k \in Matches[Current(News).article] \ todo'
        PROVE  HandedOnTo(Current(News), k)' \/ k = m
    <3>1. CASE k \notin todo
      <4>1. HandedOnTo(Current(News), k)
            BY <2>1, <3>1 DEF FlowInv, MatchesHandedOn
      <4> QED BY <4>1, <1>2, HandedOnStays
    <3> QED BY <2>1, <3>1
  <2> QED BY <1>2, <1>3, <1>4, <2>1 DEF MatchesHandedOn
<1> QED BY <1>1, <1>2, <1>3, <1>5, <1>6, FlowStays

LEMMA EnginesFlow ==
  ASSUME TypeOK, FlowInv, SaveMatch \/ Analyze \/ Calculate \/ Evaluate
  PROVE  FlowInv'
<1>1. CASE SaveMatch
  <2>1. PICK m \in todo : Make(News, m) /\ todo' = todo \ {m}
        BY <1>1 DEF SaveMatch
  <2>2. m \in Markets /\ News \in Stages
        BY <2>1 DEF TypeOK, HandlersOK, Stages
  <2> QED BY <1>1, <2>1, <2>2, MakeFlow DEF SaveMatch
<1>2. ASSUME NEW s \in AI..Risk, pc[s] = "work", Make(s, Current(s).market), UNCHANGED todo
      PROVE  FlowInv'
  <2>1. s \in Stages /\ s # News
        BY DEF Stages
  <2>2. Current(s).market \in Markets
        BY <1>2, <2>1, CurrentOK DEF InputOK, TypeOK, TablesOK, HandlersOK
  <2> QED BY <1>2, <2>1, <2>2, MakeFlow
<1>3. AI \in AI..Risk /\ Probability \in AI..Risk /\ Risk \in AI..Risk
      OBVIOUS
<1> QED BY <1>1, <1>2, <1>3 DEF Analyze, Calculate, Evaluate

\* The event in hand is behind its group: if it is done, it is handed on.
LEMMA ReturnFlow ==
  ASSUME TypeOK, FlowInv, NEW s \in Stages, Commit(s) \/ CommitFails(s)
  PROVE  FlowInv'
<1>1. /\ pc[s] \in Outcomes /\ pc' = [pc EXCEPT ![s] = "idle"]
      /\ outcome' = [outcome EXCEPT ![s] = Append(@, pc[s])]
      /\ UNCHANGED <<made, topic, lost, todo, out>>
      BY DEF Commit, CommitFails, Return, tables
<1>2. /\ pc'[s] = "idle" /\ \A u \in Stages \ {s} : UNCHANGED <<pc[u], out[u], outcome[u]>>
      /\ outcome[s] \in Seq(Settled) /\ outcome'[s] = Append(outcome[s], pc[s])
      BY <1>1 DEF TypeOK, KafkaOK, HandlersOK
<1>3. Keeps
      BY <1>1, QuietKeeps
<1>4. PICK q : q = Current(s)
      OBVIOUS
<1>5. pc[s] = "done" => AllHandedOn(q)'
  <2> SUFFICES ASSUME pc[s] = "done" PROVE AllHandedOn(q)'
      OBVIOUS
  <2>1. AllHandedOn(q)
        BY <1>4 DEF FlowInv, EndIsHandedOn
  <2> QED BY <2>1, <1>3, HandedOnStays DEF AllHandedOn, Wanted, Kind
<1>6. ASSUME NEW n \in 1..Len(outcome'[s]), outcome'[s][n] = "done"
      PROVE  \/ n \in 1..Len(outcome[s]) /\ outcome[s][n] = "done"
             \/ \A r : r = topic'[s][n] => AllHandedOn(r)'
  <2>1. n \in 1..Len(outcome[s]) \/ n = Len(outcome[s]) + 1
        BY <1>2, <1>6
  <2>2. CASE n \in 1..Len(outcome[s])
        BY <1>2, <1>6, <2>2
  <2>3. CASE n = Len(outcome[s]) + 1
    <3>1. pc[s] = "done" /\ topic'[s][n] = q
          BY <1>1, <1>2, <1>4, <1>6, <2>3 DEF Current
    <3> QED BY <1>5, <3>1
  <2> QED BY <2>1, <2>2, <2>3
<1>7. OutputFits(s)' /\ EndIsHandedOn(s)'
      BY <1>2 DEF OutputFits, EndIsHandedOn
<1>8. s = News => MatchesHandedOn'
      BY <1>1, <1>2 DEF FlowInv, MatchesHandedOn, Outcomes
<1> QED BY <1>1, <1>2, <1>3, <1>6, <1>7, <1>8, FlowStays

\* An event that is done: what it carried is handed on.
LEMMA DoneFlow ==
  ASSUME TypeOK, FlowInv, Keeps, NEW s \in Stages, pc[s] # "idle", Settle(s, "done"),
         UNCHANGED outcome, NEW r, r = Current(s), AllHandedOn(r)'
  PROVE  FlowInv'
<1>1. LeaveAs(s, "done")
      BY DEF Settle
<1>2. /\ pc'[s] = "done" /\ \A u \in Stages \ {s} : UNCHANGED <<pc[u], out[u], outcome[u]>>
      /\ todo' = IF s = News THEN {} ELSE todo
      BY <1>1 DEF LeaveAs, TypeOK, HandlersOK
<1>3. Current(s)' = r
      BY CurrentStays
<1>4. OutputFits(s)' /\ EndIsHandedOn(s)'
      BY <1>2, <1>3 DEF OutputFits, EndIsHandedOn, AllHandedOn, HandedOnTo, Wanted, Kind
<1>5. s = News => MatchesHandedOn'
      BY <1>2 DEF MatchesHandedOn
<1> QED BY <1>2, <1>4, <1>5, FlowStays

LEMMA CreateFlow ==
  ASSUME TypeOK, FlowInv, CreateFromRiskDecision
  PROVE  FlowInv'
<1>0. PICK m, r : m = Current(Execution).market /\ r = Output(Execution, m)
      OBVIOUS
<1>1. /\ pc[Execution] = "work" /\ Settle(Execution, "done")
      /\ made' = made \cup {r} /\ UNCHANGED <<topic, lost, outcome>> /\ Execution \in Stages
      BY <1>0 DEF CreateFromRiskDecision, Save, Stages, kafka
<1>2. m \in Markets /\ Kind(Current(Execution)) = Execution
      BY <1>0, <1>1, CurrentOK DEF InputOK, TypeOK, TablesOK, HandlersOK
<1>3. Kind(r) = Trade /\ r.market = m /\ Parent(r) = Current(Execution)
      BY <1>0, <1>1, <1>2, OutputOK
<1>4. PICK q : q = Current(Execution)
      OBVIOUS
<1>5. HandedOnTo(q, m)'
  <2>1. (HandedOn(r))'
        BY <1>3 DEF HandedOn, Kind
  <2> QED BY <1>1, <1>3, <1>4, <2>1 DEF HandedOnTo, Parent, Row
<1>6. AllHandedOn(q)'
  <2>1. Wanted(q)' = {m}
        BY <1>0, <1>2, <1>4 DEF Wanted, Kind
  <2> QED BY <1>5, <2>1 DEF AllHandedOn
<1> QED BY <1>1, <1>4, <1>6, QuietKeeps, DoneFlow

\* A row that is published, or that Kafka refuses, counts as handed on.
LEMMA PublishedIsHandedOn ==
  ASSUME TypeOK, NEW s \in Stages, Publish(s) \/ PublishAgain(s) \/ PublishLost(s)
  PROVE  /\ Keeps
         /\ pc[s] = "publish" /\ s # Execution
         /\ \A r : r = out[s][1] => r \in made' /\ (HandedOn(r))'
<1>1. /\ pc[s] = "publish" /\ s # Execution /\ Len(out[s]) = 1 /\ out[s] \in Seq(Rows)
      /\ InputOK(s + 1, out[s][1]) /\ s + 1 \in Stages
      /\ made' = made
  <2>1. pc[s] = "publish" /\ made' = made
        BY DEF Publish, PublishAgain, PublishLost, tables
  <2>2. s # Execution /\ Len(out[s]) = 1 /\ InputOK(s + 1, out[s][1])
        BY <2>1 DEF TypeOK, HandlersOK
  <2>3. out[s] \in Seq(Rows)
        BY DEF TypeOK, HandlersOK
  <2>4. s + 1 \in Stages
        BY <2>2 DEF Stages
  <2> QED BY <2>1, <2>2, <2>3, <2>4
<1>2. out[s][1] \in made /\ Kind(out[s][1]) = s + 1
      BY <1>1 DEF InputOK, Stages
<1>3. CASE Publish(s) \/ PublishAgain(s)
  <2>1. PICK k \in Nat : \E l \in {k + 1, k + 2} :
               /\ k = Len(topic[s + 1]) /\ l = Len(topic'[s + 1])
               /\ \A n \in 1..k : topic'[s + 1][n] = topic[s + 1][n]
               /\ \A n \in k + 1 .. l : topic'[s + 1][n] = out[s][1]
        BY <1>3, Published
  <2>2. /\ \A u \in Stages \ {s + 1} : topic'[u] = topic[u]
        /\ lost' = lost
        BY <1>3, Published DEF Publish, PublishAgain
  <2>3. Keeps
    <3>1. ASSUME NEW u \in Stages, NEW n \in 1..Len(topic[u])
          PROVE  n \in 1..Len(topic'[u]) /\ topic'[u][n] = topic[u][n]
          BY <2>1, <2>2
    <3> QED BY <1>1, <2>2, <3>1 DEF Keeps
  <2>4. ASSUME NEW r, r = out[s][1] PROVE (HandedOn(r))'
    <3>1. /\ Kind(r) = s + 1 /\ k + 1 \in 1..Len(topic'[s + 1])
          /\ topic'[s + 1][k + 1] = r
          BY <1>2, <2>1, <2>4
    <3> QED BY <3>1 DEF HandedOn, Kind
  <2> QED BY <1>1, <1>2, <2>3, <2>4
<1>4. CASE PublishLost(s)
  <2>1. lost' = lost \cup {out[s][1]} /\ topic' = topic
        BY <1>4 DEF PublishLost
  <2>2. Keeps
        BY <1>1, <2>1, QuietKeeps
  <2> QED BY <1>1, <1>2, <2>1, <2>2 DEF HandedOn
<1> QED BY <1>3, <1>4

LEMMA PublishFlow ==
  ASSUME TypeOK, FlowInv, NEW s \in Stages, Publish(s) \/ PublishAgain(s) \/ PublishLost(s)
  PROVE  FlowInv'
<1>1. Keeps /\ pc[s] = "publish" /\ s # Execution
      BY PublishedIsHandedOn
<1>2. PICK r : r = out[s][1]
      OBVIOUS
<1>3. PICK q : q = Current(s)
      OBVIOUS
<1>4. r \in made' /\ (HandedOn(r))'
      BY <1>2, PublishedIsHandedOn
<1>5. /\ Parent(r) = q
      /\ IF s = News THEN r.market \notin todo ELSE r.market = q.market
      BY <1>1, <1>2, <1>3 DEF FlowInv, OutputFits
<1>6. HandedOnTo(q, r.market)'
      BY <1>4, <1>5 DEF HandedOnTo, Parent, Row
<1>7. Kind(q) = s
      BY <1>1, <1>3, CurrentOK DEF InputOK, TypeOK, HandlersOK
<1>8. s = News => \A k \in Matches[q.article] \ todo : HandedOnTo(q, k)'
  <2> SUFFICES ASSUME s = News, NEW k \in Matches[q.article] \ todo
               PROVE  HandedOnTo(q, k)'
      OBVIOUS
  <2>1. HandedOnTo(q, k) \/ k = r.market
        BY <1>1, <1>2, <1>3 DEF FlowInv, MatchesHandedOn
  <2> QED BY <1>1, <1>6, <2>1, HandedOnStays
<1>9. Onward(s) /\ UNCHANGED outcome
      BY DEF Publish, PublishAgain, PublishLost
<1>10. CASE s = News /\ todo # {}
  <2>1. /\ pc' = [pc EXCEPT ![s] = "work"] /\ out' = [out EXCEPT ![s] = <<>>]
        /\ UNCHANGED <<outcome, todo>>
        BY <1>9, <1>10 DEF Onward
  <2>2. pc'[s] = "work" /\ \A u \in Stages \ {s} : UNCHANGED <<pc[u], out[u]>>
        BY <2>1 DEF TypeOK, HandlersOK
  <2>3. OutputFits(s)' /\ EndIsHandedOn(s)'
        BY <2>2 DEF OutputFits, EndIsHandedOn
  <2>4. Current(s)' = q
        BY <1>1, <1>3, <2>1, CurrentStays
  <2>5. MatchesHandedOn'
        BY <1>8, <1>10, <2>1, <2>2, <2>4 DEF MatchesHandedOn
  <2> QED BY <1>1, <2>1, <2>2, <2>3, <2>5, FlowStays
<1>11. CASE ~(s = News /\ todo # {})
  <2>1. Settle(s, "done")
        BY <1>9, <1>11 DEF Onward
  <2>2. AllHandedOn(q)'
    <3>1. CASE s = News
      <4>1. Wanted(q)' = Matches[q.article] /\ todo = {}
            BY <1>7, <1>11, <3>1 DEF Wanted, Kind
      <4> QED BY <1>8, <3>1, <4>1 DEF AllHandedOn
    <3>2. CASE s # News
      <4>1. Wanted(q)' = {q.market}
            BY <1>7, <3>2 DEF Wanted, Kind
      <4> QED BY <1>5, <1>6, <3>2, <4>1 DEF AllHandedOn
    <3> QED BY <3>1, <3>2
  <2> QED BY <1>1, <1>3, <1>9, <2>1, <2>2, DoneFlow
<1> QED BY <1>10, <1>11

\* Every handler is left at once, with what it had settled.
LEMMA RestartFlow ==
  ASSUME TypeOK, FlowInv, Restart
  PROVE  FlowInv'
<1>1. /\ \A u \in Stages : pc'[u] = "idle" /\ outcome'[u] = Resumed(u)
      /\ todo' = {} /\ UNCHANGED <<made, topic, lost>>
      BY DEF Restart
<1>2. \A u \in Stages : OutputFits(u)' /\ EndIsHandedOn(u)'
      BY <1>1 DEF OutputFits, EndIsHandedOn
<1>3. MatchesHandedOn'
      BY <1>1 DEF MatchesHandedOn, Stages
<1>4. ASSUME NEW u \in Stages, NEW n \in 1..Len(outcome'[u]), outcome'[u][n] = "done"
      PROVE  n \in 1..Len(outcome[u]) /\ outcome[u][n] = "done"
      BY <1>1, <1>4, ResumedOK
<1>5. DoneIsHandedOn'
      BY <1>1, <1>4, QuietKeeps, DoneStays DEF FlowInv
<1> QED BY <1>2, <1>3, <1>5 DEF FlowInv

LEMMA IdleFlow ==
  ASSUME TypeOK, FlowInv, MarketSelected \/ UNCHANGED vars
  PROVE  FlowInv'
<1>1. UNCHANGED <<made, topic, lost, outcome, pc, todo, out>>
      BY DEF MarketSelected, vars, tables, kafka, group
<1>2. Keeps /\ News \in Stages
      BY <1>1, QuietKeeps DEF Stages
<1>3. OutputFits(News)' /\ EndIsHandedOn(News)'
      BY <1>1, <1>2, EndStays DEF FlowInv, OutputFits, Current, Parent, Row
<1>4. MatchesHandedOn'
  <2>1. UNCHANGED Current(News)
        BY <1>1 DEF Current
  <2> QED BY <1>1, <1>2, <2>1, HandedOnStays DEF FlowInv, MatchesHandedOn
<1> QED BY <1>1, <1>2, <1>3, <1>4, FlowStays

LEMMA NextFlow ==
  ASSUME TypeOK, FlowInv, [Next]_vars
  PROVE  FlowInv'
<1>1. ASSUME NEW s \in Stages, Work(s) PROVE FlowInv'
  <2>1. CASE SaveInput(s)
        BY <2>1, SaveInputFlow
  <2>2. CASE Decline(s) \/ Refused(s)
        BY <2>2, EndFlow DEF Decline, Refused
  <2>3. CASE SaveMatch \/ Analyze \/ Calculate \/ Evaluate
        BY <2>3, EnginesFlow
  <2>4. CASE CreateFromRiskDecision
        BY <2>4, CreateFlow
  <2>5. CASE Publish(s)
        BY <2>5, PublishFlow
  <2>6. CASE Commit(s)
        BY <2>6, ReturnFlow
  <2> QED BY <1>1, <2>1, <2>2, <2>3, <2>4, <2>5, <2>6 DEF Work
<1>2. ASSUME NEW s \in Stages, HandlerFails(s) PROVE FlowInv'
      BY <1>2, EndFlow DEF HandlerFails
<1>3. ASSUME NEW s \in Stages, Rebalance(s) \/ Skip(s) PROVE FlowInv'
      BY <1>3, RebalanceFlow
<1>4. ASSUME NEW s \in Stages, PublishLost(s) \/ PublishAgain(s) \/ CommitFails(s)
      PROVE  FlowInv'
      BY <1>4, PublishFlow, ReturnFlow
<1>5. CASE Restart
      BY <1>5, RestartFlow
<1>6. CASE MarketSelected \/ UNCHANGED vars
      BY <1>6, IdleFlow
<1> QED BY <1>1, <1>2, <1>3, <1>4, <1>5, <1>6 DEF Next

LEMMA InitFlow == Init => FlowInv
BY DEF Init, FlowInv, OutputFits, EndIsHandedOn, MatchesHandedOn, DoneIsHandedOn, Stages

\* Whatever fails or starts again around the groups, an event that was
\* handled has its outputs in the next topic, one for each market wanted,
\* but for those that Kafka refused.
THEOREM DoneHandedOn == Spec => []DoneIsHandedOn
<1>1. FlowInv => DoneIsHandedOn
      BY DEF FlowInv
<1>2. TypeOK /\ FlowInv /\ [Next]_vars => FlowInv'
      BY NextFlow
<1> QED BY <1>1, <1>2, InitFlow, TypeCorrect, PTL DEF Spec

-----------------------------------------------------------------------------
(***************************************************************************)
(* Duplicate orders.  The orders of an article in a market are bounded     *)
(* together with what may still become one: every event that the group     *)
(* would read if it started again, the one in hand only if its handler has *)
(* yet to hand it on.  A step replaces one of these by another or takes    *)
(* one away, but for a fault, which may add one, and for a restart, which  *)
(* brings back the event in hand of every group.                           *)
(***************************************************************************)

\* The handler of s may yet hand on something for market m.
ToCome(s, m) ==
    /\ pc[s] \notin Outcomes
    /\ s = News /\ pc[s] # "idle" =>
          m \in todo \/ (pc[s] = "publish" /\ out[s][1].market = m)

Waiting(s, n, a, m) ==
    /\ n \in committed[s] + 1 .. Len(topic[s])
    /\ topic[s][n].article = a
    /\ s # News => topic[s][n].market = m
    /\ n = Len(outcome[s]) + 1 => ToCome(s, m)

Pending(a, m) == {e \in Stages \X Nat : Waiting(e[1], e[2], a, m)}

Bounded(a, m) ==
    /\ IsFiniteSet(Pending(a, m))
    /\ Cardinality(Orders(a, m)) + Cardinality(Pending(a, m)) <= Allowed

OrdersBounded == \A a \in Articles, m \in Markets : Bounded(a, m)

\* No article is published twice: the fetch service publishes an article
\* when it first sees it.
NoArticleTwice == \A f \in Feeds : \A i, j \in 1..Len(f) : f[i] = f[j] => i = j

\* There are five groups.
LEMMA StagesCount == Cardinality(Stages) = 5
<1>1. PICK a \in Int, b \in Int : a = 1 /\ b = 5
      OBVIOUS
<1>2. Cardinality(a..b) = IF a > b THEN 0 ELSE b - a + 1
      BY ONLY FS_Interval, Zenon
<1>3. Stages = a..b
      BY <1>1 DEF Stages, News, Execution
<1> QED BY <1>1, <1>2, <1>3

\* What a step may do to the number of orders allowed.
LEMMA AllowedOK ==
  ASSUME TypeOK
  PROVE  /\ Allowed \in Nat
         /\ UNCHANGED trouble => Allowed' = Allowed
         /\ faults' = faults + 1 /\ restarts' = restarts => Allowed' = Allowed + 1
         /\ faults' = faults + 1 /\ restarts' = restarts + 1 => Allowed' = Allowed + 5
<1>1. Cardinality(Stages) = 5
      BY StagesCount
<1>2. faults \in Nat /\ restarts \in Nat
      BY DEF TypeOK, CountsOK
<1>3. /\ Allowed = 1 + faults + 4 * restarts
      /\ Allowed' = 1 + faults' + 4 * restarts'
      BY <1>1 DEF Allowed
<1> QED BY <1>2, <1>3 DEF trouble

LEMMA Counts ==
  ASSUME NEW A, IsFiniteSet(A), NEW B
  PROVE  /\ Cardinality(A) \in Nat
         /\ B \subseteq A => IsFiniteSet(B) /\ Cardinality(B) \in Nat
                             /\ Cardinality(B) <= Cardinality(A)
         /\ \A y : B \subseteq A \cup {y} =>
               IsFiniteSet(B) /\ Cardinality(B) \in Nat /\ Cardinality(B) <= Cardinality(A) + 1
         /\ \A x \in A : B \subseteq A \ {x} =>
               IsFiniteSet(B) /\ Cardinality(B) \in Nat /\ Cardinality(B) + 1 <= Cardinality(A)
         /\ \A x \in A : \A y : B \subseteq (A \ {x}) \cup {y} =>
               IsFiniteSet(B) /\ Cardinality(B) \in Nat /\ Cardinality(B) <= Cardinality(A)
         /\ \A x \in A : \A y, z : B \subseteq (A \ {x}) \cup {y, z} =>
               IsFiniteSet(B) /\ Cardinality(B) \in Nat /\ Cardinality(B) <= Cardinality(A) + 1
<1>0. /\ Cardinality(A) \in Nat
      /\ \A S : IsFiniteSet(S) => Cardinality(S) \in Nat
      BY FS_CardinalityType
<1>1. ASSUME NEW S, IsFiniteSet(S), B \subseteq S
      PROVE  IsFiniteSet(B) /\ Cardinality(B) \in Nat /\ Cardinality(B) <= Cardinality(S)
      BY <1>1, <1>0, FS_Subset
<1>2. ASSUME NEW S, IsFiniteSet(S), NEW y
      PROVE  IsFiniteSet(S \cup {y}) /\ Cardinality(S \cup {y}) \in Nat
             /\ Cardinality(S \cup {y}) <= Cardinality(S) + 1
  <2>1. /\ IsFiniteSet(S \cup {y})
        /\ Cardinality(S \cup {y}) = IF y \in S THEN Cardinality(S) ELSE Cardinality(S) + 1
        BY <1>2, FS_AddElement
  <2> QED BY <1>2, <2>1, <1>0
<1>3. ASSUME NEW x \in A
      PROVE  IsFiniteSet(A \ {x}) /\ Cardinality(A \ {x}) = Cardinality(A) - 1
      BY <1>3, FS_RemoveElement
<1>4. ASSUME NEW y, B \subseteq A \cup {y}
      PROVE  IsFiniteSet(B) /\ Cardinality(B) \in Nat /\ Cardinality(B) <= Cardinality(A) + 1
  <2>1. IsFiniteSet(A \cup {y}) /\ Cardinality(A \cup {y}) \in Nat
        /\ Cardinality(A \cup {y}) <= Cardinality(A) + 1
        BY <1>2
  <2>2. IsFiniteSet(B) /\ Cardinality(B) \in Nat /\ Cardinality(B) <= Cardinality(A \cup {y})
        BY <1>1, <1>4, <2>1
  <2> QED BY <1>0, <2>1, <2>2
<1>5. ASSUME NEW x \in A, B \subseteq A \ {x}
      PROVE  IsFiniteSet(B) /\ Cardinality(B) \in Nat /\ Cardinality(B) + 1 <= Cardinality(A)
  <2>1. IsFiniteSet(A \ {x}) /\ Cardinality(A \ {x}) = Cardinality(A) - 1
        BY <1>3
  <2>2. IsFiniteSet(B) /\ Cardinality(B) \in Nat /\ Cardinality(B) <= Cardinality(A \ {x})
        BY <1>1, <1>5, <2>1
  <2> QED BY <1>0, <2>1, <2>2
<1>6. ASSUME NEW x \in A, NEW y, B \subseteq (A \ {x}) \cup {y}
      PROVE  IsFiniteSet(B) /\ Cardinality(B) \in Nat /\ Cardinality(B) <= Cardinality(A)
  <2>1. IsFiniteSet(A \ {x}) /\ Cardinality(A \ {x}) = Cardinality(A) - 1
        BY <1>3
  <2>2. /\ IsFiniteSet((A \ {x}) \cup {y}) /\ Cardinality((A \ {x}) \cup {y}) \in Nat
        /\ Cardinality((A \ {x}) \cup {y}) <= Cardinality(A \ {x}) + 1
        BY <1>2, <2>1
  <2>3. /\ IsFiniteSet(B) /\ Cardinality(B) \in Nat
        /\ Cardinality(B) <= Cardinality((A \ {x}) \cup {y})
        BY <1>1, <1>6, <2>2
  <2> QED BY <1>0, <2>1, <2>2, <2>3
<1>7. ASSUME NEW x \in A, NEW y, NEW z, B \subseteq (A \ {x}) \cup {y, z}
      PROVE  IsFiniteSet(B) /\ Cardinality(B) \in Nat /\ Cardinality(B) <= Cardinality(A) + 1
  <2>1. IsFiniteSet(A \ {x}) /\ Cardinality(A \ {x}) = Cardinality(A) - 1
        BY <1>3
  <2>2. PICK C : C = (A \ {x}) \cup {y}
        OBVIOUS
  <2>3. IsFiniteSet(C) /\ Cardinality(C) \in Nat /\ Cardinality(C) <= Cardinality(A \ {x}) + 1
        BY <1>2, <2>1, <2>2
  <2>4. /\ IsFiniteSet(C \cup {z}) /\ Cardinality(C \cup {z}) \in Nat
        /\ Cardinality(C \cup {z}) <= Cardinality(C) + 1
        BY <1>2, <2>3
  <2>5. B \subseteq C \cup {z}
        BY <1>7, <2>2
  <2>6. IsFiniteSet(B) /\ Cardinality(B) \in Nat /\ Cardinality(B) <= Cardinality(C \cup {z})
        BY <1>1, <2>4, <2>5
  <2> QED BY <1>0, <2>1, <2>3, <2>4, <2>6
<1> QED BY <1>0, <1>1, <1>4, <1>5, <1>6, <1>7

\* A set with at most one element more.
LEMMA SetOfOneMore ==
  ASSUME NEW A, IsFiniteSet(A), NEW x, NEW B, B = A \cup {x}
  PROVE  /\ IsFiniteSet(B) /\ Cardinality(B) \in Nat /\ Cardinality(A) \in Nat
         /\ Cardinality(B) <= Cardinality(A) + 1
<1>1. B \subseteq A \cup {x}
      OBVIOUS
<1> QED BY ONLY <1>1, IsFiniteSet(A), Counts

LEMMA OrdersFinite ==
  ASSUME TypeOK, NEW a, NEW m
  PROVE  IsFiniteSet(Orders(a, m)) /\ Cardinality(Orders(a, m)) \in Nat
<1>1. Orders(a, m) \subseteq made /\ IsFiniteSet(made)
      BY DEF Orders, TypeOK, TablesOK
<1> QED BY <1>1, Counts

\* The five ways in which the bound survives a step.
LEMMA NoneAdded ==
  ASSUME TypeOK, SizesAssumption, NEW a, NEW m, Bounded(a, m),
         Orders(a, m)' = Orders(a, m),
         \A s \in Stages, n \in Nat : Waiting(s, n, a, m)' => Waiting(s, n, a, m),
         Allowed' \in Nat, Allowed' >= Allowed
  PROVE  Bounded(a, m)'
<1>1. Pending(a, m)' \subseteq Pending(a, m)
      BY DEF Pending
<1>2. PICK P, Q, K : P = Pending(a, m) /\ Q = Pending(a, m)' /\ K = Cardinality(Orders(a, m))
      OBVIOUS
<1>3. K \in Nat /\ IsFiniteSet(P) /\ K + Cardinality(P) <= Allowed /\ Allowed \in Nat
      BY <1>2, OrdersFinite, AllowedOK DEF Bounded
<1>4. IsFiniteSet(Q) /\ Cardinality(Q) \in Nat /\ Cardinality(Q) <= Cardinality(P)
      /\ Cardinality(P) \in Nat
      BY <1>1, <1>2, <1>3, Counts
<1>5. K + Cardinality(Q) <= Allowed'
      BY <1>3, <1>4
<1> QED BY <1>2, <1>4, <1>5 DEF Bounded

LEMMA OneComesBack ==
  ASSUME TypeOK, SizesAssumption, NEW a, NEW m, Bounded(a, m),
         Orders(a, m)' = Orders(a, m), NEW t \in Stages, NEW k \in Nat,
         \A s \in Stages, n \in Nat :
            Waiting(s, n, a, m)' => Waiting(s, n, a, m) \/ (s = t /\ n = k),
         Allowed' = Allowed + 1
  PROVE  Bounded(a, m)'
<1>1. Pending(a, m)' \subseteq Pending(a, m) \cup {<<t, k>>}
      BY DEF Pending
<1>2. PICK P, Q, K : P = Pending(a, m) /\ Q = Pending(a, m)' /\ K = Cardinality(Orders(a, m))
      OBVIOUS
<1>3. K \in Nat /\ IsFiniteSet(P) /\ K + Cardinality(P) <= Allowed /\ Allowed \in Nat
      BY <1>2, OrdersFinite, AllowedOK DEF Bounded
<1>4. IsFiniteSet(Q) /\ Cardinality(Q) \in Nat /\ Cardinality(Q) <= Cardinality(P) + 1
      /\ Cardinality(P) \in Nat
  <2>1. PICK y : Q \subseteq P \cup {y}
        BY <1>1, <1>2
  <2> QED BY ONLY <1>3, <2>1, Counts
<1>5. K + Cardinality(Q) <= Allowed'
      BY <1>3, <1>4
<1> QED BY <1>2, <1>4, <1>5 DEF Bounded

LEMMA EachMayComeBack ==
  ASSUME TypeOK, SizesAssumption, NEW a, NEW m, Bounded(a, m),
         Orders(a, m)' = Orders(a, m), NEW k \in [Stages -> Nat],
         \A s \in Stages, n \in Nat : Waiting(s, n, a, m)' => Waiting(s, n, a, m) \/ n = k[s],
         Allowed' = Allowed + 5
  PROVE  Bounded(a, m)'
<1>1. \A e \in Pending(a, m)' :
         \/ e \in Pending(a, m)
         \/ e = <<1, k[1]>> \/ e = <<2, k[2]>> \/ e = <<3, k[3]>>
         \/ e = <<4, k[4]>> \/ e = <<5, k[5]>>
  <2> SUFFICES ASSUME NEW s \in Stages, NEW n \in Nat, Waiting(s, n, a, m)'
               PROVE  \/ Waiting(s, n, a, m)
                      \/ (s = 1 /\ n = k[1]) \/ (s = 2 /\ n = k[2]) \/ (s = 3 /\ n = k[3])
                      \/ (s = 4 /\ n = k[4]) \/ (s = 5 /\ n = k[5])
      BY DEF Pending
  <2>1. s \in {1, 2, 3, 4, 5}
        BY DEF Stages, News, Execution
  <2> QED BY <2>1
<1>2. PICK P, Q, K : P = Pending(a, m) /\ Q = Pending(a, m)' /\ K = Cardinality(Orders(a, m))
      OBVIOUS
<1>3. K \in Nat /\ IsFiniteSet(P) /\ K + Cardinality(P) <= Allowed /\ Allowed \in Nat
      BY <1>2, OrdersFinite, AllowedOK DEF Bounded
<1>4. PICK x1, x2, x3, x4, x5 :
         /\ x1 = <<1, k[1]>> /\ x2 = <<2, k[2]>> /\ x3 = <<3, k[3]>>
         /\ x4 = <<4, k[4]>> /\ x5 = <<5, k[5]>>
      OBVIOUS
<1>5. Q \subseteq P \cup {x1} \cup {x2} \cup {x3} \cup {x4} \cup {x5}
      BY <1>1, <1>2, <1>4
<1>6. IsFiniteSet(Q) /\ Cardinality(Q) \in Nat /\ Cardinality(Q) <= Cardinality(P) + 5
      /\ Cardinality(P) \in Nat
  <2>1. PICK A1 : A1 = P \cup {x1}
        OBVIOUS
  <2>2. PICK A2 : A2 = A1 \cup {x2}
        OBVIOUS
  <2>3. PICK A3 : A3 = A2 \cup {x3}
        OBVIOUS
  <2>4. PICK A4 : A4 = A3 \cup {x4}
        OBVIOUS
  <2>5. IsFiniteSet(A1) /\ Cardinality(A1) \in Nat /\ Cardinality(A1) <= Cardinality(P) + 1
        /\ Cardinality(P) \in Nat
        BY ONLY <1>3, <2>1, SetOfOneMore
  <2>6. IsFiniteSet(A2) /\ Cardinality(A2) \in Nat /\ Cardinality(A2) <= Cardinality(A1) + 1
        BY ONLY <2>2, <2>5, SetOfOneMore
  <2>7. IsFiniteSet(A3) /\ Cardinality(A3) \in Nat /\ Cardinality(A3) <= Cardinality(A2) + 1
        BY ONLY <2>3, <2>6, SetOfOneMore
  <2>8. IsFiniteSet(A4) /\ Cardinality(A4) \in Nat /\ Cardinality(A4) <= Cardinality(A3) + 1
        BY ONLY <2>4, <2>7, SetOfOneMore
  <2>9. Q \subseteq A4 \cup {x5}
        BY ONLY <1>5, <2>1, <2>2, <2>3, <2>4
  <2>10. IsFiniteSet(Q) /\ Cardinality(Q) \in Nat /\ Cardinality(Q) <= Cardinality(A4) + 1
         BY ONLY <2>8, <2>9, Counts
  <2> QED BY ONLY <2>5, <2>6, <2>7, <2>8, <2>10
<1>7. K + Cardinality(Q) <= Allowed'
      BY <1>3, <1>6
<1> QED BY <1>2, <1>6, <1>7 DEF Bounded

LEMMA OneMovesOn ==
  ASSUME TypeOK, SizesAssumption, NEW a, NEW m, Bounded(a, m),
         Orders(a, m)' = Orders(a, m),
         NEW u \in Stages, NEW j \in Nat, Waiting(u, j, a, m), ~Waiting(u, j, a, m)',
         NEW t \in Stages, NEW k \in Nat,
         Allowed' = Allowed \/ Allowed' = Allowed + 1,
         \A s \in Stages, n \in Nat :
            Waiting(s, n, a, m)' =>
               \/ Waiting(s, n, a, m)
               \/ s = t /\ (n = k \/ (n = k + 1 /\ Allowed' = Allowed + 1))
  PROVE  Bounded(a, m)'
<1>1. \E x \in Pending(a, m) : \E y, z :
         /\ Pending(a, m)' \subseteq (Pending(a, m) \ {x}) \cup {y, z}
         /\ y = z \/ Allowed' = Allowed + 1
  <2>1. <<u, j>> \in Pending(a, m) /\ <<u, j>> \notin Pending(a, m)'
        BY DEF Pending
  <2>2. CASE Allowed' = Allowed + 1
    <3>1. Pending(a, m)' \subseteq (Pending(a, m) \ {<<u, j>>}) \cup {<<t, k>>, <<t, k + 1>>}
          BY <2>1 DEF Pending
    <3>2. PICK x, y, z : x = <<u, j>> /\ y = <<t, k>> /\ z = <<t, k + 1>>
          OBVIOUS
    <3>3. x \in Pending(a, m) /\ Pending(a, m)' \subseteq (Pending(a, m) \ {x}) \cup {y, z}
          BY <2>1, <3>1, <3>2
    <3> QED BY <2>2, <3>3
  <2>3. CASE Allowed' # Allowed + 1
    <3>1. Pending(a, m)' \subseteq (Pending(a, m) \ {<<u, j>>}) \cup {<<t, k>>, <<t, k>>}
          BY <2>1, <2>3 DEF Pending
    <3>2. PICK x, y : x = <<u, j>> /\ y = <<t, k>>
          OBVIOUS
    <3>3. x \in Pending(a, m) /\ Pending(a, m)' \subseteq (Pending(a, m) \ {x}) \cup {y, y}
          BY <2>1, <3>1, <3>2
    <3> QED BY <3>3
  <2> QED BY <2>2, <2>3
<1>2. PICK P, Q, K : P = Pending(a, m) /\ Q = Pending(a, m)' /\ K = Cardinality(Orders(a, m))
      OBVIOUS
<1>3. K \in Nat /\ IsFiniteSet(P) /\ K + Cardinality(P) <= Allowed /\ Allowed \in Nat
      BY <1>2, OrdersFinite, AllowedOK DEF Bounded
<1>4. /\ IsFiniteSet(Q) /\ Cardinality(Q) \in Nat /\ Cardinality(P) \in Nat
      /\ \/ Cardinality(Q) <= Cardinality(P)
         \/ Cardinality(Q) <= Cardinality(P) + 1 /\ Allowed' = Allowed + 1
  <2>1. PICK x \in P : \E y, z : /\ Q \subseteq (P \ {x}) \cup {y, z}
                                 /\ y = z \/ Allowed' = Allowed + 1
        BY <1>1, <1>2
  <2>2. PICK y, z : /\ Q \subseteq (P \ {x}) \cup {y, z}
                    /\ y = z \/ Allowed' = Allowed + 1
        BY <2>1
  <2>3. CASE y = z
    <3>1. Q \subseteq (P \ {x}) \cup {y}
          BY <2>2, <2>3
    <3> QED BY ONLY <1>3, <3>1, Counts
  <2>4. CASE Allowed' = Allowed + 1
    <3>1. /\ IsFiniteSet(Q) /\ Cardinality(Q) \in Nat /\ Cardinality(P) \in Nat
          /\ Cardinality(Q) <= Cardinality(P) + 1
      <4>1. x \in P /\ Q \subseteq (P \ {x}) \cup {y, z} /\ IsFiniteSet(P)
            BY <1>3, <2>2
      <4>2. /\ IsFiniteSet(Q) /\ Cardinality(Q) \in Nat
            /\ Cardinality(Q) <= Cardinality(P) + 1
            BY ONLY <4>1, Counts, Zenon
      <4>3. Cardinality(P) \in Nat
            BY ONLY <4>1, Counts
      <4> QED BY <4>2, <4>3
    <3> QED BY <2>4, <3>1
  <2> QED BY <2>2, <2>3, <2>4
<1>5. K + Cardinality(Q) <= Allowed'
      BY <1>3, <1>4, Allowed' = Allowed \/ Allowed' = Allowed + 1
<1> QED BY <1>2, <1>4, <1>5 DEF Bounded

LEMMA OneIsFilled ==
  ASSUME TypeOK, SizesAssumption, NEW a, NEW m, Bounded(a, m),
         NEW r, Orders(a, m)' \subseteq Orders(a, m) \cup {r},
         NEW u \in Stages, NEW j \in Nat, Waiting(u, j, a, m), ~Waiting(u, j, a, m)',
         \A s \in Stages, n \in Nat : Waiting(s, n, a, m)' => Waiting(s, n, a, m),
         Allowed' = Allowed
  PROVE  Bounded(a, m)'
<1>1. \E x \in Pending(a, m) : Pending(a, m)' \subseteq Pending(a, m) \ {x}
  <2>1. /\ <<u, j>> \in Pending(a, m)
        /\ Pending(a, m)' \subseteq Pending(a, m) \ {<<u, j>>}
        BY DEF Pending
  <2> QED BY <2>1
<1>2. PICK P, Q, O, N : /\ P = Pending(a, m) /\ Q = Pending(a, m)'
                        /\ O = Orders(a, m) /\ N = Orders(a, m)'
      OBVIOUS
<1>3. /\ IsFiniteSet(O) /\ IsFiniteSet(P) /\ Cardinality(O) \in Nat
      /\ Cardinality(O) + Cardinality(P) <= Allowed /\ Allowed \in Nat
      BY <1>2, OrdersFinite, AllowedOK DEF Bounded
<1>4. IsFiniteSet(Q) /\ Cardinality(Q) \in Nat /\ Cardinality(Q) + 1 <= Cardinality(P)
      /\ Cardinality(P) \in Nat
  <2>1. PICK x \in P : Q \subseteq P \ {x}
        BY <1>1, <1>2
  <2> QED BY ONLY <1>3, <2>1, Counts
<1>5. Cardinality(N) \in Nat /\ Cardinality(N) <= Cardinality(O) + 1
      BY <1>2, <1>3, Counts
<1>6. Cardinality(N) + Cardinality(Q) <= Allowed'
      BY <1>3, <1>4, <1>5
<1> QED BY <1>2, <1>4, <1>6 DEF Bounded

-----------------------------------------------------------------------------
\* Lengths, which the steps below compare.
LEMMA Lengths ==
  ASSUME TypeOK, NEW s \in Stages
  PROVE  /\ Len(outcome[s]) \in Nat /\ Len(topic[s]) \in Nat
         /\ Len(outcome[s]) <= Len(topic[s])
         /\ committed[s] \in Nat /\ committed[s] <= Len(outcome[s])
         /\ pc[s] # "idle" => Len(outcome[s]) < Len(topic[s])
BY DEF TypeOK, KafkaOK, HandlersOK

\* A stage waits for what its topic and its offset say.
LEMMA WaitingStays ==
  ASSUME NEW s \in Stages, NEW n, NEW a, NEW m,
         UNCHANGED <<topic[s], outcome[s], committed[s]>>,
         ToCome(s, m)' => ToCome(s, m)
  PROVE  Waiting(s, n, a, m)' => Waiting(s, n, a, m)
BY DEF Waiting

LEMMA OthersWait ==
  ASSUME NEW s \in Stages, NEW m, UNCHANGED <<pc[s], out[s]>>, s = News => UNCHANGED todo
  PROVE  ToCome(s, m)' = ToCome(s, m)
BY DEF ToCome

LEMMA SameOrders ==
  ASSUME NEW a, NEW m, UNCHANGED made
  PROVE  Orders(a, m)' = Orders(a, m)
BY DEF Orders, Kind

LEMMA SaveInputBounded ==
  ASSUME TypeOK, SizesAssumption, FlowInv, NEW a, NEW m, Bounded(a, m),
         NEW s \in Stages, SaveInput(s)
  PROVE  Bounded(a, m)'
<1>1. /\ pc[s] = "idle" /\ pc' = [pc EXCEPT ![s] = "work"]
      /\ UNCHANGED <<made, topic, outcome, committed, out, trouble>>
      /\ s # News => UNCHANGED todo
      BY DEF SaveInput, Delivered, kafka
<1>2. \A u \in Stages \ {s} : pc'[u] = pc[u]
      BY <1>1 DEF TypeOK, HandlersOK
<1>3. ToCome(s, m)
      BY <1>1 DEF ToCome, Outcomes
<1>4. \A u \in Stages : ToCome(u, m)' => ToCome(u, m)
      BY <1>1, <1>2, <1>3, OthersWait
<1>5. \A u \in Stages, n \in Nat : Waiting(u, n, a, m)' => Waiting(u, n, a, m)
      BY <1>1, <1>4, WaitingStays
<1>6. Allowed' \in Nat /\ Allowed' >= Allowed
      BY <1>1, AllowedOK
<1> QED BY <1>1, <1>5, <1>6, SameOrders, NoneAdded

LEMMA MakeBounded ==
  ASSUME TypeOK, SizesAssumption, FlowInv, NEW a, NEW m, Bounded(a, m),
         NEW s \in Stages \ {Execution}, pc[s] = "work",
         NEW k \in Markets, s = News \/ k = Current(s).market, Make(s, k),
         IF s = News THEN k \in todo /\ todo' = todo \ {k} ELSE UNCHANGED todo
  PROVE  Bounded(a, m)'
<1>0. PICK r : r = Output(s, k)
      OBVIOUS
<1>1. /\ made' = made \cup {r} /\ out' = [out EXCEPT ![s] = <<r>>]
      /\ pc' = [pc EXCEPT ![s] = "publish"]
      /\ UNCHANGED <<topic, outcome, committed, trouble>>
      BY <1>0 DEF Make, Save, kafka
<1>2. r.market = k /\ Kind(r) # Trade
  <2>1. r.market = k /\ Kind(r) = s + 1
        BY <1>0, OutputOK
  <2> QED BY <2>1 DEF Stages
<1>3. Orders(a, m)' = Orders(a, m)
      BY <1>1, <1>2 DEF Orders, Kind
<1>4. /\ pc'[s] = "publish" /\ out'[s] = <<r>>
      /\ \A u \in Stages \ {s} : UNCHANGED <<pc[u], out[u]>>
      BY <1>1 DEF TypeOK, HandlersOK
<1>5. ToCome(s, m)' => ToCome(s, m)
      BY <1>2, <1>4 DEF ToCome, Outcomes
<1>6. \A u \in Stages : ToCome(u, m)' => ToCome(u, m)
      BY <1>4, <1>5, OthersWait
<1>7. \A u \in Stages, n \in Nat : Waiting(u, n, a, m)' => Waiting(u, n, a, m)
      BY <1>1, <1>6, WaitingStays
<1>8. Allowed' \in Nat /\ Allowed' >= Allowed
      BY <1>1, AllowedOK
<1> QED BY <1>3, <1>7, <1>8, NoneAdded

LEMMA EnginesBounded ==
  ASSUME TypeOK, SizesAssumption, FlowInv, NEW a, NEW m, Bounded(a, m),
         SaveMatch \/ Analyze \/ Calculate \/ Evaluate
  PROVE  Bounded(a, m)'
<1>1. CASE SaveMatch
  <2>1. PICK k \in todo : Make(News, k) /\ todo' = todo \ {k}
        BY <1>1 DEF SaveMatch
  <2>2. k \in Markets /\ News \in Stages \ {Execution}
        BY <2>1 DEF TypeOK, HandlersOK, Stages
  <2> QED BY <1>1, <2>1, <2>2, MakeBounded DEF SaveMatch
<1>2. ASSUME NEW s \in AI..Risk, pc[s] = "work", Make(s, Current(s).market), UNCHANGED todo
      PROVE  Bounded(a, m)'
  <2>1. s \in Stages \ {Execution} /\ s # News
        BY DEF Stages
  <2>2. Current(s).market \in Markets
        BY <1>2, <2>1, CurrentOK DEF InputOK, TypeOK, TablesOK, HandlersOK
  <2> QED BY <1>2, <2>1, <2>2, MakeBounded
<1>3. AI \in AI..Risk /\ Probability \in AI..Risk /\ Risk \in AI..Risk
      OBVIOUS
<1> QED BY <1>1, <1>2, <1>3 DEF Analyze, Calculate, Evaluate

\* A fault of stage s brings back the event in hand, and no other.
LEMMA EventBack ==
  ASSUME TypeOK, SizesAssumption, NEW a, NEW m, Bounded(a, m), NEW s \in Stages,
         UNCHANGED <<made, topic, committed, restarts>>, faults' = faults + 1,
         \A u \in Stages \ {s} : UNCHANGED <<pc[u], out[u], outcome[u]>>,
         s # News => UNCHANGED todo
  PROVE  Bounded(a, m)'
<1>1. Len(outcome[s]) + 1 \in Nat
      BY Lengths
<1>2. ASSUME NEW n \in Nat, Waiting(s, n, a, m)', n # Len(outcome[s]) + 1
      PROVE  Waiting(s, n, a, m)
      BY <1>2 DEF Waiting
<1>3. ASSUME NEW u \in Stages, NEW n \in Nat, u # s
      PROVE  Waiting(u, n, a, m)' => Waiting(u, n, a, m)
      BY <1>3, OthersWait, WaitingStays
<1>4. \A u \in Stages, n \in Nat :
         Waiting(u, n, a, m)' => Waiting(u, n, a, m) \/ (u = s /\ n = Len(outcome[s]) + 1)
      BY <1>2, <1>3
<1>5. Allowed' = Allowed + 1
      BY AllowedOK
<1> QED BY <1>1, <1>4, <1>5, SameOrders, OneComesBack

\* A handler ends without a row: its event has its outcome, or comes again.
LEMMA EndBounded ==
  ASSUME TypeOK, SizesAssumption, NEW a, NEW m, Bounded(a, m), NEW s \in Stages,
         pc[s] \in {"idle", "work"}, UNCHANGED <<tables, kafka, trouble>>,
         Settle(s, "declined") \/ (Fail(s) /\ s # News)
  PROVE  Bounded(a, m)'
<1>1. UNCHANGED <<made, topic, outcome, committed>>
      BY DEF tables, kafka
<1>2. PICK l \in {"idle", "dead", "declined"} : LeaveAs(s, l) /\ (l = "idle" => s # News)
      BY DEF Fail, Settle, Leave
<1>3. /\ pc'[s] = l /\ \A u \in Stages \ {s} : UNCHANGED <<pc[u], out[u]>>
      /\ s # News => UNCHANGED todo
      BY <1>2 DEF LeaveAs, TypeOK, HandlersOK
<1>4. ToCome(s, m)' => ToCome(s, m)
      BY <1>2, <1>3 DEF ToCome, Outcomes
<1>5. \A u \in Stages : ToCome(u, m)' => ToCome(u, m)
      BY <1>3, <1>4, OthersWait
<1>6. \A u \in Stages, n \in Nat : Waiting(u, n, a, m)' => Waiting(u, n, a, m)
      BY <1>1, <1>5, WaitingStays
<1>7. Allowed' \in Nat /\ Allowed' >= Allowed
      BY AllowedOK
<1> QED BY <1>1, <1>6, <1>7, SameOrders, NoneAdded

\* A failure, a rebalance or a commit that fails, and an event given up.
LEMMA FaultBounded ==
  ASSUME TypeOK, SizesAssumption, NEW a, NEW m, Bounded(a, m), NEW s \in Stages,
         HandlerFails(s) \/ Rebalance(s) \/ Skip(s) \/ CommitFails(s)
  PROVE  Bounded(a, m)'
<1>1. UNCHANGED <<made, topic, committed, restarts>> /\ faults' = faults + 1
      BY DEF HandlerFails, Rebalance, Skip, CommitFails, Return, Fault, tables, kafka
<1>2. \/ UNCHANGED outcome
      \/ \E q : outcome' = [outcome EXCEPT ![s] = q]
      BY DEF HandlerFails, Rebalance, Skip, CommitFails, Return, kafka
<1>3. \/ \E l : LeaveAs(s, l)
      \/ pc' = [pc EXCEPT ![s] = "idle"] /\ UNCHANGED <<todo, out>>
  <2>1. HandlerFails(s) => \E l : LeaveAs(s, l)
        BY DEF HandlerFails, Fail, Settle, Leave
  <2> QED BY <2>1 DEF Rebalance, Skip, CommitFails, Return, Leave
<1>4. /\ \A u \in Stages \ {s} : UNCHANGED <<pc[u], out[u]>>
      /\ s # News => UNCHANGED todo
      BY <1>3 DEF LeaveAs, TypeOK, HandlersOK
<1>5. \A u \in Stages \ {s} : outcome'[u] = outcome[u]
      BY <1>2 DEF TypeOK, KafkaOK
<1> QED BY <1>1, <1>4, <1>5, EventBack

\* What is committed comes no more, and the next event waits as it did.
LEMMA CommitBounded ==
  ASSUME TypeOK, SizesAssumption, NEW a, NEW m, Bounded(a, m), NEW s \in Stages, Commit(s)
  PROVE  Bounded(a, m)'
<1>1. /\ UNCHANGED <<made, topic, todo, out, trouble>> /\ pc' = [pc EXCEPT ![s] = "idle"]
      /\ committed' = [committed EXCEPT ![s] = Len(outcome[s]) + 1]
      /\ outcome' = [outcome EXCEPT ![s] = Append(@, pc[s])]
      BY DEF Commit, Return, tables
<1>2. ASSUME NEW u \in Stages, NEW n \in Nat, u # s
      PROVE  Waiting(u, n, a, m)' => Waiting(u, n, a, m)
  <2>1. UNCHANGED <<pc[u], outcome[u], committed[u]>>
        BY <1>1, <1>2 DEF TypeOK, HandlersOK, KafkaOK
  <2> QED BY <1>1, <2>1, OthersWait, WaitingStays
<1>3. ASSUME NEW n \in Nat, Waiting(s, n, a, m)'
      PROVE  Waiting(s, n, a, m)
  <2>1. committed'[s] = Len(outcome[s]) + 1
        BY <1>1 DEF TypeOK, KafkaOK
  <2>2. /\ n \in Len(outcome[s]) + 2 .. Len(topic[s]) /\ topic[s][n].article = a
        /\ s # News => topic[s][n].market = m
        BY <1>1, <1>3, <2>1, Lengths DEF Waiting
  <2>3. n \in committed[s] + 1 .. Len(topic[s]) /\ n # Len(outcome[s]) + 1
        BY <2>2, Lengths
  <2> QED BY <2>2, <2>3 DEF Waiting
<1>4. Allowed' \in Nat /\ Allowed' >= Allowed
      BY <1>1, AllowedOK
<1> QED BY <1>1, <1>2, <1>3, <1>4, SameOrders, NoneAdded

LEMMA RestartBounded ==
  ASSUME TypeOK, SizesAssumption, NEW a, NEW m, Bounded(a, m), Restart
  PROVE  Bounded(a, m)'
<1>1. UNCHANGED <<made, topic, committed>> /\ faults' = faults + 1 /\ restarts' = restarts + 1
      BY DEF Restart, Fault
<1>2. PICK k \in [Stages -> Nat] : k = [s \in Stages |-> Len(outcome[s]) + 1]
  <2>1. \A s \in Stages : Len(outcome[s]) + 1 \in Nat
        BY Lengths
  <2> QED BY <2>1
<1>3. ASSUME NEW u \in Stages, NEW n \in Nat, Waiting(u, n, a, m)'
      PROVE  Waiting(u, n, a, m) \/ n = k[u]
      BY <1>1, <1>2, <1>3 DEF Waiting
<1>4. Allowed' = Allowed + 5
      BY <1>1, AllowedOK
<1>5. Orders(a, m)' = Orders(a, m)
      BY <1>1, SameOrders
<1> QED BY <1>3, <1>4, <1>5, EachMayComeBack

LEMMA CreateBounded ==
  ASSUME TypeOK, SizesAssumption, NEW a, NEW m, Bounded(a, m), CreateFromRiskDecision
  PROVE  Bounded(a, m)'
<1>0. PICK r : r = Output(Execution, Current(Execution).market)
      OBVIOUS
<1>1. /\ pc[Execution] = "work" /\ Settle(Execution, "done") /\ Execution \in Stages
      /\ made' = made \cup {r} /\ UNCHANGED <<topic, outcome, committed, trouble>>
      BY <1>0 DEF CreateFromRiskDecision, Save, Stages, kafka
<1>2. r.market = Current(Execution).market /\ r.article = Current(Execution).article
      BY <1>0 DEF Output, Row
<1>3. PICK l \in Nat : l = Len(outcome[Execution])
      BY <1>1, Lengths
<1>4. /\ pc'[Execution] = "done"
      /\ \A u \in Stages \ {Execution} : UNCHANGED <<pc[u], out[u]>>
      /\ UNCHANGED todo
      BY <1>1 DEF Settle, LeaveAs, TypeOK, HandlersOK
<1>5. ToCome(Execution, m) /\ ~ToCome(Execution, m)'
      BY <1>1, <1>4 DEF ToCome, Outcomes
<1>6. \A u \in Stages : ToCome(u, m)' => ToCome(u, m)
      BY <1>4, <1>5, OthersWait
<1>7. \A u \in Stages, n \in Nat : Waiting(u, n, a, m)' => Waiting(u, n, a, m)
      BY <1>1, <1>6, WaitingStays
<1>8. Allowed' = Allowed /\ Allowed \in Nat
      BY <1>1, AllowedOK
<1>9. CASE r.article = a /\ r.market = m
  <2>1. l + 1 \in committed[Execution] + 1 .. Len(topic[Execution])
        BY <1>1, <1>3, Lengths
  <2>2. Waiting(Execution, l + 1, a, m) /\ ~Waiting(Execution, l + 1, a, m)'
        BY <1>1, <1>2, <1>3, <1>5, <1>9, <2>1 DEF Waiting, Current
  <2>3. Orders(a, m)' \subseteq Orders(a, m) \cup {r}
        BY <1>1 DEF Orders, Kind
  <2>4. PICK u \in Stages, j \in Nat : u = Execution /\ j = l + 1
        BY <1>1
  <2>5. Waiting(u, j, a, m) /\ ~Waiting(u, j, a, m)'
        BY <2>2, <2>4
  <2> QED BY <1>7, <1>8, <2>3, <2>5, OneIsFilled
<1>10. CASE ~(r.article = a /\ r.market = m)
  <2>1. Orders(a, m)' = Orders(a, m)
        BY <1>1, <1>10 DEF Orders, Kind
  <2> QED BY <1>7, <1>8, <2>1, NoneAdded
<1> QED BY <1>9, <1>10

\* A row that is published waits for the next stage in its event's stead.
LEMMA PublishBounded ==
  ASSUME TypeOK, SizesAssumption, FlowInv, NEW a, NEW m, Bounded(a, m),
         NEW s \in Stages, Publish(s) \/ PublishAgain(s) \/ PublishLost(s)
  PROVE  Bounded(a, m)'
<1>0. PICK r : r = out[s][1]
      OBVIOUS
<1>1. /\ pc[s] = "publish" /\ s # Execution /\ Onward(s) /\ UNCHANGED <<made, outcome, committed>>
      /\ s + 1 \in Stages /\ s + 1 # News /\ s # s + 1
      /\ Len(out[s]) = 1 /\ out[s] \in Seq(Rows)
  <2>1. pc[s] = "publish" /\ Onward(s) /\ UNCHANGED <<made, outcome, committed>>
        BY DEF Publish, PublishAgain, PublishLost, tables
  <2>2. s # Execution /\ Len(out[s]) = 1
        BY <2>1 DEF TypeOK, HandlersOK
  <2>3. s + 1 \in Stages /\ s + 1 # News /\ s # s + 1
        BY <2>2 DEF Stages
  <2>4. out[s] \in Seq(Rows)
        BY DEF TypeOK, HandlersOK
  <2> QED BY <2>1, <2>2, <2>3, <2>4
<1>2. /\ r.article = Current(s).article
      /\ IF s = News THEN r.market \notin todo ELSE r.market = Current(s).market
      BY <1>0, <1>1 DEF FlowInv, OutputFits
<1>3. PICK l \in Nat, k \in Nat : l = Len(outcome[s]) /\ k = Len(topic[s + 1])
      BY <1>1, Lengths
<1>4. /\ \A u \in Stages \ {s} : UNCHANGED <<pc[u], out[u]>>
      /\ s # News => UNCHANGED todo
      /\ pc'[s] = "done" \/ (s = News /\ pc'[s] = "work" /\ todo' = todo)
      BY <1>1 DEF Onward, Settle, LeaveAs, TypeOK, HandlersOK
<1>5. /\ \A u \in Stages \ {s + 1} : topic'[u] = topic[u]
      /\ \A n \in 1..k : topic'[s + 1][n] = topic[s + 1][n]
      /\ \/ topic' = topic /\ Allowed' = Allowed + 1
         \/ /\ Len(topic'[s + 1]) = k + 1 /\ topic'[s + 1][k + 1] = r
            /\ Allowed' = Allowed \/ Allowed' = Allowed + 1
         \/ /\ Len(topic'[s + 1]) = k + 2 /\ Allowed' = Allowed + 1
            /\ topic'[s + 1][k + 1] = r /\ topic'[s + 1][k + 2] = r
  <2>1. CASE Publish(s) \/ PublishAgain(s)
    <3>1. Allowed' = Allowed \/ (PublishAgain(s) /\ Allowed' = Allowed + 1)
          BY <2>1, AllowedOK DEF Publish, PublishAgain, Fault
    <3>2. \A u \in Stages \ {s + 1} : topic'[u] = topic[u]
          BY <2>1, Published
    <3>3. PICK j \in {k + 1, k + 2} :
               /\ j = Len(topic'[s + 1])
               /\ j = k + 1 \/ PublishAgain(s)
               /\ \A n \in 1..k : topic'[s + 1][n] = topic[s + 1][n]
               /\ \A n \in k + 1 .. j : topic'[s + 1][n] = r
          BY <1>0, <1>3, <2>1, Published
    <3>4. PublishAgain(s) => Allowed' = Allowed + 1
          BY AllowedOK DEF PublishAgain, Fault
    <3> QED BY <3>1, <3>2, <3>3, <3>4
  <2>2. CASE PublishLost(s)
        BY <2>2, AllowedOK DEF PublishLost, Fault
  <2> QED BY <2>1, <2>2
<1>6. /\ l < Len(topic[s]) /\ Len(topic[s]) \in Nat
      /\ committed[s] \in Nat /\ committed[s] <= l /\ Allowed \in Nat
      BY <1>1, <1>3, Lengths, AllowedOK
<1>7. ASSUME NEW u \in Stages, NEW n \in Nat, u # s + 1, Waiting(u, n, a, m)'
      PROVE  Waiting(u, n, a, m)
  <2>1. UNCHANGED <<topic[u], outcome[u], committed[u]>>
        BY <1>1, <1>5, <1>7
  <2>2. ToCome(u, m)' => ToCome(u, m)
    <3>1. CASE u = s
          BY <1>1, <1>4, <3>1 DEF ToCome, Outcomes
    <3>2. CASE u # s
          BY <1>4, <3>2, OthersWait
    <3> QED BY <3>1, <3>2
  <2> QED BY <1>7, <2>1, <2>2, WaitingStays
<1>8. ASSUME NEW n \in Nat, Waiting(s + 1, n, a, m)', ~Waiting(s + 1, n, a, m)
      PROVE  /\ r.article = a /\ r.market = m
             /\ n = k + 1 \/ (n = k + 2 /\ Allowed' = Allowed + 1)
  <2>1. /\ UNCHANGED <<outcome[s + 1], committed[s + 1]>> /\ committed[s + 1] \in Nat
        /\ ToCome(s + 1, m)' = ToCome(s + 1, m)
    <3>1. UNCHANGED <<outcome[s + 1], committed[s + 1]>> /\ committed[s + 1] \in Nat
          BY <1>1, Lengths
    <3>2. ToCome(s + 1, m)' = ToCome(s + 1, m)
          BY <1>1, <1>4, OthersWait
    <3> QED BY <3>1, <3>2
  <2>2. topic' # topic
        BY <1>1, <1>8, <2>1, WaitingStays
  <2>3. /\ n \in committed[s + 1] + 1 .. Len(topic'[s + 1])
        /\ topic'[s + 1][n].article = a /\ topic'[s + 1][n].market = m
        /\ n = Len(outcome[s + 1]) + 1 => ToCome(s + 1, m)
        BY <1>1, <1>8, <2>1 DEF Waiting
  <2>4. n \notin 1..k
    <3> SUFFICES ASSUME n \in 1..k PROVE FALSE
        OBVIOUS
    <3>1. n \in committed[s + 1] + 1 .. k
          BY <2>1, <2>3
    <3> QED BY <1>1, <1>3, <1>5, <1>8, <2>3, <3>1 DEF Waiting
  <2>5. n \in 1..Len(topic'[s + 1])
        BY <2>1, <2>3
  <2> QED BY <1>5, <2>2, <2>3, <2>4, <2>5
<1>9. CASE r.article = a /\ r.market = m /\ topic' # topic
  <2>1. ToCome(s, m) /\ ~ToCome(s, m)'
        BY <1>0, <1>1, <1>2, <1>4, <1>9 DEF ToCome, Outcomes
  <2>2. Waiting(s, l + 1, a, m)
        BY <1>2, <1>3, <1>6, <1>9, <2>1 DEF Waiting, Current
  <2>3. ~Waiting(s, l + 1, a, m)'
        BY <1>1, <1>3, <2>1 DEF Waiting
  <2>4. PICK t \in Stages, i \in Nat, j \in Nat : t = s + 1 /\ i = k + 1 /\ j = l + 1
        BY <1>1
  <2>5. Waiting(s, j, a, m) /\ ~Waiting(s, j, a, m)'
        BY <2>2, <2>3, <2>4
  <2>6. \A u \in Stages, n \in Nat :
           Waiting(u, n, a, m)' =>
              \/ Waiting(u, n, a, m)
              \/ u = t /\ (n = i \/ (n = i + 1 /\ Allowed' = Allowed + 1))
    <3>1. k + 2 = i + 1
          BY <1>3, <2>4
    <3> QED BY <1>7, <1>8, <2>4, <3>1
  <2>7. Orders(a, m)' = Orders(a, m)
        BY <1>1, SameOrders
  <2>8. /\ TypeOK /\ SizesAssumption /\ Bounded(a, m)
        /\ Allowed' = Allowed \/ Allowed' = Allowed + 1
        BY <1>5
  <2> QED BY ONLY <2>5, <2>6, <2>7, <2>8, s \in Stages, OneMovesOn, Zenon
<1>10. CASE ~(r.article = a /\ r.market = m /\ topic' # topic)
  <2>1. ASSUME NEW n \in Nat, Waiting(s + 1, n, a, m)' PROVE Waiting(s + 1, n, a, m)
    <3>1. CASE topic' = topic
      <4>1. UNCHANGED <<outcome[s + 1], committed[s + 1]>>
            BY <1>1
      <4>2. ToCome(s + 1, m)' => ToCome(s + 1, m)
            BY <1>1, <1>4, OthersWait
      <4> QED BY <1>1, <2>1, <3>1, <4>1, <4>2, WaitingStays
    <3>2. CASE topic' # topic
          BY <1>8, <1>10, <2>1, <3>2
    <3> QED BY <3>1, <3>2
  <2>2. \A u \in Stages, n \in Nat : Waiting(u, n, a, m)' => Waiting(u, n, a, m)
        BY <1>7, <2>1
  <2>3. Allowed' \in Nat /\ Allowed' >= Allowed
        BY <1>5, <1>6
  <2> QED BY <1>1, <2>2, <2>3, SameOrders, NoneAdded
<1> QED BY <1>9, <1>10

LEMMA NextBounded ==
  ASSUME TypeOK, SizesAssumption, FlowInv, NEW a, NEW m, Bounded(a, m), [Next]_vars
  PROVE  Bounded(a, m)'
<1>1. ASSUME NEW s \in Stages, Work(s) PROVE Bounded(a, m)'
  <2>1. CASE SaveInput(s)
        BY <2>1, SaveInputBounded
  <2>2. CASE Decline(s)
        BY <2>2, EndBounded DEF Decline
  <2>3. CASE Refused(s)
    <3>1. s # News /\ pc[s] \in {"idle", "work"}
          BY <2>3 DEF Refused, Conflict, Delivered
    <3> QED BY <2>3, <3>1, EndBounded DEF Refused
  <2>4. CASE SaveMatch \/ Analyze \/ Calculate \/ Evaluate
        BY <2>4, EnginesBounded
  <2>5. CASE CreateFromRiskDecision
        BY <2>5, CreateBounded
  <2>6. CASE Publish(s)
        BY <2>6, PublishBounded
  <2>7. CASE Commit(s)
        BY <2>7, CommitBounded
  <2> QED BY <1>1, <2>1, <2>2, <2>3, <2>4, <2>5, <2>6, <2>7 DEF Work
<1>2. ASSUME NEW s \in Stages, HandlerFails(s) \/ Skip(s) \/ Rebalance(s) \/ CommitFails(s)
      PROVE  Bounded(a, m)'
      BY <1>2, FaultBounded
<1>3. ASSUME NEW s \in Stages, PublishLost(s) \/ PublishAgain(s) PROVE Bounded(a, m)'
      BY <1>3, PublishBounded
<1>4. CASE Restart
      BY <1>4, RestartBounded
<1>5. CASE MarketSelected \/ UNCHANGED vars
  <2>1. UNCHANGED <<made, topic, outcome, committed, pc, todo, out, trouble>>
        BY <1>5 DEF MarketSelected, vars, tables, kafka, group
  <2>2. \A u \in Stages, n \in Nat : Waiting(u, n, a, m)' => Waiting(u, n, a, m)
        BY <2>1, OthersWait, WaitingStays
  <2>3. Allowed' \in Nat /\ Allowed' >= Allowed
        BY <2>1, AllowedOK
  <2> QED BY <2>1, <2>2, <2>3, SameOrders, NoneAdded
<1> QED BY <1>1, <1>2, <1>3, <1>4, <1>5 DEF Next

LEMMA InitBounded ==
  ASSUME SizesAssumption, NoArticleTwice, Init
  PROVE  OrdersBounded
<1> SUFFICES ASSUME NEW a \in Articles, NEW m \in Markets PROVE Bounded(a, m)
    BY DEF OrdersBounded
<1>1. Orders(a, m) = {} /\ Allowed \in Nat /\ Allowed >= 1
  <2>1. Cardinality(Stages) = 5
        BY StagesCount
  <2> QED BY <2>1 DEF Init, Orders, Allowed
<1>2. ASSUME NEW s \in Stages, NEW n \in Nat, Waiting(s, n, a, m)
      PROVE  s = News /\ n \in 1..Len(feed) /\ feed[n] = a
  <2>1. CASE s = News
    <3>1. /\ topic[s] = [i \in 1..Len(feed) |-> Row(feed[i], NoMarket, <<>>)]
          /\ committed[s] = 0 /\ feed \in Seq(Articles)
          BY <2>1 DEF Init, Stages, SizesAssumption
    <3>2. Len(topic[s]) = Len(feed)
          BY <3>1
    <3> QED BY <1>2, <2>1, <3>1, <3>2 DEF Waiting, Row
  <2>2. CASE s # News
    <3>1. Len(topic[s]) = 0 /\ committed[s] = 0
          BY <2>2 DEF Init, Stages
    <3> QED BY <1>2, <3>1 DEF Waiting
  <2> QED BY <2>1, <2>2
<1>3. \A i, j \in 1..Len(feed) : feed[i] = feed[j] => i = j
      BY DEF Init, NoArticleTwice
<1>4. \A e, d \in Pending(a, m) : e = d
      BY <1>2, <1>3 DEF Pending
<1>5. \E y : Pending(a, m) \subseteq {y}
      BY <1>4
<1>6. PICK y, P : P = Pending(a, m) /\ P \subseteq {} \cup {y}
      BY <1>5
<1>7. IsFiniteSet({}) /\ Cardinality({}) = 0
      BY FS_EmptySet
<1>8. IsFiniteSet(P) /\ Cardinality(P) \in Nat /\ Cardinality(P) <= 0 + 1
      BY ONLY <1>6, <1>7, Counts
<1> QED BY <1>1, <1>6, <1>7, <1>8 DEF Bounded

\* An article that is published once leads to one order in a market, at most
\* one more for each failure, rebalance, and lost or skipped event or commit,
\* and at most five for each restart, for all feeds, matches, stores, numbers
\* of attempts, and handlers that have returned and not committed.
THEOREM DuplicatesCounted ==
  ASSUME NoArticleTwice
  PROVE  Spec => []DuplicatesNeedFaults
<1> USE SizesAssumption
<1>1. Init => FlowInv /\ OrdersBounded
      BY InitFlow, InitBounded
<1>2. TypeOK /\ FlowInv /\ OrdersBounded /\ [Next]_vars => (FlowInv /\ OrdersBounded)'
      BY NextFlow, NextBounded DEF OrdersBounded
<1>3. TypeOK /\ OrdersBounded => DuplicatesNeedFaults
  <2> SUFFICES ASSUME TypeOK, OrdersBounded, NEW i \in 1..Len(feed), NEW m \in Markets
               PROVE  Cardinality(Orders(feed[i], m)) <= Allowed
      BY DEF DuplicatesNeedFaults
  <2>1. PICK a \in Articles : a = feed[i]
        BY DEF TypeOK, TablesOK, SizesAssumption
  <2>2. /\ IsFiniteSet(Pending(a, m))
        /\ Cardinality(Orders(a, m)) + Cardinality(Pending(a, m)) <= Allowed
        BY DEF OrdersBounded, Bounded
  <2>3. /\ Cardinality(Pending(a, m)) \in Nat /\ Cardinality(Orders(a, m)) \in Nat
        /\ Allowed \in Nat
        BY <2>2, FS_CardinalityType, OrdersFinite, AllowedOK
  <2> QED BY <2>1, <2>2, <2>3
<1> QED BY <1>1, <1>2, <1>3, TypeCorrect, PTL DEF Spec
=============================================================================
