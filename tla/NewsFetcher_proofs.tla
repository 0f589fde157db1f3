------------------------- MODULE NewsFetcher_proofs -------------------------
(* Theorems about NewsFetcher: rows come before their announcements, and a *)
(* dedupe key stands for exactly the work it holds back.                   *)
EXTENDS NewsFetcher, FiniteSetTheorems, SequenceTheorems, TLAPS

-----------------------------------------------------------------------------
(* The inductive invariant.                                                *)

\* The places of unique that FetchNow has yet to announce.
Left == {k \in 1..Len(unique) : pc = "announce" => k > Len(unique) - Len(todo)}

\* Those at which article a is.
Pending(a) == {k \in Left : unique[k] = a}

\* The save loop has what it has not saved, the announcing loop the rest of
\* unique; what that loop has passed is announced, without key, or excused.
RoundOK ==
    /\ pc = "save" =>
          \A k \in 1..Len(unique) :
              unique[k] \in rows \/ \E j \in 1..Len(todo) : todo[j] = unique[k]
    /\ pc = "announce" =>
          /\ Len(todo) <= Len(unique)
          /\ \A j \in 1..Len(todo) : todo[j] = unique[Len(unique) - Len(todo) + j]
          /\ \A k \in 1..Len(unique) : unique[k] \in rows
          /\ \A k \in (1..Len(unique)) \ Left :
                unique[k] \in keys =>
                    announced[unique[k]] > 0 \/ unique[k] \in excused

\* Each announcement made or to be made under a key is accounted for by the
\* key or by a check that failed.
Allowed(a) == IF a \in keys THEN doubts[a] + 1 ELSE doubts[a]

CountOK(a) ==
    /\ a \in Undated => announced[a] = 0
    /\ a \notin Undated => announced[a] + Cardinality(Pending(a)) <= Allowed(a)

Counted == \A a \in News : CountOK(a)

KeysOK ==
    \A a \in keys :
        announced[a] > 0 \/ a \in excused \/ \E k \in 1..Len(unique) : unique[k] = a

IInv == TypeOK /\ RoundOK /\ Counted /\ KeysOK

-----------------------------------------------------------------------------
(* Sequences.                                                              *)

\* The members of a sequence are what stands at its places.
LEMMA Members ==
  ASSUME NEW S, NEW s \in Seq(S)
  PROVE  ToSet(s) = {s[k] : k \in 1..Len(s)}
BY DEF ToSet

\* The head and the tail of a sequence that is not empty.
LEMMA HeadAndTail ==
  ASSUME NEW S, NEW s \in Seq(S), s # <<>>
  PROVE  /\ Head(s) \in S
         /\ Head(s) = s[1]
         /\ Tail(s) \in Seq(S)
         /\ Len(s) \in Nat \ {0}
         /\ Len(Tail(s)) = Len(s) - 1
         /\ \A k \in 1..Len(Tail(s)) : Tail(s)[k] = s[k + 1]
OBVIOUS

\* An answer of the sources is a sequence of articles.
LEMMA AnswerType == ASSUME NEW all \in Answers PROVE all \in Seq(News)
<1>1. ASSUME NEW S \in SUBSET News, NEW k, NEW s \in SeqOf(S, k)
      PROVE  s \in Seq(News)
  <2>1. PICK n \in 0..k : s \in [1..n -> S]
        BY <1>1 DEF SeqOf
  <2>2. n \in Nat /\ s \in [1..n -> News]
        BY <1>1, <2>1
  <2> QED BY <2>2, IsASeq
<1>2. PICK g \in GdeltAnswers, f \in FeedAnswers : all = g \o f
      BY DEF Answers
<1>3. GdeltNews \ aged \in SUBSET News /\ FeedNews \in SUBSET News
      BY DEF News
<1>4. g \in Seq(News) /\ f \in Seq(News)
      BY <1>1, <1>2, <1>3 DEF GdeltAnswers, FeedAnswers
<1> QED BY <1>2, <1>4

\* Pending places are finitely many.
LEMMA PendingFinite ==
  ASSUME TypeOK, NEW a
  PROVE  IsFiniteSet(Pending(a)) /\ Cardinality(Pending(a)) \in Nat
<1>1. IsFiniteSet(1..Len(unique))
      BY FS_Interval DEF TypeOK
<1>2. Pending(a) \subseteq 1..Len(unique)
      BY DEF Pending, Left
<1>3. IsFiniteSet(Pending(a))
      BY <1>1, <1>2, FS_Subset
<1> QED BY <1>3, FS_CardinalityType

-----------------------------------------------------------------------------
(* Types.                                                                  *)

LEMMA InitOK == Init => IInv
<1> SUFFICES ASSUME Init PROVE IInv
    OBVIOUS
<1>1. TypeOK
      BY EmptySeq DEF Init, TypeOK, News
<1>2. \A a \in News : Cardinality(Pending(a)) = 0
  <2> SUFFICES ASSUME NEW a \in News PROVE Pending(a) = {}
      BY FS_EmptySet
  <2> QED BY DEF Init, Pending, Left
<1>3. Counted
      BY <1>2 DEF Init, Counted, CountOK, Allowed
<1> QED BY <1>1, <1>3 DEF Init, IInv, RoundOK, KeysOK

LEMMA TypePreserved == ASSUME TypeOK, [Next]_vars PROVE TypeOK'
<1> USE DEF Fault, local, count
<1>1. \A s \in Seq(News) : ToSet(s) \subseteq News
  <2> TAKE s \in Seq(News)
  <2> QED BY Members
<1>2. ASSUME todo # <<>>
      PROVE  Head(todo) \in News /\ Tail(todo) \in Seq(News)
      BY <1>2, HeadAndTail DEF TypeOK
<1>3. ASSUME NEW all \in Answers, Fetch(all) PROVE TypeOK'
      BY <1>3, AnswerType DEF TypeOK, Fetch
<1>4. CASE CheckNew
      BY <1>2, <1>4 DEF TypeOK, CheckNew
<1>5. CASE CheckDuplicate
      BY <1>2, <1>5 DEF TypeOK, CheckDuplicate
<1>6. CASE CheckDone
      BY <1>6 DEF TypeOK, CheckDone
<1>7. CASE SaveArticle
      BY <1>2, <1>7 DEF TypeOK, SaveArticle
<1>8. CASE SaveDone
      BY <1>8 DEF TypeOK, SaveDone
<1>9. CASE Announce
      BY <1>2, <1>9 DEF TypeOK, Announce
<1>10. CASE FetchDone
      BY <1>10, EmptySeq DEF TypeOK, FetchDone
<1>11. CASE CheckFails
      BY <1>2, <1>11 DEF TypeOK, CheckFails
<1>12. CASE SaveFails
      BY <1>1, <1>12, EmptySeq DEF TypeOK, SaveFails
<1>13. CASE AnnounceFails
      BY <1>2, <1>13 DEF TypeOK, AnnounceFails
<1>14. ASSUME NEW a \in News, Expire(a) PROVE TypeOK'
      BY <1>14 DEF TypeOK, Expire
<1>15. CASE Restart
      BY <1>1, <1>15, EmptySeq DEF TypeOK, Restart
<1>16. CASE UNCHANGED vars
      BY <1>16 DEF TypeOK, vars
<1> QED BY <1>3, <1>4, <1>5, <1>6, <1>7, <1>8, <1>9, <1>10, <1>11, <1>12, <1>13,
           <1>14, <1>15, <1>16 DEF Next, FetchNow

-----------------------------------------------------------------------------
(* The round at hand.                                                      *)

LEMMA RoundPreserved == ASSUME IInv, [Next]_vars PROVE RoundOK'
<1> USE DEF IInv, Fault, local, count
<1>1. ASSUME todo # <<>>
      PROVE  /\ Head(todo) = todo[1] /\ Tail(todo) \in Seq(News)
             /\ Len(todo) \in Nat \ {0} /\ Len(Tail(todo)) = Len(todo) - 1
             /\ \A k \in 1..Len(Tail(todo)) : Tail(todo)[k] = todo[k + 1]
      BY <1>1, HeadAndTail DEF TypeOK
<1>2. Len(unique) \in Nat /\ Len(todo) \in Nat
      BY DEF TypeOK
<1>3. ASSUME NEW all \in Answers, Fetch(all) PROVE RoundOK'
      BY <1>3 DEF RoundOK, Fetch
<1>4. CASE pc = "check" /\ pc' = "check"
      BY <1>4 DEF RoundOK
<1>5. CASE CheckDone
      BY <1>2, <1>5 DEF RoundOK, CheckDone
<1>6. CASE SaveArticle
  <2>1. ASSUME NEW k \in 1..Len(unique)
        PROVE  unique[k] \in rows' \/ \E j \in 1..Len(todo') : todo'[j] = unique[k]
    <3>1. CASE unique[k] \in rows
          BY <1>6, <3>1 DEF SaveArticle
    <3>2. ASSUME NEW j \in 1..Len(todo), todo[j] = unique[k]
          PROVE  unique[k] \in rows' \/ \E i \in 1..Len(todo') : todo'[i] = unique[k]
      <4>1. CASE j = 1
            BY <1>1, <1>6, <3>2, <4>1 DEF SaveArticle
      <4>2. CASE j # 1
        <5>1. j - 1 \in 1..Len(Tail(todo)) /\ Tail(todo)[j - 1] = todo[j]
              BY <1>1, <1>2, <1>6, <4>2 DEF SaveArticle
        <5> QED BY <1>6, <3>2, <5>1 DEF SaveArticle
      <4> QED BY <4>1, <4>2
    <3> QED BY <1>6, <3>1, <3>2 DEF RoundOK, SaveArticle
  <2> QED BY <1>6, <2>1 DEF RoundOK, SaveArticle
<1>7. CASE SaveDone
      BY <1>2, <1>7 DEF RoundOK, SaveDone, Left
<1>8. ASSUME pc = "announce", todo # <<>>, pc' = pc, todo' = Tail(todo),
             UNCHANGED <<unique, keys, rows>>,
             \A a \in keys : a = Head(todo) => announced'[a] > 0 \/ a \in excused',
             \A a \in keys : announced[a] > 0 \/ a \in excused
                                => announced'[a] > 0 \/ a \in excused'
      PROVE  RoundOK'
  <2>1. \A j \in 1..Len(todo') : todo'[j] = unique'[Len(unique') - Len(todo') + j]
    <3> TAKE j \in 1..Len(todo')
    <3>1. j + 1 \in 1..Len(todo) /\ todo'[j] = todo[j + 1]
          BY <1>1, <1>8
    <3> QED BY <1>1, <1>2, <1>8, <3>1 DEF RoundOK
  <2>2. Len(todo') <= Len(unique')
        BY <1>1, <1>2, <1>8 DEF RoundOK
  <2>3. ASSUME NEW k \in (1..Len(unique')) \ Left', unique'[k] \in keys'
        PROVE  announced'[unique'[k]] > 0 \/ unique'[k] \in excused'
    <3>1. k \in 1..Len(unique) /\ k <= Len(unique) - Len(todo) + 1
          BY <1>1, <1>2, <1>8, <2>3 DEF Left
    <3>2. CASE k = Len(unique) - Len(todo) + 1
      <4>1. unique[k] = todo[1]
            BY <1>1, <1>8, <3>2 DEF RoundOK
      <4> QED BY <1>1, <1>8, <2>3, <4>1
    <3>3. CASE k # Len(unique) - Len(todo) + 1
      <4>1. k \in (1..Len(unique)) \ Left
            BY <1>1, <1>2, <1>8, <3>1, <3>3 DEF Left
      <4> QED BY <1>8, <2>3, <4>1 DEF RoundOK
    <3> QED BY <3>2, <3>3
  <2> QED BY <1>8, <2>1, <2>2, <2>3 DEF RoundOK
<1>9. CASE Announce
  <2>1. \A a \in keys : a = Head(todo) => announced'[a] > 0
        BY <1>9 DEF TypeOK, Announce
  <2>2. \A a \in keys : announced[a] > 0 => announced'[a] > 0
        BY <1>9 DEF TypeOK, Announce
  <2> QED BY <1>8, <1>9, <2>1, <2>2 DEF Announce
<1>10. CASE AnnounceFails
       BY <1>8, <1>10 DEF AnnounceFails
<1>11. CASE FetchDone \/ SaveFails \/ Restart
       BY <1>11 DEF RoundOK, FetchDone, SaveFails, Restart
<1>12. ASSUME NEW a \in News, Expire(a) PROVE RoundOK'
  <2>1. \A k \in 1..Len(unique) : unique[k] # a
        BY <1>12, Members DEF TypeOK, Expire
  <2>2. \A k \in 1..Len(unique) :
            /\ announced'[unique[k]] = announced[unique[k]]
            /\ unique[k] \in excused' <=> unique[k] \in excused
        BY <1>12, <2>1 DEF TypeOK, Expire
  <2> QED BY <1>12, <2>2 DEF RoundOK, Expire, Left
<1>13. CASE UNCHANGED vars
       BY <1>13 DEF RoundOK, Left, vars
<1>14. CASE CheckNew \/ CheckDuplicate \/ CheckFails
       BY <1>4, <1>14 DEF CheckNew, CheckDuplicate, CheckFails
<1> QED BY <1>3, <1>5, <1>6, <1>7, <1>9, <1>10, <1>11, <1>12, <1>13, <1>14
        DEF Next, FetchNow

-----------------------------------------------------------------------------
(* The accounts of the keys.                                               *)

LEMMA CountedPreserved == ASSUME IInv, [Next]_vars PROVE Counted'
<1> USE DEF IInv, Fault, local, count
<1>1. ASSUME NEW a PROVE IsFiniteSet(Pending(a)) /\ Cardinality(Pending(a)) \in Nat
      BY PendingFinite
<1>2. TypeOK'
      BY TypePreserved
<1>3. ASSUME NEW a, Pending(a)' = {} PROVE Cardinality(Pending(a)') = 0
      BY <1>3, FS_EmptySet
<1>4. ASSUME todo # <<>>
      PROVE  /\ Head(todo) \in News /\ Head(todo) = todo[1]
             /\ Len(todo) \in Nat \ {0} /\ Len(Tail(todo)) = Len(todo) - 1
      BY <1>4, HeadAndTail DEF TypeOK
<1>0. \A a \in News : /\ Allowed(a) \in Nat /\ Allowed(a)' \in Nat
                       /\ announced[a] \in Nat /\ announced'[a] \in Nat
  <2> TAKE a \in News
  <2>1. doubts[a] \in Nat /\ announced[a] \in Nat
        BY DEF TypeOK
  <2>2. doubts'[a] \in Nat /\ announced'[a] \in Nat
        BY <1>2 DEF TypeOK
  <2> QED BY <2>1, <2>2 DEF Allowed
\* Nothing pending is added, no key ends, nothing is announced.
<1>5. ASSUME \A a \in News : Pending(a)' \subseteq Pending(a),
             UNCHANGED <<announced, doubts>>, keys \subseteq keys'
      PROVE  Counted'
  <2> SUFFICES ASSUME NEW a \in News PROVE CountOK(a)'
      BY DEF Counted
  <2>1. /\ Cardinality(Pending(a)') \in Nat
        /\ Cardinality(Pending(a)') <= Cardinality(Pending(a))
        BY <1>1, <1>5, FS_Subset, FS_CardinalityType
  <2>2. Allowed(a) <= Allowed(a)'
        BY <1>5 DEF Allowed, TypeOK
  <2> QED BY <1>0, <1>1, <1>5, <2>1, <2>2 DEF Counted, CountOK
\* A check makes an article unique.
<1>6. ASSUME pc = "check", pc' = "check", todo # <<>>,
             unique' = Append(unique, Head(todo)), announced' = announced,
             \A a \in News \ Undated : Allowed(a) <= Allowed(a)',
             \A a \in News \ Undated : a = Head(todo) => Allowed(a) < Allowed(a)'
      PROVE  Counted'
  <2> DEFINE n == Len(unique) + 1
  <2>1. Len(unique) \in Nat /\ Len(unique') = n /\ unique'[n] = Head(todo)
        /\ \A k \in 1..Len(unique) : unique'[k] = unique[k]
        BY <1>4, <1>6 DEF TypeOK
  <2>2. \A a : Pending(a)' = Pending(a) \cup (IF a = Head(todo) THEN {n} ELSE {})
        BY <1>6, <2>1 DEF Pending, Left
  <2> SUFFICES ASSUME NEW a \in News PROVE CountOK(a)'
      BY DEF Counted
  <2>3. a \in Undated => announced'[a] = 0
        BY <1>6 DEF Counted, CountOK
  <2>4. CASE a = Head(todo) /\ a \notin Undated
    <3>1. n \notin Pending(a)
          BY <2>1 DEF Pending, Left
    <3>2. Cardinality(Pending(a)') = Cardinality(Pending(a)) + 1
          BY <1>1, <2>2, <2>4, <3>1, FS_AddElement
    <3> QED BY <1>0, <1>1, <1>6, <2>3, <2>4, <3>2 DEF Counted, CountOK
  <2>5. CASE a # Head(todo)
    <3>1. Pending(a)' = Pending(a)
          BY <2>2, <2>5
    <3> QED BY <1>0, <1>1, <1>6, <2>3, <3>1 DEF Counted, CountOK
  <2> QED BY <2>3, <2>4, <2>5 DEF CountOK
<1>7. CASE CheckNew
  <2>1. \A a \in News \ Undated : Allowed(a) <= Allowed(a)'
        BY <1>7 DEF CheckNew, Allowed, TypeOK
  <2>2. ASSUME NEW a \in News \ Undated, a = Head(todo)
        PROVE  Allowed(a) < Allowed(a)'
    <3>1. a \notin keys /\ a \in keys' /\ doubts' = doubts
          BY <1>7, <2>2 DEF CheckNew
    <3>2. doubts[a] \in Nat
          BY DEF TypeOK
    <3> QED BY <3>1, <3>2 DEF Allowed
  <2> QED BY <1>6, <1>7, <2>1, <2>2 DEF CheckNew
<1>8. CASE CheckFails
  <2>1. \A a \in News \ Undated : Allowed(a) <= Allowed(a)'
        BY <1>8 DEF CheckFails, Allowed, TypeOK
  <2>2. ASSUME NEW a \in News, a = Head(todo)
        PROVE  Allowed(a) < Allowed(a)'
    <3>1. /\ doubts[a] \in Nat /\ doubts'[a] = doubts[a] + 1
          /\ a \in keys => a \in keys'
          BY <1>8, <2>2 DEF CheckFails, TypeOK
    <3> QED BY <3>1 DEF Allowed
  <2> QED BY <1>6, <1>8, <2>1, <2>2 DEF CheckFails
\* The announcing loop takes the first place that is left.
<1>9. ASSUME pc = "announce", todo # <<>>
      PROVE  LET k == Len(unique) - Len(todo) + 1
             IN  /\ k \in Left /\ unique[k] = Head(todo)
                 /\ UNCHANGED <<pc, unique>> /\ todo' = Tail(todo) => Left' = Left \ {k}
  <2>1. Len(unique) \in Nat /\ Len(todo) <= Len(unique)
        BY <1>9 DEF RoundOK, TypeOK
  <2>2. Head(todo) = unique[Len(unique) - Len(todo) + 1]
        BY <1>4, <1>9, <2>1 DEF RoundOK
  <2> QED BY <1>4, <1>9, <2>1, <2>2 DEF Left
<1>10. CASE Announce
  <2> DEFINE k == Len(unique) - Len(todo) + 1
  <2>1. k \in Left /\ unique[k] = Head(todo) /\ Left' = Left \ {k}
        BY <1>9, <1>10 DEF Announce
  <2>2. \A a : Pending(a)' = Pending(a) \ {k}
        BY <1>10, <2>1 DEF Announce, Pending
  <2> SUFFICES ASSUME NEW a \in News PROVE CountOK(a)'
      BY DEF Counted
  <2>3. a \in Undated => announced'[a] = 0
        BY <1>10 DEF Announce, Counted, CountOK, TypeOK
  <2>4. CASE a = Head(todo)
    <3>1. k \in Pending(a)
          BY <2>1, <2>4 DEF Pending
    <3>2. Cardinality(Pending(a)') = Cardinality(Pending(a)) - 1
          BY <1>1, <2>2, <3>1, FS_RemoveElement
    <3>3. announced[a] \in Nat /\ announced'[a] <= announced[a] + 1 /\ announced'[a] \in Nat
          BY <1>10 DEF Announce, TypeOK
    <3>4. Allowed(a)' = Allowed(a)
          BY <1>10 DEF Announce, Allowed
    <3> QED BY <1>0, <1>1, <2>3, <3>2, <3>3, <3>4 DEF Counted, CountOK
  <2>5. CASE a # Head(todo)
    <3>1. Pending(a)' = Pending(a)
          BY <2>1, <2>2, <2>5 DEF Pending
    <3>2. announced'[a] = announced[a]
          BY <1>10, <2>5 DEF Announce, TypeOK
    <3> QED BY <1>10, <2>3, <3>1, <3>2 DEF Announce, Counted, CountOK, Allowed
  <2> QED BY <2>4, <2>5
<1>11. CASE AnnounceFails
  <2>1. Left' \subseteq Left
        BY <1>9, <1>11 DEF AnnounceFails
  <2> QED BY <1>5, <1>11, <2>1 DEF AnnounceFails, Pending
<1>12. ASSUME unique' = <<>>, UNCHANGED <<announced, doubts>>, keys \subseteq keys'
       PROVE  Counted'
  <2>1. \A a \in News : Pending(a)' = {}
        BY <1>12 DEF Pending, Left
  <2> QED BY <1>5, <1>12, <2>1
<1>13. ASSUME NEW b \in News, Expire(b) PROVE Counted'
  <2>1. \A k \in 1..Len(unique) : unique[k] # b
        BY <1>13, Members DEF TypeOK, Expire
  <2>2. Pending(b)' = {} /\ \A a : Pending(a)' = Pending(a)
        BY <1>13, <2>1 DEF Expire, Pending, Left
  <2> SUFFICES ASSUME NEW a \in News PROVE CountOK(a)'
      BY DEF Counted
  <2>3. CASE a = b
    <3>1. announced'[a] = 0
          BY <1>13, <2>3 DEF Expire, TypeOK
    <3>2. Cardinality(Pending(a)') = 0
          BY <1>3, <2>2, <2>3
    <3> QED BY <1>0, <3>1, <3>2 DEF CountOK
  <2>4. CASE a # b
        BY <1>13, <2>2, <2>4 DEF Expire, Counted, CountOK, Allowed, TypeOK
  <2> QED BY <2>3, <2>4
<1>14. CASE Restart
  <2>1. \A a \in News : Pending(a)' = {}
        BY <1>14 DEF Restart, Pending, Left
  <2>2. CASE "keys" \in durable
        BY <1>12, <1>14, <2>2 DEF Restart
  <2>3. CASE "keys" \notin durable
        BY <1>3, <1>14, <2>1, <2>3 DEF Restart, Counted, CountOK, Allowed
  <2> QED BY <2>2, <2>3
<1>15. ASSUME NEW all \in Answers, Fetch(all) PROVE Counted'
       BY <1>12, <1>15 DEF Fetch, TypeOK
<1>16. CASE CheckDuplicate \/ SaveArticle \/ UNCHANGED vars
       BY <1>5, <1>16 DEF CheckDuplicate, SaveArticle, vars, Pending, Left
<1>17. CASE CheckDone \/ SaveDone
       BY <1>5, <1>17 DEF CheckDone, SaveDone, Pending, Left, TypeOK
<1>18. CASE FetchDone \/ SaveFails
       BY <1>12, <1>18 DEF FetchDone, SaveFails
<1> QED BY <1>7, <1>8, <1>10, <1>11, <1>13, <1>14, <1>15, <1>16, <1>17, <1>18
        DEF Next, FetchNow

LEMMA KeysPreserved == ASSUME IInv, [Next]_vars PROVE KeysOK'
<1> USE DEF IInv, Fault, local, count
<1>1. ASSUME todo # <<>>
      PROVE  Head(todo) \in News
      BY <1>1, HeadAndTail DEF TypeOK
\* An article appended to unique is among its members, and so are the others.
<1>2. ASSUME todo # <<>>, unique' = Append(unique, Head(todo))
      PROVE  \A a : a = Head(todo) \/ (\E k \in 1..Len(unique) : unique[k] = a)
                       => \E k \in 1..Len(unique') : unique'[k] = a
  <2>1. /\ Len(unique) \in Nat /\ Len(unique') = Len(unique) + 1
        /\ unique'[Len(unique) + 1] = Head(todo)
        /\ \A k \in 1..Len(unique) : unique'[k] = unique[k]
        BY <1>1, <1>2 DEF TypeOK
  <2> QED BY <2>1
<1>3. CASE CheckNew
      BY <1>2, <1>3 DEF KeysOK, CheckNew
<1>4. CASE CheckFails
      BY <1>2, <1>4 DEF KeysOK, CheckFails
<1>5. CASE Announce
  <2>1. \A a \in keys : announced[a] > 0 => announced'[a] > 0
        BY <1>5 DEF TypeOK, Announce
  <2> QED BY <1>5, <2>1 DEF KeysOK, Announce
<1>6. CASE FetchDone
  <2>1. \A k \in 1..Len(unique) : k \notin Left
        BY <1>6 DEF TypeOK, FetchDone, Left
  <2>2. \A a \in keys : announced[a] > 0 \/ a \in excused
        BY <1>6, <2>1 DEF KeysOK, RoundOK, FetchDone
  <2> QED BY <1>6, <2>2 DEF KeysOK, FetchDone
<1>7. \A a : a \in ToSet(unique) <=> \E k \in 1..Len(unique) : unique[k] = a
      BY Members DEF TypeOK
<1>8. CASE SaveFails
      BY <1>7, <1>8 DEF KeysOK, SaveFails
<1>9. CASE Restart
      BY <1>7, <1>9 DEF KeysOK, Restart
<1>10. ASSUME NEW a \in News, Expire(a) PROVE KeysOK'
       BY <1>10 DEF KeysOK, TypeOK, Expire
<1>11. ASSUME NEW all \in Answers, Fetch(all) PROVE KeysOK'
       BY <1>11 DEF KeysOK, Fetch
<1>12. CASE CheckDuplicate \/ CheckDone \/ SaveArticle \/ SaveDone
       BY <1>12 DEF KeysOK, CheckDuplicate, CheckDone, SaveArticle, SaveDone
<1>13. CASE AnnounceFails \/ UNCHANGED vars
       BY <1>13 DEF KeysOK, AnnounceFails, vars
<1> QED BY <1>3, <1>4, <1>5, <1>6, <1>8, <1>9, <1>10, <1>11, <1>12, <1>13
        DEF Next, FetchNow

-----------------------------------------------------------------------------
LEMMA Inductive == Spec => []IInv
<1>1. IInv /\ [Next]_vars => IInv'
      BY TypePreserved, RoundPreserved, CountedPreserved, KeysPreserved DEF IInv
<1> QED BY InitOK, <1>1, PTL DEF Spec

(* Locals, cache, rows and counters of the fetcher are of their types,     *)
(* whatever is listed and whatever fails.                                  *)
THEOREM TypeCorrect == Spec => []TypeOK
<1>1. IInv => TypeOK
      BY DEF IInv
<1> QED BY Inductive, <1>1, PTL

(* For any answers and any number of faults and restarts: when FetchNow    *)
(* announces, the rows of its whole round are in the store.                *)
THEOREM RowsComeFirst == Spec => []RowBeforeNews
<1>1. IInv => RowBeforeNews
      BY Members DEF IInv, TypeOK, RoundOK, RowBeforeNews
<1> QED BY Inductive, <1>1, PTL

(* For any answers, faults and restarts: no more announcements under one   *)
(* key than one and those of the checks that failed.                       *)
THEOREM AnnouncedOnce == Spec => []OncePerKey
<1>1. ASSUME IInv, NEW a \in News PROVE announced[a] <= 1 + doubts[a]
  <2>1. announced[a] \in Nat /\ doubts[a] \in Nat /\ Cardinality(Pending(a)) \in Nat
        BY <1>1, PendingFinite DEF IInv, TypeOK
  <2>2. Allowed(a) <= 1 + doubts[a]
        BY <2>1 DEF Allowed
  <2>3. Allowed(a) \in Nat
        BY <2>1 DEF Allowed
  <2> QED BY <1>1, <2>1, <2>2, <2>3 DEF IInv, Counted, CountOK
<1>2. IInv => OncePerKey
      BY <1>1 DEF OncePerKey
<1> QED BY Inductive, <1>2, PTL

(* For any answers, faults and restarts: no article is held back by a key  *)
(* without having been announced, being in the round at hand, or having    *)
(* been hit by a fault since the key was set.                              *)
THEOREM NothingHeldBack == Spec => []KeyStandsForNews
<1>1. IInv => KeyStandsForNews
      BY Members DEF IInv, TypeOK, KeysOK, KeyStandsForNews
<1> QED BY Inductive, <1>1, PTL

=============================================================================
