------------------------ MODULE PaperAccounts_proofs ------------------------
(* Theorems about PaperAccounts: what the account is worth, what an order  *)
(* may cost and how much may be open, whatever the exchange quotes and     *)
(* whatever happens between two steps of the loop.                         *)
EXTENDS PaperAccounts, FiniteSetTheorems, SequenceTheorems, WellFoundedInduction, TLAPS

(***************************************************************************)
(* Sums and walks are folds over finite sets.  A fold is a function that   *)
(* is chosen to meet its own equation; that there is one, and what its     *)
(* values are, follows by induction on the size of the set.                *)
(***************************************************************************)
LEMMA CountedInduction ==
  ASSUME NEW Good, 0 \in Good, \A n \in Nat : n \in Good => n + 1 \in Good
  PROVE  Nat \subseteq Good
<1> DEFINE Bad == Nat \ Good
           R == OpToRel(<, Nat)
<1>1. ASSUME Bad # {} PROVE FALSE
  <2>1. \E n \in Bad : \A m \in Bad : ~ (<<m, n>> \in R)
    <3>1. IsWellFoundedOn(R, Nat)
          BY NatLessThanWellFounded
    <3> HIDE DEF R
    <3> QED BY <1>1, <3>1, WFMin
  <2>2. PICK n \in Bad : \A m \in Bad : ~ (<<m, n>> \in R)
        BY <2>1
  <2>3. \A m \in Bad : ~(m < n)
        BY <2>2 DEF OpToRel
  <2>4. n \in Nat \ {0}
        OBVIOUS
  <2>5. n - 1 \in Nat /\ n - 1 < n /\ n - 1 + 1 = n
        BY <2>4
  <2> QED BY <2>3, <2>5
<1> QED BY <1>1

\* Taking an element away leaves a smaller set.
LEMMA OneLess ==
  ASSUME NEW S, IsFiniteSet(S), NEW s \in SUBSET S, NEW x \in s
  PROVE  /\ s \ {x} \in SUBSET S
         /\ Cardinality(s) \in Nat /\ Cardinality(s \ {x}) \in Nat
         /\ Cardinality(s) = Cardinality(s \ {x}) + 1
<1>1. IsFiniteSet(s) /\ IsFiniteSet(s \ {x})
      BY FS_Subset
<1>2. Cardinality(s) \in Nat /\ Cardinality(s \ {x}) \in Nat
      BY <1>1, FS_CardinalityType
<1>3. Cardinality(s \ {x}) = Cardinality(s) - 1
      BY <1>1, FS_RemoveElement
<1> QED BY <1>2, <1>3

\* c chooses from every subset of S, h makes a value of A of an element and a
\* value of A, and g is the fold of the two.
Chooses(c, S) == \A s \in SUBSET S : s # {} => c[s] \in s

Maps(h, S, A) == \A x \in S : \A a \in A : h[<<x, a>>] \in A

IsFold(g, S, base, c, h) ==
    \A s \in SUBSET S : g[s] = IF s = {} THEN base ELSE h[<<c[s], g[s \ {c[s]}]>>]

LEMMA FoldExists ==
  ASSUME NEW S, IsFiniteSet(S), NEW A, NEW base \in A,
         NEW c, Chooses(c, S), NEW h, Maps(h, S, A)
  PROVE  \E g \in [SUBSET S -> A] : IsFold(g, S, base, c, h)
<1> USE DEF Chooses, Maps, IsFold
<1> DEFINE Step(g, s) == IF s = {} THEN base ELSE h[<<c[s], g[s \ {c[s]}]>>]
           UpTo(n) == \E g \in [SUBSET S -> A] : \A s \in SUBSET S :
                         Cardinality(s) <= n => g[s] = Step(g, s)
           Good == {n \in Nat : UpTo(n)}
<1>1. 0 \in Good
  <2> DEFINE g == [s \in SUBSET S |-> base]
  <2>1. g \in [SUBSET S -> A]
        OBVIOUS
  <2>2. ASSUME NEW s \in SUBSET S, Cardinality(s) <= 0 PROVE s = {}
        BY <2>2, FS_Subset, FS_EmptySet, FS_CardinalityType
  <2>3. \A s \in SUBSET S : Cardinality(s) <= 0 => g[s] = Step(g, s)
        BY <2>2
  <2> QED BY <2>1, <2>3
<1>2. ASSUME NEW n \in Nat, n \in Good PROVE n + 1 \in Good
  <2>1. PICK g \in [SUBSET S -> A] : \A s \in SUBSET S : Cardinality(s) <= n => g[s] = Step(g, s)
        BY <1>2
  <2> DEFINE f == [s \in SUBSET S |-> Step(g, s)]
  <2>2. f \in [SUBSET S -> A]
    <3>1. ASSUME NEW s \in SUBSET S, s # {} PROVE h[<<c[s], g[s \ {c[s]}]>>] \in A
      <4>1. c[s] \in S /\ s \ {c[s]} \in SUBSET S
            BY <3>1
      <4> QED BY <4>1
    <3> QED BY <3>1
  <2>3. ASSUME NEW s \in SUBSET S, Cardinality(s) <= n + 1 PROVE f[s] = Step(f, s)
    <3>1. CASE s = {}
          BY <3>1
    <3>2. CASE s # {}
      <4>1. c[s] \in s
            BY <3>2
      <4>2. s \ {c[s]} \in SUBSET S /\ Cardinality(s \ {c[s]}) <= n
            BY <2>3, <4>1, OneLess
      <4>3. g[s \ {c[s]}] = f[s \ {c[s]}]
            BY <2>1, <4>2
      <4> QED BY <3>2, <4>3
    <3> QED BY <3>1, <3>2
  <2> HIDE DEF f
  <2>4. UpTo(n + 1)
        BY <2>2, <2>3
  <2> HIDE DEF UpTo
  <2> QED BY <2>4
<1> HIDE DEF Good
<1>3. Cardinality(S) \in Nat /\ Cardinality(S) \in Good
      BY <1>1, <1>2, CountedInduction, FS_CardinalityType
<1>4. \A s \in SUBSET S : Cardinality(s) \in Nat /\ Cardinality(s) <= Cardinality(S)
      BY FS_Subset, FS_CardinalityType
<1>5. UpTo(Cardinality(S))
      BY <1>3 DEF Good
<1> QED BY <1>4, <1>5

\* What holds of the empty set and passes from a set without the element
\* chosen to the set holds of every subset.
LEMMA SubsetInduction ==
  ASSUME NEW S, IsFiniteSet(S), NEW c, Chooses(c, S), NEW Holds, {} \in Holds,
         \A s \in SUBSET S : s # {} /\ s \ {c[s]} \in Holds => s \in Holds
  PROVE  SUBSET S \subseteq Holds
<1> USE DEF Chooses
<1> DEFINE Good == {n \in Nat : \A s \in SUBSET S : Cardinality(s) = n => s \in Holds}
<1>1. 0 \in Good
      BY FS_Subset, FS_EmptySet, FS_CardinalityType
<1>2. ASSUME NEW n \in Nat, n \in Good PROVE n + 1 \in Good
  <2>1. ASSUME NEW s \in SUBSET S, Cardinality(s) = n + 1 PROVE s \in Holds
    <3>1. s # {}
      <4>1. Cardinality({}) = 0
            BY FS_EmptySet
      <4> QED BY <2>1, <4>1
    <3>2. c[s] \in s
          BY <3>1
    <3>3. s \ {c[s]} \in SUBSET S /\ Cardinality(s \ {c[s]}) = n
          BY <2>1, <3>2, OneLess
    <3>4. s \ {c[s]} \in Holds
          BY <1>2, <3>3
    <3> QED BY <3>1, <3>4
  <2> QED BY <2>1
<1> HIDE DEF Good
<1>3. Nat \subseteq Good
      BY <1>1, <1>2, CountedInduction
<1>4. \A s \in SUBSET S : Cardinality(s) \in Good
      BY <1>3, FS_Subset, FS_CardinalityType
<1> QED BY <1>4 DEF Good

-----------------------------------------------------------------------------
\* Sums of a table's column.
PickIn(s) == CHOOSE x \in s : TRUE
Part(f, s) == [i \in s |-> f[i]]

SumsUp(g, f, S) ==
    \A s \in SUBSET S : g[s] = IF s = {} THEN 0 ELSE f[PickIn(s)] + g[s \ {PickIn(s)}]

AnyOrder(g, f, S) == \A s \in SUBSET S : \A x \in s : g[s] = f[x] + g[s \ {x}]

LEMMA Picks ==
  ASSUME NEW S
  PROVE  Chooses([s \in SUBSET S |-> PickIn(s)], S)
BY DEF Chooses, PickIn

LEMMA SumsExist ==
  ASSUME NEW S, IsFiniteSet(S), NEW f \in [S -> Int]
  PROVE  \E g \in [SUBSET S -> Int] : SumsUp(g, f, S) /\ SumFunction(f) = g[S]
<1> DEFINE Equation(g) == g = [s \in SUBSET S |->
                                 IF s = {} THEN 0 ELSE f[PickIn(s)] + g[s \ {PickIn(s)}]]
           sums == CHOOSE g : Equation(g)
           c == [t \in SUBSET S |-> PickIn(t)]
           h == [p \in S \X Int |-> f[p[1]] + p[2]]
<1>1. SumFunction(f) = sums[S]
  <2>1. DOMAIN f = S
        OBVIOUS
  <2> QED BY <2>1, Zenon DEF SumFunction, SumFunctionOnSet, FoldFunctionOnSet, MapThenFoldSet, PickIn
<1>2. Chooses(c, S)
      BY Picks
<1>3. PICK g \in [SUBSET S -> Int] : IsFold(g, S, 0, c, h)
  <2>1. PICK A, zero : A = Int /\ zero = 0
        OBVIOUS
  <2>2. Maps(h, S, A) /\ zero \in A
        BY <2>1 DEF Maps
  <2> HIDE DEF h, c
  <2>3. \E g \in [SUBSET S -> A] : IsFold(g, S, zero, c, h)
        BY ONLY <1>2, <2>2, IsFiniteSet(S), FoldExists
  <2> QED BY <2>1, <2>3
<1>4. Equation(g)
  <2>1. ASSUME NEW s \in SUBSET S, s # {} PROVE g[s] = f[PickIn(s)] + g[s \ {PickIn(s)}]
    <3>1. PickIn(s) \in S /\ c[s] = PickIn(s) /\ s \ {PickIn(s)} \in SUBSET S
          BY <1>2, <2>1 DEF Chooses
    <3> QED BY <1>3, <2>1, <3>1 DEF IsFold
  <2> QED BY <1>3, <2>1 DEF IsFold
<1>5. Equation(sums)
      BY <1>4
<1> HIDE DEF sums
<1>6. SumsUp(sums, f, S)
      BY <1>5 DEF SumsUp
<1>7. \A s \in SUBSET S : sums[s] \in Int
  <2>1. {} \in SUBSET S /\ sums[{}] = 0
        BY <1>6 DEF SumsUp
  <2>2. ASSUME NEW s \in SUBSET S, s # {}, sums[s \ {c[s]}] \in Int PROVE sums[s] \in Int
    <3>1. PickIn(s) \in S /\ c[s] = PickIn(s)
          BY <1>2, <2>2 DEF Chooses
    <3>2. sums[s] = f[PickIn(s)] + sums[s \ {c[s]}]
          BY <1>6, <2>2, <3>1 DEF SumsUp
    <3>3. f[PickIn(s)] \in Int
          BY <3>1
    <3> QED BY <2>2, <3>2, <3>3
  <2> HIDE DEF c
  <2> DEFINE Holds == {s \in SUBSET S : sums[s] \in Int}
  <2>3. /\ {} \in Holds
        /\ \A s \in SUBSET S : s # {} /\ s \ {c[s]} \in Holds => s \in Holds
        BY <2>1, <2>2
  <2> HIDE DEF Holds
  <2>4. SUBSET S \subseteq Holds
        BY ONLY <1>2, <2>3, IsFiniteSet(S), SubsetInduction
  <2> QED BY <2>4 DEF Holds
<1>8. sums \in [SUBSET S -> Int]
      BY <1>5, <1>7
<1> QED BY <1>1, <1>6, <1>8

\* The sum of a part is what the sum of the whole has for it.
LEMMA SumOfPart ==
  ASSUME NEW S, IsFiniteSet(S), NEW f \in [S -> Int], NEW g \in [SUBSET S -> Int], SumsUp(g, f, S),
         NEW s \in SUBSET S
  PROVE  SumFunction(Part(f, s)) = g[s]
<1>1. IsFiniteSet(s) /\ Part(f, s) \in [s -> Int]
      BY FS_Subset DEF Part
<1>2. PICK gs \in [SUBSET s -> Int] : SumsUp(gs, Part(f, s), s) /\ SumFunction(Part(f, s)) = gs[s]
      BY <1>1, SumsExist
<1> DEFINE Holds == {t \in SUBSET s : gs[t] = g[t]}
           c == [t \in SUBSET s |-> PickIn(t)]
<1>3. {} \in Holds
  <2>1. gs[{}] = 0 /\ g[{}] = 0
        BY <1>2 DEF SumsUp
  <2> QED BY <2>1
<1>4. ASSUME NEW t \in SUBSET s, t # {}, t \ {c[t]} \in Holds PROVE t \in Holds
  <2>1. PickIn(t) \in t /\ c[t] = PickIn(t) /\ t \ {PickIn(t)} \in SUBSET s
        BY <1>4 DEF PickIn
  <2>2. gs[t \ {PickIn(t)}] = g[t \ {PickIn(t)}]
        BY <1>4, <2>1
  <2>3. gs[t] = Part(f, s)[PickIn(t)] + gs[t \ {PickIn(t)}]
        BY <1>2, <1>4 DEF SumsUp
  <2>4. g[t] = f[PickIn(t)] + g[t \ {PickIn(t)}]
        BY <1>4 DEF SumsUp
  <2> QED BY <2>1, <2>2, <2>3, <2>4 DEF Part
<1>5. Chooses(c, s)
      BY Picks
<1> HIDE DEF Holds, c
<1>6. SUBSET s \subseteq Holds
      BY ONLY <1>1, <1>3, <1>4, <1>5, SubsetInduction
<1> QED BY <1>2, <1>6 DEF Holds

\* The elements can be added in any order.
LEMMA SumTakes ==
  ASSUME NEW S, IsFiniteSet(S), NEW f \in [S -> Int], NEW g \in [SUBSET S -> Int], SumsUp(g, f, S)
  PROVE  AnyOrder(g, f, S)
<1> DEFINE Takes(s) == \A x \in s : g[s] = f[x] + g[s \ {x}]
           Good == {n \in Nat : \A s \in SUBSET S : Cardinality(s) = n => Takes(s)}
<1>1. 0 \in Good
      BY FS_Subset, FS_EmptySet
<1>2. ASSUME NEW n \in Nat, n \in Good PROVE n + 1 \in Good
  <2>1. ASSUME NEW s \in SUBSET S, Cardinality(s) = n + 1, NEW x \in s
        PROVE  g[s] = f[x] + g[s \ {x}]
    <3> DEFINE y == PickIn(s)
    <3>1. y \in s /\ g[s] = f[y] + g[s \ {y}]
          BY DEF SumsUp, PickIn
    <3> HIDE DEF y
    <3>2. CASE x = y
          BY <3>1, <3>2
    <3>3. CASE x # y
      <4>1. /\ s \ {y} \in SUBSET S /\ Cardinality(s \ {y}) = n
            /\ s \ {x} \in SUBSET S /\ Cardinality(s \ {x}) = n
        <5>1. ASSUME NEW z \in s PROVE s \ {z} \in SUBSET S /\ Cardinality(s \ {z}) = n
          <6>1. PICK k : k = Cardinality(s \ {z})
                OBVIOUS
          <6>2. s \ {z} \in SUBSET S /\ k \in Nat /\ n + 1 = k + 1
                BY ONLY <2>1, <6>1, OneLess, IsFiniteSet(S)
          <6> QED BY <6>1, <6>2
        <5> QED BY <3>1, <5>1
      <4>2. g[s \ {y}] = f[x] + g[(s \ {y}) \ {x}]
            BY <1>2, <3>3, <4>1
      <4>3. g[s \ {x}] = f[y] + g[(s \ {x}) \ {y}]
            BY <1>2, <3>1, <3>3, <4>1
      <4>4. (s \ {x}) \ {y} = (s \ {y}) \ {x}
            OBVIOUS
      <4>5. PICK u, v, w : u = f[x] /\ v = f[y] /\ w = g[(s \ {x}) \ {y}]
            OBVIOUS
      <4>6. u \in Int /\ v \in Int /\ w \in Int
            BY <3>1, <4>5
      <4>7. g[s] = v + (u + w) /\ g[s \ {x}] = v + w
            BY <3>1, <4>2, <4>3, <4>4, <4>5
      <4> QED BY <4>5, <4>6, <4>7
    <3> QED BY <3>2, <3>3
  <2> QED BY <2>1
<1> HIDE DEF Good
<1>3. Nat \subseteq Good
      BY <1>1, <1>2, CountedInduction
<1>4. \A s \in SUBSET S : Cardinality(s) \in Good
      BY <1>3, FS_Subset, FS_CardinalityType
<1> QED BY <1>4 DEF Good, AnyOrder

\* Less is summed up to less, of what is not negative.
LEMMA SumGrows ==
  ASSUME NEW S, IsFiniteSet(S), NEW f \in [S -> Nat], NEW g \in [SUBSET S -> Int], SumsUp(g, f, S)
  PROVE  \A s \in SUBSET S : 0 <= g[s] /\ \A t \in SUBSET s : g[t] <= g[s]
<1> DEFINE Holds == {s \in SUBSET S : 0 <= g[s] /\ \A t \in SUBSET s : g[t] <= g[s]}
           c == [s \in SUBSET S |-> PickIn(s)]
<1>0. AnyOrder(g, f, S)
  <2>1. f \in [S -> Int]
        OBVIOUS
  <2> QED BY <2>1, SumTakes
<1>1. {} \in Holds
  <2>1. g[{}] = 0 /\ {} \in SUBSET S
        BY DEF SumsUp
  <2>2. \A t \in SUBSET {} : g[t] = 0
        BY <2>1
  <2> QED BY <2>1, <2>2
<1>2. ASSUME NEW s \in SUBSET S, s # {}, s \ {c[s]} \in Holds PROVE s \in Holds
  <2>1. PICK y \in s : y = c[s]
        BY <1>2 DEF PickIn
  <2>2. PICK rest \in SUBSET S : rest = s \ {y}
        OBVIOUS
  <2>3. 0 <= g[rest] /\ \A t \in SUBSET rest : g[t] <= g[rest]
        BY <1>2, <2>1, <2>2
  <2>4. f[y] \in Nat /\ g[rest] \in Int /\ g[s] \in Int
        BY <2>1, <2>2
  <2>5. g[s] = f[y] + g[rest]
        BY <1>0, <2>2 DEF AnyOrder
  <2>6. ASSUME NEW t \in SUBSET s PROVE g[t] <= g[s]
    <3>1. CASE y \notin t
      <4>1. t \in SUBSET rest /\ g[t] \in Int
            BY <2>2, <3>1
      <4>2. g[t] <= g[rest]
            BY <2>3, <4>1
      <4> QED BY <2>4, <2>5, <4>1, <4>2
    <3>2. CASE y \in t
      <4>1. PICK less \in SUBSET S : less = t \ {y}
            OBVIOUS
      <4>2. g[t] = f[y] + g[less] /\ g[less] \in Int
            BY <1>0, <3>2, <4>1 DEF AnyOrder
      <4>3. g[less] <= g[rest]
            BY <2>2, <2>3, <4>1
      <4> QED BY <2>4, <2>5, <4>2, <4>3
    <3> QED BY <3>1, <3>2
  <2> QED BY <2>3, <2>4, <2>5, <2>6
<1>3. Chooses(c, S)
      BY Picks
<1> HIDE DEF Holds, c
<1>4. SUBSET S \subseteq Holds
      BY ONLY <1>1, <1>2, <1>3, IsFiniteSet(S), SubsetInduction
<1> QED BY <1>4 DEF Holds

Total(f, s) == SumFunction(Part(f, s))

LEMMA Sums ==
  ASSUME NEW S, IsFiniteSet(S), NEW f \in [S -> Int]
  PROVE  /\ \A s \in SUBSET S : Total(f, s) \in Int
         /\ \A s \in SUBSET S : \A x \in s : Total(f, s) = f[x] + Total(f, s \ {x})
         /\ (\A x \in S : f[x] >= 0) =>
               \A s \in SUBSET S :
                  0 <= Total(f, s) /\ \A t \in SUBSET s : Total(f, t) <= Total(f, s)
<1>1. PICK g \in [SUBSET S -> Int] : SumsUp(g, f, S)
      BY SumsExist
<1>2. \A s \in SUBSET S : Total(f, s) = g[s]
      BY <1>1, SumOfPart DEF Total
<1>3. AnyOrder(g, f, S)
      BY <1>1, SumTakes
<1>4. ASSUME \A x \in S : f[x] >= 0
      PROVE  \A s \in SUBSET S : 0 <= g[s] /\ \A t \in SUBSET s : g[t] <= g[s]
  <2>1. f \in [S -> Nat]
        BY <1>4
  <2> QED BY <1>1, <2>1, SumGrows
<1> QED BY <1>2, <1>3, <1>4 DEF AnyOrder

LEMMA ExposureSums ==
  ASSUME NEW ps \in Seq(Position), NEW f, f = [i \in DOMAIN ps |-> ps[i].exposure]
  PROVE  /\ IsFiniteSet(DOMAIN ps) /\ f \in [DOMAIN ps -> Int] /\ \A i \in DOMAIN ps : f[i] >= 0
         /\ \A S \in SUBSET DOMAIN ps : Exposure(ps, S) = Total(f, S)
<1>1. DOMAIN ps = 1..Len(ps) /\ Len(ps) \in Nat /\ \A i \in DOMAIN ps : ps[i] \in Position
      OBVIOUS
<1>2. IsFiniteSet(DOMAIN ps)
      BY <1>1, FS_Interval
<1>3. \A i \in DOMAIN ps : ps[i].exposure \in Nat
      BY <1>1 DEF Position
<1>4. ASSUME NEW S \in SUBSET DOMAIN ps PROVE Exposure(ps, S) = Total(f, S)
  <2>1. [i \in S |-> ps[i].exposure] = Part(f, S)
        BY DEF Part
  <2> QED BY <2>1 DEF Exposure, Total
<1> QED BY <1>2, <1>3, <1>4

\* What is open is never less than nothing.
LEMMA ExposureIsNatural ==
  ASSUME NEW ps \in Seq(Position), NEW S \in SUBSET DOMAIN ps
  PROVE  Exposure(ps, S) \in Nat
<1>1. PICK f : f = [i \in DOMAIN ps |-> ps[i].exposure]
      OBVIOUS
<1>2. /\ IsFiniteSet(DOMAIN ps) /\ f \in [DOMAIN ps -> Int] /\ \A i \in DOMAIN ps : f[i] >= 0
      /\ Exposure(ps, S) = Total(f, S)
      BY <1>1, ExposureSums
<1>3. Total(f, S) \in Int /\ 0 <= Total(f, S)
      BY <1>2, Sums
<1> QED BY <1>2, <1>3

\* A position bought adds what it cost.
LEMMA ExposureAdded ==
  ASSUME NEW ps \in Seq(Position), NEW p \in Position, NEW S \in SUBSET DOMAIN ps
  PROVE  /\ Exposure(ps, S) \in Int
         /\ Exposure(Append(ps, p), S \cup {Len(ps) + 1}) = Exposure(ps, S) + p.exposure
<1> DEFINE n == Len(ps) + 1
<1>1. PICK qs : qs \in Seq(Position) /\ qs = Append(ps, p)
      BY AppendProperties
<1>2. /\ DOMAIN qs = DOMAIN ps \cup {n} /\ n \notin DOMAIN ps /\ qs[n] = p
      /\ \A i \in DOMAIN ps : qs[i] = ps[i]
      BY <1>1
<1>3. PICK f : f = [i \in DOMAIN qs |-> qs[i].exposure]
      OBVIOUS
<1>4. PICK T \in SUBSET DOMAIN qs : T = S \cup {n}
      BY <1>2
<1> HIDE DEF n
<1>5. /\ IsFiniteSet(DOMAIN qs) /\ f \in [DOMAIN qs -> Int]
      /\ Exposure(qs, T) = Total(f, T) /\ Exposure(qs, S) = Total(f, S)
  <2>1. S \in SUBSET DOMAIN qs /\ qs \in Seq(Position)
        BY <1>1, <1>2
  <2>2. /\ IsFiniteSet(DOMAIN qs) /\ f \in [DOMAIN qs -> Int]
        /\ \A U \in SUBSET DOMAIN qs : Exposure(qs, U) = Total(f, U)
        BY <1>3, <2>1, ExposureSums
  <2> QED BY <2>1, <2>2
<1>6. Total(f, S) \in Int /\ Total(f, T) = f[n] + Total(f, T \ {n}) /\ f[n] \in Int
      BY <1>2, <1>4, <1>5, Sums
<1>7. T \ {n} = S /\ f[n] = p.exposure
      BY <1>2, <1>3, <1>4
<1>8. PICK u, v, w : u = Exposure(qs, T) /\ v = Exposure(ps, S) /\ w = p.exposure
      OBVIOUS
<1>9. Exposure(qs, S) = Exposure(ps, S)
  <2>1. [i \in S |-> qs[i].exposure] = [i \in S |-> ps[i].exposure]
        BY <1>2
  <2> QED BY <2>1 DEF Exposure
<1>10. v \in Int /\ u = w + v /\ w \in Int
      BY <1>5, <1>6, <1>7, <1>8, <1>9
<1> QED BY <1>1, <1>4, <1>8, <1>10 DEF n

\* Fewer positions of the same cost are no more exposure.
LEMMA ExposureShrinks ==
  ASSUME NEW ps \in Seq(Position), NEW qs, NEW S \in SUBSET DOMAIN ps, NEW T \in SUBSET S,
         \A i \in T : qs[i].exposure = ps[i].exposure
  PROVE  Exposure(ps, S) \in Int /\ Exposure(qs, T) \in Int /\ Exposure(qs, T) <= Exposure(ps, S)
<1>1. PICK f : f = [i \in DOMAIN ps |-> ps[i].exposure]
      OBVIOUS
<1>2. /\ IsFiniteSet(DOMAIN ps) /\ f \in [DOMAIN ps -> Int] /\ \A i \in DOMAIN ps : f[i] >= 0
      /\ Exposure(ps, S) = Total(f, S) /\ Exposure(ps, T) = Total(f, T)
      BY <1>1, ExposureSums
<1>3. Total(f, S) \in Int /\ Total(f, T) \in Int /\ Total(f, T) <= Total(f, S)
      BY <1>2, Sums
<1>4. Exposure(qs, T) = Exposure(ps, T)
  <2>1. [i \in T |-> qs[i].exposure] = [i \in T |-> ps[i].exposure]
        OBVIOUS
  <2> QED BY <2>1 DEF Exposure
<1> QED BY <1>2, <1>3, <1>4

LEMMA SizeShrinks ==
  ASSUME NEW ts \in Seq(Trade), NEW us, NEW S \in SUBSET DOMAIN ts, NEW T \in SUBSET S,
         \A i \in T : us[i].size = ts[i].size
  PROVE  Size(ts, S) \in Int /\ Size(us, T) \in Int /\ Size(us, T) <= Size(ts, S)
<1>1. PICK f : f = [i \in DOMAIN ts |-> ts[i].size]
      OBVIOUS
<1>2. DOMAIN ts = 1..Len(ts) /\ Len(ts) \in Nat /\ \A i \in DOMAIN ts : ts[i] \in Trade
      OBVIOUS
<1>3. IsFiniteSet(DOMAIN ts)
  <2>1. 1 \in Int /\ Len(ts) \in Int
        BY <1>2
  <2> QED BY ONLY <1>2, <2>1, FS_Interval
<1>4. \A i \in DOMAIN ts : ts[i].size \in Nat
      BY <1>2 DEF Trade
<1>5. f \in [DOMAIN ts -> Int] /\ \A i \in DOMAIN ts : f[i] >= 0
      BY <1>1, <1>4
<1>6. Total(f, S) \in Int /\ Total(f, T) \in Int /\ Total(f, T) <= Total(f, S)
      BY <1>3, <1>5, Sums
<1>7. [i \in S |-> ts[i].size] = Part(f, S) /\ [i \in T |-> us[i].size] = Part(f, T)
      BY <1>1 DEF Part
<1>8. Size(ts, S) = Total(f, S) /\ Size(us, T) = Total(f, T)
      BY <1>7 DEF Size, Total
<1> QED BY <1>6, <1>8

LEMMA PnLSums ==
  ASSUME NEW Rows, NEW rs \in Seq(Rows), \A r \in Rows : r.pnl \in Int, NEW S \in SUBSET DOMAIN rs
  PROVE  PnL(rs, S) \in Int
<1>1. PICK f : f = [i \in DOMAIN rs |-> rs[i].pnl]
      OBVIOUS
<1>2. DOMAIN rs = 1..Len(rs) /\ Len(rs) \in Nat /\ \A i \in DOMAIN rs : rs[i] \in Rows
      OBVIOUS
<1>3. IsFiniteSet(DOMAIN rs)
      BY <1>2, FS_Interval
<1>4. f \in [DOMAIN rs -> Int]
      BY <1>1, <1>2
<1>5. Total(f, S) \in Int
      BY <1>3, <1>4, Sums
<1>6. [i \in S |-> rs[i].pnl] = Part(f, S)
      BY <1>1 DEF Part
<1> QED BY <1>5, <1>6 DEF PnL, Total

-----------------------------------------------------------------------------
(***************************************************************************)
(* Walking a book.  A walk spends no more than it is given, buys at least  *)
(* a hundredth share per cent of it, and pays no more than the limit.      *)
(***************************************************************************)
Walked(usd, limit) ==
    {w \in [left : Nat, usd : Nat, quantity : Nat] :
        /\ w.left + w.usd = usd
        /\ w.quantity <= 100 * w.usd
        /\ 100 * w.usd <= limit * w.quantity}

LEMMA Divides ==
  ASSUME NEW a \in Nat, NEW p \in Nat \ {0}
  PROVE  a \div p \in Nat /\ p * (a \div p) <= a /\ a < p * (a \div p) + p
OBVIOUS

\* What a price buys: rounded up, so never cheaper than the price.
LEMMA SharesBounds ==
  ASSUME NEW usd \in Nat, NEW price \in Nat \ {0}
  PROVE  /\ Shares(usd, price) \in Nat
         /\ 100 * usd <= price * Shares(usd, price)
         /\ Shares(usd, price) <= 100 * usd
<1>1. PICK a, q : a \in Nat /\ a = usd * 100 + price - 1 /\ q = Shares(usd, price)
      OBVIOUS
<1>2. q \in Nat /\ price * q <= a /\ a < price * q + price
      BY <1>1, Divides DEF Shares
<1>3. 100 * usd <= price * q
      BY <1>1, <1>2
<1>4. ASSUME q >= 100 * usd + 1 PROVE FALSE
  <2>1. price * q >= price * (100 * usd + 1)
        BY <1>2, <1>4
  <2>2. price * (100 * usd + 1) = price * (100 * usd) + price /\ price * (100 * usd) >= 100 * usd
        OBVIOUS
  <2> QED BY <1>1, <1>2, <2>1, <2>2
<1> QED BY <1>1, <1>2, <1>3, <1>4

LEMMA SpendStays ==
  ASSUME NEW usd \in Nat, NEW limit \in Nat \ {0}, NEW w \in Walked(usd, limit), NEW level \in Level
  PROVE  Spend(limit, w, level) \in Walked(usd, limit)
<1>1. CASE Passed(limit, level)
      BY <1>1 DEF Spend
<1>2. CASE ~Passed(limit, level)
  <2>1. /\ level.price \in Nat \ {0} /\ level.price <= limit /\ level.size \in Nat
        /\ level.price * level.size \in Nat
        BY <1>2 DEF Passed, Level
  <2>2. PICK u : u = Least(w.left, (level.price * level.size) \div 100)
        OBVIOUS
  <2>3. u \in Nat /\ u <= w.left
    <3>1. (level.price * level.size) \div 100 \in Nat
          BY <2>1, Divides
    <3> QED BY <2>2, <3>1 DEF Least, Walked
  <2>4. PICK q : q = Shares(u, level.price)
        OBVIOUS
  <2>5. q \in Nat /\ 100 * u <= level.price * q /\ q <= 100 * u
        BY <2>1, <2>3, <2>4, SharesBounds
  <2>6. 100 * u <= limit * q
    <3>1. PICK p \in Nat : p = level.price /\ p <= limit
          BY <2>1
    <3>2. p * q <= limit * q
          BY <2>5, <3>1
    <3> QED BY <2>3, <2>5, <3>1, <3>2
  <2>7. Spend(limit, w, level) = [left |-> w.left - u, usd |-> w.usd + u, quantity |-> w.quantity + q]
        BY <1>2, <2>2, <2>4 DEF Spend
  <2>8. /\ w.left \in Nat /\ w.usd \in Nat /\ w.quantity \in Nat
        /\ w.left + w.usd = usd /\ w.quantity <= 100 * w.usd /\ 100 * w.usd <= limit * w.quantity
        BY DEF Walked
  <2>9. 100 * (w.usd + u) <= limit * (w.quantity + q)
        BY <2>3, <2>5, <2>6, <2>8
  <2> QED BY <2>3, <2>5, <2>7, <2>8, <2>9 DEF Walked
<1> QED BY <1>1, <1>2

\* The last level of a part of the book.
LEMMA LastLevel ==
  ASSUME NEW n \in Nat
  PROVE  Chooses([s \in SUBSET (1..n) |-> Max(s)], 1..n)
<1> DEFINE Good == {k \in Nat : \A s \in SUBSET (1..k) : s # {} => \E x \in s : \A y \in s : x >= y}
<1>1. 0 \in Good
  <2>1. 1..0 = {}
        OBVIOUS
  <2> QED BY <2>1
<1>2. ASSUME NEW k \in Nat, k \in Good PROVE k + 1 \in Good
  <2>1. ASSUME NEW s \in SUBSET (1..(k + 1)), s # {} PROVE \E x \in s : \A y \in s : x >= y
    <3>1. CASE k + 1 \in s
          BY <3>1
    <3>2. CASE k + 1 \notin s
      <4>1. s \in SUBSET (1..k)
            BY <3>2
      <4> QED BY <1>2, <2>1, <4>1
    <3> QED BY <3>1, <3>2
  <2> QED BY <2>1
<1> HIDE DEF Good
<1>3. n \in Good
      BY <1>1, <1>2, CountedInduction
<1>4. \A s \in SUBSET (1..n) : s # {} => Max(s) \in s
      BY <1>3 DEF Good, Max
<1> QED BY <1>4 DEF Chooses

LEMMA WalkBounds ==
  ASSUME NEW usd \in Nat, NEW limit \in Nat \ {0}, NEW levels \in Seq(Level)
  PROVE  Walk(usd, limit, levels) \in Walked(usd, limit)
<1> DEFINE S == DOMAIN levels
           base == [left |-> usd, usd |-> 0, quantity |-> 0]
           Equation(g) == g = [s \in SUBSET S |->
                                 IF s = {} THEN base
                                 ELSE Spend(limit, g[s \ {Max(s)}], levels[Max(s)])]
           walk == CHOOSE g : Equation(g)
           c == [s \in SUBSET S |-> Max(s)]
           h == [p \in S \X Walked(usd, limit) |-> Spend(limit, p[2], levels[p[1]])]
<1>1. Walk(usd, limit, levels) = walk[S]
      BY Zenon DEF Walk, FoldLeft, MapThenFoldSet
<1>2. PICK n \in Nat : S = 1..n
      OBVIOUS
<1>3. Chooses(c, S) /\ IsFiniteSet(S)
  <2>1. 1 \in Int /\ n \in Int
        OBVIOUS
  <2> HIDE DEF S
  <2> QED BY <1>2, <2>1, LastLevel, FS_Interval
<1>4. base \in Walked(usd, limit)
      BY DEF Walked
<1>5. Maps(h, S, Walked(usd, limit))
  <2>1. ASSUME NEW x \in S, NEW w \in Walked(usd, limit)
        PROVE  Spend(limit, w, levels[x]) \in Walked(usd, limit)
    <3>1. levels[x] \in Level
          OBVIOUS
    <3> QED BY <3>1, SpendStays
  <2> QED BY <2>1 DEF Maps
<1>6. PICK g \in [SUBSET S -> Walked(usd, limit)] : IsFold(g, S, base, c, h)
  <2> HIDE DEF S, base, c, h
  <2> QED BY <1>3, <1>4, <1>5, FoldExists
<1>7. Equation(g)
  <2>1. ASSUME NEW s \in SUBSET S, s # {}
        PROVE  g[s] = Spend(limit, g[s \ {Max(s)}], levels[Max(s)])
    <3> DEFINE x == Max(s)
    <3>1. x \in S /\ c[s] = x /\ s \ {x} \in SUBSET S
          BY <1>3, <2>1 DEF Chooses
    <3> HIDE DEF x
    <3>2. g[s] = h[<<x, g[s \ {x}]>>] /\ g[s \ {x}] \in Walked(usd, limit)
          BY <1>6, <2>1, <3>1 DEF IsFold
    <3>3. g[s] = Spend(limit, g[s \ {x}], levels[x])
          BY <3>1, <3>2
    <3> QED BY <3>3 DEF x
  <2> QED BY <1>6, <2>1 DEF IsFold
<1>8. Equation(walk)
      BY <1>7
<1> HIDE DEF walk
<1> DEFINE Holds == {s \in SUBSET S : walk[s] \in Walked(usd, limit)}
<1>9. {} \in Holds
      BY <1>4, <1>8
<1>10. ASSUME NEW s \in SUBSET S, s # {}, s \ {c[s]} \in Holds PROVE s \in Holds
  <2>1. /\ Max(s) \in S /\ c[s] = Max(s)
        /\ walk[s \ {Max(s)}] \in Walked(usd, limit)
        BY <1>3, <1>10 DEF Chooses
  <2>2. walk[s] = Spend(limit, walk[s \ {Max(s)}], levels[Max(s)])
        BY <1>8, <1>10
  <2>3. levels[Max(s)] \in Level
        BY <2>1
  <2> QED BY <2>1, <2>2, <2>3, SpendStays
<1>11. SUBSET S \subseteq Holds
  <2> HIDE DEF Holds, S, c
  <2> QED BY ONLY <1>3, <1>9, <1>10, SubsetInduction
<1> QED BY <1>1, <1>11

\* A fill keeps the order's size and its limit.
LEMMA FillBounds ==
  ASSUME NEW usd \in Nat, NEW limit \in 1..99, NEW row, row.asks \in Seq(Level)
  PROVE  LET fill == Fill(usd, limit, row)
         IN  /\ fill.usd \in Nat /\ fill.quantity \in Nat /\ fill.usd <= usd
             /\ fill.quantity > 0 => fill.usd > 0 /\ Average(fill) \in 1..limit
<1>1. Offered(usd, limit, row) \in Seq(Level)
  <2>1. (usd * 100) \div limit + 1 \in Int
        BY Divides
  <2>2. [price |-> limit, size |-> (usd * 100) \div limit + 1] \in Level
        BY <2>1 DEF Level
  <2> QED BY <2>2 DEF Offered
<1>2. PICK w \in Walked(usd, limit) : w = Fill(usd, limit, row)
      BY <1>1, WalkBounds DEF Fill
<1>3. /\ w.left \in Nat /\ w.usd \in Nat /\ w.quantity \in Nat /\ w.left + w.usd = usd
      /\ w.quantity <= 100 * w.usd /\ 100 * w.usd <= limit * w.quantity
      BY DEF Walked
<1>4. ASSUME w.quantity > 0 PROVE w.usd > 0 /\ Average(w) \in 1..limit
  <2>1. PICK a \in Nat, q \in Nat \ {0} : a = w.usd * 100 /\ q = w.quantity
        BY <1>3, <1>4
  <2>2. q <= a /\ a <= limit * q
        BY <1>3, <2>1
  <2>3. a \div q \in 1..limit
        BY <2>2
  <2> QED BY <1>3, <1>4, <2>1, <2>3 DEF Average
<1> QED BY <1>2, <1>3, <1>4

-----------------------------------------------------------------------------
(***************************************************************************)
(* What is quoted is numbers, and so is what is decided from it.           *)
(***************************************************************************)
Numeric(row) == {row.yes, row.bid, row.ask, row.spread} \subseteq Int /\ row.asks \in Seq(Level)

IsRow(row) ==
    row = [category |-> row.category, liquidity |-> row.liquidity, question |-> row.question,
           yes |-> row.yes, bid |-> row.bid, ask |-> row.ask, spread |-> row.spread,
           asks |-> row.asks]

IsState(state) ==
    /\ {state.bid, state.ask, state.last, state.mid, state.spread} \subseteq Int
    /\ state.asks \in Seq(Level)

LEMMA Quoted ==
  ASSUME NEW m \in Markets
  PROVE  /\ \A q \in Quotes[m] : IsRow(Row(q)) /\ Numeric(Row(q))
         /\ \A message \in Messages[m] : IsState(LiveState(message))
<1>1. \A q \in Quotes[m] : IsRow(Row(q))
  BY DEF Row, Enriched, IsRow
<1> QED
  BY <1>1, QuotesAssumption DEF Numeric, IsState

LEMMA Overlaid ==
  ASSUME NEW row, IsRow(row), Numeric(row), NEW state, state = None \/ IsState(state)
  PROVE  Numeric(ApplyLiveState(row, state))
<1>1. CASE state = None
  BY <1>1 DEF ApplyLiveState
<1>2. CASE state # None
  <2> DEFINE bid  == OrElse(state.bid, row.bid)
             ask  == OrElse(state.ask, row.ask)
             yes  == OrElse(state.mid, OrElse(state.last, row.yes))
             spread == IF state.spread > 0 THEN state.spread
                       ELSE IF bid > 0 /\ ask > 0 THEN ask - bid ELSE row.spread
             asks == IF state.asks # <<>> THEN state.asks ELSE row.asks
  <2>1. {bid, ask, yes, spread} \subseteq Int /\ asks \in Seq(Level)
    BY <1>2 DEF Numeric, IsState, OrElse
  <2>2. ApplyLiveState(row, state) = [row EXCEPT !.bid = bid, !.ask = ask, !.yes = yes,
                                                 !.spread = spread, !.asks = asks]
    BY <1>2 DEF ApplyLiveState, IsRow
  <2> HIDE DEF bid, ask, yes, spread, asks
  <2> QED
    BY <2>1, <2>2 DEF IsRow, Numeric
<1> QED
  BY <1>1, <1>2

LEMMA ProbabilityIsNumber ==
  ASSUME NEW row, Numeric(row)
  PROVE  MarketProbability(row) \in Int /\ ExecutablePrice(row) \in Int
BY DEF Numeric, MarketProbability, ExecutablePrice, OrElse

\* A candidate's estimate is below a dollar and away from its price.
LEMMA DecisionNumbers ==
  ASSUME NEW row, IsRow(row), Numeric(row), NEW state, state = None \/ IsState(state),
         NEW s \in Signals
  PROVE  LET d == Decision(row, state, s)
         IN  /\ d.price \in Int /\ d.our \in 1..99 /\ d.edge \in Int /\ d.edge = d.our - d.price
             /\ d.price = ExecutablePrice(ApplyLiveState(row, state))
             /\ d.candidate => Abs(d.our - d.price) >= EdgeThreshold
<1>1. Numeric(ApplyLiveState(row, state))
  BY Overlaid
<1>2. PICK now, before, price :
         /\ {now, before, price} \subseteq Int
         /\ now = MarketProbability(ApplyLiveState(row, state))
         /\ before = MarketProbability(row)
         /\ price = ExecutablePrice(ApplyLiveState(row, state))
  BY <1>1, ProbabilityIsNumber
<1>3. {s.delta, s.confidence, s.reliability} \subseteq Int
  BY DEF Signals, Understood, ValidAIOutput, DisabledSignal
<1>4. PricedInMultiplier(s.risk) \in Int
  BY DEF PricedInMultiplier
<1>5. PICK news \in Int : news = (s.delta * s.confidence * s.reliability
                                  * PricedInMultiplier(s.risk)) \div 1000000
  <2>1. PICK a, b, c, d : /\ {a, b, c, d} \subseteq Int
                          /\ a = s.delta /\ b = s.confidence /\ c = s.reliability
                          /\ d = PricedInMultiplier(s.risk)
    BY <1>3, <1>4
  <2>2. a * b * c * d \in Int
    BY <2>1
  <2> QED
    BY <2>1, <2>2
<1>6. PICK momentum \in Int : momentum = IF state = None THEN 0 ELSE (30 * (now - before)) \div 100
  BY <1>2
<1>7. OurProbability(row, state, s) = Clamp(now + news + momentum, 1, 99)
  BY <1>2, <1>5, <1>6 DEF OurProbability
<1>8. OurProbability(row, state, s) \in 1..99
  BY <1>2, <1>5, <1>6, <1>7 DEF Clamp
<1> QED
  BY <1>2, <1>8 DEF Decision

-----------------------------------------------------------------------------
(***************************************************************************)
(* The markets.                                                            *)
(***************************************************************************)
Listed == {Row(q) : q \in UNION {Quotes[m] : m \in Markets}}
States == {LiveState(message) : message \in UNION {Messages[m] : m \in Markets}}

\* Every row is one that an answer of the exchange makes and that may be traded.
MarketsOK ==
    /\ rows \in [Markets -> Listed]
    /\ \A m \in Markets :
          \E q \in Quotes[m] : rows[m] = Row(q) /\ AfterEnrichmentTradable(Row(q))
    /\ live \in [Markets -> States \cup {None}]
    /\ \A m \in Markets : live[m] # None => \E message \in Messages[m] : live[m] = LiveState(message)
    /\ hours \in [Markets -> Remaining \cup {InitialHours, 24}]

LEMMA HoursLeftIsOne ==
  ASSUME NEW item, NEW h \in Remaining \cup {InitialHours, 24}
  PROVE  HoursLeft(item, h) \in Remaining \cup {InitialHours, 24}
BY DEF HoursLeft

LEMMA MarketsInit == Init => MarketsOK
<1> SUFFICES ASSUME Init PROVE MarketsOK
  OBVIOUS
<1>1. PICK quote \in [Markets -> UNION {Quotes[m] : m \in Markets}] :
         /\ \A m \in Markets : quote[m] \in Quotes[m] /\ Selected(quote[m], InitialHours)
         /\ rows = [m \in Markets |-> Row(quote[m])]
         /\ hours = [m \in Markets |-> HoursLeft(quote[m].item, InitialHours)]
  BY DEF Init
<1>2. rows \in [Markets -> Listed]
  BY <1>1 DEF Listed
<1>3. ASSUME NEW m \in Markets
      PROVE  \E q \in Quotes[m] : rows[m] = Row(q) /\ AfterEnrichmentTradable(Row(q))
  BY <1>1 DEF Selected
<1>4. hours \in [Markets -> Remaining \cup {InitialHours, 24}]
  BY <1>1, HoursLeftIsOne
<1>5. live = [m \in Markets |-> None]
  BY DEF Init
<1> QED
  BY <1>2, <1>3, <1>4, <1>5 DEF MarketsOK

\* Only refreshes, messages and time change a market.
LEMMA LoopLeavesMarkets == LoopStep \/ CloseRequest \/ SaveTrade("request") => UNCHANGED market
BY DEF LoopStep, market, loop, RunOnce, NextArticle, AnalyzeFails, Calculate, ReadMarket, Query, Evaluate,
       PlaceOrder, SavePosition, ListOpen, Mark, Marking, Exit, SaveTrade, RunDone, CloseRequest

LEMMA MarketsStep == MarketsOK /\ [Next]_vars => MarketsOK'
<1> SUFFICES ASSUME MarketsOK, [Next]_vars PROVE MarketsOK'
  OBVIOUS
<1>1. ASSUME NEW m \in Markets, Refresh(m) PROVE MarketsOK'
  <2>1. PICK q \in Quotes[m] : /\ Selected(q, hours[m])
                               /\ rows' = [rows EXCEPT ![m] = Row(q)]
                               /\ hours' = [hours EXCEPT ![m] = HoursLeft(q.item, @)]
    BY <1>1 DEF Refresh
  <2>2. Row(q) \in Listed
    BY DEF Listed
  <2>3. hours' \in [Markets -> Remaining \cup {InitialHours, 24}]
    BY <2>1, HoursLeftIsOne DEF MarketsOK
  <2>4. rows' \in [Markets -> Listed]
    BY <2>1, <2>2 DEF MarketsOK
  <2>5. ASSUME NEW k \in Markets
        PROVE  \E r \in Quotes[k] : rows'[k] = Row(r) /\ AfterEnrichmentTradable(Row(r))
    BY <2>1 DEF MarketsOK, Selected
  <2> QED
    BY <1>1, <2>3, <2>4, <2>5 DEF Refresh, MarketsOK
<1>2. ASSUME NEW m \in Markets, Receive(m) PROVE MarketsOK'
  <2>1. PICK message \in Messages[m] : live' = [live EXCEPT ![m] = LiveState(message)]
    BY <1>2 DEF Receive, SaveLiveMarketState
  <2>2. LiveState(message) \in States
    BY DEF States
  <2>3. live' \in [Markets -> States \cup {None}]
    BY <2>1, <2>2 DEF MarketsOK
  <2>4. ASSUME NEW k \in Markets, live'[k] # None
        PROVE  \E x \in Messages[k] : live'[k] = LiveState(x)
    BY <2>1, <2>4 DEF MarketsOK
  <2> QED
    BY <1>2, <2>3, <2>4 DEF Receive, MarketsOK
<1>3. ASSUME NEW m \in Markets, Pass(m) PROVE MarketsOK'
  BY <1>3 DEF Pass, MarketsOK
<1>4. CASE UNCHANGED market
  BY <1>4 DEF market, MarketsOK
<1> QED
  BY <1>1, <1>2, <1>3, <1>4, LoopLeavesMarkets DEF Next, vars

\* What the loop reads of a market is numbers.
LEMMA MarketRead ==
  ASSUME MarketsOK, NEW m \in Markets
  PROVE  /\ IsRow(rows[m]) /\ Numeric(rows[m]) /\ rows[m].spread <= MarketMaxSpread
         /\ live[m] = None \/ IsState(live[m])
         /\ Numeric(WithLiveState(m))
         /\ hours[m] \in Remaining \cup {InitialHours, 24}
<1>1. IsRow(rows[m]) /\ Numeric(rows[m]) /\ rows[m].spread <= MarketMaxSpread
  BY Quoted DEF MarketsOK, AfterEnrichmentTradable
<1>2. live[m] = None \/ IsState(live[m])
  BY Quoted DEF MarketsOK
<1> QED
  BY <1>1, <1>2, Overlaid DEF MarketsOK, WithLiveState, GetMarket, GetLiveMarketState

-----------------------------------------------------------------------------
(***************************************************************************)
(* The tables, and what the monitor and the closers hold of them.          *)
(***************************************************************************)
CopiesOK ==
    /\ \A copy \in copies : copy[1] \in DOMAIN positions /\ copy[2] \in Position
    /\ closing \in [Closers -> Position \cup {None}]

Deciding == pc \in {"evaluate", "portfolio", "order", "position"}

\* A candidate is away from its price; an order and what it bought are below
\* the estimate by the edge asked for.
ProbOK ==
    /\ Deciding => prob.market \in Markets
    /\ pc \in {"evaluate", "portfolio"} =>
          /\ prob.price \in Int /\ prob.our \in 1..99
          /\ Abs(prob.our - prob.price) >= EdgeThreshold
    /\ pc = "order" =>
          /\ prob.price \in 1..99 /\ prob.our \in 1..99 /\ prob.price + EdgeThreshold <= prob.our
          /\ prob.size \in Nat /\ prob.value \in Int
    /\ pc = "position" =>
          /\ prob.value \in Int
          /\ prob.fill.usd \in Nat \ {0} /\ prob.fill.quantity \in Nat \ {0}
          /\ Average(prob.fill) \in 1..99 /\ Average(prob.fill) + EdgeThreshold <= prob.our

\* UpdatePosition of table ps, and UpdateTrade of table ts.
UpdatedBy(qs, ps, i, p) ==
    qs = [ps EXCEPT ![i].price = p.price, ![i].exposure = p.exposure,
                    ![i].pnl = p.pnl, ![i].status = p.status]

ClosedWith(us, ts, i, pnl) == us = [ts EXCEPT ![i].status = "closed", ![i].pnl = pnl]

LEMMA Updated ==
  ASSUME NEW ps \in Seq(Position), NEW i \in DOMAIN ps, NEW p \in Position,
         NEW qs, UpdatedBy(qs, ps, i, p)
  PROVE  /\ qs \in Seq(Position) /\ Len(qs) = Len(ps) /\ DOMAIN qs = DOMAIN ps
         /\ \A j \in DOMAIN ps : j # i => qs[j] = ps[j]
         /\ \A j \in DOMAIN ps : qs[j].market = ps[j].market
         /\ qs[i].exposure = p.exposure /\ qs[i].status = p.status /\ qs[i].price = p.price
<1>1. PICK r : r = [ps[i] EXCEPT !.price = p.price, !.exposure = p.exposure, !.pnl = p.pnl,
                                 !.status = p.status]
  OBVIOUS
<1>2. ps[i] \in Position
  OBVIOUS
<1>3. /\ r \in Position /\ r.market = ps[i].market
      /\ r.exposure = p.exposure /\ r.status = p.status /\ r.price = p.price
  BY <1>1, <1>2 DEF Position
<1>4. qs = [ps EXCEPT ![i] = r]
  BY <1>1, <1>2 DEF Position, UpdatedBy
<1> QED
  BY <1>3, <1>4

LEMMA UpdatedTrade ==
  ASSUME NEW ts \in Seq(Trade), NEW i \in DOMAIN ts, NEW pnl \in Int,
         NEW us, ClosedWith(us, ts, i, pnl)
  PROVE  /\ us \in Seq(Trade) /\ Len(us) = Len(ts) /\ DOMAIN us = DOMAIN ts
         /\ \A j \in DOMAIN ts : j # i => us[j] = ts[j]
         /\ us[i].size = ts[i].size /\ us[i].status = "closed"
<1>1. PICK r : r = [ts[i] EXCEPT !.status = "closed", !.pnl = pnl]
  OBVIOUS
<1>2. ts[i] \in Trade
  OBVIOUS
<1>3. r \in Trade /\ r.size = ts[i].size /\ r.status = "closed"
  BY <1>1, <1>2 DEF Trade
<1>4. us = [ts EXCEPT ![i] = r]
  BY <1>1, <1>2 DEF Trade, ClosedWith
<1>5. us \in Seq(Trade) /\ Len(us) = Len(ts) /\ DOMAIN us = DOMAIN ts
  BY ONLY <1>3, <1>4, ts \in Seq(Trade), i \in DOMAIN ts
<1>6. us[i] = r /\ \A j \in DOMAIN ts : j # i => us[j] = ts[j]
  BY ONLY <1>4, ts \in Seq(Trade), i \in DOMAIN ts
<1> QED
  BY <1>3, <1>5, <1>6

LEMMA MarkedIsPosition ==
  ASSUME MarketsOK, NEW p \in Position
  PROVE  /\ Marked(p) \in Position /\ Marked(p).exposure = p.exposure
         /\ Marked(p).price = OrElse(WithLiveState(p.market).bid, WithLiveState(p.market).yes)
<1>1. p.market \in Markets /\ p.entry \in Int /\ p.quantity \in Int
  BY DEF Position
<1>2. PICK price \in Int :
         price = OrElse(WithLiveState(p.market).bid, WithLiveState(p.market).yes)
  BY <1>1, MarketRead DEF Numeric, OrElse
<1>3. PICK pnl \in Int : pnl = ((price - p.entry) * p.quantity) \div 100
  <2>1. PICK a \in Int : a = (price - p.entry) * p.quantity
    BY <1>1, <1>2
  <2> QED
    BY <2>1
<1>4. Marked(p) = [p EXCEPT !.price = price, !.pnl = pnl]
  BY <1>2, <1>3 DEF Marked
<1> QED
  BY <1>2, <1>3, <1>4 DEF Position

LEMMA ClosedIsPosition ==
  ASSUME MarketsOK, NEW p \in Position
  PROVE  /\ Closed(p) \in Position /\ Closed(p).exposure = p.exposure
         /\ Closed(p).status = "closed"
         /\ Closed(p).price = OrElse(GetMarket(p.market).bid, p.price)
<1>1. p.market \in Markets /\ p.price \in Int
  BY DEF Position
<1>2. PICK price \in Int : price = OrElse(GetMarket(p.market).bid, p.price)
  BY <1>1, MarketRead DEF Numeric, OrElse, GetMarket
<1>3. Closed(p) = [p EXCEPT !.status = "closed", !.price = price, !.pnl = 0]
  BY <1>2 DEF Closed
<1>4. PICK q : q = [p EXCEPT !.status = "closed", !.price = price, !.pnl = 0]
  OBVIOUS
<1>5. q \in Position /\ q.exposure = p.exposure /\ q.status = "closed" /\ q.price = price
  <2>1. q.exposure = p.exposure /\ q.status = "closed" /\ q.price = price
    BY ONLY <1>2, <1>4, p \in Position DEF Position
  <2>2. q = [market |-> p.market, quantity |-> p.quantity, exposure |-> p.exposure,
             entry |-> p.entry, price |-> price, pnl |-> 0, status |-> "closed"]
    BY ONLY <1>4, p \in Position DEF Position
  <2>3. q \in Position
    BY ONLY <1>2, <2>2, p \in Position DEF Position
  <2> QED
    BY <2>1, <2>3
<1> QED
  BY <1>2, <1>3, <1>4, <1>5

\* Closing a position saves it, and the closer holds what it saved.
LEMMA SaveClosedKeeps ==
  ASSUME MarketsOK, TablesOK, CopiesOK, NEW closer \in Closers, NEW i \in DOMAIN positions,
         SaveClosed(closer, i)
  PROVE  /\ positions' \in Seq(Position) /\ DOMAIN positions' = DOMAIN positions
         /\ closing' \in [Closers -> Position \cup {None}]
<1>1. positions \in Seq(Position) /\ positions[i] \in Position
  BY DEF TablesOK
<1>2. PICK p \in Position : p = Closed(positions[i])
  BY <1>1, ClosedIsPosition
<1>3. positions' \in Seq(Position) /\ DOMAIN positions' = DOMAIN positions
  <2>1. positions' = [positions EXCEPT ![i].price = p.price, ![i].exposure = p.exposure,
                                       ![i].pnl = p.pnl, ![i].status = p.status]
    BY <1>2 DEF SaveClosed, UpdatePosition
  <2>2. PICK ps, qs : ps = positions /\ qs = positions'
    OBVIOUS
  <2>3. UpdatedBy(qs, ps, i, p)
    BY <2>1, <2>2 DEF UpdatedBy
  <2>4. ps \in Seq(Position) /\ i \in DOMAIN ps
    BY <1>1, <2>2
  <2>5. qs \in Seq(Position) /\ DOMAIN qs = DOMAIN ps
    BY ONLY <2>3, <2>4, p \in Position, Updated
  <2> QED
    BY <2>2, <2>5
<1> QED
  BY <1>2, <1>3 DEF SaveClosed, CopiesOK

\* What an order bought is a trade and a position.
LEMMA BoughtIsPosition ==
  ASSUME ProbOK, pc = "position"
  PROVE  [market |-> prob.market, quantity |-> prob.fill.quantity,
          exposure |-> prob.fill.usd, entry |-> Average(prob.fill),
          price |-> Average(prob.fill), pnl |-> 0, status |-> "open"] \in Position
BY DEF ProbOK, Deciding, Position

\* What an order of the loop fills with.
LEMMA OrderFills ==
  ASSUME MarketsOK, ProbOK, pc = "order"
  PROVE  /\ OrderFill.usd \in Nat /\ OrderFill.quantity \in Nat /\ OrderFill.usd <= prob.size
         /\ OrderFill.quantity > 0 =>
               OrderFill.usd > 0 /\ Average(OrderFill) \in 1..prob.price
<1>1. PICK usd, limit, m : usd = prob.size /\ limit = prob.price /\ m = prob.market
  OBVIOUS
<1>2. usd \in Nat /\ limit \in 1..99 /\ m \in Markets
  BY <1>1 DEF ProbOK, Deciding
<1>3. rows[m].asks \in Seq(Level)
  BY <1>2, MarketRead DEF Numeric
<1>4. OrderFill = Fill(usd, limit, rows[m])
  BY <1>1 DEF OrderFill, Order, GetMarket
<1> QED
  BY <1>1, <1>2, <1>3, <1>4, FillBounds

\* What has been decided, bought and sold, and what is held of it.
tables == <<decisions, positions, trades, exits, copies, closing>>

LEMMA TablesStay ==
  \/ \E m \in Markets : Refresh(m) \/ Receive(m) \/ Pass(m)
  \/ RunOnce \/ NextArticle \/ AnalyzeFails \/ ReadMarket \/ Query \/ Evaluate \/ Marking \/ RunDone
  \/ UNCHANGED vars
  => UNCHANGED tables
BY DEF Refresh, Receive, Pass, RunOnce, NextArticle, AnalyzeFails, ReadMarket, Query, Evaluate,
       Marking, RunDone, vars, loop, tables

LEMMA TablesInit == Init => TablesOK /\ CopiesOK
BY DEF Init, TablesOK, CopiesOK

LEMMA TablesStep ==
  ASSUME MarketsOK, TablesOK, CopiesOK, ProbOK, matches \in Seq(Markets),
         pc = "matches" => matches # <<>>, [Next]_vars
  PROVE  TablesOK' /\ CopiesOK'
<1>1. CASE Calculate
  <2>1. PICK s, m, d :
           /\ s \in Signals
           /\ m = Head(matches) /\ d = Decision(GetMarket(m), GetLiveMarketState(m), s)
           /\ SaveProbabilityDecision(m, d.edge)
    BY <1>1 DEF Calculate
  <2>2. m \in Markets
    BY <1>1, <2>1 DEF Calculate
  <2>3. d.edge \in Int
    BY <2>1, <2>2, MarketRead, DecisionNumbers DEF GetMarket, GetLiveMarketState
  <2>4. PICK row : row = [market |-> m, edge |-> d.edge]
    OBVIOUS
  <2>5. row \in [market : Markets, edge : Int]
    BY <2>2, <2>3, <2>4
  <2>6. decisions' \in Seq([market : Markets, edge : Int])
    BY <2>1, <2>4, <2>5 DEF SaveProbabilityDecision, TablesOK
  <2>7. UNCHANGED <<positions, trades, exits, copies, closing>>
    BY <1>1 DEF Calculate
  <2> QED
    BY <2>6, <2>7 DEF TablesOK, CopiesOK
<1>2. CASE PlaceOrder
  <2>1. UNCHANGED <<decisions, positions, exits, copies, closing>>
    BY <1>2 DEF PlaceOrder
  <2>2. CASE UNCHANGED trades
    BY <2>1, <2>2 DEF TablesOK, CopiesOK
  <2>3. ASSUME ~UNCHANGED trades PROVE trades' \in Seq(Trade)
    <3>1. /\ pc = "order" /\ OrderFill.quantity > 0
          /\ trades' = Append(trades, [market |-> prob.market, size |-> OrderFill.usd, pnl |-> 0,
                                       quantity |-> OrderFill.quantity, status |-> "open"])
      BY <1>2, <2>3 DEF PlaceOrder
    <3>2. PICK size, quantity : size = OrderFill.usd /\ quantity = OrderFill.quantity
      OBVIOUS
    <3>3. size \in Nat \ {0} /\ quantity \in Nat \ {0}
      BY <3>1, <3>2, OrderFills
    <3>4. PICK row : row = [market |-> prob.market, size |-> size, pnl |-> 0,
                            quantity |-> quantity, status |-> "open"]
      OBVIOUS
    <3>5. row \in Trade
      BY <3>1, <3>3, <3>4 DEF Trade, ProbOK, Deciding
    <3> QED
      BY <3>1, <3>2, <3>4, <3>5 DEF TablesOK
  <2> QED
    BY <2>1, <2>2, <2>3 DEF TablesOK, CopiesOK
<1>3. CASE SavePosition
  <2>1. UNCHANGED <<decisions, trades, exits, copies, closing>>
    BY <1>3 DEF SavePosition
  <2>2. PICK p : p = [market |-> prob.market, quantity |-> prob.fill.quantity,
                      exposure |-> prob.fill.usd, entry |-> Average(prob.fill),
                      price |-> Average(prob.fill), pnl |-> 0, status |-> "open"]
    OBVIOUS
  <2>3. p \in Position
    BY <1>3, <2>2, BoughtIsPosition DEF SavePosition
  <2>4. positions' = Append(positions, p)
    BY <1>3, <2>2 DEF SavePosition
  <2>5. positions' \in Seq(Position) /\ DOMAIN positions \subseteq DOMAIN positions'
    BY <2>3, <2>4 DEF TablesOK
  <2> QED
    BY <2>1, <2>5 DEF TablesOK, CopiesOK
<1>4. CASE ListOpen
  <2>1. UNCHANGED <<decisions, positions, trades, exits, closing>>
    BY <1>4 DEF ListOpen
  <2>2. copies' = {<<i, positions[i]>> : i \in Open(positions)}
    BY <1>4 DEF ListOpen
  <2>3. \A copy \in copies' : copy[1] \in DOMAIN positions /\ copy[2] \in Position
    BY <2>2 DEF Open, TablesOK
  <2> QED
    BY <2>1, <2>3 DEF TablesOK, CopiesOK
<1>5. CASE Mark
  <2>1. UNCHANGED <<decisions, trades, closing>>
    BY <1>5 DEF Mark
  <2>2. PICK copy \in copies :
           /\ UpdatePosition(copy[1], Marked(copy[2]))
           /\ copies' = copies \ {copy}
           /\ exits' \subseteq exits \cup {copy[1]}
    BY <1>5 DEF Mark
  <2>3. PICK i, p : i = copy[1] /\ p = Marked(copy[2])
    OBVIOUS
  <2>4. i \in DOMAIN positions /\ p \in Position
    BY <2>3, MarkedIsPosition DEF CopiesOK
  <2>5. PICK ps, qs : ps = positions /\ qs = positions'
    OBVIOUS
  <2>6. UpdatedBy(qs, ps, i, p)
    BY <2>2, <2>3, <2>5 DEF UpdatePosition, UpdatedBy
  <2>7. ps \in Seq(Position) /\ i \in DOMAIN ps
    BY <2>4, <2>5 DEF TablesOK
  <2>8. qs \in Seq(Position) /\ DOMAIN qs = DOMAIN ps
    BY ONLY <2>4, <2>6, <2>7, Updated
  <2> QED
    BY <2>1, <2>2, <2>3, <2>4, <2>5, <2>8 DEF TablesOK, CopiesOK
<1>6. CASE Exit
  <2>1. PICK i \in exits : SaveClosed("loop", i) /\ exits' = exits \ {i}
    BY <1>6 DEF Exit
  <2>2. i \in DOMAIN positions /\ "loop" \in Closers
    BY <2>1 DEF TablesOK, Closers
  <2>3. /\ positions' \in Seq(Position) /\ DOMAIN positions' = DOMAIN positions
        /\ closing' \in [Closers -> Position \cup {None}]
    BY <2>1, <2>2, SaveClosedKeeps
  <2>4. UNCHANGED <<decisions, trades, copies>>
    BY <1>6 DEF Exit
  <2> QED
    BY <2>1, <2>3, <2>4 DEF TablesOK, CopiesOK
<1>7. CASE CloseRequest
  <2>1. PICK i \in DOMAIN positions : SaveClosed("request", i)
    BY <1>7 DEF CloseRequest
  <2>2. "request" \in Closers
    BY DEF Closers
  <2>3. /\ positions' \in Seq(Position) /\ DOMAIN positions' = DOMAIN positions
        /\ closing' \in [Closers -> Position \cup {None}]
    BY <2>1, <2>2, SaveClosedKeeps
  <2>4. UNCHANGED <<decisions, trades, exits, copies>>
    BY <1>7 DEF CloseRequest, loop
  <2> QED
    BY <2>1, <2>3, <2>4 DEF TablesOK, CopiesOK
<1>8. ASSUME NEW closer \in Closers, SaveTrade(closer) PROVE TablesOK' /\ CopiesOK'
  <2>1. UNCHANGED <<decisions, positions, exits, copies>>
    BY <1>8 DEF SaveTrade, loop
  <2>2. closing' \in [Closers -> Position \cup {None}]
    BY <1>8 DEF SaveTrade, CopiesOK
  <2>3. PICK p : p = closing[closer]
    OBVIOUS
  <2>4. p \in Position
    BY <1>8, <2>3 DEF SaveTrade, CopiesOK
  <2>5. PICK pnl \in Int : pnl = ((p.price - p.entry) * p.quantity) \div 100
    <3>1. p.price \in Int /\ p.entry \in Int /\ p.quantity \in Int
      BY ONLY <2>4 DEF Position
    <3>2. PICK a \in Int : a = (p.price - p.entry) * p.quantity
      BY <3>1
    <3> QED
      BY <3>2
  <2>6. CASE Matching(p) # {}
    <3>1. PICK i \in Matching(p) :
             UpdateTrade(i, [trades[i] EXCEPT !.status = "closed", !.pnl = pnl])
      BY <1>8, <2>3, <2>5, <2>6 DEF SaveTrade
    <3>2. i \in DOMAIN trades
      BY DEF Matching, Open
    <3>3. PICK ts, us : ts = trades /\ us = trades'
      OBVIOUS
    <3>4. ts \in Seq(Trade) /\ i \in DOMAIN ts /\ ts[i] \in Trade
      BY <3>2, <3>3 DEF TablesOK
    <3>5. PICK t : t = [ts[i] EXCEPT !.status = "closed", !.pnl = pnl]
      OBVIOUS
    <3>6. t.status = "closed" /\ t.pnl = pnl
      BY <3>4, <3>5 DEF Trade
    <3>7. ClosedWith(us, ts, i, pnl)
      BY <3>1, <3>3, <3>5, <3>6 DEF UpdateTrade, ClosedWith
    <3>8. us \in Seq(Trade)
      BY ONLY <2>5, <3>4, <3>7, UpdatedTrade
    <3> QED
      BY <2>1, <2>2, <3>3, <3>8 DEF TablesOK, CopiesOK
  <2>7. CASE Matching(p) = {}
    <3>1. PICK row : row = [market |-> p.market, size |-> p.exposure, pnl |-> pnl,
                            quantity |-> p.quantity, status |-> "closed"]
      OBVIOUS
    <3>2. row \in Trade
      BY <2>4, <2>5, <3>1 DEF Position, Trade
    <3>3. trades' = Append(trades, row)
      BY <1>8, <2>3, <2>5, <2>7, <3>1 DEF SaveTrade
    <3> QED
      BY <2>1, <2>2, <3>2, <3>3 DEF TablesOK, CopiesOK
  <2> QED
    BY <2>6, <2>7
<1>9. CASE UNCHANGED tables
  BY <1>9 DEF tables, TablesOK, CopiesOK
<1>10. "loop" \in Closers /\ "request" \in Closers
  BY DEF Closers
<1> QED
  BY <1>1, <1>2, <1>3, <1>4, <1>5, <1>6, <1>7, <1>8, <1>9, <1>10, TablesStay DEF Next, LoopStep

-----------------------------------------------------------------------------
(***************************************************************************)
(* The loop: what it has left to do, what it decides, what it has read.    *)
(***************************************************************************)
MatchesOK ==
    /\ matches \in Seq(Markets)
    /\ pc = "matches" \/ Deciding => matches # <<>>

AccountOK ==
    /\ DOMAIN account \in {{}, {"trades"}, {"trades", "positions"}}
    /\ DOMAIN account # {} => pc \in {"portfolio", "marks"}
    /\ "trades" \in DOMAIN account =>
          account["trades"].open \in Int /\ account["trades"].realized \in Int
    /\ "positions" \in DOMAIN account =>
          account["positions"].exposure \in Int /\ account["positions"].pnl \in Int

LEMMA LeastOfNats ==
  ASSUME NEW a \in Nat, NEW b \in Nat
  PROVE  Least(a, b) \in Nat /\ Least(a, b) <= a /\ Least(a, b) <= b
BY DEF Least

LEMMA MatchesAreMarkets ==
  ASSUME NEW text, NEW question, DOMAIN question = Markets, NEW ms \in Matches(text, question)
  PROVE  ms \in Seq(Markets) /\ Len(ms) <= MaxAIMatchesPerArticle
<1> DEFINE Score(m) == FinalScore(text, question[m])
           matched  == {m \in DOMAIN question : Score(m) >= NewsMarketMatchThreshold}
           n        == Least(Cardinality(matched), MaxAIMatchesPerArticle)
<1>1. matched \subseteq Markets
  OBVIOUS
<1>2. ms \in [1..n -> matched]
  BY DEF Matches
<1> HIDE DEF matched
<1>3. Cardinality(matched) \in Nat
  BY <1>1, AccountsAssumption, FS_Subset, FS_CardinalityType
<1>4. MaxAIMatchesPerArticle \in Nat
  BY SettingsAssumption
<1>5. n \in Nat /\ n <= MaxAIMatchesPerArticle
  BY <1>3, <1>4, LeastOfNats
<1> HIDE DEF n
<1>6. ms \in Seq(Markets) /\ Len(ms) = n
  BY <1>1, <1>2, <1>5
<1> QED
  BY <1>5, <1>6

LEMMA NextMatchDrops ==
  ASSUME matches \in Seq(Markets), matches # <<>>, NextMatch
  PROVE  /\ matches' \in Seq(Markets) /\ Len(matches') = Len(matches) - 1
         /\ pc' \in {"articles", "matches"} /\ (pc' = "matches" => matches' # <<>>)
         /\ DOMAIN account' = {}
<1>1. matches' = Tail(matches)
  BY DEF NextMatch
<1>2. Tail(matches) \in Seq(Markets) /\ Len(Tail(matches)) = Len(matches) - 1
  OBVIOUS
<1>3. Len(matches) # 1 => Tail(matches) # <<>>
  <2>1. PICK left : left = Tail(matches)
    OBVIOUS
  <2>2. Len(left) # 0 => left # <<>>
    BY <1>2, <2>1, EmptySeq
  <2> QED
    BY <1>2, <2>1, <2>2
<1>4. DOMAIN << >> = {}
  OBVIOUS
<1> QED
  BY <1>1, <1>2, <1>3, <1>4 DEF NextMatch

\* Between two matches nothing is being decided.
LEMMA BetweenMatches ==
  ASSUME MatchesOK, pc = "matches" \/ Deciding, NextMatch
  PROVE  MatchesOK' /\ AccountOK' /\ ProbOK' /\ DOMAIN account' = {}
         /\ pc' \in {"articles", "matches"} /\ ~Deciding'
<1>1. /\ matches' \in Seq(Markets)
      /\ pc' \in {"articles", "matches"} /\ (pc' = "matches" => matches' # <<>>)
      /\ DOMAIN account' = {}
  BY NextMatchDrops DEF MatchesOK
<1> QED
  BY <1>1 DEF MatchesOK, AccountOK, ProbOK, Deciding

LEMMA AnswersAreNumbers ==
  ASSUME TablesOK
  PROVE  /\ Answer("trades").open \in Int /\ Answer("trades").realized \in Int
         /\ Answer("positions").exposure \in Int /\ Answer("positions").pnl \in Int
<1>1. Size(trades, Open(trades) \cap ListTrades) \in Int
  <2>1. Open(trades) \cap ListTrades \in SUBSET DOMAIN trades
    BY DEF Open
  <2> QED
    BY <2>1, SizeShrinks DEF TablesOK
<1>2. PnL(trades, ListTrades) \in Int
  <2>1. \A t \in Trade : t.pnl \in Int
    BY DEF Trade
  <2>2. ListTrades \in SUBSET DOMAIN trades
    BY DEF ListTrades
  <2> QED
    BY <2>1, <2>2, PnLSums DEF TablesOK
<1>3. Exposure(positions, Open(positions)) \in Int
  BY ExposureShrinks DEF TablesOK, Open
<1>4. PnL(positions, Open(positions)) \in Int
  <2>1. \A p \in Position : p.pnl \in Int
    BY DEF Position
  <2>2. Open(positions) \in SUBSET DOMAIN positions
    BY DEF Open
  <2> QED
    BY <2>1, <2>2, PnLSums DEF TablesOK
<1> QED
  BY <1>1, <1>2, <1>3, <1>4 DEF Answer

\* The queries are made in their order.
LEMMA QueryAnswers ==
  ASSUME TablesOK, AccountOK, Query
  PROVE  /\ DOMAIN account = {} \/ DOMAIN account = {"trades"}
         /\ DOMAIN account = {} =>
               DOMAIN account' = {"trades"} /\ account'["trades"] = Answer("trades")
         /\ DOMAIN account = {"trades"} =>
               /\ DOMAIN account' = {"trades", "positions"}
               /\ account'["trades"] = account["trades"]
               /\ account'["positions"] = Answer("positions")
         /\ AccountOK'
<1>1. Cardinality({}) = 0 /\ Cardinality({"trades"}) = 1 /\ Cardinality({"trades", "positions"}) = 2
  <2>1. IsFiniteSet({"trades"}) /\ Cardinality({"trades"}) = 1 /\ Cardinality({}) = 0
    BY FS_Singleton, FS_EmptySet
  <2>2. PICK both : both = {"trades"} \cup {"positions"}
    OBVIOUS
  <2>3. Cardinality(both) = 2
    BY <2>1, <2>2, FS_AddElement
  <2>4. both = {"trades", "positions"}
    BY <2>2
  <2> QED
    BY <2>1, <2>3, <2>4
<1>2. Len(QueryOrder) = 2 /\ QueryOrder[1] = "trades" /\ QueryOrder[2] = "positions"
  BY DEF QueryOrder
<1>3. DOMAIN account = {} \/ DOMAIN account = {"trades"}
  BY <1>1, <1>2 DEF AccountOK, Query
<1>4. CASE DOMAIN account = {}
  <2>1. account' = [t \in {"trades"} |-> IF t = "trades" THEN Answer(t) ELSE account[t]]
    BY <1>1, <1>2, <1>4 DEF Query
  <2>2. DOMAIN account' = {"trades"} /\ account'["trades"] = Answer("trades")
    BY <2>1
  <2> QED
    BY <1>4, <2>2, AnswersAreNumbers DEF AccountOK, Query
<1>5. CASE DOMAIN account = {"trades"}
  <2>1. account' = [t \in {"trades"} \cup {"positions"} |->
                       IF t = "positions" THEN Answer(t) ELSE account[t]]
    BY <1>1, <1>2, <1>5 DEF Query
  <2>2. /\ DOMAIN account' = {"trades", "positions"}
        /\ account'["trades"] = account["trades"]
        /\ account'["positions"] = Answer("positions")
    BY <2>1
  <2> QED
    BY <1>5, <2>2, AnswersAreNumbers DEF AccountOK, Query
<1> QED
  BY <1>3, <1>4, <1>5

LoopOK == ControlOK /\ MatchesOK /\ AccountOK /\ ProbOK

loopVars == <<seen, articles, pc, matches, prob, account>>

LEMMA LoopInit == Init => LoopOK
<1> SUFFICES ASSUME Init PROVE LoopOK
  OBVIOUS
<1>1. DOMAIN account = {}
  BY DEF Init
<1>2. MaxChanges \in Nat /\ MaxRequests \in Nat
  BY AccountsAssumption
<1> QED
  BY <1>1, <1>2 DEF Init, LoopOK, ControlOK, MatchesOK, AccountOK, ProbOK, Deciding

LEMMA PortfolioNumbers ==
  ASSUME AccountOK, Answered
  PROVE  Portfolio.value \in Int /\ Portfolio.realized \in Int /\ Portfolio.openPnL \in Int
<1>1. PaperStartingBalanceUSD \in Int
  BY SettingsAssumption
<1> QED
  BY <1>1 DEF AccountOK, Answered, Portfolio, Value

\* An account that leaves room in a market is worth something, so the size of
\* an order is not negative.
LEMMA SizeIsNumber ==
  ASSUME NEW p, p.price \in 1..99, p.our \in 1..99, p.our > p.price, NEW value \in Int,
         NEW exposure \in Nat, exposure < MarketLimit(value)
  PROVE  PositionSize(p, value) \in Nat
<1>1. PICK k, l \in Nat : k = KellyFraction /\ l = MaxPositionPerMarketPct
  BY SettingsAssumption
<1>2. value \in Nat
  <2>1. PICK u \in Int : u = l * value
    OBVIOUS
  <2>2. u \div 100 > 0
    BY <1>1, <2>1 DEF MarketLimit
  <2>3. u > 0
    BY ONLY <2>2, u \in Int
  <2>4. value < 0 => l * value <= 0
    OBVIOUS
  <2> QED
    BY <2>1, <2>3, <2>4
<1>3. PICK edge \in Nat : edge = p.our - p.price
  OBVIOUS
<1>4. PICK a \in Nat : a = k * edge
  OBVIOUS
<1>5. PICK b \in Nat \ {0} : b = 100 - p.price
  OBVIOUS
<1>6. PICK q \in Nat : q = a \div b
  BY Divides
<1>7. PICK share \in Nat : share = Least(q, l)
  BY DEF Least
<1>8. PICK c \in Nat : c = value * share
  BY <1>2
<1>9. PositionSize(p, value) = c \div 100
  BY <1>1, <1>3, <1>4, <1>5, <1>6, <1>7, <1>8 DEF PositionSize
<1> QED
  BY <1>8, <1>9, Divides

\* The step of the risk engine that approves an order.
Approves ==
    /\ pc = "portfolio" /\ Answered
    /\ Approved(prob, prob.row, hours[prob.market], Portfolio, Cardinality(Open(positions)),
                Exposure(positions, InMarket(positions, prob.market)),
                Exposure(positions, InCategory(positions, prob.market)))
    /\ prob' = [market |-> prob.market, price |-> prob.price, our |-> prob.our,
                size |-> PositionSize(prob, Portfolio.value), value |-> Portfolio.value]
    /\ pc' = "order" /\ account' = <<>> /\ matches' = matches

LEMMA EvaluateCases ==
  ASSUME Evaluate
  PROVE  /\ pc = "portfolio" /\ (Approves \/ NextMatch)
         /\ UNCHANGED <<market, decisions, positions, trades, seen, articles, copies, exits,
                        closing, requests>>
BY DEF Evaluate, Approves

LEMMA ApprovedOrder ==
  ASSUME AccountOK, ProbOK, positions \in Seq(Position), Approves
  PROVE  /\ prob.price \in 1..99 /\ prob.our \in 1..99 /\ prob.price + EdgeThreshold <= prob.our
         /\ PositionSize(prob, Portfolio.value) \in Nat /\ Portfolio.value \in Int
<1>1. PositiveKelly(prob)
  BY DEF Approves, Approved
<1>2. prob.our \in 1..99 /\ Abs(prob.our - prob.price) >= EdgeThreshold
  BY DEF ProbOK, Approves
<1>3. prob.price \in 1..99 /\ prob.our > prob.price
  BY <1>1 DEF PositiveKelly
<1>4. prob.price + EdgeThreshold <= prob.our
  <2>1. PICK price, our, edge : price = prob.price /\ our = prob.our /\ edge = EdgeThreshold
    OBVIOUS
  <2>2. edge \in Nat
    BY <2>1, SettingsAssumption
  <2>3. price \in 1..99 /\ our \in 1..99 /\ our > price /\ Abs(our - price) >= edge
    BY <1>2, <1>3, <2>1
  <2>4. price + edge <= our
    BY ONLY <2>2, <2>3 DEF Abs
  <2> QED
    BY <2>1, <2>4
<1>5. Portfolio.value \in Int
  BY PortfolioNumbers DEF Approves
<1>6. PICK exposure \in Nat : exposure < MarketLimit(Portfolio.value)
  <2>1. InMarket(positions, prob.market) \in SUBSET DOMAIN positions
    BY DEF InMarket, Open
  <2>2. Exposure(positions, InMarket(positions, prob.market)) < MarketLimit(Portfolio.value)
    BY DEF Approves, Approved, Fits
  <2> QED
    BY <2>1, <2>2, ExposureIsNatural
<1> QED
  BY <1>2, <1>3, <1>4, <1>5, <1>6, SizeIsNumber

\* The step that fills an order.
Bought ==
    /\ pc = "order" /\ OrderFill.quantity > 0
    /\ trades' = Append(trades, [market |-> prob.market, size |-> OrderFill.usd, pnl |-> 0,
                                 quantity |-> OrderFill.quantity, status |-> "open"])
    /\ prob' = [market |-> prob.market, our |-> prob.our, value |-> prob.value,
                fill |-> OrderFill]
    /\ pc' = "position" /\ matches' = matches /\ account' = account

LEMMA PlaceOrderCases ==
  ASSUME PlaceOrder
  PROVE  /\ pc = "order" /\ (Bought \/ (NextMatch /\ UNCHANGED trades))
         /\ UNCHANGED <<market, decisions, positions, seen, articles, copies, exits, closing,
                        requests>>
BY DEF PlaceOrder, Bought

LEMMA BoughtFill ==
  ASSUME MarketsOK, ProbOK, Bought
  PROVE  /\ OrderFill.usd \in Nat \ {0} /\ OrderFill.quantity \in Nat \ {0}
         /\ OrderFill.usd <= prob.size
         /\ Average(OrderFill) \in 1..99
         /\ Average(OrderFill) + EdgeThreshold <= prob.our
<1>1. /\ OrderFill.usd \in Nat /\ OrderFill.quantity \in Nat /\ OrderFill.usd <= prob.size
      /\ OrderFill.usd > 0 /\ Average(OrderFill) \in 1..prob.price
  BY OrderFills DEF Bought
<1>2. prob.price \in 1..99 /\ prob.our \in 1..99 /\ prob.price + EdgeThreshold <= prob.our
  BY DEF ProbOK, Bought
<1>3. PICK average : average = Average(OrderFill)
  OBVIOUS
<1>4. average \in 1..99 /\ average + EdgeThreshold <= prob.our
  <2>1. PICK price, our, edge : price = prob.price /\ our = prob.our /\ edge = EdgeThreshold
    OBVIOUS
  <2>2. edge \in Nat
    BY <2>1, SettingsAssumption
  <2>3. price \in 1..99 /\ price + edge <= our /\ average \in 1..price /\ our \in 1..99
    BY <1>1, <1>2, <1>3, <2>1
  <2>4. average \in 1..99 /\ average + edge <= our
    BY ONLY <2>2, <2>3
  <2> QED
    BY <2>1, <2>4
<1> QED
  BY <1>1, <1>3, <1>4 DEF Bought

LEMMA LoopStays ==
  \/ \E m \in Markets : Pass(m) \/ Refresh(m) \/ Receive(m)
  \/ Mark \/ Exit \/ SaveTrade("loop") \/ CloseRequest \/ SaveTrade("request")
  \/ UNCHANGED vars
  => UNCHANGED loopVars
BY DEF Refresh, Receive, Pass, Mark, Exit, SaveTrade, CloseRequest, vars, loop, loopVars

LEMMA LoopPartsStep ==
  ASSUME MarketsOK, TablesOK, LoopOK, [Next]_vars
  PROVE  MatchesOK' /\ AccountOK' /\ ProbOK'
<1>1. ControlOK /\ MatchesOK /\ AccountOK /\ ProbOK
  BY DEF LoopOK
<1>2. DOMAIN << >> = {}
  OBVIOUS
<1>3. CASE RunOnce
  BY <1>1, <1>3 DEF RunOnce, MatchesOK, AccountOK, ProbOK, Deciding
<1>4. CASE NextArticle
  <2>1. PICK a \in articles : matches' \in Matches(Text[a], [m \in Markets |-> rows[m].question])
    BY <1>4 DEF NextArticle
  <2>2. PICK question : question = [m \in Markets |-> rows[m].question]
    OBVIOUS
  <2>3. matches' \in Seq(Markets)
    BY <2>1, <2>2, MatchesAreMarkets
  <2> QED
    BY <1>1, <1>4, <2>3 DEF NextArticle, MatchesOK, AccountOK, ProbOK, Deciding
<1>5. CASE AnalyzeFails
  BY <1>1, <1>5, BetweenMatches DEF AnalyzeFails
<1>6. CASE Calculate
  <2>1. PICK s, m, d :
           /\ s \in Signals
           /\ pc = "matches" /\ m = Head(matches)
           /\ d = Decision(GetMarket(m), GetLiveMarketState(m), s)
           /\ HandleDecision(m, d)
    BY <1>6 DEF Calculate
  <2>2. CASE NextMatch
    BY <1>1, <2>1, <2>2, BetweenMatches
  <2>3. CASE ~NextMatch
    <3>1. /\ d.candidate /\ prob' = [market |-> m, price |-> d.price, our |-> d.our]
          /\ pc' = "evaluate" /\ matches' = matches /\ account' = account
      BY <2>1, <2>3 DEF HandleDecision
    <3>2. m \in Markets
      BY <1>1, <2>1 DEF MatchesOK
    <3>3. d.price \in Int /\ d.our \in 1..99 /\ Abs(d.our - d.price) >= EdgeThreshold
      BY <2>1, <3>1, <3>2, MarketRead, DecisionNumbers DEF GetMarket, GetLiveMarketState
    <3>4. DOMAIN account = {}
      BY <1>1, <2>1 DEF AccountOK
    <3>5. ProbOK'
      BY <3>1, <3>2, <3>3 DEF ProbOK, Deciding
    <3> QED
      BY <1>1, <2>1, <3>1, <3>4, <3>5 DEF MatchesOK, AccountOK, Deciding
  <2> QED
    BY <2>2, <2>3
<1>7. CASE ReadMarket
  <2>1. ProbOK'
    BY <1>1, <1>7 DEF ReadMarket, ProbOK, Deciding
  <2> QED
    BY <1>1, <1>7, <2>1 DEF ReadMarket, MatchesOK, AccountOK, Deciding
<1>8. CASE Query
  <2>1. AccountOK'
    BY <1>1, <1>8, QueryAnswers
  <2> QED
    BY <1>1, <1>8, <2>1 DEF Query, MatchesOK, ProbOK, Deciding
<1>9. CASE Evaluate
  <2>1. pc = "portfolio" /\ (Approves \/ NextMatch)
    BY <1>9, EvaluateCases
  <2>2. CASE NextMatch
    BY <1>1, <2>1, <2>2, BetweenMatches DEF Deciding
  <2>3. CASE Approves
    <3>1. ProbOK'
      BY <1>1, <2>3, ApprovedOrder DEF Approves, ProbOK, Deciding, TablesOK
    <3> QED
      BY <1>1, <1>2, <2>3, <3>1 DEF Approves, MatchesOK, AccountOK, Deciding
  <2> QED
    BY <2>1, <2>2, <2>3
<1>10. CASE PlaceOrder
  <2>1. pc = "order" /\ (Bought \/ NextMatch)
    BY <1>10, PlaceOrderCases
  <2>2. CASE NextMatch
    BY <1>1, <2>1, <2>2, BetweenMatches DEF Deciding
  <2>3. CASE Bought
    <3>1. ProbOK'
      BY <1>1, <2>3, BoughtFill DEF Bought, ProbOK, Deciding
    <3> QED
      BY <1>1, <2>3, <3>1 DEF Bought, MatchesOK, AccountOK, Deciding
  <2> QED
    BY <2>1, <2>2, <2>3
<1>11. CASE SavePosition
  BY <1>1, <1>11, BetweenMatches DEF SavePosition, Deciding
<1>12. CASE ListOpen
  BY <1>1, <1>12 DEF ListOpen, MatchesOK, AccountOK, ProbOK, Deciding
<1>13. CASE Marking
  BY <1>1, <1>2, <1>13 DEF Marking, MatchesOK, AccountOK, ProbOK, Deciding
<1>14. CASE RunDone
  BY <1>1, <1>14 DEF RunDone, MatchesOK, AccountOK, ProbOK, Deciding
<1>15. CASE UNCHANGED loopVars
  BY <1>1, <1>15 DEF loopVars, MatchesOK, AccountOK, ProbOK, Deciding
<1> QED
  BY <1>3, <1>4, <1>5, <1>6, <1>7, <1>8, <1>9, <1>10, <1>11, <1>12, <1>13, <1>14, <1>15,
     LoopStays DEF Next, LoopStep

LEMMA ControlStep ==
  ASSUME TablesOK, LoopOK, [Next]_vars
  PROVE  ControlOK'
<1>1. ControlOK /\ MatchesOK /\ AccountOK
  BY DEF LoopOK
<1>2. DOMAIN << >> = {}
  OBVIOUS
<1>3. ASSUME UNCHANGED <<seen, articles, requests>>, changes' = changes,
             pc' \in {"articles", "matches", "evaluate", "portfolio", "order", "position",
                      "marks", "exits", "idle"},
             DOMAIN account' = {} \/ account' = account
      PROVE  ControlOK'
  BY <1>1, <1>3 DEF ControlOK
<1>4. ASSUME NEW m \in Markets, Refresh(m) \/ Receive(m) \/ Pass(m) PROVE ControlOK'
  <2>1. changes < MaxChanges /\ changes' = changes + 1
    BY <1>4 DEF Refresh, Receive, Pass
  <2>2. UNCHANGED <<seen, articles, requests, pc, account>>
    BY <1>4 DEF Refresh, Receive, Pass, loop
  <2>3. changes' \in 0..MaxChanges
    BY <1>1, <2>1, AccountsAssumption DEF ControlOK
  <2> QED
    BY <1>1, <2>2, <2>3 DEF ControlOK
<1>5. CASE CloseRequest
  <2>1. requests < MaxRequests /\ requests' = requests + 1
    BY <1>5 DEF CloseRequest
  <2>2. UNCHANGED <<seen, articles, changes, pc, account>>
    BY <1>5 DEF CloseRequest, loop, market
  <2>3. requests' \in 0..MaxRequests
    BY <1>1, <2>1, AccountsAssumption DEF ControlOK
  <2> QED
    BY <1>1, <2>2, <2>3 DEF ControlOK
<1>6. CASE RunOnce
  BY <1>1, <1>6 DEF RunOnce, ControlOK, market
<1>7. CASE NextArticle
  BY <1>1, <1>7 DEF NextArticle, ControlOK, market
<1>8. CASE Query
  <2>1. DOMAIN account' \in {{"trades"}, {"trades", "positions"}}
    BY <1>1, <1>8, QueryAnswers
  <2> QED
    BY <1>1, <1>8, <2>1 DEF Query, ControlOK, market
<1>9. CASE AnalyzeFails
  BY <1>1, <1>3, <1>9, NextMatchDrops DEF AnalyzeFails, MatchesOK, market
<1>10. CASE Calculate
  <2>1. pc = "matches" /\ UNCHANGED <<seen, articles, requests, changes>>
    BY <1>10 DEF Calculate, market
  <2>2. NextMatch \/ (pc' = "evaluate" /\ account' = account)
    BY <1>10 DEF Calculate, HandleDecision
  <2> QED
    BY <1>1, <1>3, <2>1, <2>2, NextMatchDrops DEF MatchesOK
<1>11. CASE ReadMarket
  BY <1>3, <1>11 DEF ReadMarket, market
<1>12. CASE Evaluate
  <2>1. UNCHANGED <<seen, articles, requests, changes>> /\ pc = "portfolio"
    BY <1>12, EvaluateCases DEF market
  <2>2. NextMatch \/ (pc' = "order" /\ DOMAIN account' = {})
    BY <1>2, <1>12, EvaluateCases DEF Approves
  <2> QED
    BY <1>1, <1>3, <2>1, <2>2, NextMatchDrops DEF MatchesOK, Deciding
<1>13. CASE PlaceOrder
  <2>1. UNCHANGED <<seen, articles, requests, changes>> /\ pc = "order"
    BY <1>13, PlaceOrderCases DEF market
  <2>2. NextMatch \/ (pc' = "position" /\ account' = account)
    BY <1>13, PlaceOrderCases DEF Bought
  <2> QED
    BY <1>1, <1>3, <2>1, <2>2, NextMatchDrops DEF MatchesOK, Deciding
<1>14. CASE SavePosition
  BY <1>1, <1>3, <1>14, NextMatchDrops DEF SavePosition, MatchesOK, Deciding, market
<1>15. CASE ListOpen
  BY <1>3, <1>15 DEF ListOpen, market
<1>16. CASE Marking
  BY <1>2, <1>3, <1>16 DEF Marking, market
<1>17. CASE RunDone
  BY <1>3, <1>17 DEF RunDone, market
<1>18. CASE Mark
  BY <1>1, <1>18 DEF Mark, ControlOK, market
<1>19. CASE Exit
  BY <1>1, <1>19 DEF Exit, ControlOK, market
<1>20. CASE SaveTrade("loop") \/ SaveTrade("request")
  BY <1>1, <1>20 DEF SaveTrade, ControlOK, market, loop
<1>21. CASE UNCHANGED vars
  BY <1>1, <1>21 DEF vars, ControlOK, market, loop
<1> QED
  BY <1>4, <1>5, <1>6, <1>7, <1>8, <1>9, <1>10, <1>11, <1>12, <1>13, <1>14, <1>15, <1>16,
     <1>17, <1>18, <1>19, <1>20, <1>21 DEF Next, LoopStep

\* The invariant that the rest is proved from.
AccountsInv == MarketsOK /\ TablesOK /\ CopiesOK /\ LoopOK

LEMMA AccountsInvStep == AccountsInv /\ [Next]_vars => AccountsInv'
<1> SUFFICES ASSUME AccountsInv, [Next]_vars PROVE AccountsInv'
  OBVIOUS
<1>1. MarketsOK /\ TablesOK /\ CopiesOK /\ LoopOK
  BY DEF AccountsInv
<1>2. TablesOK' /\ CopiesOK'
  BY <1>1, TablesStep DEF LoopOK, MatchesOK
<1>3. LoopOK'
  BY <1>1, LoopPartsStep, ControlStep DEF LoopOK
<1> QED
  BY <1>1, <1>2, <1>3, MarketsStep DEF AccountsInv

LEMMA AccountsInvariant == Spec => []AccountsInv
<1>1. Init => AccountsInv
  BY MarketsInit, TablesInit, LoopInit DEF AccountsInv
<1> QED
  BY <1>1, AccountsInvStep, PTL DEF Spec

-----------------------------------------------------------------------------
(***************************************************************************)
(* How many decisions and positions there can be: a decision for every     *)
(* match of an article seen that has been dealt with.                      *)
(***************************************************************************)
Count == IF Deciding THEN 1 ELSE 0

CountInv ==
    /\ Len(positions) + Count <= Len(decisions)
    /\ Len(decisions) + Len(matches)
          <= Cardinality(seen) * MaxAIMatchesPerArticle + Count

LEMMA SeenCounts ==
  ASSUME ControlOK
  PROVE  /\ Cardinality(seen) \in Nat /\ Cardinality(seen) <= Cardinality(Articles)
         /\ Cardinality(Articles) \in Nat
         /\ \A a \in articles : Cardinality(seen \cup {a}) = Cardinality(seen) + 1
<1>1. IsFiniteSet(seen) /\ Cardinality(seen) <= Cardinality(Articles)
  BY AccountsAssumption, FS_Subset DEF ControlOK
<1>2. Cardinality(seen) \in Nat /\ Cardinality(Articles) \in Nat
  BY <1>1, AccountsAssumption, FS_CardinalityType
<1>3. \A a \in articles : a \notin seen
  BY DEF ControlOK
<1>4. ASSUME NEW a \in articles PROVE Cardinality(seen \cup {a}) = Cardinality(seen) + 1
  BY <1>1, <1>3, FS_AddElement
<1> QED
  BY <1>1, <1>2, <1>4

LEMMA TimesGrows ==
  ASSUME NEW a \in Nat, NEW b \in Nat, NEW m \in Nat, a <= b
  PROVE  a * m \in Nat /\ b * m \in Nat /\ a * m <= b * m /\ (a + 1) * m = a * m + m
<1>1. PICK d \in Nat : b = a + d
  <2>1. b - a \in Nat /\ b = a + (b - a)
    OBVIOUS
  <2> QED
    BY <2>1
<1>2. a * m \in Nat /\ d * m \in Nat
  OBVIOUS
<1>3. (a + d) * m = a * m + d * m
  OBVIOUS
<1> QED
  BY <1>1, <1>2, <1>3

LEMMA CountInit == Init => CountInv
<1> SUFFICES ASSUME Init PROVE CountInv
  OBVIOUS
<1>1. Cardinality(seen) = 0 /\ Count = 0 /\ decisions = <<>> /\ positions = <<>> /\ matches = <<>>
  BY FS_EmptySet DEF Init, Count, Deciding
<1>2. 0 * MaxAIMatchesPerArticle = 0
  BY SettingsAssumption
<1> QED
  BY <1>1, <1>2 DEF CountInv

\* The parts of the state that are counted.
counted == <<positions, decisions, matches, seen, pc>>

LEMMA CountStep ==
  ASSUME AccountsInv, CountInv, [Next]_vars
  PROVE  CountInv'
<1>1. /\ positions \in Seq(Position) /\ decisions \in Seq([market : Markets, edge : Int])
      /\ matches \in Seq(Markets)
  BY DEF AccountsInv, TablesOK, LoopOK, MatchesOK
<1>2. PICK p, d, m, k, total :
         /\ p = Len(positions) /\ d = Len(decisions) /\ m = Len(matches)
         /\ k = MaxAIMatchesPerArticle /\ total = Cardinality(seen) * k
  OBVIOUS
<1>3. p \in Nat /\ d \in Nat /\ m \in Nat /\ k \in Nat
  <2>1. k \in Nat
    BY <1>2, SettingsAssumption
  <2> QED
    BY <1>1, <1>2, <2>1
<1>4. ControlOK /\ Cardinality(seen) \in Nat
  BY SeenCounts DEF AccountsInv, LoopOK
<1>5. total \in Nat
  BY <1>2, <1>3, <1>4, TimesGrows
<1>6. p + Count <= d /\ d + m <= total + Count
  BY <1>2 DEF CountInv
\* A match is dealt with: what the loop decides on is decided.
<1>7. ASSUME NextMatch, pc = "matches" \/ Deciding, seen' = seen,
             Len(decisions') \in Nat, Len(positions') \in Nat,
             Len(positions') <= Len(decisions'), Len(decisions') <= d + 1 - Count
      PROVE  CountInv'
  <2>1. Len(matches') = m - 1 /\ Count' = 0
    BY <1>1, <1>2, <1>7, NextMatchDrops DEF AccountsInv, LoopOK, MatchesOK, Count, Deciding
  <2>2. Len(decisions') + Len(matches') <= total
    BY <1>3, <1>5, <1>6, <1>7, <2>1 DEF Count
  <2> QED
    BY <1>2, <1>5, <1>7, <2>1, <2>2 DEF CountInv
<1>8. ASSUME Deciding, Deciding', UNCHANGED <<positions, decisions, matches, seen>>
      PROVE  CountInv'
  BY <1>8 DEF CountInv, Count
<1>9. ASSUME ~Deciding, ~Deciding', UNCHANGED <<positions, decisions, matches, seen>>
      PROVE  CountInv'
  BY <1>9 DEF CountInv, Count
<1>10. CASE NextArticle
  <2>1. PICK a \in articles :
           /\ matches' \in Matches(Text[a], [x \in Markets |-> rows[x].question])
           /\ seen' = seen \cup {a}
    BY <1>10 DEF NextArticle
  <2>2. PICK question : question = [x \in Markets |-> rows[x].question]
    OBVIOUS
  <2>3. matches' \in Seq(Markets) /\ Len(matches') <= k
    BY <1>2, <2>1, <2>2, MatchesAreMarkets
  <2>4. Cardinality(seen') = Cardinality(seen) + 1
    BY <1>4, <2>1, SeenCounts
  <2>5. Cardinality(seen') * k = total + k
    BY <1>2, <1>3, <1>4, <2>4, TimesGrows
  <2>6. Count = 0 /\ Count' = 0 /\ UNCHANGED <<positions, decisions>>
    BY <1>10 DEF NextArticle, Count, Deciding
  <2>7. d + Len(matches') <= total + k
    BY <1>3, <1>5, <1>6, <2>3, <2>6
  <2>8. p + 0 <= d /\ d + Len(matches') <= Cardinality(seen') * k + 0
    BY <1>3, <1>5, <1>6, <2>3, <2>5, <2>6, <2>7
  <2> QED
    BY <1>2, <2>6, <2>8 DEF CountInv
<1>11. CASE AnalyzeFails
  <2>1. NextMatch /\ pc = "matches" /\ Count = 0 /\ UNCHANGED <<seen, decisions, positions>>
    BY <1>11 DEF AnalyzeFails, Count, Deciding
  <2> QED
    BY <1>2, <1>3, <1>6, <1>7, <2>1
<1>12. CASE Calculate
  <2>1. PICK s, x, y : /\ s \in Signals /\ pc = "matches" /\ HandleDecision(x, y)
                       /\ SaveProbabilityDecision(x, y.edge)
                       /\ UNCHANGED <<seen, positions>>
    BY <1>12 DEF Calculate
  <2>2. Count = 0
    BY <2>1 DEF Count, Deciding
  <2>3. Len(decisions') = d + 1
    BY <1>1, <1>2, <2>1, AppendProperties DEF SaveProbabilityDecision
  <2>4. CASE NextMatch
    BY <1>2, <1>3, <1>6, <1>7, <2>1, <2>2, <2>3, <2>4
  <2>5. CASE ~NextMatch
    <3>1. pc' = "evaluate" /\ matches' = matches
      BY <2>1, <2>5 DEF HandleDecision
    <3>2. Count' = 1
      BY <3>1 DEF Count, Deciding
    <3>3. p + 1 <= d + 1 /\ d + 1 + m <= total + 1
      BY <1>3, <1>5, <1>6, <2>2
    <3> QED
      BY <1>2, <2>1, <2>3, <3>1, <3>2, <3>3 DEF CountInv
  <2> QED
    BY <2>4, <2>5
<1>13. CASE Evaluate
  <2>1. pc = "portfolio" /\ UNCHANGED <<positions, decisions, seen>> /\ (Approves \/ NextMatch)
    BY <1>13, EvaluateCases
  <2>2. Deciding /\ Count = 1
    BY <2>1 DEF Deciding, Count
  <2>3. CASE NextMatch
    BY <1>2, <1>3, <1>6, <1>7, <2>1, <2>2, <2>3
  <2>4. CASE Approves
    BY <1>8, <2>1, <2>2, <2>4 DEF Approves, Deciding
  <2> QED
    BY <2>1, <2>3, <2>4
<1>14. CASE PlaceOrder
  <2>1. pc = "order" /\ UNCHANGED <<positions, decisions, seen>> /\ (Bought \/ NextMatch)
    BY <1>14, PlaceOrderCases
  <2>2. Deciding /\ Count = 1
    BY <2>1 DEF Deciding, Count
  <2>3. CASE NextMatch
    BY <1>2, <1>3, <1>6, <1>7, <2>1, <2>2, <2>3
  <2>4. CASE Bought
    BY <1>8, <2>1, <2>2, <2>4 DEF Bought, Deciding
  <2> QED
    BY <2>1, <2>3, <2>4
<1>15. CASE SavePosition
  <2>1. PICK x : positions' = Append(positions, x)
    BY <1>15 DEF SavePosition
  <2>2. Len(positions') = p + 1
    BY <1>1, <1>2, <2>1, AppendProperties
  <2>3. pc = "position" /\ NextMatch /\ UNCHANGED <<decisions, seen>>
    BY <1>15 DEF SavePosition
  <2>4. Deciding /\ Count = 1
    BY <2>3 DEF Deciding, Count
  <2> QED
    BY <1>2, <1>3, <1>6, <1>7, <2>2, <2>3, <2>4
<1>16. CASE ReadMarket \/ Query
  <2>1. UNCHANGED <<positions, decisions, matches, seen>> /\ (Deciding <=> Deciding')
    BY <1>16 DEF ReadMarket, Query, Deciding
  <2> QED
    BY <1>8, <1>9, <2>1
<1>17. CASE RunOnce \/ ListOpen \/ Marking \/ RunDone
  BY <1>9, <1>17 DEF RunOnce, ListOpen, Marking, RunDone, Deciding
<1>18. ASSUME Len(positions') = Len(positions), UNCHANGED <<decisions, matches, seen, pc>>
       PROVE  CountInv'
  BY <1>18 DEF CountInv, Count, Deciding
<1>19. ASSUME NEW i, NEW q, UpdatePosition(i, q) PROVE Len(positions') = Len(positions)
  BY <1>1, <1>19 DEF UpdatePosition
<1>20. CASE Mark
  BY <1>18, <1>19, <1>20 DEF Mark
<1>21. CASE Exit
  BY <1>18, <1>19, <1>21 DEF Exit, SaveClosed
<1>22. CASE CloseRequest
  BY <1>18, <1>19, <1>22 DEF CloseRequest, SaveClosed, loop
<1>23. CASE UNCHANGED counted
  BY <1>18, <1>23 DEF counted
<1>24. (\E x \in Markets : Refresh(x) \/ Receive(x) \/ Pass(x)) \/ SaveTrade("loop")
          \/ SaveTrade("request") \/ UNCHANGED vars => UNCHANGED counted
  BY DEF Refresh, Receive, Pass, SaveTrade, vars, loop, counted
<1> QED
  BY <1>10, <1>11, <1>12, <1>13, <1>14, <1>15, <1>16, <1>17, <1>20, <1>21, <1>22, <1>23,
     <1>24 DEF Next, LoopStep

LEMMA CountsBound ==
  ASSUME AccountsInv, CountInv
  PROVE  Bounded
<1>1. /\ positions \in Seq(Position) /\ decisions \in Seq([market : Markets, edge : Int])
      /\ matches \in Seq(Markets) /\ (Deciding => matches # <<>>) /\ ControlOK
  BY DEF AccountsInv, TablesOK, LoopOK, MatchesOK
<1>2. PICK p, d, m, k, a, c :
         /\ p = Len(positions) /\ d = Len(decisions) /\ m = Len(matches)
         /\ k = MaxAIMatchesPerArticle /\ a = Cardinality(Articles) /\ c = Cardinality(seen)
  OBVIOUS
<1>3. p \in Nat /\ d \in Nat /\ m \in Nat /\ k \in Nat /\ (Deciding => m > 0)
  <2>1. k \in Nat
    BY <1>2, SettingsAssumption
  <2>2. matches # <<>> => Len(matches) > 0
    BY <1>1, EmptySeq
  <2> QED
    BY <1>1, <1>2, <2>1, <2>2
<1>4. c * k \in Nat /\ a * k \in Nat /\ c * k <= a * k
  BY <1>1, <1>2, <1>3, SeenCounts, TimesGrows
<1>5. p + Count <= d /\ d + m <= c * k + Count
  BY <1>2 DEF CountInv
<1>6. d <= a * k /\ p <= a * k
  BY <1>3, <1>4, <1>5 DEF Count
<1> QED
  BY <1>2, <1>6 DEF Bounded, Orders

-----------------------------------------------------------------------------
(***************************************************************************)
(* Prices, as long as nothing is quoted above a dollar.                    *)
(***************************************************************************)
AtMostADollar ==
    \A m \in Markets :
        /\ \A q \in Quotes[m] : {Row(q).yes, Row(q).bid, Row(q).ask} \subseteq 0..100
        /\ \A message \in Messages[m] :
              LET state == LiveState(message)
              IN  {state.bid, state.ask, state.last, state.mid} \subseteq 0..100

LEMMA ReadPrices ==
  ASSUME AtMostADollar, MarketsOK, NEW m \in Markets
  PROVE  /\ rows[m].bid \in 0..100
         /\ WithLiveState(m).bid \in 0..100 /\ WithLiveState(m).yes \in 0..100
         /\ ExecutablePrice(WithLiveState(m)) \in 1..100
<1>1. PICK row, state : row = rows[m] /\ state = live[m]
  OBVIOUS
<1>2. IsRow(row) /\ {row.yes, row.bid, row.ask} \subseteq 0..100
  BY <1>1, MarketRead DEF MarketsOK, AtMostADollar
<1>3. WithLiveState(m) = ApplyLiveState(row, state)
  BY <1>1 DEF WithLiveState, GetMarket, GetLiveMarketState
<1>4. PICK bid, ask, yes :
         /\ {bid, ask, yes} \subseteq 0..100
         /\ bid = ApplyLiveState(row, state).bid /\ ask = ApplyLiveState(row, state).ask
         /\ yes = ApplyLiveState(row, state).yes
  <2>1. CASE state = None
    BY <1>2, <2>1 DEF ApplyLiveState
  <2>2. CASE state # None
    <3>1. {state.bid, state.ask, state.last, state.mid} \subseteq 0..100
      BY <1>1, <2>2 DEF MarketsOK, AtMostADollar
    <3>2. /\ ApplyLiveState(row, state).bid = OrElse(state.bid, row.bid)
          /\ ApplyLiveState(row, state).ask = OrElse(state.ask, row.ask)
          /\ ApplyLiveState(row, state).yes = OrElse(state.mid, OrElse(state.last, row.yes))
      BY <1>2, <2>2 DEF ApplyLiveState, IsRow
    <3> QED
      BY <1>2, <3>1, <3>2 DEF OrElse
  <2> QED
    BY <2>1, <2>2
<1>5. OrElse(ask, OrElse(yes, 50)) \in 1..100
  BY <1>4 DEF OrElse
<1> QED
  BY <1>1, <1>2, <1>3, <1>4, <1>5 DEF ExecutablePrice

LEMMA PricesInit == Init => PricesOK
BY DEF Init, PricesOK

\* Saving a position with a price of at most a dollar.
LEMMA PriceSaved ==
  ASSUME TablesOK, PricesOK, NEW i \in DOMAIN positions, NEW p \in Position, p.price \in 0..100,
         UpdatePosition(i, p), decisions' = decisions
  PROVE  PricesOK'
<1>1. PICK ps, qs : ps = positions /\ qs = positions'
  OBVIOUS
<1>2. ps \in Seq(Position) /\ i \in DOMAIN ps /\ UpdatedBy(qs, ps, i, p)
  BY <1>1 DEF UpdatePosition, UpdatedBy, TablesOK
<1>3. /\ DOMAIN qs = DOMAIN ps /\ qs[i].price = p.price
      /\ \A j \in DOMAIN ps : j # i => qs[j] = ps[j]
  BY ONLY <1>2, p \in Position, Updated
<1>4. \A j \in DOMAIN qs : qs[j].price \in 0..100
  BY <1>1, <1>3 DEF PricesOK
<1> QED
  BY <1>1, <1>4 DEF PricesOK

LEMMA PricesStep ==
  ASSUME AtMostADollar, AccountsInv, PricesOK, [Next]_vars
  PROVE  PricesOK'
<1>1. MarketsOK /\ TablesOK /\ CopiesOK /\ MatchesOK /\ ProbOK
  BY DEF AccountsInv, LoopOK
<1>2. CASE Calculate
  <2>1. PICK s, m, d :
           /\ s \in Signals
           /\ m = Head(matches) /\ d = Decision(GetMarket(m), GetLiveMarketState(m), s)
           /\ SaveProbabilityDecision(m, d.edge) /\ pc = "matches" /\ positions' = positions
    BY <1>2 DEF Calculate
  <2>2. m \in Markets
    BY <1>1, <2>1 DEF MatchesOK
  <2>3. d.our \in 1..99 /\ d.edge = d.our - d.price /\ d.price = ExecutablePrice(WithLiveState(m))
    BY <1>1, <2>1, <2>2, MarketRead, DecisionNumbers
       DEF GetMarket, GetLiveMarketState, WithLiveState
  <2>4. d.price \in 1..100
    BY <1>1, <2>2, <2>3, ReadPrices
  <2>5. PICK edge, row : edge = d.edge /\ row = [market |-> m, edge |-> edge]
    OBVIOUS
  <2>6. edge \in -99..98 /\ row.edge = edge
    BY <2>3, <2>4, <2>5
  <2>7. decisions' = Append(decisions, row) /\ decisions \in Seq([market : Markets, edge : Int])
    BY <1>1, <2>1, <2>5 DEF SaveProbabilityDecision, TablesOK
  <2>8. ASSUME NEW i \in DOMAIN decisions' PROVE decisions'[i].edge \in -99..98
    <3>1. CASE i \in DOMAIN decisions
      BY <2>7, <3>1, AppendProperties DEF PricesOK
    <3>2. CASE i \notin DOMAIN decisions
      <4>1. i = Len(decisions) + 1
        BY <2>7, <3>2
      <4>2. row \in [market : Markets, edge : Int]
        BY <2>2, <2>5, <2>6
      <4>3. decisions'[i] = row
        BY <2>7, <4>1, <4>2, AppendProperties
      <4> QED
        BY <2>6, <4>3
    <3> QED
      BY <3>1, <3>2
  <2> QED
    BY <2>1, <2>8 DEF PricesOK
<1>3. CASE SavePosition
  <2>1. PICK p : p = [market |-> prob.market, quantity |-> prob.fill.quantity,
                      exposure |-> prob.fill.usd, entry |-> Average(prob.fill),
                      price |-> Average(prob.fill), pnl |-> 0, status |-> "open"]
    OBVIOUS
  <2>2. pc = "position" /\ positions' = Append(positions, p) /\ decisions' = decisions
    BY <1>3, <2>1 DEF SavePosition
  <2>3. p.price \in 0..100
    BY <1>1, <2>1, <2>2 DEF ProbOK
  <2>4. ASSUME NEW i \in DOMAIN positions' PROVE positions'[i].price \in 0..100
    <3>1. CASE i \in DOMAIN positions
      BY <1>1, <2>2, <3>1, AppendProperties DEF PricesOK, TablesOK
    <3>2. CASE i \notin DOMAIN positions
      <4>1. i = Len(positions) + 1
        BY <1>1, <2>2, <3>2 DEF TablesOK
      <4> QED
        BY <1>1, <2>2, <2>3, <4>1 DEF TablesOK
    <3> QED
      BY <3>1, <3>2
  <2> QED
    BY <2>2, <2>4 DEF PricesOK
<1>4. CASE Mark
  <2>1. PICK copy \in copies : UpdatePosition(copy[1], Marked(copy[2]))
    BY <1>4 DEF Mark
  <2>2. PICK i, p, q : i = copy[1] /\ p = copy[2] /\ q = Marked(p)
    OBVIOUS
  <2>3. i \in DOMAIN positions /\ p \in Position
    BY <1>1, <2>2 DEF CopiesOK
  <2>4. p.market \in Markets
    BY <2>3 DEF Position
  <2>5. q \in Position /\ q.price = OrElse(WithLiveState(p.market).bid, WithLiveState(p.market).yes)
    BY <1>1, <2>2, <2>3, MarkedIsPosition
  <2>6. q.price \in 0..100
    BY <1>1, <2>4, <2>5, ReadPrices DEF OrElse
  <2> QED
    BY <1>1, <1>4, <2>1, <2>2, <2>3, <2>5, <2>6, PriceSaved DEF Mark
<1>5. ASSUME NEW closer \in Closers, NEW i \in DOMAIN positions, SaveClosed(closer, i),
             decisions' = decisions
      PROVE  PricesOK'
  <2>1. PICK p, q : p = positions[i] /\ q = Closed(p)
    OBVIOUS
  <2>2. p \in Position /\ p.price \in 0..100
    <3>1. positions[i] \in Position
      BY <1>1 DEF TablesOK
    <3>2. positions[i].price \in 0..100
      BY DEF PricesOK
    <3> QED
      BY <2>1, <3>1, <3>2
  <2>3. p.market \in Markets
    BY <2>2 DEF Position
  <2>4. q \in Position /\ q.price = OrElse(rows[p.market].bid, p.price)
    BY <1>1, <2>1, <2>2, ClosedIsPosition DEF GetMarket
  <2>5. q.price \in 0..100
    BY <1>1, <2>2, <2>3, <2>4, ReadPrices DEF OrElse
  <2> QED
    BY <1>1, <1>5, <2>1, <2>4, <2>5, PriceSaved DEF SaveClosed
<1>6. CASE Exit
  <2>1. PICK i \in exits : SaveClosed("loop", i) /\ decisions' = decisions
    BY <1>6 DEF Exit
  <2> QED
    BY <1>1, <1>5, <2>1 DEF TablesOK, Closers
<1>7. CASE CloseRequest
  BY <1>5, <1>7 DEF CloseRequest, Closers
<1>8. CASE UNCHANGED <<decisions, positions>>
  BY <1>8 DEF PricesOK
<1>9. \/ \E m \in Markets : Refresh(m) \/ Receive(m) \/ Pass(m)
      \/ RunOnce \/ NextArticle \/ AnalyzeFails \/ ReadMarket \/ Query \/ Evaluate \/ PlaceOrder
      \/ ListOpen \/ Marking \/ SaveTrade("loop") \/ RunDone \/ SaveTrade("request")
      \/ UNCHANGED vars
      => UNCHANGED <<decisions, positions>>
  BY DEF Refresh, Receive, Pass, RunOnce, NextArticle, AnalyzeFails, ReadMarket, Query, Evaluate,
         PlaceOrder, ListOpen, Marking, SaveTrade, RunDone, vars
<1> QED
  BY <1>2, <1>3, <1>4, <1>6, <1>7, <1>8, <1>9 DEF Next, LoopStep

\* The types of the state, and what bounds it: prices and edges when nothing is
\* quoted above a dollar, and no more decisions and positions than articles
\* can lead to, whatever is quoted.
THEOREM TypeCorrect ==
  ASSUME AtMostADollar
  PROVE  Spec => []TypeOK
<1>1. Init => AccountsInv /\ CountInv /\ PricesOK
  BY MarketsInit, TablesInit, LoopInit, CountInit, PricesInit DEF AccountsInv
<1>2. AccountsInv /\ CountInv /\ PricesOK /\ [Next]_vars => (AccountsInv /\ CountInv /\ PricesOK)'
  BY AccountsInvStep, CountStep, PricesStep
<1>3. AccountsInv /\ CountInv /\ PricesOK => TypeOK
  <2> SUFFICES ASSUME AccountsInv, CountInv, PricesOK PROVE TypeOK
    OBVIOUS
  <2>1. MarketsTradable
    BY MarketRead DEF AccountsInv, MarketsTradable
  <2> QED
    BY <2>1, CountsBound DEF AccountsInv, LoopOK, TypeOK
<1> QED
  BY <1>1, <1>2, <1>3, PTL DEF Spec

-----------------------------------------------------------------------------
(***************************************************************************)
(* What a position costs and how much may be open.                         *)
(***************************************************************************)
LEMMA OnlyBuyingGrows ==
  ASSUME AccountsInv, [Next]_vars, Len(positions') > Len(positions)
  PROVE  SavePosition
<1>1. positions \in Seq(Position)
  BY DEF AccountsInv, TablesOK
<1>2. ~(Len(positions) > Len(positions))
  BY <1>1
<1>3. ASSUME NEW i, NEW q, UpdatePosition(i, q) PROVE Len(positions') = Len(positions)
  BY <1>1, <1>3 DEF UpdatePosition
<1>4. ~Mark /\ ~Exit /\ ~CloseRequest
  BY <1>2, <1>3 DEF Mark, Exit, CloseRequest, SaveClosed
<1>5. positions' # positions
  BY <1>2
<1>6. \/ \E m \in Markets : Refresh(m) \/ Receive(m) \/ Pass(m)
      \/ RunOnce \/ NextArticle \/ AnalyzeFails \/ Calculate \/ ReadMarket \/ Query \/ Evaluate
      \/ PlaceOrder \/ ListOpen \/ Marking \/ SaveTrade("loop") \/ RunDone
      \/ SaveTrade("request") \/ UNCHANGED vars
      => UNCHANGED positions
  BY DEF Refresh, Receive, Pass, RunOnce, NextArticle, AnalyzeFails, Calculate, ReadMarket, Query,
         Evaluate, PlaceOrder, ListOpen, Marking, SaveTrade, RunDone, vars
<1> QED
  BY <1>4, <1>5, <1>6 DEF Next, LoopStep

\* What a step that buys adds to the positions.
LEMMA Buys ==
  ASSUME AccountsInv, SavePosition
  PROVE  \E p \in Position :
            /\ p.market = prob.market /\ p.exposure = prob.fill.usd
            /\ p.entry = Average(prob.fill) /\ p.status = "open"
            /\ positions' = Append(positions, p) /\ positions \in Seq(Position)
<1>1. PICK p : p = [market |-> prob.market, quantity |-> prob.fill.quantity,
                    exposure |-> prob.fill.usd, entry |-> Average(prob.fill),
                    price |-> Average(prob.fill), pnl |-> 0, status |-> "open"]
  OBVIOUS
<1>2. p \in Position
  BY <1>1, BoughtIsPosition DEF AccountsInv, LoopOK, SavePosition
<1>3. /\ p.market = prob.market /\ p.exposure = prob.fill.usd
      /\ p.entry = Average(prob.fill) /\ p.status = "open"
  BY <1>1
<1>4. positions' = Append(positions, p) /\ positions \in Seq(Position)
  BY <1>1 DEF AccountsInv, TablesOK, SavePosition
<1> QED
  BY <1>2, <1>3, <1>4

\* A position is never bought above the estimate less the edge asked for, whatever
\* the book has become since the decision.
THEOREM BuysBelowEstimate == Spec => BoughtBelowEstimate
<1>1. AccountsInv /\ [Next]_vars =>
         [Len(positions') > Len(positions) =>
             positions'[Len(positions')].entry + EdgeThreshold <= prob.our]_vars
  <2> SUFFICES ASSUME AccountsInv, [Next]_vars, Len(positions') > Len(positions)
               PROVE  positions'[Len(positions')].entry + EdgeThreshold <= prob.our
    OBVIOUS
  <2>1. SavePosition
    BY OnlyBuyingGrows
  <2>2. PICK p \in Position :
           /\ p.entry = Average(prob.fill)
           /\ positions' = Append(positions, p) /\ positions \in Seq(Position)
    BY <2>1, Buys
  <2>3. positions'[Len(positions')] = p
    BY <2>2, AppendProperties
  <2>4. Average(prob.fill) + EdgeThreshold <= prob.our
    BY <2>1 DEF AccountsInv, LoopOK, ProbOK, SavePosition
  <2> QED
    BY <2>2, <2>3, <2>4
<1> QED
  BY <1>1, AccountsInvariant, PTL DEF Spec, BoughtBelowEstimate

\* What is bought still fits when it is bought.
Room(usd) ==
    /\ Exposure(positions, InMarket(positions, prob.market)) + usd <= MarketLimit(prob.value)
    /\ Exposure(positions, InCategory(positions, prob.market)) + usd <= CategoryLimit(prob.value)

RoomOK == (pc = "order" => Room(prob.size)) /\ (pc = "position" => Room(prob.fill.usd))

\* The exchange does not move a market from one category to another.
CategoriesStay ==
    \A m \in Markets : \A q, r \in Quotes[m] : Row(q).category = Row(r).category

LEMMA CategoryStays ==
  ASSUME CategoriesStay, MarketsOK, MarketsOK', NEW m \in Markets
  PROVE  rows'[m].category = rows[m].category
BY DEF CategoriesStay, MarketsOK

LEMMA LimitsAreNumbers ==
  ASSUME NEW value \in Int
  PROVE  MarketLimit(value) \in Int /\ CategoryLimit(value) \in Int
<1>1. PICK a \in Int : a = MaxPositionPerMarketPct * value
  BY SettingsAssumption
<1>2. PICK b \in Int : b = MaxCategoryExposurePct * value
  BY SettingsAssumption
<1>3. a \div 100 \in Int /\ b \div 100 \in Int
  OBVIOUS
<1> QED
  BY <1>1, <1>2, <1>3 DEF MarketLimit, CategoryLimit

\* The positions are the same, perhaps fewer of them open.
FewerOpen ==
    /\ DOMAIN positions' = DOMAIN positions
    /\ \A i \in DOMAIN positions :
          /\ positions'[i].market = positions[i].market
          /\ positions'[i].exposure = positions[i].exposure
          /\ positions'[i].status = "open" => positions[i].status = "open"

SameCategories == \A m \in Markets : rows'[m].category = rows[m].category

\* Room is left when fewer positions of the same markets are open.
LEMMA RoomStays ==
  ASSUME MarketsOK, positions \in Seq(Position), prob.value \in Int, prob.market \in Markets,
         NEW usd \in Int, Room(usd), prob' = prob,
         FewerOpen, SameCategories
  PROVE  Room(usd)'
<1>1. PICK m, qs : m = prob.market /\ qs = positions'
  OBVIOUS
<1>2. ASSUME NEW i \in DOMAIN positions PROVE positions[i].market \in Markets
  <2>1. positions[i] \in Position
    OBVIOUS
  <2> QED
    BY <2>1 DEF Position
<1>3. PICK S, T : S = InMarket(positions, m) /\ T = InMarket(positions, m)'
  OBVIOUS
<1>4. S \in SUBSET DOMAIN positions /\ T \in SUBSET S
  BY <1>1, <1>3 DEF InMarket, Open, FewerOpen
<1>5. Exposure(positions, S) \in Int /\ Exposure(qs, T) \in Int
         /\ Exposure(qs, T) <= Exposure(positions, S)
  <2>1. \A i \in T : qs[i].exposure = positions[i].exposure
    BY <1>1, <1>4 DEF FewerOpen
  <2> QED
    BY <1>4, <2>1, ExposureShrinks
<1>6. PICK U, V : U = InCategory(positions, m) /\ V = InCategory(positions, m)'
  OBVIOUS
<1>7. U \in SUBSET DOMAIN positions /\ V \in SUBSET U
  BY <1>1, <1>2, <1>6 DEF InCategory, Open, FewerOpen, SameCategories
<1>8. Exposure(positions, U) \in Int /\ Exposure(qs, V) \in Int
         /\ Exposure(qs, V) <= Exposure(positions, U)
  <2>1. \A i \in V : qs[i].exposure = positions[i].exposure
    BY <1>1, <1>7 DEF FewerOpen
  <2> QED
    BY <1>7, <2>1, ExposureShrinks
<1>9. PICK l, c \in Int : l = MarketLimit(prob.value) /\ c = CategoryLimit(prob.value)
  BY LimitsAreNumbers
<1>10. Exposure(positions, S) + usd <= l /\ Exposure(positions, U) + usd <= c
  BY <1>1, <1>3, <1>6, <1>9 DEF Room
<1>11. Exposure(qs, T) + usd <= l /\ Exposure(qs, V) + usd <= c
  BY <1>5, <1>8, <1>9, <1>10
<1>12. l = MarketLimit(prob'.value) /\ c = CategoryLimit(prob'.value)
  BY <1>9
<1> QED
  BY <1>1, <1>3, <1>6, <1>11, <1>12 DEF Room, InMarket, InCategory, Open, Exposure

LEMMA ClosingLeavesFewer ==
  ASSUME AccountsInv, CloseRequest
  PROVE  FewerOpen
<1>1. MarketsOK /\ positions \in Seq(Position)
  BY DEF AccountsInv, TablesOK
<1>2. PICK i \in DOMAIN positions : UpdatePosition(i, Closed(positions[i]))
  BY DEF CloseRequest, SaveClosed
<1>3. PICK ps, qs, p : ps = positions /\ qs = positions' /\ p = Closed(positions[i])
  OBVIOUS
<1>4. ps[i] \in Position /\ i \in DOMAIN ps /\ ps \in Seq(Position)
  BY <1>1, <1>3
<1>5. p \in Position /\ p.exposure = ps[i].exposure /\ p.status = "closed"
  BY <1>1, <1>3, <1>4, ClosedIsPosition
<1>6. UpdatedBy(qs, ps, i, p)
  BY <1>2, <1>3 DEF UpdatePosition, UpdatedBy
<1>7. /\ DOMAIN qs = DOMAIN ps
      /\ \A j \in DOMAIN ps : j # i => qs[j] = ps[j]
      /\ \A j \in DOMAIN ps : qs[j].market = ps[j].market
      /\ qs[i].exposure = p.exposure /\ qs[i].status = p.status
  BY ONLY <1>4, <1>5, <1>6, Updated
<1>8. ASSUME NEW j \in DOMAIN ps
      PROVE  /\ qs[j].market = ps[j].market /\ qs[j].exposure = ps[j].exposure
             /\ qs[j].status = "open" => ps[j].status = "open"
  BY <1>5, <1>7
<1> QED
  BY <1>3, <1>7, <1>8 DEF FewerOpen

LEMMA RoomStep ==
  ASSUME CategoriesStay, AccountsInv, AccountsInv', RoomOK, [Next]_vars
  PROVE  RoomOK'
<1>1. /\ MarketsOK /\ MarketsOK' /\ TablesOK /\ AccountOK /\ ProbOK
      /\ positions \in Seq(Position)
  BY DEF AccountsInv, TablesOK, LoopOK
<1>2. SameCategories
  BY <1>1, CategoryStays DEF SameCategories
<1>3. ASSUME pc' \notin {"order", "position"} PROVE RoomOK'
  BY <1>3 DEF RoomOK
<1>4. ASSUME UNCHANGED <<pc, prob>>, FewerOpen PROVE RoomOK'
  <2>1. CASE pc = "order"
    <3>1. prob.value \in Int /\ prob.market \in Markets /\ prob.size \in Int /\ Room(prob.size)
      BY <1>1, <2>1 DEF ProbOK, Deciding, RoomOK
    <3>2. PICK usd \in Int : usd = prob.size
      BY <3>1
    <3>3. Room(usd)'
      BY <1>1, <1>2, <1>4, <3>1, <3>2, RoomStays
    <3> QED
      BY <1>4, <2>1, <3>2, <3>3 DEF RoomOK, Room
  <2>2. CASE pc = "position"
    <3>1. prob.value \in Int /\ prob.market \in Markets /\ prob.fill.usd \in Int
          /\ Room(prob.fill.usd)
      BY <1>1, <2>2 DEF ProbOK, Deciding, RoomOK
    <3>2. PICK usd \in Int : usd = prob.fill.usd
      BY <3>1
    <3>3. Room(usd)'
      BY <1>1, <1>2, <1>4, <3>1, <3>2, RoomStays
    <3> QED
      BY <1>4, <2>2, <3>2, <3>3 DEF RoomOK, Room
  <2>3. CASE pc \notin {"order", "position"}
    BY <1>3, <1>4, <2>3
  <2> QED
    BY <2>1, <2>2, <2>3
<1>5. CASE CloseRequest
  BY <1>4, <1>5, ClosingLeavesFewer DEF CloseRequest, loop
<1>6. CASE UNCHANGED <<pc, prob, positions>>
  BY <1>4, <1>6 DEF FewerOpen
<1>7. CASE Approves /\ UNCHANGED <<positions, rows>>
  <2>1. PICK m, size, value : /\ m = prob.market /\ value = Portfolio.value
                              /\ size = PositionSize(prob, value)
    OBVIOUS
  <2>2. /\ Exposure(positions, InMarket(positions, m)) + size <= MarketLimit(value)
        /\ Exposure(positions, InCategory(positions, m)) + size <= CategoryLimit(value)
    BY <1>7, <2>1 DEF Approves, Approved, Fits
  <2>3. /\ prob' = [market |-> m, price |-> prob.price, our |-> prob.our,
                    size |-> size, value |-> value]
        /\ pc' = "order"
    BY <1>7, <2>1 DEF Approves
  <2>4. prob'.market = m /\ prob'.size = size /\ prob'.value = value
    BY <2>3
  <2>5. Room(size)'
    BY <1>7, <2>2, <2>4 DEF Room, InMarket, InCategory, Open, Exposure
  <2> QED
    BY <2>3, <2>4, <2>5 DEF RoomOK, Room
<1>8. CASE Bought /\ UNCHANGED <<positions, rows>>
  <2>1. PICK m, usd, size, value : /\ m = prob.market /\ usd = OrderFill.usd
                                   /\ size = prob.size /\ value = prob.value
    OBVIOUS
  <2>2. size \in Int /\ usd \in Int /\ usd <= size /\ value \in Int
    BY <1>1, <1>8, <2>1, BoughtFill DEF ProbOK, Bought
  <2>3. PICK a, b \in Int : /\ a = Exposure(positions, InMarket(positions, m))
                            /\ b = Exposure(positions, InCategory(positions, m))
    BY <1>1, ExposureShrinks DEF InMarket, InCategory, Open
  <2>4. PICK l, c \in Int : l = MarketLimit(value) /\ c = CategoryLimit(value)
    BY <2>2, LimitsAreNumbers
  <2>5. a + size <= l /\ b + size <= c
    BY <1>8, <2>1, <2>3, <2>4 DEF Bought, RoomOK, Room
  <2>6. a + usd <= l /\ b + usd <= c
    BY <2>2, <2>3, <2>4, <2>5
  <2>7. prob'.market = m /\ prob'.fill = OrderFill /\ prob'.value = value /\ pc' = "position"
    BY <1>8, <2>1 DEF Bought
  <2>8. Room(usd)'
    BY <1>8, <2>3, <2>4, <2>6, <2>7 DEF Room, InMarket, InCategory, Open, Exposure
  <2> QED
    BY <2>1, <2>7, <2>8 DEF RoomOK, Room
<1>9. CASE Evaluate
  <2>1. (Approves \/ NextMatch) /\ UNCHANGED <<positions, rows>>
    BY <1>9, EvaluateCases DEF market
  <2> QED
    BY <1>3, <1>7, <2>1 DEF NextMatch
<1>10. CASE PlaceOrder
  <2>1. (Bought \/ NextMatch) /\ UNCHANGED <<positions, rows>>
    BY <1>10, PlaceOrderCases DEF market
  <2> QED
    BY <1>3, <1>8, <2>1 DEF NextMatch
<1>11. CASE AnalyzeFails \/ Calculate \/ SavePosition
  BY <1>3, <1>11 DEF AnalyzeFails, Calculate, SavePosition, HandleDecision, NextMatch
<1>12. CASE RunOnce \/ NextArticle \/ ReadMarket \/ Query \/ ListOpen \/ Mark \/ Marking \/ Exit
               \/ RunDone
  BY <1>3, <1>12 DEF RunOnce, NextArticle, ReadMarket, Query, ListOpen, Mark, Marking, Exit,
                     RunDone
<1>13. \/ \E m \in Markets : Refresh(m) \/ Receive(m) \/ Pass(m)
       \/ SaveTrade("loop") \/ SaveTrade("request") \/ UNCHANGED vars
       => UNCHANGED <<pc, prob, positions>>
  BY DEF Refresh, Receive, Pass, SaveTrade, vars, loop
<1> QED
  BY <1>5, <1>6, <1>9, <1>10, <1>11, <1>12, <1>13 DEF Next, LoopStep

\* Bought positions stay within the shares of the portfolio that one market and
\* one category may have, as long as markets keep their category.
THEOREM ExposureStaysLimited ==
  ASSUME CategoriesStay
  PROVE  Spec => ExposureLimit
<1>1. Init => AccountsInv /\ RoomOK
  BY MarketsInit, TablesInit, LoopInit DEF AccountsInv, RoomOK, Init
<1>2. AccountsInv /\ RoomOK /\ [Next]_vars => (AccountsInv /\ RoomOK)'
  BY AccountsInvStep, RoomStep
<1>3. AccountsInv /\ RoomOK /\ [Next]_vars =>
         [Len(positions') > Len(positions) =>
            LET m == prob.market IN
            /\ Exposure(positions', InMarket(positions', m)) <= MarketLimit(prob.value)
            /\ Exposure(positions', InCategory(positions', m)) <= CategoryLimit(prob.value)]_vars
  <2> SUFFICES ASSUME AccountsInv, RoomOK, [Next]_vars, Len(positions') > Len(positions)
               PROVE  /\ Exposure(positions', InMarket(positions', prob.market))
                            <= MarketLimit(prob.value)
                      /\ Exposure(positions', InCategory(positions', prob.market))
                            <= CategoryLimit(prob.value)
    OBVIOUS
  <2>1. SavePosition
    BY OnlyBuyingGrows
  <2>2. PICK p \in Position :
           /\ p.market = prob.market /\ p.exposure = prob.fill.usd /\ p.status = "open"
           /\ positions' = Append(positions, p) /\ positions \in Seq(Position)
    BY <2>1, Buys
  <2>3. Room(prob.fill.usd)
    BY <2>1 DEF RoomOK, SavePosition
  <2>4. PICK m, qs, n : m = prob.market /\ qs = positions' /\ n = Len(positions) + 1
    OBVIOUS
  <2>5. /\ DOMAIN qs = DOMAIN positions \cup {n} /\ qs[n] = p
        /\ \A i \in DOMAIN positions : qs[i] = positions[i]
    BY <2>2, <2>4, AppendProperties
  <2>6. InMarket(qs, m) = InMarket(positions, m) \cup {n}
    BY <2>2, <2>4, <2>5 DEF InMarket, Open
  <2>7. InCategory(qs, m) = InCategory(positions, m) \cup {n}
    BY <2>2, <2>4, <2>5 DEF InCategory, Open
  <2>8. Exposure(qs, InMarket(qs, m)) = Exposure(positions, InMarket(positions, m)) + p.exposure
    <3>1. PICK S : S = InMarket(positions, m)
      OBVIOUS
    <3>2. S \in SUBSET DOMAIN positions
      BY <3>1 DEF InMarket, Open
    <3> QED
      BY <2>2, <2>4, <2>6, <3>1, <3>2, ExposureAdded
  <2>9. Exposure(qs, InCategory(qs, m)) = Exposure(positions, InCategory(positions, m)) + p.exposure
    <3>1. PICK S : S = InCategory(positions, m)
      OBVIOUS
    <3>2. S \in SUBSET DOMAIN positions
      BY <3>1 DEF InCategory, Open
    <3> QED
      BY <2>2, <2>4, <2>7, <3>1, <3>2, ExposureAdded
  <2> QED
    BY <2>2, <2>3, <2>4, <2>8, <2>9 DEF Room
<1> QED
  BY <1>1, <1>2, <1>3, PTL DEF Spec, ExposureLimit

-----------------------------------------------------------------------------
(***************************************************************************)
(* What the account is worth.  What the first query has read as spent is   *)
(* no less than what is spent when the second one reads the positions:     *)
(* between the two, trades are only closed.                                *)
(***************************************************************************)
SpentOK ==
    DOMAIN account = {"trades"} /\ Len(trades) <= TradesListed =>
        Size(trades, Open(trades)) <= account["trades"].open

LEMMA AllListed ==
  ASSUME TablesOK, Len(trades) <= TradesListed
  PROVE  Open(trades) \cap ListTrades = Open(trades)
<1>1. trades \in Seq(Trade) /\ TradesListed \in Nat
  BY AccountsAssumption DEF TablesOK
<1>2. \A i \in DOMAIN trades : i > Len(trades) - TradesListed
  BY <1>1
<1> QED
  BY <1>2 DEF ListTrades, Open

\* The trades are the same or fewer are open.
FewerTradesOpen ==
    /\ Len(trades) <= Len(trades')
    /\ Open(trades') \subseteq Open(trades)
    /\ \A i \in Open(trades') : trades'[i].size = trades[i].size

LEMMA ClosingATrade ==
  ASSUME AccountsInv, NEW closer \in Closers, SaveTrade(closer)
  PROVE  FewerTradesOpen
<1>1. trades \in Seq(Trade)
  BY DEF AccountsInv, TablesOK
<1>2. PICK p, pnl : p = closing[closer] /\ pnl = ((p.price - p.entry) * p.quantity) \div 100
  OBVIOUS
<1>3. CASE Matching(p) # {}
  <2>1. PICK i \in Matching(p) :
           UpdateTrade(i, [trades[i] EXCEPT !.status = "closed", !.pnl = pnl])
    BY <1>2, <1>3 DEF SaveTrade
  <2>2. i \in DOMAIN trades /\ trades[i] \in Trade
    BY <1>1 DEF Matching, Open
  <2>3. PICK t : t = [trades[i] EXCEPT !.status = "closed", !.pnl = pnl]
    OBVIOUS
  <2>4. t.status = "closed"
    BY <2>2, <2>3 DEF Trade
  <2>5. PICK row : row = [trades[i] EXCEPT !.status = "closed", !.pnl = t.pnl]
    OBVIOUS
  <2>6. row.status = "closed" /\ row.size = trades[i].size
    BY <2>2, <2>5 DEF Trade
  <2>7. trades' = [trades EXCEPT ![i] = row]
    BY <2>1, <2>2, <2>3, <2>4, <2>5 DEF UpdateTrade, Trade
  <2>8. DOMAIN trades' = DOMAIN trades /\ Len(trades') = Len(trades) /\ trades'[i] = row
        /\ \A j \in DOMAIN trades : j # i => trades'[j] = trades[j]
    BY ONLY <1>1, <2>2, <2>7
  <2>9. Len(trades) <= Len(trades')
    BY <1>1, <2>8
  <2> QED
    BY <2>6, <2>8, <2>9 DEF FewerTradesOpen, Open
<1>4. CASE Matching(p) = {}
  <2>1. PICK row : row = [market |-> p.market, size |-> p.exposure, pnl |-> pnl,
                          quantity |-> p.quantity, status |-> "closed"]
    OBVIOUS
  <2>2. trades' = Append(trades, row) /\ row.status = "closed"
    BY <1>2, <1>4, <2>1 DEF SaveTrade
  <2>3. /\ DOMAIN trades' = DOMAIN trades \cup {Len(trades) + 1}
        /\ trades'[Len(trades) + 1] = row /\ Len(trades) <= Len(trades')
        /\ \A i \in DOMAIN trades : trades'[i] = trades[i]
    BY <1>1, <2>2, AppendProperties
  <2> QED
    BY <2>2, <2>3 DEF FewerTradesOpen, Open
<1> QED
  BY <1>3, <1>4

LEMMA SpentStep ==
  ASSUME AccountsInv, SpentOK, [Next]_vars
  PROVE  SpentOK'
<1>1. TablesOK /\ ControlOK /\ AccountOK /\ trades \in Seq(Trade)
  BY DEF AccountsInv, TablesOK, LoopOK
<1>2. ASSUME account' = account, FewerTradesOpen, Len(trades') \in Nat PROVE SpentOK'
  <2>0. TradesListed \in Nat /\ Len(trades) \in Nat /\ Len(trades') \in Nat
    BY <1>1, AccountsAssumption DEF AccountsInv, TablesOK
  <2>1. CASE DOMAIN account = {"trades"} /\ Len(trades') <= TradesListed
    <3>1. PICK us, S, T : us = trades' /\ S = Open(trades) /\ T = Open(trades')
      OBVIOUS
    <3>2. S \in SUBSET DOMAIN trades /\ T \in SUBSET S /\ \A i \in T : us[i].size = trades[i].size
      BY <1>2, <3>1 DEF FewerTradesOpen, Open
    <3>3. /\ Size(trades, S) \in Int /\ Size(us, T) \in Int
          /\ Size(us, T) <= Size(trades, S)
      BY <1>1, <3>2, SizeShrinks
    <3>4. Size(trades, S) <= account["trades"].open /\ account["trades"].open \in Int
      BY <1>1, <1>2, <2>0, <2>1, <3>1 DEF SpentOK, AccountOK, FewerTradesOpen
    <3>5. Size(us, T) <= account["trades"].open
      BY <3>3, <3>4
    <3> QED
      BY <1>2, <3>1, <3>5 DEF SpentOK, Size, Open
  <2>2. CASE ~(DOMAIN account = {"trades"} /\ Len(trades') <= TradesListed)
    BY <1>2, <2>2 DEF SpentOK
  <2> QED
    BY <2>1, <2>2
<1>3. ASSUME UNCHANGED <<account, trades>> PROVE SpentOK'
  BY <1>3 DEF SpentOK, Size, Open
<1>4. ASSUME DOMAIN account' = {} PROVE SpentOK'
  BY <1>4 DEF SpentOK
<1>5. CASE Query
  <2>1. CASE DOMAIN account = {}
    <3>1. account'["trades"] = Answer("trades") /\ trades' = trades
      BY <1>1, <1>5, <2>1, QueryAnswers DEF Query
    <3>2. PICK open : open = Size(trades, Open(trades))
      OBVIOUS
    <3>3. ASSUME Len(trades) <= TradesListed
          PROVE  open \in Int /\ account'["trades"].open = open
      <4>1. Answer("trades").open = Size(trades, Open(trades) \cap ListTrades)
        BY DEF Answer
      <4>2. Open(trades) \cap ListTrades = Open(trades)
        BY <1>1, <3>3, AllListed
      <4> QED
        BY <1>1, <3>1, <3>2, <4>1, <4>2, AnswersAreNumbers
    <3>4. open = Size(trades, Open(trades))'
      BY <3>1, <3>2 DEF Size, Open
    <3> QED
      BY <3>1, <3>3, <3>4 DEF SpentOK
  <2>2. CASE DOMAIN account = {"trades"}
    BY <1>1, <1>5, <2>2, QueryAnswers DEF SpentOK
  <2> QED
    BY <1>1, <1>5, <2>1, <2>2, QueryAnswers
<1>6. ASSUME NEW closer \in Closers, SaveTrade(closer), account' = account PROVE SpentOK'
  <2>1. AccountsInv'
    BY AccountsInvStep
  <2>2. Len(trades') \in Nat
    BY <2>1 DEF AccountsInv, TablesOK
  <2> QED
    BY <1>2, <1>6, <2>2, ClosingATrade
<1>7. CASE SaveTrade("loop") \/ SaveTrade("request")
  BY <1>6, <1>7 DEF SaveTrade, loop, Closers
<1>8. DOMAIN << >> = {}
  OBVIOUS
<1>9. CASE PlaceOrder
  <2>1. pc = "order" /\ (Bought \/ NextMatch)
    BY <1>9, PlaceOrderCases
  <2>2. DOMAIN account = {}
    BY <1>1, <2>1 DEF AccountOK
  <2> QED
    BY <1>4, <1>8, <2>1, <2>2 DEF Bought, NextMatch
<1>10. CASE Evaluate
  BY <1>4, <1>8, <1>10, EvaluateCases DEF Approves, NextMatch
<1>11. CASE AnalyzeFails \/ SavePosition \/ Marking
  BY <1>4, <1>8, <1>11 DEF AnalyzeFails, SavePosition, Marking, NextMatch
<1>12. CASE Calculate
  BY <1>3, <1>4, <1>8, <1>12 DEF Calculate, HandleDecision, NextMatch
<1>13. CASE UNCHANGED <<account, trades>>
  BY <1>3, <1>13
<1>14. \/ \E m \in Markets : Refresh(m) \/ Receive(m) \/ Pass(m)
       \/ RunOnce \/ NextArticle \/ ReadMarket \/ ListOpen \/ Mark \/ Exit \/ RunDone
       \/ CloseRequest \/ UNCHANGED vars
       => UNCHANGED <<account, trades>>
  BY DEF Refresh, Receive, Pass, RunOnce, NextArticle, ReadMarket, ListOpen, Mark, Exit, RunDone,
         CloseRequest, vars, loop
<1> QED
  BY <1>5, <1>7, <1>9, <1>10, <1>11, <1>12, <1>13, <1>14 DEF Next, LoopStep

\* Only a query makes an account with one answer one with two.
LEMMA OnlyQueryAnswers ==
  ASSUME AccountsInv, [Next]_vars, Cardinality(DOMAIN account) = 1,
         Cardinality(DOMAIN account') = 2
  PROVE  Query
<1>1. account' # account
  OBVIOUS
<1>2. DOMAIN account' # {}
  BY FS_EmptySet
<1>3. DOMAIN << >> = {}
  OBVIOUS
<1>4. \/ \E m \in Markets : Refresh(m) \/ Receive(m) \/ Pass(m)
      \/ RunOnce \/ NextArticle \/ ReadMarket \/ ListOpen \/ Mark \/ Exit \/ RunDone
      \/ SaveTrade("loop") \/ SaveTrade("request") \/ CloseRequest \/ UNCHANGED vars
      => account' = account
  BY DEF Refresh, Receive, Pass, RunOnce, NextArticle, ReadMarket, ListOpen, Mark, Exit, RunDone,
         SaveTrade, CloseRequest, vars, loop
<1>5. AnalyzeFails \/ Calculate \/ SavePosition \/ Marking
         => account' = account \/ account' = << >>
  BY DEF AnalyzeFails, Calculate, HandleDecision, SavePosition, Marking, NextMatch
<1>6. Evaluate \/ PlaceOrder => account' = account \/ account' = << >>
  BY EvaluateCases, PlaceOrderCases DEF Approves, Bought, NextMatch
<1> QED
  BY <1>1, <1>2, <1>3, <1>4, <1>5, <1>6 DEF Next, LoopStep

\* The two queries of the portfolio, with closes between them, never make the
\* account worth more than its cash and its open positions, as long as all
\* trades are listed.
THEOREM ValueNeverOverstated == Spec => NeverOverstated
<1>1. Init => AccountsInv /\ SpentOK
  <2> SUFFICES ASSUME Init PROVE AccountsInv /\ SpentOK
    OBVIOUS
  <2>1. DOMAIN account = {}
    BY DEF Init
  <2> QED
    BY <2>1, MarketsInit, TablesInit, LoopInit DEF AccountsInv, SpentOK
<1>2. AccountsInv /\ SpentOK /\ [Next]_vars => (AccountsInv /\ SpentOK)'
  BY AccountsInvStep, SpentStep
<1>3. AccountsInv /\ SpentOK /\ [Next]_vars =>
         [Cardinality(DOMAIN account) = 1 /\ Cardinality(DOMAIN account') = 2 /\ Backed
          /\ Len(trades) <= TradesListed
             => Value(account') <= PaperStartingBalanceUSD + account'["positions"].pnl]_vars
  <2> SUFFICES ASSUME AccountsInv, SpentOK, [Next]_vars, Cardinality(DOMAIN account) = 1,
                      Cardinality(DOMAIN account') = 2, Backed, Len(trades) <= TradesListed
               PROVE  Value(account') <= PaperStartingBalanceUSD + account'["positions"].pnl
    OBVIOUS
  <2>1. TablesOK /\ ControlOK /\ AccountOK
    BY DEF AccountsInv, LoopOK
  <2>2. Query
    BY OnlyQueryAnswers
  <2>3. DOMAIN account = {"trades"}
    BY <2>1, <2>2, QueryAnswers, FS_EmptySet
  <2>4. account'["trades"] = account["trades"] /\ account'["positions"] = Answer("positions")
    BY <2>1, <2>2, <2>3, QueryAnswers
  <2>5. PICK spent, cost, gain, size :
           /\ spent = account["trades"].open /\ size = Size(trades, Open(trades))
           /\ cost = Answer("positions").exposure /\ gain = Answer("positions").pnl
    OBVIOUS
  <2>6. spent \in Int /\ cost \in Int /\ gain \in Int /\ size \in Int
    <3>1. spent \in Int
      BY <2>1, <2>3, <2>5 DEF AccountOK
    <3>2. cost \in Int /\ gain \in Int
      BY <2>1, <2>5, AnswersAreNumbers
    <3>3. Answer("trades").open = size
      BY <2>1, <2>5, AllListed DEF Answer
    <3>4. size \in Int
      BY <2>1, <3>3, AnswersAreNumbers
    <3> QED
      BY <3>1, <3>2, <3>4
  <2>7. cost <= size
    BY <2>5 DEF Backed, Answer
  <2>8. size <= spent
    BY <2>3, <2>5 DEF SpentOK
  <2>9. PaperStartingBalanceUSD \in Int
    BY SettingsAssumption
  <2>10. PaperStartingBalanceUSD - spent + cost + gain <= PaperStartingBalanceUSD + gain
    BY <2>6, <2>7, <2>8, <2>9
  <2> QED
    BY <2>4, <2>5, <2>10 DEF Value
<1> QED
  BY <1>1, <1>2, <1>3, PTL DEF Spec, NeverOverstated
=============================================================================
