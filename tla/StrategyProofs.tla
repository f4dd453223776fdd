---------------------------- MODULE StrategyProofs ----------------------------
(***************************************************************************)
(* What the methods of Strategy find, for all cards that a robot can hold: *)
(* the hands they put together are of the type that is asked for, and what *)
(* a robot leads and answers is among them.                                *)
(***************************************************************************)
EXTENDS Strategy, FiniteSetTheorems, TLAPS

-----------------------------------------------------------------------------
(* Points and counts *)

\* A set of numbers has a least one.
LEMMA LeastNumber ==
  ASSUME NEW S \in SUBSET Nat, S # {}
  PROVE  \E p \in S : \A q \in S : p <= q
<1> DEFINE R == OpToRel(<, Nat)
<1>1. \A x, y \in Nat : << x, y >> \in R <=> x < y
  BY DEF OpToRel
<1>2. IsWellFoundedOn(R, Nat)
  BY NatLessThanWellFounded
<1> HIDE DEF R
<1>3. PICK p \in S : \A q \in S : << q, p >> \notin R
  BY <1>2, WFMin
<1>4. \A q \in S : p <= q
  <2> TAKE q \in S
  <2>1. p \in Nat /\ q \in Nat /\ ~(q < p)
    BY <1>1, <1>3
  <2> QED
    BY <2>1
<1> QED
  BY <1>4

\* A set of points has a lowest and a highest one.
LEMMA FirstAndLast ==
  ASSUME NEW S \in SUBSET Points, S # {}
  PROVE  /\ First(S) \in S /\ \A q \in S : First(S) <= q
         /\ Last(S) \in S /\ \A q \in S : q <= Last(S)
<1>1. \E p \in S : \A q \in S : p <= q
  BY LeastNumber DEF Points
<1>2. \E p \in S : \A q \in S : q <= p
  <2> DEFINE Above == { u \in Points : \A q \in S : q <= u }
  <2>1. Above # {} /\ Above \in SUBSET Nat
    <3>1. 15 \in Above
      BY DEF Points
    <3> QED
      BY <3>1 DEF Points
  <2>2. PICK u \in Above : \A v \in Above : u <= v
    BY <2>1, LeastNumber
  <2>3. u \in S
    <3>1. SUFFICES ASSUME u \notin S PROVE FALSE
      OBVIOUS
    <3>2. u \in 1..15 /\ \A q \in S : q \in 1..15 /\ q <= u /\ q # u
      BY <2>2, <3>1 DEF Points
    <3>3. PICK q \in S : q <= u /\ q # u
      BY <3>2
    <3>5. u - 1 \in 1..15 /\ \A v \in S : v <= u - 1
      BY <3>2, <3>3
    <3>4. u - 1 \in Above
      BY <3>5 DEF Points
    <3> QED
      BY <2>2, <3>2, <3>4
  <2> QED
    BY <2>2, <2>3
<1> QED
  BY <1>1, <1>2 DEF First, Last

\* The points held n times are counted by a number.
LEMMA HeldFinite ==
  ASSUME NEW S \in SUBSET Points
  PROVE  /\ IsFiniteSet(S) /\ Cardinality(S) \in 0..15
         /\ Cardinality(S) = 0 <=> S = {}
<1>1. IsFiniteSet(Points) /\ Cardinality(Points) = 15
  <2>1. 1 \in Int /\ 15 \in Int
    OBVIOUS
  <2>2. IsFiniteSet(1..15) /\ Cardinality(1..15) = IF 1 > 15 THEN 0 ELSE 15 - 1 + 1
    BY <2>1, FS_Interval
  <2> QED
    BY <2>2 DEF Points
<1>2. IsFiniteSet(S) /\ Cardinality(S) <= 15
  BY <1>1, FS_Subset
<1> QED
  BY <1>2, FS_CardinalityType, FS_EmptySet

\* Of c that many points are held once, twice, three and four times.
Held4(c, n1, n2, n3, n4) ==
  /\ Cardinality(Held(c, 1)) = n1
  /\ Cardinality(Held(c, 2)) = n2
  /\ Cardinality(Held(c, 3)) = n3
  /\ Cardinality(Held(c, 4)) = n4

\* How many points a hand holds once, twice, three times and four times.
LEMMA ShapeIs ==
  ASSUME NEW c, NEW n1, NEW n2, NEW n3, NEW n4
  PROVE  Shape(c) = << n1, n2, n3, n4 >> <=> Held4(c, n1, n2, n3, n4)
<1> DEFINE s == Shape(c)
           z == << n1, n2, n3, n4 >>
<1>1. /\ s = [n \in 1..4 |-> s[n]]
      /\ s[1] = Cardinality(Held(c, 1)) /\ s[2] = Cardinality(Held(c, 2))
      /\ s[3] = Cardinality(Held(c, 3)) /\ s[4] = Cardinality(Held(c, 4))
  BY DEF Shape
<1>2. z[1] = n1 /\ z[2] = n2 /\ z[3] = n3 /\ z[4] = n4 /\ z = [n \in 1..4 |-> z[n]]
  OBVIOUS
<1>3. ASSUME Held4(c, n1, n2, n3, n4) PROVE s = z
  <2>1. \A n \in 1..4 : s[n] = z[n]
    <3> HIDE DEF s, z
    <3> QED
      BY <1>1, <1>2, <1>3 DEF Held4
  <2> HIDE DEF s, z
  <2> QED
    BY <1>1, <1>2, <2>1
<1> HIDE DEF s, z
<1>4. s = z => Held4(c, n1, n2, n3, n4)
  BY <1>1, <1>2 DEF Held4
<1> QED
  BY <1>3, <1>4 DEF s, z

\* The shape and the further conditions of each type; they exclude each other.
LEMMA TypeIs ==
  ASSUME NEW c
  PROVE  /\ HandType(c) = "Pass" <=> Held4(c, 0, 0, 0, 0)
         /\ HandType(c) = "Single" <=> Held4(c, 1, 0, 0, 0)
         /\ HandType(c) = "Pair" <=> Held4(c, 0, 1, 0, 0)
         /\ HandType(c) = "Triple" <=> Held4(c, 0, 0, 1, 0)
         /\ HandType(c) = "Triple_Single" <=> Held4(c, 1, 0, 1, 0)
         /\ HandType(c) = "Triple_Pair" <=> Held4(c, 0, 1, 1, 0)
         /\ HandType(c) = "Plane" <=>
             Held4(c, 0, 0, 2, 0) /\ Consecutive(Held(c, 3))
         /\ HandType(c) = "Plane_Two_Single" <=>
             Held4(c, 2, 0, 2, 0) /\ Consecutive(Held(c, 3)) /\ CarriedSingles(Held(c, 1))
         /\ HandType(c) = "Plane_Two_Pair" <=>
             Held4(c, 0, 2, 2, 0) /\ Consecutive(Held(c, 3))
         /\ HandType(c) = "Seq_Pair" <=>
             \E n \in 3..15 : Held4(c, 0, n, 0, 0) /\ Consecutive(Held(c, 2))
         /\ HandType(c) = "Seq_Single" <=>
             \E n \in 5..15 : Held4(c, n, 0, 0, 0) /\ Consecutive(Held(c, 1))
         /\ HandType(c) = "Bomb" <=> Held4(c, 0, 0, 0, 1)
         /\ HandType(c) = "Bomb_Single" <=> Held4(c, 1, 0, 0, 1)
         /\ HandType(c) = "Bomb_Pair" <=> Held4(c, 0, 1, 0, 1)
         /\ HandType(c) = "Bomb_Two_Single" <=>
             Held4(c, 2, 0, 0, 1) /\ CarriedSingles(Held(c, 1))
         /\ HandType(c) = "Bomb_Jokers" <=>
             Held4(c, 2, 0, 0, 0) /\ Held(c, 1) = Jokers
         /\ HandType(c) = "Bomb_Jokers_Single" <=>
             Held4(c, 3, 0, 0, 0) /\ Jokers \subseteq Held(c, 1)
         /\ HandType(c) = "Bomb_Jokers_Pair" <=>
             Held4(c, 2, 1, 0, 0) /\ Held(c, 1) = Jokers
         /\ HandType(c) = "Bomb_Jokers_Two_Single" <=>
             Held4(c, 4, 0, 0, 0) /\ Jokers \subseteq Held(c, 1)
<1> DEFINE n1 == Cardinality(Held(c, 1))
           n2 == Cardinality(Held(c, 2))
           n3 == Cardinality(Held(c, 3))
           n4 == Cardinality(Held(c, 4))
<1>1. n1 \in 0..15 /\ n2 \in 0..15 /\ n3 \in 0..15 /\ n4 \in 0..15
  BY HeldFinite DEF Held
<1>2. \A m1, m2, m3, m4 :
        Shape(c) = << m1, m2, m3, m4 >> <=> n1 = m1 /\ n2 = m2 /\ n3 = m3 /\ n4 = m4
  <2> TAKE m1, m2, m3, m4
  <2>1. Shape(c) = << m1, m2, m3, m4 >> <=> Held4(c, m1, m2, m3, m4)
    BY ShapeIs
  <2> QED
    BY <2>1 DEF Held4
<1>3. Shape(c)[1] = n1 /\ Shape(c)[2] = n2
  BY DEF Shape
<1>4. \A m1, m2, m3, m4 :
        Held4(c, m1, m2, m3, m4) <=> n1 = m1 /\ n2 = m2 /\ n3 = m3 /\ n4 = m4
  BY DEF Held4
<1> HIDE DEF n1, n2, n3, n4
<1>5. HandType(c) =
        CASE n1 = 0 /\ n2 = 0 /\ n3 = 0 /\ n4 = 0 -> "Pass"
          [] n1 = 1 /\ n2 = 0 /\ n3 = 0 /\ n4 = 0 -> "Single"
          [] n1 = 0 /\ n2 = 1 /\ n3 = 0 /\ n4 = 0 -> "Pair"
          [] n1 = 0 /\ n2 = 0 /\ n3 = 1 /\ n4 = 0 -> "Triple"
          [] n1 = 1 /\ n2 = 0 /\ n3 = 1 /\ n4 = 0 -> "Triple_Single"
          [] n1 = 0 /\ n2 = 1 /\ n3 = 1 /\ n4 = 0 -> "Triple_Pair"
          [] n1 = 0 /\ n2 = 0 /\ n3 = 2 /\ n4 = 0 /\ Consecutive(Held(c, 3)) -> "Plane"
          [] n1 = 2 /\ n2 = 0 /\ n3 = 2 /\ n4 = 0 /\ Consecutive(Held(c, 3)) /\ CarriedSingles(Held(c, 1)) -> "Plane_Two_Single"
          [] n1 = 0 /\ n2 = 2 /\ n3 = 2 /\ n4 = 0 /\ Consecutive(Held(c, 3)) -> "Plane_Two_Pair"
          [] n1 = 0 /\ n3 = 0 /\ n4 = 0 /\ n2 >= 3 /\ Consecutive(Held(c, 2)) -> "Seq_Pair"
          [] n2 = 0 /\ n3 = 0 /\ n4 = 0 /\ n1 >= 5 /\ Consecutive(Held(c, 1)) -> "Seq_Single"
          [] n1 = 0 /\ n2 = 0 /\ n3 = 0 /\ n4 = 1 -> "Bomb"
          [] n1 = 1 /\ n2 = 0 /\ n3 = 0 /\ n4 = 1 -> "Bomb_Single"
          [] n1 = 0 /\ n2 = 1 /\ n3 = 0 /\ n4 = 1 -> "Bomb_Pair"
          [] n1 = 2 /\ n2 = 0 /\ n3 = 0 /\ n4 = 1 /\ CarriedSingles(Held(c, 1)) -> "Bomb_Two_Single"
          [] n1 = 2 /\ n2 = 0 /\ n3 = 0 /\ n4 = 0 /\ Held(c, 1) = Jokers -> "Bomb_Jokers"
          [] n1 = 3 /\ n2 = 0 /\ n3 = 0 /\ n4 = 0 /\ Jokers \subseteq Held(c, 1) -> "Bomb_Jokers_Single"
          [] n1 = 2 /\ n2 = 1 /\ n3 = 0 /\ n4 = 0 /\ Held(c, 1) = Jokers -> "Bomb_Jokers_Pair"
          [] n1 = 4 /\ n2 = 0 /\ n3 = 0 /\ n4 = 0 /\ Jokers \subseteq Held(c, 1) -> "Bomb_Jokers_Two_Single"
          [] OTHER -> "Unknown"
  BY <1>2, <1>3 DEF HandType
<1>Pass. HandType(c) = "Pass" <=> Held4(c, 0, 0, 0, 0)
  BY <1>1, <1>4, <1>5
<1>Single. HandType(c) = "Single" <=> Held4(c, 1, 0, 0, 0)
  BY <1>1, <1>4, <1>5
<1>Pair. HandType(c) = "Pair" <=> Held4(c, 0, 1, 0, 0)
  BY <1>1, <1>4, <1>5
<1>Triple. HandType(c) = "Triple" <=> Held4(c, 0, 0, 1, 0)
  BY <1>1, <1>4, <1>5
<1>Triple_Single. HandType(c) = "Triple_Single" <=> Held4(c, 1, 0, 1, 0)
  BY <1>1, <1>4, <1>5
<1>Triple_Pair. HandType(c) = "Triple_Pair" <=> Held4(c, 0, 1, 1, 0)
  BY <1>1, <1>4, <1>5
<1>Plane. HandType(c) = "Plane" <=>
             Held4(c, 0, 0, 2, 0) /\ Consecutive(Held(c, 3))
  BY <1>1, <1>4, <1>5
<1>Plane_Two_Single. HandType(c) = "Plane_Two_Single" <=>
             Held4(c, 2, 0, 2, 0) /\ Consecutive(Held(c, 3)) /\ CarriedSingles(Held(c, 1))
  BY <1>1, <1>4, <1>5
<1>Plane_Two_Pair. HandType(c) = "Plane_Two_Pair" <=>
             Held4(c, 0, 2, 2, 0) /\ Consecutive(Held(c, 3))
  BY <1>1, <1>4, <1>5
<1>Seq_Pair. HandType(c) = "Seq_Pair" <=>
             \E n \in 3..15 : Held4(c, 0, n, 0, 0) /\ Consecutive(Held(c, 2))
  BY <1>1, <1>4, <1>5
<1>Seq_Single. HandType(c) = "Seq_Single" <=>
             \E n \in 5..15 : Held4(c, n, 0, 0, 0) /\ Consecutive(Held(c, 1))
  BY <1>1, <1>4, <1>5
<1>Bomb. HandType(c) = "Bomb" <=> Held4(c, 0, 0, 0, 1)
  BY <1>1, <1>4, <1>5
<1>Bomb_Single. HandType(c) = "Bomb_Single" <=> Held4(c, 1, 0, 0, 1)
  BY <1>1, <1>4, <1>5
<1>Bomb_Pair. HandType(c) = "Bomb_Pair" <=> Held4(c, 0, 1, 0, 1)
  BY <1>1, <1>4, <1>5
<1>Bomb_Two_Single. HandType(c) = "Bomb_Two_Single" <=>
             Held4(c, 2, 0, 0, 1) /\ CarriedSingles(Held(c, 1))
  BY <1>1, <1>4, <1>5
<1>Bomb_Jokers. HandType(c) = "Bomb_Jokers" <=>
             Held4(c, 2, 0, 0, 0) /\ Held(c, 1) = Jokers
  BY <1>1, <1>4, <1>5
<1>Bomb_Jokers_Single. HandType(c) = "Bomb_Jokers_Single" <=>
             Held4(c, 3, 0, 0, 0) /\ Jokers \subseteq Held(c, 1)
  BY <1>1, <1>4, <1>5
<1>Bomb_Jokers_Pair. HandType(c) = "Bomb_Jokers_Pair" <=>
             Held4(c, 2, 1, 0, 0) /\ Held(c, 1) = Jokers
  BY <1>1, <1>4, <1>5
<1>Bomb_Jokers_Two_Single. HandType(c) = "Bomb_Jokers_Two_Single" <=>
             Held4(c, 4, 0, 0, 0) /\ Jokers \subseteq Held(c, 1)
  BY <1>1, <1>4, <1>5
<1> QED
  BY <1>Pass, <1>Single, <1>Pair, <1>Triple, <1>Triple_Single, <1>Triple_Pair, <1>Plane, <1>Plane_Two_Single, <1>Plane_Two_Pair, <1>Seq_Pair, <1>Seq_Single, <1>Bomb, <1>Bomb_Single, <1>Bomb_Pair, <1>Bomb_Two_Single, <1>Bomb_Jokers, <1>Bomb_Jokers_Single, <1>Bomb_Jokers_Pair, <1>Bomb_Jokers_Two_Single

\* Cards are as many as their shape says.
LEMMA CountOfShape ==
  ASSUME NEW c \in Counts, NEW n1, NEW n2, NEW n3, NEW n4, Held4(c, n1, n2, n3, n4)
  PROVE  CardCount(c) = n1 + 2 * n2 + 3 * n3 + 4 * n4
<1> DEFINE P(n) == Held(c, n) \X (1..n)
<1>1. { x \in Points \X (1..4) : x[2] <= c[x[1]] } = (P(1) \cup P(2)) \cup (P(3) \cup P(4))
  <2>1. ASSUME NEW p \in Points, NEW n \in 1..4
        PROVE  n <= c[p] <=> \E k \in 1..4 : c[p] = k /\ n \in 1..k
    <3>1. c[p] \in 0..4
      BY DEF Counts
    <3> QED
      BY <3>1
  <2>2. \A k \in 1..4 : 1..k \subseteq 1..4
    OBVIOUS
  <2> DEFINE X == { x \in Points \X (1..4) : x[2] <= c[x[1]] }
             U == (P(1) \cup P(2)) \cup (P(3) \cup P(4))
  <2>3. ASSUME NEW x \in X PROVE x \in U
    <3>1. PICK p \in Points, n \in 1..4 : x = << p, n >> /\ n <= c[p]
      OBVIOUS
    <3>2. PICK k \in 1..4 : c[p] = k /\ n \in 1..k
      BY <2>1, <3>1
    <3>3. x \in P(k)
      BY <3>1, <3>2 DEF Held
    <3> HIDE DEF P
    <3> QED
      BY <3>3
  <2>4. ASSUME NEW k \in 1..4, NEW x \in P(k) PROVE x \in X
    <3>1. PICK p \in Points, n \in 1..k : x = << p, n >> /\ c[p] = k
      BY DEF Held
    <3> QED
      BY <2>1, <2>2, <3>1
  <2>5. ASSUME NEW x \in U PROVE \E k \in 1..4 : x \in P(k)
    <3> HIDE DEF P
    <3> QED
      OBVIOUS
  <2> HIDE DEF P, X
  <2> QED
    BY <2>3, <2>4, <2>5 DEF X
<1>2. ASSUME NEW n \in 1..4
      PROVE  IsFiniteSet(P(n)) /\ Cardinality(P(n)) = Cardinality(Held(c, n)) * n
  <2>1. IsFiniteSet(Held(c, n))
    BY HeldFinite DEF Held
  <2>2. IsFiniteSet(1..n) /\ Cardinality(1..n) = IF 1 > n THEN 0 ELSE n - 1 + 1
    <3>1. 1 \in Int /\ n \in Int
      OBVIOUS
    <3> QED
      BY <3>1, FS_Interval
  <2>3. Cardinality(1..n) = n
    BY <2>2
  <2> QED
    BY <2>1, <2>2, <2>3, FS_Product
<1>3. \A i, j \in 1..4 : i # j => P(i) \cap P(j) = {}
  BY DEF Held
<1>4. n1 \in Nat /\ n2 \in Nat /\ n3 \in Nat /\ n4 \in Nat
  BY HeldFinite DEF Held, Held4
<1>5. /\ IsFiniteSet(P(1)) /\ Cardinality(P(1)) = n1
      /\ IsFiniteSet(P(2)) /\ Cardinality(P(2)) = 2 * n2
      /\ IsFiniteSet(P(3)) /\ Cardinality(P(3)) = 3 * n3
      /\ IsFiniteSet(P(4)) /\ Cardinality(P(4)) = 4 * n4
  <2> HIDE DEF P
  <2> QED
    BY <1>2, <1>4 DEF Held4
<1>6. /\ P(1) \cap P(2) = {} /\ P(3) \cap P(4) = {}
      /\ (P(1) \cup P(2)) \cap (P(3) \cup P(4)) = {}
  <2> HIDE DEF P
  <2> QED
    BY <1>3
<1> HIDE DEF P
<1>7. /\ IsFiniteSet(P(1) \cup P(2)) /\ Cardinality(P(1) \cup P(2)) = n1 + 2 * n2
      /\ IsFiniteSet(P(3) \cup P(4)) /\ Cardinality(P(3) \cup P(4)) = 3 * n3 + 4 * n4
  <2>1. /\ IsFiniteSet(P(1) \cup P(2)) /\ IsFiniteSet(P(3) \cup P(4))
        /\ Cardinality(P(1) \cup P(2))
             = Cardinality(P(1)) + Cardinality(P(2)) - Cardinality({})
        /\ Cardinality(P(3) \cup P(4))
             = Cardinality(P(3)) + Cardinality(P(4)) - Cardinality({})
    BY <1>5, <1>6, FS_Union
  <2> QED
    BY <1>4, <1>5, <2>1, FS_EmptySet
<1>8. Cardinality((P(1) \cup P(2)) \cup (P(3) \cup P(4)))
        = Cardinality(P(1) \cup P(2)) + Cardinality(P(3) \cup P(4)) - Cardinality({})
  BY <1>6, <1>7, FS_Union
<1>9. Cardinality((P(1) \cup P(2)) \cup (P(3) \cup P(4))) = n1 + 2 * n2 + 3 * n3 + 4 * n4
  <2>1. Cardinality({}) = 0
    BY FS_EmptySet
  <2> QED
    BY <1>4, <1>7, <1>8, <2>1
<1>10. CardCount(c) = Cardinality({ x \in Points \X (1..4) : x[2] <= c[x[1]] })
  BY Zenon DEF CardCount
<1> QED
  BY <1>1, <1>9, <1>10, Zenon

\* Cards of the type Pass are none.
LEMMA PassIsNone ==
  ASSUME NEW c \in Counts, HandType(c) = "Pass"
  PROVE  c = NoCards
<1>1. Held4(c, 0, 0, 0, 0)
  BY TypeIs
<1>2. \A n \in 1..4 : Held(c, n) = {}
  BY <1>1, HeldFinite DEF Held4, Held
<1>3. \A p \in Points : c[p] \in 0..4 /\ c[p] \notin 1..4
  BY <1>2 DEF Held, Counts
<1>4. c = [p \in Points |-> c[p]]
  BY DEF Counts
<1> QED
  BY <1>3, <1>4 DEF NoCards

\* The point of a hand is a number.
LEMMA PointIsNumber ==
  ASSUME NEW c
  PROVE  HandPoint(c) \in Nat
<1> DEFINE t == HandType(c)
<1>1. \A n \in 1..4 : Held(c, n) \in SUBSET Points
  BY DEF Held
<1>2. \A n \in 1..4 : Held(c, n) # {} => First(Held(c, n)) \in Nat
  BY <1>1, FirstAndLast DEF Points
<1>3. /\ t \in {"Single", "Seq_Single"} => Cardinality(Held(c, 1)) # 0
      /\ t \in {"Pair", "Seq_Pair"} => Cardinality(Held(c, 2)) # 0
      /\ t \in Ordinary \ {"Single", "Pair", "Seq_Single", "Seq_Pair"} =>
           Cardinality(Held(c, 3)) # 0
      /\ t \in Bombs => Cardinality(Held(c, 4)) # 0
  BY TypeIs DEF Held4, Ordinary, Bombs
<1>4. /\ t \in {"Single", "Seq_Single"} => First(Held(c, 1)) \in Nat
      /\ t \in {"Pair", "Seq_Pair"} => First(Held(c, 2)) \in Nat
      /\ t \in Ordinary \ {"Single", "Pair", "Seq_Single", "Seq_Pair"} =>
           First(Held(c, 3)) \in Nat
      /\ t \in Bombs => First(Held(c, 4)) \in Nat
  BY <1>1, <1>2, <1>3, HeldFinite
<1> HIDE DEF t
<1> QED
  BY <1>4 DEF HandPoint, t

\* Two hands of one type, and of one length if they are sequences, have one size.
LEMMA SameTypeSameSize ==
  ASSUME NEW c \in Counts, NEW d \in Counts,
         HandType(c) = HandType(d), HandType(c) # "Unknown",
         HandType(c) \in Types,
         HandType(c) \in Sequences => HandExtra(c) = HandExtra(d)
  PROVE  CardCount(c) = CardCount(d)
<1>1. CASE HandType(c) \notin Sequences
  <2>1. \E n1, n2, n3, n4 : Held4(c, n1, n2, n3, n4) /\ Held4(d, n1, n2, n3, n4)
    BY <1>1, TypeIs DEF Types, Sequences, Ordinary, Bombs, JokerBombs
  <2> QED
    BY <2>1, CountOfShape
<1>2. CASE HandType(c) = "Seq_Pair"
  <2>1. PICK n \in 3..15, m \in 3..15 : Held4(c, 0, n, 0, 0) /\ Held4(d, 0, m, 0, 0)
    BY <1>2, TypeIs
  <2>2. n = m
    BY <1>2, <2>1 DEF HandExtra, Sequences, Held4
  <2> QED
    BY <2>1, <2>2, CountOfShape
<1>3. CASE HandType(c) = "Seq_Single"
  <2>1. PICK n \in 5..15, m \in 5..15 : Held4(c, n, 0, 0, 0) /\ Held4(d, m, 0, 0, 0)
    BY <1>3, TypeIs
  <2>2. n = m
    BY <1>3, <2>1 DEF HandExtra, Sequences, Held4
  <2> QED
    BY <2>1, <2>2, CountOfShape
<1> QED
  BY <1>1, <1>2, <1>3 DEF Sequences

\* Every hand has one of the types.
LEMMA TypeIsAType == \A c : HandType(c) \in Types
BY DEF HandType, Types, Ordinary, Bombs, JokerBombs

\* No card is as good as any choice of cards.
LEMMA NoCardsPicked == NoCards \in Counts
BY DEF NoCards, Counts, Points, Card_SJ, Card_BJ

-----------------------------------------------------------------------------
(* Kinds of hands *)

\* The points held of what two lots of cards make together.
LEMMA HeldOfLots ==
  ASSUME NEW S \in SUBSET Points, NEW T \in SUBSET Points, S \cap T = {},
         NEW n \in 1..4, NEW k \in 1..4, NEW m \in 1..4
  PROVE  Held(With(Each(n, S), Each(k, T)), m) =
           (IF m = n THEN S ELSE {}) \cup (IF m = k THEN T ELSE {})
<1>1. \A p \in Points : With(Each(n, S), Each(k, T))[p] =
                          IF p \in S THEN n ELSE IF p \in T THEN k ELSE 0
  BY DEF With, Each
<1>2. \A p \in Points : With(Each(n, S), Each(k, T))[p] = m <=>
                          p \in (IF m = n THEN S ELSE {}) \cup (IF m = k THEN T ELSE {})
  BY <1>1
<1> QED
  BY <1>2 DEF Held

\* Sets of one and of two points.
LEMMA OnePoint ==
  ASSUME NEW S \in SUBSET Points
  PROVE  Cardinality(S) = 1 <=> \E p \in Points : S = {p}
<1>1. IsFiniteSet(S)
  BY HeldFinite
<1>2. Cardinality(S) = 1 <=> \E p : S = {p}
  BY <1>1, FS_Singleton
<1> QED
  BY <1>2

\* Two points are one and another.
LEMMA TwoPoints ==
  ASSUME NEW S \in SUBSET Points
  PROVE  Cardinality(S) = 2 <=> \E p, q \in Points : p # q /\ S = {p, q}
<1>1. ASSUME Cardinality(S) = 2 PROVE \E p, q \in Points : p # q /\ S = {p, q}
  <2>1. IsFiniteSet(S) /\ S # {}
    BY <1>1, HeldFinite
  <2>2. PICK p \in S : TRUE
    BY <2>1
  <2>3. Cardinality(S \ {p}) = 1
    BY <1>1, <2>1, <2>2, FS_RemoveElement
  <2>4. PICK q \in Points : S \ {p} = {q}
    BY <2>3, OnePoint
  <2> QED
    BY <2>2, <2>4
<1>2. ASSUME NEW p \in Points, NEW q \in Points, p # q, S = {p, q}
      PROVE  Cardinality(S) = 2
  <2>1. IsFiniteSet({p}) /\ Cardinality({p}) = 1
    BY FS_Singleton
  <2>2. Cardinality({p} \cup {q}) = Cardinality({p}) + 1
    BY <1>2, <2>1, FS_AddElement
  <2>3. S = {p} \cup {q}
    BY <1>2
  <2> QED
    BY <2>1, <2>2, <2>3
<1> QED
  BY <1>1, <1>2

\* Neighbouring points are a run.
LEMMA RunIs ==
  ASSUME NEW S \in SUBSET Points, NEW k \in 1..15
  PROVE  Cardinality(S) = k /\ Consecutive(S) <=>
           k <= 12 /\ \E a \in 1..(Card_A - k + 1) : S = a..(a + k - 1)
<1>1. ASSUME Cardinality(S) = k, Consecutive(S)
      PROVE  k <= 12 /\ \E a \in 1..(Card_A - k + 1) : S = a..(a + k - 1)
  <2>1. S # {}
    BY <1>1, HeldFinite
  <2> DEFINE a == First(S)
             z == Last(S)
  <2>2. a \in 1..15 /\ z \in 1..15 /\ z - a = k - 1 /\ z < 13 /\ S \subseteq a..z
    <3>1. a \in S /\ z \in S /\ \A q \in S : a <= q /\ q <= z
      BY <2>1, FirstAndLast
    <3>2. z - a = Cardinality(S) - 1 /\ z < 13
      BY <1>1 DEF Consecutive, Card_2
    <3> HIDE DEF a, z
    <3>3. \A q \in S : q \in 1..15
      BY DEF Points
    <3>4. a \in 1..15 /\ z \in 1..15 /\ \A q \in S : q \in a..z
      BY <3>1, <3>3
    <3> QED
      BY <1>1, <3>2, <3>4
  <2> HIDE DEF a, z
  <2>3. IsFiniteSet(a..z) /\ Cardinality(a..z) = IF a > z THEN 0 ELSE z - a + 1
    <3>1. a \in Int /\ z \in Int
      BY <2>2
    <3> QED
      BY <3>1, FS_Interval
  <2>4. Cardinality(a..z) = k
    BY <2>2, <2>3
  <2>5. S = a..z
    BY <1>1, <2>2, <2>3, <2>4, FS_Subset
  <2>6. k <= 12 /\ a \in 1..(Card_A - k + 1) /\ S = a..(a + k - 1)
    BY <2>2, <2>5 DEF Card_A
  <2> QED
    BY <2>6
<1>2. ASSUME k <= 12, \E a \in 1..(Card_A - k + 1) : S = a..(a + k - 1)
      PROVE  Cardinality(S) = k /\ Consecutive(S)
  <2>1. PICK a \in 1..(12 - k + 1) : S = a..(a + k - 1)
    BY <1>2 DEF Card_A
  <2>2. IsFiniteSet(S) /\ Cardinality(S) = IF a > a + k - 1 THEN 0 ELSE (a + k - 1) - a + 1
    <3>1. a \in Int /\ a + k - 1 \in Int
      BY <1>2
    <3> QED
      BY <2>1, <3>1, FS_Interval
  <2>3. Cardinality(S) = k
    BY <1>2, <2>2
  <2>4. a \in S /\ a + k - 1 \in S /\ S # {}
    <3>1. a \in Int /\ a <= a + k - 1
      BY <1>2
    <3> QED
      BY <2>1, <3>1
  <2>5. First(S) = a /\ Last(S) = a + k - 1
    <3>1. /\ First(S) \in a..(a + k - 1) /\ First(S) <= a
          /\ Last(S) \in a..(a + k - 1) /\ a + k - 1 <= Last(S)
      BY <2>1, <2>4, FirstAndLast
    <3> QED
      BY <1>2, <3>1
  <2> QED
    BY <1>2, <2>3, <2>5 DEF Consecutive, Card_2
<1> QED
  BY <1>1, <1>2

\* No points are held n times.
LEMMA NoneHeld ==
  ASSUME NEW c, NEW n \in 1..4
  PROVE  Held(c, n) = {} <=> Cardinality(Held(c, n)) = 0
BY HeldFinite DEF Held

\* A hand that holds nothing is the empty one.
LEMMA NoCardsIs ==
  ASSUME NEW c \in Counts
  PROVE  c = NoCards <=> Held4(c, 0, 0, 0, 0)
<1>1. c = NoCards => \A n \in 1..4 : Held(c, n) = {}
  BY DEF Held, NoCards
<1>2. c = NoCards => Held4(c, 0, 0, 0, 0)
  BY <1>1, NoneHeld DEF Held4
<1>3. Held4(c, 0, 0, 0, 0) => c = NoCards
  BY TypeIs, PassIsNone
<1> QED
  BY <1>2, <1>3

\* The singles that are carried are not the jokers, and may be any others but the big one.
LEMMA CarriedIs ==
  ASSUME NEW S \in SUBSET Points, Cardinality(S) = 2
  PROVE  /\ CarriedSingles(S) => S # Jokers
         /\ S # Jokers => CarriedSingles(S) \/ Card_BJ \in S
<1>1. PICK p, q \in Points : p # q /\ S = {p, q}
  BY TwoPoints
<1>2. /\ First(S) \in S /\ \A r \in S : First(S) <= r
      /\ Last(S) \in S
  BY <1>1, FirstAndLast
<1>3. S = Jokers => First(S) = Card_SJ
  BY <1>2 DEF Jokers, Card_SJ, Card_BJ
<1>4. First(S) = Card_SJ => S = Jokers
  BY <1>1, <1>2 DEF Jokers, Card_SJ, Card_BJ, Points
<1> QED
  BY <1>2, <1>3, <1>4 DEF CarriedSingles

-----------------------------------------------------------------------------
(* The hands that a robot puts together *)

\* What two lots of cards make together has the points of the one and of the other.
LEMMA LotsHeld ==
  ASSUME NEW S \in SUBSET Points, NEW T \in SUBSET Points, S \cap T = {},
         NEW n \in 1..4, NEW k \in 1..4, n # k
  PROVE  /\ Held(With(Each(n, S), Each(k, T)), n) = S
         /\ Held(With(Each(n, S), Each(k, T)), k) = T
         /\ \A m \in (1..4) \ {n, k} :
              /\ Held(With(Each(n, S), Each(k, T)), m) = {}
              /\ Cardinality(Held(With(Each(n, S), Each(k, T)), m)) = 0
<1>1. \A m \in 1..4 : Held(With(Each(n, S), Each(k, T)), m) =
                        (IF m = n THEN S ELSE {}) \cup (IF m = k THEN T ELSE {})
  BY HeldOfLots
<1>2. Cardinality({}) = 0
  BY FS_EmptySet
<1> QED
  BY <1>1, <1>2

\* n cards of the points of S and no others.
LEMMA LotHeld ==
  ASSUME NEW S \in SUBSET Points, NEW n \in 1..4
  PROVE  /\ Held(Each(n, S), n) = S
         /\ \A m \in (1..4) \ {n} :
              Held(Each(n, S), m) = {} /\ Cardinality(Held(Each(n, S), m)) = 0
<1>1. \A p \in Points : Each(n, S)[p] = IF p \in S THEN n ELSE 0
  BY DEF Each
<1>2. Held(Each(n, S), n) = S /\ \A m \in (1..4) \ {n} : Held(Each(n, S), m) = {}
  BY <1>1 DEF Held
<1>3. Cardinality({}) = 0
  BY FS_EmptySet
<1> QED
  BY <1>2, <1>3

\* No other point of a set is its lowest.
LEMMA FirstIs ==
  ASSUME NEW S \in SUBSET Points, NEW p \in S, \A q \in S : p <= q
  PROVE  First(S) = p
<1>1. First(S) \in S /\ First(S) <= p /\ p <= First(S)
  BY FirstAndLast
<1>2. First(S) \in 1..15 /\ p \in 1..15
  BY <1>1 DEF Points
<1> QED
  BY <1>1, <1>2

\* Cards of one point: a single, a pair, a triple or a bomb.
LEMMA OnePointHand ==
  ASSUME NEW p \in Points, NEW n \in 1..4
  PROVE  /\ HandType(Each(n, {p})) = << "Single", "Pair", "Triple", "Bomb" >>[n]
         /\ HandPoint(Each(n, {p})) = p
<1> DEFINE x == Each(n, {p})
<1>1. {p} \in SUBSET Points /\ First({p}) = p /\ Cardinality({p}) = 1
  <2>1. p <= p
    BY DEF Points
  <2> QED
    BY <2>1, FirstIs, FS_Singleton
<1>2. Held(x, n) = {p} /\ \A m \in (1..4) \ {n} : Cardinality(Held(x, m)) = 0
  BY <1>1, LotHeld
<1> HIDE DEF x
<1>3. HandType(x) = << "Single", "Pair", "Triple", "Bomb" >>[n]
  <2>1. /\ n = 1 => Held4(x, 1, 0, 0, 0)
        /\ n = 2 => Held4(x, 0, 1, 0, 0)
        /\ n = 3 => Held4(x, 0, 0, 1, 0)
        /\ n = 4 => Held4(x, 0, 0, 0, 1)
    BY <1>1, <1>2 DEF Held4
  <2>2. /\ n = 1 => HandType(x) = "Single"
        /\ n = 2 => HandType(x) = "Pair"
        /\ n = 3 => HandType(x) = "Triple"
        /\ n = 4 => HandType(x) = "Bomb"
    BY <2>1, TypeIs
  <2> QED
    BY <2>2
<1>4. HandPoint(x) = First(Held(x, n))
  BY <1>3 DEF HandPoint, Ordinary, Bombs
<1> QED
  BY <1>1, <1>2, <1>3, <1>4 DEF x

\* Three cards of one point with a kicker.
LEMMA TripleWithKicker ==
  ASSUME NEW p \in Points, NEW q \in Points, p # q, NEW k \in 1..2
  PROVE  LET x == With(Each(3, {p}), Each(k, {q}))
         IN  HandType(x) = << "Triple_Single", "Triple_Pair" >>[k] /\ HandPoint(x) = p
<1> DEFINE S == {p}
           T == {q}
           x == With(Each(3, S), Each(k, T))
<1>1. /\ S \in SUBSET Points /\ T \in SUBSET Points /\ S \cap T = {}
      /\ First(S) = p /\ Cardinality(S) = 1 /\ Cardinality(T) = 1
  <2>1. p <= p /\ S \in SUBSET Points /\ T \in SUBSET Points /\ S \cap T = {}
    BY DEF Points
  <2>2. First(S) = p
    BY <2>1, FirstIs
  <2> QED
    BY <2>1, <2>2, FS_Singleton
<1> HIDE DEF S, T
<1>2. /\ Held(x, 3) = S /\ Held(x, k) = T
      /\ \A m \in (1..4) \ {3, k} : Cardinality(Held(x, m)) = 0
  BY <1>1, LotsHeld
<1> HIDE DEF x
<1>3. HandType(x) = << "Triple_Single", "Triple_Pair" >>[k]
  <2>1. /\ k = 1 => Held4(x, 1, 0, 1, 0)
        /\ k = 2 => Held4(x, 0, 1, 1, 0)
    BY <1>1, <1>2 DEF Held4
  <2>2. /\ k = 1 => HandType(x) = "Triple_Single"
        /\ k = 2 => HandType(x) = "Triple_Pair"
    BY <2>1, TypeIs
  <2> QED
    BY <2>2
<1>4. HandPoint(x) = First(Held(x, 3))
  BY <1>3 DEF HandPoint, Ordinary, Bombs
<1> QED
  BY <1>1, <1>2, <1>3, <1>4 DEF x, S, T

\* Points one after the other, the last an ace at most.
LEMMA RunPoints ==
  ASSUME NEW a \in Nat, NEW k \in 1..12, 1 <= a, a + k - 1 <= Card_A
  PROVE  /\ a..(a + k - 1) \in SUBSET Points
         /\ Cardinality(a..(a + k - 1)) = k
         /\ Consecutive(a..(a + k - 1))
         /\ First(a..(a + k - 1)) = a
<1>1. a..(a + k - 1) \in SUBSET Points /\ a \in a..(a + k - 1)
  BY DEF Points, Card_A
<1>2. a \in 1..(Card_A - k + 1) /\ k \in 1..15 /\ k <= 12
  BY DEF Card_A
<1>3. \E e \in 1..(Card_A - k + 1) : a..(a + k - 1) = e..(e + k - 1)
  BY <1>2
<1>4. First(a..(a + k - 1)) = a
  <2>1. \A q \in a..(a + k - 1) : a <= q
    OBVIOUS
  <2> QED
    BY <1>1, <2>1, FirstIs
<1> QED
  BY <1>1, <1>2, <1>3, <1>4, RunIs

\* Two neighbouring triples.
LEMMA TwoNeighbours ==
  ASSUME NEW p \in Points, p < Card_A
  PROVE  /\ {p, p + 1} \in SUBSET Points /\ Cardinality({p, p + 1}) = 2
         /\ Consecutive({p, p + 1}) /\ First({p, p + 1}) = p
<1>1. p \in Nat /\ 1 <= p /\ p + 2 - 1 <= Card_A /\ p..(p + 2 - 1) = {p, p + 1} /\ 2 \in 1..12
  BY DEF Points, Card_A
<1> HIDE DEF Card_A
<1> QED
  BY <1>1, RunPoints

\* A plane.
LEMMA PlaneHand ==
  ASSUME NEW p \in Points, p < Card_A
  PROVE  HandType(Each(3, {p, p + 1})) = "Plane" /\ HandPoint(Each(3, {p, p + 1})) = p
<1> DEFINE S == {p, p + 1}
           x == Each(3, S)
<1>1. S \in SUBSET Points /\ Cardinality(S) = 2 /\ Consecutive(S) /\ First(S) = p
  BY TwoNeighbours
<1>2. Held(x, 3) = S /\ \A m \in (1..4) \ {3} : Cardinality(Held(x, m)) = 0
  BY <1>1, LotHeld
<1> HIDE DEF x, S
<1>3. HandType(x) = "Plane"
  BY <1>1, <1>2, TypeIs DEF Held4
<1>4. HandPoint(x) = First(Held(x, 3))
  BY <1>3 DEF HandPoint, Ordinary, Bombs
<1> QED
  BY <1>1, <1>2, <1>3, <1>4 DEF x, S

\* A plane with two kickers that are no points of its own.
LEMMA PlaneWithKickers ==
  ASSUME NEW p \in Points, p < Card_A, NEW T \in SUBSET Points, Cardinality(T) = 2,
         T \cap {p, p + 1} = {}, NEW k \in 1..2, k = 1 => CarriedSingles(T)
  PROVE  LET x == With(Each(3, {p, p + 1}), Each(k, T))
         IN  HandType(x) = << "Plane_Two_Single", "Plane_Two_Pair" >>[k] /\ HandPoint(x) = p
<1> DEFINE S == {p, p + 1}
           x == With(Each(3, S), Each(k, T))
<1>1. S \in SUBSET Points /\ Cardinality(S) = 2 /\ Consecutive(S) /\ First(S) = p
  BY TwoNeighbours
<1>2. /\ Held(x, 3) = S /\ Held(x, k) = T
      /\ \A m \in (1..4) \ {3, k} : Cardinality(Held(x, m)) = 0
  <2>1. S \cap T = {}
    OBVIOUS
  <2> QED
    BY <1>1, <2>1, LotsHeld
<1> HIDE DEF x, S
<1>3. HandType(x) = << "Plane_Two_Single", "Plane_Two_Pair" >>[k]
  <2>1. /\ k = 1 => HandType(x) = "Plane_Two_Single"
        /\ k = 2 => HandType(x) = "Plane_Two_Pair"
    BY <1>1, <1>2, TypeIs DEF Held4
  <2> QED
    BY <2>1
<1>4. HandPoint(x) = First(Held(x, 3))
  BY <1>3 DEF HandPoint, Ordinary, Bombs
<1> QED
  BY <1>1, <1>2, <1>3, <1>4 DEF x, S

\* A sequence of at least five singles or three pairs.
LEMMA SequenceHand ==
  ASSUME NEW a \in Nat, NEW k \in 1..12, 1 <= a, a + k - 1 <= Card_A,
         NEW n \in 1..2, k >= IF n = 1 THEN 5 ELSE 3
  PROVE  LET x == Each(n, a..(a + k - 1))
         IN  /\ HandType(x) = << "Seq_Single", "Seq_Pair" >>[n]
             /\ HandPoint(x) = a /\ HandExtra(x) = k
<1> DEFINE S == a..(a + k - 1)
           x == Each(n, S)
<1>1. S \in SUBSET Points /\ Cardinality(S) = k /\ Consecutive(S) /\ First(S) = a
  BY RunPoints
<1>2. Held(x, n) = S /\ \A m \in (1..4) \ {n} : Cardinality(Held(x, m)) = 0
  BY <1>1, LotHeld
<1> HIDE DEF x, S
<1>3. HandType(x) = << "Seq_Single", "Seq_Pair" >>[n]
  <2>1. n = 1 => HandType(x) = "Seq_Single"
    <3> SUFFICES ASSUME n = 1 PROVE HandType(x) = "Seq_Single"
      OBVIOUS
    <3>1. k \in 5..15 /\ Held4(x, k, 0, 0, 0) /\ Consecutive(Held(x, 1))
      BY <1>1, <1>2 DEF Held4
    <3> QED
      BY <3>1, TypeIs
  <2>2. n = 2 => HandType(x) = "Seq_Pair"
    <3> SUFFICES ASSUME n = 2 PROVE HandType(x) = "Seq_Pair"
      OBVIOUS
    <3>1. k \in 3..15 /\ Held4(x, 0, k, 0, 0) /\ Consecutive(Held(x, 2))
      BY <1>1, <1>2 DEF Held4
    <3> QED
      BY <3>1, TypeIs
  <2> QED
    BY <2>1, <2>2
<1>4. HandPoint(x) = First(Held(x, n)) /\ HandExtra(x) = Cardinality(Held(x, n))
  BY <1>3 DEF HandPoint, HandExtra, Ordinary, Bombs
<1> QED
  BY <1>1, <1>2, <1>3, <1>4 DEF x, S

\* The two jokers make a hand that beats everything.
LEMMA JokersBeat == HandType(Each(1, Jokers)) = "Bomb_Jokers"
<1>1. Jokers \in SUBSET Points /\ Cardinality(Jokers) = 2
  <2>1. Card_SJ \in Points /\ Card_BJ \in Points /\ Card_SJ # Card_BJ
    BY DEF Card_SJ, Card_BJ, Points
  <2>2. Jokers \in SUBSET Points
    BY <2>1 DEF Jokers
  <2> QED
    BY <2>1, <2>2, TwoPoints DEF Jokers
<1>2. /\ Held(Each(1, Jokers), 1) = Jokers
      /\ \A m \in (1..4) \ {1} : Cardinality(Held(Each(1, Jokers), m)) = 0
  BY <1>1, LotHeld
<1>3. Held4(Each(1, Jokers), 2, 0, 0, 0)
  BY <1>1, <1>2 DEF Held4
<1> QED
  BY <1>2, <1>3, TypeIs

-----------------------------------------------------------------------------
(* The lowest of some points *)

\* A point of a set has fewer points below it than the set has.
LEMMA RankBound ==
  ASSUME NEW S \in SUBSET Points, NEW p \in S
  PROVE  /\ Rank(S, p) \in Nat /\ Rank(S, p) < Cardinality(S)
         /\ (\A q \in S : q <= p) => Rank(S, p) = Cardinality(S) - 1
<1> DEFINE B == { q \in S : q < p }
<1>1. IsFiniteSet(S) /\ Cardinality(S) \in Nat /\ \A q \in S : q \in 1..15
  BY HeldFinite DEF Points
<1>2. IsFiniteSet(S \ {p}) /\ Cardinality(S \ {p}) = Cardinality(S) - 1
  BY <1>1, FS_RemoveElement
<1>3. B \in SUBSET (S \ {p})
  BY <1>1
<1>4. IsFiniteSet(B) /\ Cardinality(B) \in Nat /\ Cardinality(B) <= Cardinality(S \ {p})
  BY <1>2, <1>3, FS_Subset, FS_CardinalityType
<1>5. (\A q \in S : q <= p) => B = S \ {p}
  BY <1>1
<1>6. Rank(S, p) = Cardinality(B)
  BY DEF Rank
<1> HIDE DEF B
<1>7. Rank(S, p) \in Nat /\ Rank(S, p) < Cardinality(S)
  BY <1>1, <1>2, <1>4, <1>6
<1>8. ASSUME \A q \in S : q <= p PROVE Rank(S, p) = Cardinality(S) - 1
  BY <1>2, <1>5, <1>6, <1>8
<1> QED
  BY <1>7, <1>8

\* The next point up has one point more below it.
LEMMA RankStep ==
  ASSUME NEW S \in SUBSET Points, NEW p \in S, NEW q \in S, p < q,
         \A s \in S : p < s => q <= s
  PROVE  Rank(S, q) = Rank(S, p) + 1
<1> DEFINE B == { s \in S : s < p }
           C == { s \in S : s < q }
<1>1. \A s \in S : s \in 1..15
  BY DEF Points
<1>2. C = B \cup {p} /\ p \notin B
  BY <1>1
<1>3. IsFiniteSet(B)
  BY HeldFinite
<1>4. Cardinality(B \cup {p}) = Cardinality(B) + 1
  BY <1>2, <1>3, FS_AddElement
<1>5. Rank(S, p) = Cardinality(B) /\ Rank(S, q) = Cardinality(C)
  BY DEF Rank
<1> HIDE DEF B, C
<1> QED
  BY <1>2, <1>4, <1>5

\* A higher point has more points below it.
LEMMA RankGrows ==
  ASSUME NEW S \in SUBSET Points, NEW p \in S, NEW q \in S, p < q
  PROVE  Rank(S, p) < Rank(S, q)
<1> DEFINE B == { s \in S : s < p }
           C == { s \in S : s < q }
<1>1. \A s \in S : s \in 1..15
  BY DEF Points
<1>2. B \cup {p} \in SUBSET C /\ p \notin B
  BY <1>1
<1>3. IsFiniteSet(B) /\ IsFiniteSet(C) /\ Cardinality(B) \in 0..15 /\ Cardinality(C) \in 0..15
  BY HeldFinite
<1>4. Cardinality(B \cup {p}) = Cardinality(B) + 1
  BY <1>2, <1>3, FS_AddElement
<1>5. Cardinality(B \cup {p}) <= Cardinality(C)
  BY <1>2, <1>3, FS_Subset
<1>6. Rank(S, p) = Cardinality(B) /\ Rank(S, q) = Cardinality(C)
  BY DEF Rank
<1> HIDE DEF B, C
<1> QED
  BY <1>3, <1>4, <1>5, <1>6

\* Every place in the order of a set is taken by one of its points.
LEMMA RankTaken ==
  ASSUME NEW S \in SUBSET Points, NEW r \in Nat, r < Cardinality(S)
  PROVE  \E p \in S : Rank(S, p) = r
<1> DEFINE A == { p \in S : Rank(S, p) <= r }
<1>1. \A s \in S : s \in 1..15 /\ Rank(S, s) \in Nat
  BY RankBound DEF Points
<1>2. S # {}
  BY HeldFinite
<1>3. First(S) \in A
  <2>1. First(S) \in S /\ \A q \in S : First(S) <= q
    BY <1>2, FirstAndLast
  <2> DEFINE B == { q \in S : q < First(S) }
  <2>2. B = {}
    BY <1>1, <2>1
  <2>3. Rank(S, First(S)) = Cardinality(B)
    BY DEF Rank
  <2> HIDE DEF B
  <2>4. Rank(S, First(S)) = 0
    BY <2>2, <2>3, FS_EmptySet
  <2> QED
    BY <2>1, <2>4
<1> DEFINE k == Last(A)
<1>4. k \in A /\ \A q \in A : q <= k
  BY <1>3, FirstAndLast
<1>5. k \in S /\ Rank(S, k) <= r
  BY <1>4
<1> HIDE DEF k
<1>6. CASE Rank(S, k) < r
  <2> DEFINE U == { s \in S : k < s }
  <2>1. CASE U = {}
    <3>1. \A q \in S : q <= k
      BY <1>1, <1>5, <2>1
    <3>2. Rank(S, k) = Cardinality(S) - 1 /\ Cardinality(S) \in 0..15
      BY <1>5, <3>1, RankBound, HeldFinite
    <3> QED
      BY <1>1, <1>5, <1>6, <3>2
  <2>2. CASE U # {}
    <3>1. First(U) \in U /\ \A s \in U : First(U) <= s
      BY <2>2, FirstAndLast
    <3>2. First(U) \in S /\ k < First(U) /\ \A s \in S : k < s => First(U) <= s
      BY <3>1
    <3>3. Rank(S, First(U)) = Rank(S, k) + 1
      BY <1>5, <3>2, RankStep
    <3>4. First(U) \in A
      BY <1>1, <1>5, <1>6, <3>2, <3>3
    <3> HIDE DEF A, U
    <3> QED
      BY <1>1, <1>4, <1>5, <3>2, <3>4
  <2> QED
    BY <2>1, <2>2
<1> QED
  BY <1>1, <1>5, <1>6

\* The two lowest of at least two points are two.
LEMMA TwoLowest ==
  ASSUME NEW S \in SUBSET Points, Cardinality(S) >= 2
  PROVE  Lowest(S, 2) \in SUBSET S /\ Cardinality(Lowest(S, 2)) = 2
<1>1. Cardinality(S) \in 0..15
  BY HeldFinite
<1>2. PICK a \in S : Rank(S, a) = 0
  BY <1>1, RankTaken
<1>3. PICK b \in S : Rank(S, b) = 1
  BY <1>1, RankTaken
<1>4. Lowest(S, 2) = { p \in S : Rank(S, p) < 2 }
  BY DEF Lowest, Rank
<1>5. \A p \in S : p \in 1..15 /\ Rank(S, p) \in Nat
  BY RankBound DEF Points
<1>6. \A p, q \in S : p < q => Rank(S, p) < Rank(S, q)
  BY RankGrows
<1>7. a # b /\ \A p \in S : Rank(S, p) < 2 => p = a \/ p = b
  <2> SUFFICES ASSUME NEW p \in S, Rank(S, p) < 2 PROVE p = a \/ p = b
    BY <1>2, <1>3
  <2>1. Rank(S, p) = 0 \/ Rank(S, p) = 1
    BY <1>5
  <2> QED
    BY <1>2, <1>3, <1>5, <1>6, <2>1
<1>8. Lowest(S, 2) = {a, b}
  BY <1>2, <1>3, <1>4, <1>7
<1> QED
  BY <1>7, <1>8, TwoPoints

-----------------------------------------------------------------------------
(* What a robot answers *)

\* The cards x are some of the cards c.
PartOf(x, c) == x \in [Points -> Nat] /\ \A p \in Points : x[p] <= c[p]

\* A plane of a higher point with any two singles, and a higher triple alone.
HigherPlaneWithTwo(d, x) ==
  \E p \in Points, T \in SUBSET Points :
    /\ HandPoint(d) < p /\ p + 1 \in Points /\ p < Card_A
    /\ Cardinality(T) = 2
    /\ x = With(Each(3, {p, p + 1}), Each(1, T))

HigherTriple(d, x) == \E p \in Points : HandPoint(d) < p /\ x = Each(3, {p})

\* What AnswersBeat says of an answer x to the hand d, for a robot that holds c.
Answers(c, d, x) ==
  /\ PartOf(x, c)
  /\ \/ CanBeat(HandOf(x), HandOf(d))
     \/ /\ HandType(d) = "Plane_Two_Single"
        /\ x[Card_BJ] = 1 \/ Held(x, 4) # {}
        /\ HigherPlaneWithTwo(d, x)
     \/ /\ \E n \in 1..2 : /\ HandType(d) = << "Triple_Single", "Triple_Pair" >>[n]
                           /\ KickersMissing(c, HandPoint(d) + 1, n)
        /\ HigherTriple(d, x)

\* A hand of the same type and a higher point beats, sequences if they are as long.
LEMMA HigherBeats ==
  ASSUME NEW x, NEW d, HandType(x) = HandType(d), HandType(x) # "Unknown",
         HandPoint(d) + 1 <= HandPoint(x),
         HandType(x) \in Sequences => HandExtra(x) = HandExtra(d)
  PROVE  CanBeat(HandOf(x), HandOf(d))
<1>1. HandPoint(x) \in Nat /\ HandPoint(d) \in Nat
  BY PointIsNumber
<1>2. HandPoint(x) > HandPoint(d)
  BY <1>1
<1> QED
  BY <1>2 DEF CanBeat, HandOf

\* n cards of points that are held n times are there.
LEMMA EachThere ==
  ASSUME NEW c \in Counts, NEW n \in 1..4, NEW S, \A p \in S \cap Points : n <= c[p]
  PROVE  PartOf(Each(n, S), c)
<1>1. \A p \in Points : Each(n, S)[p] = IF p \in S THEN n ELSE 0
  BY DEF Each
<1>2. \A p \in Points : c[p] \in 0..4
  BY DEF Counts
<1>3. \A p \in Points : Each(n, S)[p] <= c[p]
  BY <1>1, <1>2
<1>4. Each(n, S) \in [Points -> Nat]
  BY DEF Each
<1> QED
  BY <1>3, <1>4 DEF PartOf

\* So are two such lots of different points.
LEMMA LotsThere ==
  ASSUME NEW c \in Counts, NEW n \in 1..4, NEW S, NEW k \in 1..4, NEW T,
         \A p \in S \cap Points : n <= c[p], \A p \in T \cap Points : k <= c[p],
         S \cap T = {}
  PROVE  PartOf(With(Each(n, S), Each(k, T)), c)
<1>1. \A p \in Points : With(Each(n, S), Each(k, T))[p]
                          = (IF p \in S THEN n ELSE 0) + (IF p \in T THEN k ELSE 0)
  BY DEF With, Each
<1>2. \A p \in Points : c[p] \in 0..4
  BY DEF Counts
<1>3. \A p \in Points : With(Each(n, S), Each(k, T))[p] <= c[p]
  BY <1>1, <1>2
<1>4. With(Each(n, S), Each(k, T)) \in [Points -> Nat]
  BY DEF With, Each
<1> QED
  BY <1>3, <1>4 DEF PartOf

\* getCards: singles, pairs and triples.
LEMMA CardsAnswer ==
  ASSUME NEW c \in Counts, NEW d, NEW n \in 1..3,
         HandType(d) = << "Single", "Pair", "Triple" >>[n],
         NEW p \in DOMAIN GetCards(c, HandPoint(d) + 1, n)
  PROVE  p \in Points /\ Answers(c, d, GetCards(c, HandPoint(d) + 1, n)[p])
<1>1. /\ p \in Points /\ HandPoint(d) + 1 <= p /\ c[p] = n
      /\ GetCards(c, HandPoint(d) + 1, n)[p] = Each(n, {p})
  <2>1. HandPoint(d) \in Nat /\ p \in From(HandPoint(d) + 1, Held(c, n))
    BY PointIsNumber DEF GetCards
  <2>2. GetCards(c, HandPoint(d) + 1, n)[p] = Each(n, {p})
    BY DEF GetCards
  <2> QED
    BY <2>1, <2>2 DEF From, Held, Points
<1>2. /\ HandType(Each(n, {p})) = << "Single", "Pair", "Triple", "Bomb" >>[n]
      /\ HandPoint(Each(n, {p})) = p
  BY <1>1, OnePointHand
<1>3. HandType(Each(n, {p})) = HandType(d)
      /\ HandType(Each(n, {p})) \notin Sequences \cup {"Unknown"}
  BY <1>2 DEF Sequences
<1>4. CanBeat(HandOf(Each(n, {p})), HandOf(d))
  BY <1>1, <1>2, <1>3, HigherBeats
<1>5. PartOf(Each(n, {p}), c)
  BY <1>1, EachThere
<1> QED
  BY <1>1, <1>4, <1>5 DEF Answers

\* A higher bomb.
LEMMA BombAnswers ==
  ASSUME NEW c \in Counts, NEW d, HandType(d) = "Bomb",
         NEW p \in DOMAIN GetBomb(c, HandPoint(d) + 1)
  PROVE  p \in Points /\ Answers(c, d, GetBomb(c, HandPoint(d) + 1)[p])
<1>1. /\ p \in Points /\ HandPoint(d) + 1 <= p /\ c[p] >= 4
      /\ GetBomb(c, HandPoint(d) + 1)[p] = Each(4, {p})
  <2>1. HandPoint(d) \in Nat /\ p \in From(HandPoint(d) + 1, Same(c, 4))
    BY PointIsNumber DEF GetBomb
  <2>2. GetBomb(c, HandPoint(d) + 1)[p] = Each(4, {p})
    BY DEF GetBomb
  <2> QED
    BY <2>1, <2>2 DEF From, Same, Points
<1>2. HandType(Each(4, {p})) = "Bomb" /\ HandPoint(Each(4, {p})) = p
  BY <1>1, OnePointHand
<1>3. CanBeat(HandOf(Each(4, {p})), HandOf(d))
  BY <1>1, <1>2, HigherBeats DEF Sequences
<1>4. PartOf(Each(4, {p}), c)
  <2>1. c[p] \in 0..4
    BY <1>1 DEF Counts
  <2> QED
    BY <1>1, <2>1, EachThere
<1> QED
  BY <1>1, <1>3, <1>4 DEF Answers

\* A point where a plane begins: two triples side by side, the higher an ace at most.
LEMMA PlaneAt ==
  ASSUME NEW c \in Counts, NEW p \in PlanesOf(c)
  PROVE  /\ p \in Points /\ p + 1 \in Points /\ p < Card_A
         /\ c[p] >= 3 /\ c[p + 1] >= 3
BY DEF PlanesOf, Same

\* A higher plane.
LEMMA PlaneAnswers ==
  ASSUME NEW c \in Counts, NEW d, HandType(d) = "Plane",
         NEW p \in DOMAIN GetPlane(c, HandPoint(d) + 1)
  PROVE  p \in Points /\ Answers(c, d, GetPlane(c, HandPoint(d) + 1)[p])
<1>1. /\ p \in PlanesOf(c) /\ HandPoint(d) + 1 <= p
      /\ GetPlane(c, HandPoint(d) + 1)[p] = Each(3, {p, p + 1})
  <2>1. p \in From(HandPoint(d) + 1, PlanesOf(c))
    BY DEF GetPlane
  <2>2. GetPlane(c, HandPoint(d) + 1)[p] = Each(3, {p, p + 1})
    BY DEF GetPlane
  <2>3. HandPoint(d) \in Nat /\ p \in Nat
    BY <2>1, PointIsNumber DEF From, PlanesOf, Same, Points
  <2> QED
    BY <2>1, <2>2, <2>3 DEF From
<1>2. /\ p \in Points /\ p + 1 \in Points /\ p < Card_A
      /\ c[p] >= 3 /\ c[p + 1] >= 3
  BY <1>1, PlaneAt
<1>3. HandType(Each(3, {p, p + 1})) = "Plane" /\ HandPoint(Each(3, {p, p + 1})) = p
  BY <1>2, PlaneHand
<1>4. CanBeat(HandOf(Each(3, {p, p + 1})), HandOf(d))
  BY <1>1, <1>3, HigherBeats DEF Sequences
<1>5. PartOf(Each(3, {p, p + 1}), c)
  <2>1. \A q \in {p, p + 1} : c[q] \in 0..4
    BY <1>2 DEF Counts
  <2> QED
    BY <1>2, <2>1, EachThere
<1> QED
  BY <1>1, <1>2, <1>4, <1>5 DEF Answers

\* getGreaterSeq: a sequence as long, and higher.
LEMMA SequenceAnswers ==
  ASSUME NEW c \in Counts, NEW d, NEW n \in 1..2, NEW end \in Nat,
         HandType(d) = << "Seq_Single", "Seq_Pair" >>[n],
         NEW p \in DOMAIN GetGreaterSeq(c, HandPoint(d) + 1, end, n, HandExtra(d))
  PROVE  /\ p \in Points
         /\ Answers(c, d, GetGreaterSeq(c, HandPoint(d) + 1, end, n, HandExtra(d))[p])
<1> DEFINE k == HandExtra(d)
           b == HandPoint(d) + 1
           starts == { q \in b..end : q + k < Card_2 /\ q..(q + k - 1) \subseteq Same(c, n) }
           x == Each(n, p..(p + k - 1))
<1>1. HandPoint(d) \in Nat /\ k \in 3..15 /\ (n = 1 => k >= 5)
  <2>1. n = 1 => \E m \in 5..15 : Held4(d, m, 0, 0, 0)
    BY TypeIs
  <2>2. n = 2 => \E m \in 3..15 : Held4(d, 0, m, 0, 0)
    BY TypeIs
  <2> QED
    BY <2>1, <2>2, PointIsNumber DEF HandExtra, Held4
<1>2. p \in starts /\ GetGreaterSeq(c, b, end, n, k)[p] = x
  BY DEF GetGreaterSeq, Lowest
<1> HIDE DEF k, b
<1>3. /\ p \in Nat /\ 1 <= p /\ b <= p /\ p + k - 1 <= Card_A /\ p + k < Card_2
      /\ p..(p + k - 1) \subseteq Same(c, n)
  <2>1. b \in Nat /\ b >= 1
    BY <1>1 DEF b
  <2> QED
    BY <1>1, <1>2, <2>1 DEF Card_A, Card_2
<1>4. k \in 1..12 /\ k >= IF n = 1 THEN 5 ELSE 3
  BY <1>1, <1>3 DEF Card_2
<1>5. /\ HandType(x) = << "Seq_Single", "Seq_Pair" >>[n]
      /\ HandPoint(x) = p /\ HandExtra(x) = k
  BY <1>3, <1>4, SequenceHand
<1>6. CanBeat(HandOf(x), HandOf(d))
  <2>1. HandType(x) = HandType(d) /\ HandType(x) # "Unknown"
    BY <1>5
  <2> HIDE DEF x
  <2> QED
    BY <1>3, <1>5, <2>1, HigherBeats DEF b, k
<1>7. PartOf(x, c)
  <2>1. \A q \in (p..(p + k - 1)) \cap Points : n <= c[q]
    <3>1. \A q \in Points : c[q] \in 0..4
      BY DEF Counts
    <3> QED
      BY <1>3, <3>1 DEF Same
  <2>2. PICK S : S = p..(p + k - 1)
    OBVIOUS
  <2>3. PartOf(Each(n, S), c)
    <3>1. n \in 1..4 /\ \A q \in S \cap Points : n <= c[q]
      BY <2>1, <2>2
    <3> QED
      BY <3>1, EachThere
  <2> QED
    BY <2>2, <2>3, Zenon
<1>8. p \in Points
  BY <1>1, <1>3 DEF Points, Card_A
<1> QED
  BY <1>2, <1>6, <1>7, <1>8 DEF Answers, b, k

\* The kickers for triples that are held three times are what is held n times, and no
\* points of theirs.
LEMMA KickersAre ==
  ASSUME NEW c \in Counts, NEW S \in SUBSET Points, NEW n \in 1..2,
         \A p \in S : c[p] >= 3
  PROVE  /\ KickersFor(c, S, n) \in SUBSET Points
         /\ \A q \in KickersFor(c, S, n) :
              \/ q \notin S /\ c[q] = n
              \/ q \in S /\ c[q] = 4 /\ n = 1
<1>1. KickersFor(c, S, n) \in SUBSET Points
  BY DEF KickersFor, Held
<1>2. ASSUME NEW q \in KickersFor(c, S, n)
      PROVE  (q \notin S /\ c[q] = n) \/ (q \in S /\ c[q] = 4 /\ n = 1)
  <2>1. q \in Points /\ Without(c, Each(3, S))[q] = n
    BY DEF KickersFor, Held
  <2>2. Without(c, Each(3, S))[q] = c[q] - (IF q \in S THEN 3 ELSE 0)
    BY <2>1 DEF Without, Each
  <2>3. c[q] \in 0..4
    BY <2>1 DEF Counts
  <2> QED
    BY <2>1, <2>2, <2>3
<1> QED
  BY <1>1, <1>2

\* getTripleSingleOrPair: a higher triple with its kicker, unless the kickers have run
\* out.
LEMMA TripleAnswers ==
  ASSUME NEW c \in Counts, NEW d, NEW n \in 1..2,
         HandType(d) = << "Triple_Single", "Triple_Pair" >>[n],
         NEW p \in DOMAIN GetTripleSingleOrPair(c, HandPoint(d) + 1, n)
  PROVE  p \in Points /\ Answers(c, d, GetTripleSingleOrPair(c, HandPoint(d) + 1, n)[p])
<1> DEFINE b == HandPoint(d) + 1
           triples == From(b, Held(c, 3))
           kickers == KickersFor(c, triples, n)
           K == { k \in kickers : Rank(kickers, k) = Rank(triples, p) }
           x == With(Each(3, {p}), Each(n, K))
<1>1. /\ p \in triples /\ kickers # {}
      /\ GetTripleSingleOrPair(c, b, n)[p] = x
  BY DEF GetTripleSingleOrPair
<1>2. triples \in SUBSET Points /\ \A q \in triples : c[q] = 3 /\ b <= q
  BY DEF From, Held
<1>3. /\ kickers \in SUBSET Points
      /\ \A q \in kickers : q \notin triples /\ c[q] = n
  <2>1. \A q \in triples : c[q] >= 3 /\ c[q] # 4
    BY <1>2
  <2> QED
    BY <1>2, <2>1, KickersAre
<1>4. KickersMissing(c, b, n) <=> Cardinality(kickers) \in 1..(Cardinality(triples) - 1)
  BY DEF KickersMissing
<1>5. p \in Points /\ c[p] = 3 /\ b <= p
  BY <1>1, <1>2
<1> HIDE DEF triples, kickers
<1>6. PartOf(x, c)
  <2>1. \A q \in {p} \cap Points : 3 <= c[q]
    BY <1>5
  <2>2. \A q \in K \cap Points : n <= c[q]
    BY <1>3
  <2>3. {p} \cap K = {}
    BY <1>1, <1>3
  <2> HIDE DEF K
  <2> QED
    BY <2>1, <2>2, <2>3, LotsThere
<1>7. CASE K = {}
  <2>1. Rank(triples, p) \in Nat /\ Rank(triples, p) < Cardinality(triples)
    BY <1>1, <1>2, RankBound
  <2>2. Cardinality(triples) \in 0..15 /\ Cardinality(kickers) \in 0..15 /\ Cardinality(kickers) # 0
    BY <1>1, <1>2, <1>3, HeldFinite
  <2>3. ~(Rank(triples, p) < Cardinality(kickers))
    BY <1>3, <1>7, <2>1, RankTaken
  <2>4. KickersMissing(c, b, n)
    BY <1>4, <2>1, <2>2, <2>3
  <2>5. x = Each(3, {p})
    <3>1. \A q \in Points : x[q] = IF q = p THEN 3 ELSE 0
      BY <1>7 DEF With, Each
    <3>2. x = [q \in Points |-> x[q]]
      BY DEF With
    <3> HIDE DEF x
    <3> QED
      BY <3>1, <3>2 DEF Each
  <2>6. HandPoint(d) < p
    <3>1. HandPoint(d) \in Nat /\ p \in Nat
      BY <1>5, PointIsNumber DEF Points
    <3> QED
      BY <1>5, <3>1
  <2> HIDE DEF x
  <2>7. HigherTriple(d, x)
    BY <1>5, <2>5, <2>6 DEF HigherTriple
  <2> QED
    BY <1>1, <1>5, <1>6, <2>4, <2>7 DEF Answers
<1>8. CASE K # {}
  <2>1. PICK k \in kickers : Rank(kickers, k) = Rank(triples, p)
    BY <1>8
  <2>2. ASSUME NEW q \in kickers, Rank(kickers, q) = Rank(triples, p) PROVE q = k
    <3>1. q \in 1..15 /\ k \in 1..15
      BY <1>3 DEF Points
    <3>2. Rank(kickers, q) \in Nat
      BY <1>3, RankBound
    <3>3. (q < k => Rank(kickers, q) < Rank(kickers, k))
          /\ (k < q => Rank(kickers, k) < Rank(kickers, q))
      BY <1>3, RankGrows
    <3> QED
      BY <2>1, <2>2, <3>1, <3>2, <3>3
  <2>3. K = {k} /\ k \in Points /\ p # k
    BY <1>1, <1>3, <2>1, <2>2
  <2>4. x = With(Each(3, {p}), Each(n, {k}))
    BY <2>3
  <2> HIDE DEF x
  <2>5. HandType(x) = << "Triple_Single", "Triple_Pair" >>[n] /\ HandPoint(x) = p
    BY <1>5, <2>3, <2>4, TripleWithKicker
  <2>6. HandType(x) = HandType(d) /\ HandType(x) \notin Sequences \cup {"Unknown"}
    BY <2>5 DEF Sequences
  <2>7. CanBeat(HandOf(x), HandOf(d))
    BY <1>5, <2>5, <2>6, HigherBeats
  <2> QED
    BY <1>1, <1>5, <1>6, <2>7 DEF Answers
<1> QED
  BY <1>7, <1>8

\* getPlane2SingleOr2Pair: a higher plane with two kickers, unless one of them is the
\* big joker or a point of the plane.
LEMMA PlaneWithAnswers ==
  ASSUME NEW c \in Counts, NEW d, NEW n \in 1..2,
         HandType(d) = << "Plane_Two_Single", "Plane_Two_Pair" >>[n],
         NEW p \in DOMAIN GetPlane2SingleOr2Pair(c, HandPoint(d) + 1, n)
  PROVE  p \in Points /\ Answers(c, d, GetPlane2SingleOr2Pair(c, HandPoint(d) + 1, n)[p])
<1> DEFINE b == HandPoint(d) + 1
           planes == From(b, PlanesOf(c))
           kickers == KickersFor(c, PlanePoints(planes), n)
           T == Lowest(kickers, 2)
           S == {p, p + 1}
           x == With(Each(3, S), Each(n, T))
<1>1. /\ p \in planes /\ Cardinality(kickers) >= 2
      /\ GetPlane2SingleOr2Pair(c, b, n)[p] = x
  BY DEF GetPlane2SingleOr2Pair
<1>2. \A q \in planes : /\ q \in Points /\ q + 1 \in Points /\ q < Card_A /\ b <= q
                        /\ c[q] >= 3 /\ c[q + 1] >= 3
  BY PlaneAt DEF From
<1>3. /\ PlanePoints(planes) \in SUBSET Points /\ S \subseteq PlanePoints(planes)
      /\ \A q \in PlanePoints(planes) : c[q] >= 3
  BY <1>1, <1>2 DEF PlanePoints
<1>4. /\ kickers \in SUBSET Points
      /\ \A q \in kickers : \/ q \notin PlanePoints(planes) /\ c[q] = n
                            \/ q \in PlanePoints(planes) /\ c[q] = 4 /\ n = 1
  BY <1>3, KickersAre
<1>5. p \in Points /\ p + 1 \in Points /\ p < Card_A /\ b <= p
  BY <1>1, <1>2
<1> HIDE DEF planes, kickers
<1>6. T \in SUBSET kickers /\ T \in SUBSET Points /\ Cardinality(T) = 2
  BY <1>1, <1>4, TwoLowest
<1> HIDE DEF T
<1>7. \A q \in Points : x[q] = (IF q \in S THEN 3 ELSE 0) + (IF q \in T THEN n ELSE 0)
  BY DEF With, Each
<1>8. PartOf(x, c)
  <2>1. ASSUME NEW q \in Points PROVE x[q] <= c[q]
    <3>1. q \in S => c[q] >= 3
      BY <1>3
    <3>2. q \in T => (c[q] = n /\ q \notin S) \/ (c[q] = 4 /\ n = 1)
      BY <1>3, <1>4, <1>6
    <3>3. c[q] \in 0..4
      BY DEF Counts
    <3> HIDE DEF S, x
    <3> QED
      BY <1>7, <3>1, <3>2, <3>3
  <2>2. x \in [Points -> Nat]
    BY DEF With, Each
  <2> QED
    BY <2>1, <2>2 DEF PartOf
<1>9. n = 1 => HigherPlaneWithTwo(d, x)
  <2>1. HandPoint(d) < p
    <3>1. HandPoint(d) \in Nat /\ p \in Nat
      BY <1>5, PointIsNumber DEF Points
    <3> QED
      BY <1>5, <3>1
  <2>2. n = 1 => x = With(Each(3, {p, p + 1}), Each(1, T))
    OBVIOUS
  <2> HIDE DEF x, S
  <2> QED
    BY <1>5, <1>6, <2>1, <2>2 DEF HigherPlaneWithTwo
<1>10. CASE T \cap S # {}
  <2>1. PICK q \in T : q \in S
    BY <1>10
  <2>2. q \in Points /\ n = 1
    BY <1>3, <1>4, <1>6, <2>1
  <2>3. x[q] = 4
    BY <1>7, <2>1, <2>2
  <2>4. Held(x, 4) # {}
    BY <2>2, <2>3 DEF Held
  <2>5. HandType(d) = "Plane_Two_Single" /\ HigherPlaneWithTwo(d, x)
    BY <1>9, <2>2
  <2> HIDE DEF x
  <2> QED
    BY <1>1, <1>5, <1>8, <2>4, <2>5 DEF Answers
<1>11. CASE T \cap S = {} /\ n = 1 /\ Card_BJ \in T
  <2>1. Card_BJ \in Points /\ Card_BJ \notin S
    BY <1>6, <1>11
  <2> HIDE DEF S, x
  <2>2. x[Card_BJ] = 1
    BY <1>7, <1>11, <2>1
  <2>3. HandType(d) = "Plane_Two_Single" /\ HigherPlaneWithTwo(d, x)
    BY <1>11, <1>9
  <2> QED
    BY <1>1, <1>5, <1>8, <2>2, <2>3 DEF Answers
<1>12. CASE T \cap S = {} /\ (n = 1 => Card_BJ \notin T)
  <2>1. n = 1 => CarriedSingles(T)
    <3> SUFFICES ASSUME Card_BJ \notin T PROVE CarriedSingles(T)
      BY <1>12
    <3>1. T # Jokers
      BY DEF Jokers
    <3> QED
      BY <1>6, <3>1, CarriedIs
  <2>2. HandType(x) = << "Plane_Two_Single", "Plane_Two_Pair" >>[n] /\ HandPoint(x) = p
    BY <1>5, <1>6, <1>12, <2>1, PlaneWithKickers
  <2> HIDE DEF x
  <2>3. HandType(x) = HandType(d) /\ HandType(x) \notin Sequences \cup {"Unknown"}
    BY <2>2 DEF Sequences
  <2>4. CanBeat(HandOf(x), HandOf(d))
    BY <1>5, <2>2, <2>3, HigherBeats
  <2> QED
    BY <1>1, <1>5, <1>8, <2>4 DEF Answers
<1> QED
  BY <1>10, <1>11, <1>12

\* findCardType(hand, true): whatever it finds is an answer.
LEMMA FoundAnswers ==
  ASSUME NEW c \in Counts, NEW d
  PROVE  \A p \in DOMAIN FindGreater(c, HandOf(d)) :
           p \in Points /\ Answers(c, d, FindGreater(c, HandOf(d))[p])
<1> DEFINE t == HandType(d)
           b == HandPoint(d) + 1
           f == FindGreater(c, HandOf(d))
<1>1. HandOf(d).type = t /\ HandOf(d).point + 1 = b /\ HandOf(d).extra = HandExtra(d)
  BY DEF HandOf
<1> HIDE DEF t, b
<1>2. /\ t = "Single" => f = GetCards(c, b, 1)
      /\ t = "Pair" => f = GetCards(c, b, 2)
      /\ t = "Triple" => f = GetCards(c, b, 3)
      /\ t = "Triple_Single" => f = GetTripleSingleOrPair(c, b, 1)
      /\ t = "Triple_Pair" => f = GetTripleSingleOrPair(c, b, 2)
      /\ t = "Plane" => f = GetPlane(c, b)
      /\ t = "Plane_Two_Single" => f = GetPlane2SingleOr2Pair(c, b, 1)
      /\ t = "Plane_Two_Pair" => f = GetPlane2SingleOr2Pair(c, b, 2)
      /\ t = "Seq_Pair" => f = GetGreaterSeq(c, b, Card_Q, 2, HandExtra(d))
      /\ t = "Seq_Single" => f = GetGreaterSeq(c, b, Card_10, 1, HandExtra(d))
      /\ t = "Bomb" => f = GetBomb(c, b)
      /\ t \notin Ordinary \cup {"Bomb"} => f = [p \in {} |-> NoCards]
  BY <1>1 DEF FindGreater, Ordinary
<1> HIDE DEF f
<1> SUFFICES ASSUME NEW p \in DOMAIN f
             PROVE  p \in Points /\ Answers(c, d, f[p])
  BY DEF f
<1>3. CASE t \in {"Single", "Pair", "Triple"}
  <2>1. PICK n \in 1..3 : t = << "Single", "Pair", "Triple" >>[n]
    BY <1>3
  <2>2. f = GetCards(c, b, n)
    BY <1>2, <2>1
  <2> QED
    BY <2>1, <2>2, CardsAnswer DEF t, b
<1>4. CASE t \in {"Triple_Single", "Triple_Pair"}
  <2>1. PICK n \in 1..2 : t = << "Triple_Single", "Triple_Pair" >>[n]
    BY <1>4
  <2>2. f = GetTripleSingleOrPair(c, b, n)
    BY <1>2, <2>1
  <2> QED
    BY <2>1, <2>2, TripleAnswers DEF t, b
<1>5. CASE t \in {"Plane_Two_Single", "Plane_Two_Pair"}
  <2>1. PICK n \in 1..2 : t = << "Plane_Two_Single", "Plane_Two_Pair" >>[n]
    BY <1>5
  <2>2. f = GetPlane2SingleOr2Pair(c, b, n)
    BY <1>2, <2>1
  <2> QED
    BY <2>1, <2>2, PlaneWithAnswers DEF t, b
<1>6. CASE t = "Plane"
  BY <1>2, <1>6, PlaneAnswers DEF t, b
<1>7. CASE t \in {"Seq_Single", "Seq_Pair"}
  <2>1. PICK n \in 1..2 : t = << "Seq_Single", "Seq_Pair" >>[n]
    BY <1>7
  <2>2. PICK end \in Nat : f = GetGreaterSeq(c, b, end, n, HandExtra(d))
    BY <1>2, <2>1 DEF Card_Q, Card_10
  <2> QED
    BY <2>1, <2>2, SequenceAnswers DEF t, b
<1>8. CASE t = "Bomb"
  BY <1>2, <1>8, BombAnswers DEF t, b
<1>9. CASE t \notin Ordinary \cup {"Bomb"}
  <2>1. DOMAIN f = {}
    BY <1>2, <1>9
  <2> QED
    BY <2>1
<1> QED
  BY <1>3, <1>4, <1>5, <1>6, <1>7, <1>8, <1>9 DEF Ordinary

\* A bomb that beats, and the jokers, are answers.
LEMMA BombsAnswer ==
  ASSUME NEW c \in Counts, NEW d
  PROVE  /\ \A p \in Held(c, 4) :
              CanBeat(HandOf(Each(4, {p})), HandOf(d)) => Answers(c, d, Each(4, {p}))
         /\ Jokers \subseteq Held(c, 1) => Answers(c, d, Each(1, Jokers))
<1>1. ASSUME NEW p \in Held(c, 4), CanBeat(HandOf(Each(4, {p})), HandOf(d))
      PROVE  Answers(c, d, Each(4, {p}))
  <2>1. \A q \in {p} \cap Points : 4 <= c[q]
    BY DEF Held
  <2>2. PartOf(Each(4, {p}), c)
    BY <2>1, EachThere
  <2> QED
    BY <1>1, <2>2 DEF Answers
<1>2. ASSUME Jokers \subseteq Held(c, 1)
      PROVE  Answers(c, d, Each(1, Jokers))
  <2>1. \A q \in Jokers \cap Points : 1 <= c[q]
    BY <1>2 DEF Held
  <2>2. PartOf(Each(1, Jokers), c)
    BY <2>1, EachThere
  <2>3. CanBeat(HandOf(Each(1, Jokers)), HandOf(d))
    BY JokersBeat DEF CanBeat, HandOf
  <2> QED
    BY <2>2, <2>3 DEF Answers
<1> QED
  BY <1>1, <1>2

\* getGreaterCards answers or passes.
LEMMA GreaterAnswers ==
  ASSUME NEW c \in Counts, NEW d, NEW tbl,
         GetGreaterCards(c, HandOf(d), tbl) # NoCards
  PROVE  Answers(c, d, GetGreaterCards(c, HandOf(d), tbl))
<1> DEFINE h       == HandOf(d)
           urgent  == tbl.pendIsOpponent /\ tbl.pendCount <= 3
           bombs   == { p \in Held(c, 4) : CanBeat(HandOf(Each(4, {p})), h) }
           unsplit == FindGreater(Without(c, PickOptimalSeqSingles(c)), h)
           found   == IF DOMAIN unsplit # {} THEN unsplit ELSE FindGreater(c, h)
           x       == GetGreaterCards(c, h, tbl)
<1>1. found = FindGreater(c, h)
  <2>1. Without(c, NoCards) = c
    <3>1. \A p \in Points : c[p] - NoCards[p] = c[p]
      BY DEF NoCards, Counts
    <3>2. c = [p \in Points |-> c[p]]
      BY DEF Counts
    <3> QED
      BY <3>1, <3>2 DEF Without
  <2> QED
    BY <2>1 DEF PickOptimalSeqSingles
<1>2. x = IF urgent /\ bombs # {} THEN Each(4, {First(bombs)})
          ELSE IF urgent /\ Jokers \subseteq Held(c, 1) THEN Each(1, Jokers)
          ELSE IF DOMAIN found = {} THEN NoCards
          ELSE IF tbl.nextIsOpponent /\ tbl.nextCount <= 2 THEN found[Last(DOMAIN found)]
          ELSE found[First(DOMAIN found)]
  BY DEF GetGreaterCards
<1>3. bombs \in SUBSET Points /\ bombs # {} => First(bombs) \in bombs
  BY FirstAndLast DEF Held
<1>4. bombs # {} => Answers(c, d, Each(4, {First(bombs)}))
  BY <1>3, BombsAnswer DEF Held
<1>5. \A p \in DOMAIN found : p \in Points /\ Answers(c, d, found[p])
  BY <1>1, FoundAnswers
<1>6. DOMAIN found \in SUBSET Points
  BY <1>5
<1>7. DOMAIN found # {} => /\ First(DOMAIN found) \in DOMAIN found
                          /\ Last(DOMAIN found) \in DOMAIN found
  BY <1>6, FirstAndLast
<1>8. Jokers \subseteq Held(c, 1) => Answers(c, d, Each(1, Jokers))
  BY BombsAnswer
<1> HIDE DEF urgent, bombs, found
<1>9. x # NoCards
  OBVIOUS
<1> HIDE DEF x, h
<1>10. Answers(c, d, x)
  BY <1>2, <1>4, <1>5, <1>7, <1>8, <1>9
<1> QED
  BY <1>10 DEF x, h

-----------------------------------------------------------------------------
(* What a robot leads *)

\* What LeadsOneHand says of a hand x led by a robot that holds c.
LeadsWith(c, x) ==
  /\ PartOf(x, c)
  /\ HandType(x) # "Unknown"
  /\ x = NoCards => \A p \in Points : c[p] \in {0, 4}

\* A hand with a type that is not Pass is not empty.
LEMMA TypedIsNotEmpty == \A x : HandType(x) # "Pass" => x # NoCards
BY NoCardsPicked, NoCardsIs, TypeIs

\* Cards of the robot with such a type will do.
LEMMA TypedLeads ==
  ASSUME NEW c, NEW x, PartOf(x, c), HandType(x) \notin {"Unknown", "Pass"}
  PROVE  LeadsWith(c, x)
BY TypedIsNotEmpty DEF LeadsWith

\* The sequences of pairs are runs of points up to the ace.
LEMMA SeqsAre ==
  ASSUME NEW c \in [Points -> 0..2], NEW s \in SeqsOf(c, 2, 3)
  PROVE  /\ s \in SUBSET Points /\ \A p \in s : c[p] = 2
         /\ \E a \in Nat, k \in 3..12 : 1 <= a /\ a + k - 1 <= Card_A /\ s = a..(a + k - 1)
<1> DEFINE points == { p \in Same(c, 2) : p <= Card_A }
<1>1. PICK a \in points, b \in points :
        s = a..b /\ Cardinality(s) >= 3 /\ s \subseteq points
  BY DEF SeqsOf
<1>2. \A p \in points : p \in 1..15 /\ p <= 12 /\ c[p] = 2
  BY DEF Same, Points, Card_A
<1>3. a \in 1..12 /\ b \in 1..12
  BY <1>2
<1>4. Cardinality(a..b) = IF a > b THEN 0 ELSE b - a + 1
  <2>1. a \in Int /\ b \in Int
    BY <1>3
  <2> QED
    BY <2>1, FS_Interval
<1>5. PICK k \in Int : k = b - a + 1
  BY <1>3
<1>6. k \in 3..12 /\ a + k - 1 = b
  BY <1>1, <1>3, <1>4, <1>5
<1>7. s = a..(a + k - 1) /\ a \in Nat /\ 1 <= a /\ a + k - 1 <= Card_A
  BY <1>1, <1>3, <1>6 DEF Card_A
<1>8. s \in SUBSET Points /\ \A p \in s : c[p] = 2
  BY <1>1, <1>2 DEF Points
<1> HIDE DEF points
<1> QED
  BY <1>6, <1>7, <1>8

\* A robot that has them leads one.
LEMMA SeqPairLeads ==
  ASSUME NEW c \in Counts, NEW rest \in [Points -> 0..2], \A p \in Points : rest[p] <= c[p],
         SeqsOf(rest, 2, 3) # {}
  PROVE  LeadsWith(c, LeadSeqPair(SeqsOf(rest, 2, 3)))
<1> DEFINE seqs == SeqsOf(rest, 2, 3)
           longest == { s \in seqs : \A t \in seqs : Cardinality(t) <= Cardinality(s) }
           first == { s \in longest : \A t \in longest : First(s) <= First(t) }
<1>1. \A s \in seqs : s \in SUBSET Points /\ Cardinality(s) \in 0..15
  <2> TAKE s \in seqs
  <2>1. s \in SUBSET Points
    BY SeqsAre
  <2> QED
    BY <2>1, HeldFinite
<1>2. \A s \in seqs : s # {} /\ First(s) \in Nat
  <2> TAKE s \in seqs
  <2>1. PICK a \in Nat, k \in 3..12 : s = a..(a + k - 1)
    BY SeqsAre
  <2>2. a \in s
    BY <2>1
  <2>3. s \in SUBSET Points /\ s # {}
    BY <1>1, <2>2
  <2>4. First(s) \in Points
    BY <2>3, FirstAndLast
  <2> QED
    BY <2>3, <2>4 DEF Points
<1> HIDE DEF seqs
<1>3. longest # {}
  <2> DEFINE Short == { 15 - Cardinality(s) : s \in seqs }
  <2>1. Short \in SUBSET Nat
    BY <1>1
  <2>2. Short # {}
    BY DEF seqs
  <2>3. PICK m \in Short : \A n \in Short : m <= n
    BY <2>1, <2>2, LeastNumber
  <2>4. PICK s \in seqs : m = 15 - Cardinality(s)
    BY <2>3
  <2>5. \A t \in seqs : Cardinality(t) <= Cardinality(s)
    <3> TAKE t \in seqs
    <3>1. m <= 15 - Cardinality(t)
      BY <2>3
    <3> QED
      BY <1>1, <2>4, <3>1
  <2> QED
    BY <2>5
<1>4. longest \subseteq seqs
  OBVIOUS
<1> HIDE DEF longest
<1>5. first # {}
  <2> DEFINE Firsts == { First(s) : s \in longest }
  <2>1. Firsts \in SUBSET Nat /\ Firsts # {}
    BY <1>2, <1>3, <1>4
  <2>2. PICK m \in Firsts : \A n \in Firsts : m <= n
    BY <2>1, LeastNumber
  <2> QED
    BY <2>2
<1>6. PICK s \in seqs : LeadSeqPair(seqs) = Each(2, s)
  <2> DEFINE s == CHOOSE s \in longest : \A t \in longest : First(s) <= First(t)
  <2>1. s \in longest
    BY <1>5
  <2>2. LeadSeqPair(seqs) = Each(2, s)
    BY DEF LeadSeqPair, longest
  <2> QED
    BY <1>4, <2>1, <2>2
<1>7. PICK a \in Nat, k \in 3..12 : 1 <= a /\ a + k - 1 <= Card_A /\ s = a..(a + k - 1)
  BY SeqsAre DEF seqs
<1>8. HandType(Each(2, s)) = "Seq_Pair"
  <2>1. /\ k \in 1..12 /\ 2 \in 1..2 /\ k >= (IF 2 = 1 THEN 5 ELSE 3)
        /\ << "Seq_Single", "Seq_Pair" >>[2] = "Seq_Pair"
    OBVIOUS
  <2> QED
    BY <1>7, <2>1, SequenceHand
<1>9. PartOf(Each(2, s), c)
  <2>1. \A p \in s : p \in Points /\ rest[p] = 2
    BY SeqsAre DEF seqs
  <2>2. \A p \in s \cap Points : 2 <= c[p]
    BY <2>1
  <2> QED
    BY <2>2, EachThere
<1> QED
  BY <1>6, <1>8, <1>9, TypedLeads DEF seqs

\* A plane is led bare or with two pairs.
LEMMA PlaneLeads ==
  ASSUME NEW c \in Counts, NEW rest \in [Points -> 0..2], \A p \in Points : rest[p] <= c[p],
         NEW p \in Points, p + 1 \in Points, p < Card_A, c[p] >= 3, c[p + 1] >= 3,
         rest[p] = 0, rest[p + 1] = 0
  PROVE  LeadsWith(c, LeadPlane(Each(3, {p, p + 1}), rest))
<1> DEFINE S == {p, p + 1}
           pairs == { q \in Same(rest, 2) : q <= Card_10 }
           T == Lowest(pairs, 2)
<1>1. pairs \in SUBSET Points /\ \A q \in pairs : rest[q] = 2 /\ q \notin S /\ c[q] >= 2
  <2> SUFFICES ASSUME NEW q \in pairs
               PROVE  q \in Points /\ rest[q] = 2 /\ q \notin S /\ c[q] >= 2
    OBVIOUS
  <2>1. q \in Points /\ rest[q] >= 2
    BY DEF Same
  <2>2. rest[q] \in 0..2 /\ rest[q] <= c[q] /\ c[q] \in 0..4
    BY <2>1 DEF Counts
  <2> QED
    BY <2>1, <2>2
<1>2. \A q \in S \cap Points : 3 <= c[q]
  <2>1. c[p] \in 0..4 /\ c[p + 1] \in 0..4
    BY DEF Counts
  <2> QED
    BY <2>1
<1>3. LeadPlane(Each(3, S), rest) =
        IF Cardinality(pairs) >= 2 THEN With(Each(3, S), Each(2, T)) ELSE Each(3, S)
  BY DEF LeadPlane
<1> HIDE DEF pairs, T
<1>4. CASE Cardinality(pairs) >= 2
  <2>1. T \in SUBSET pairs /\ Cardinality(T) = 2
    BY <1>1, <1>4, TwoLowest DEF T
  <2>2. T \in SUBSET Points /\ T \cap S = {}
    BY <1>1, <2>1
  <2>3. HandType(With(Each(3, S), Each(2, T))) = "Plane_Two_Pair"
    <3>1. 2 \in 1..2 /\ << "Plane_Two_Single", "Plane_Two_Pair" >>[2] = "Plane_Two_Pair"
      OBVIOUS
    <3> QED
      BY <2>1, <2>2, <3>1, PlaneWithKickers
  <2>4. PartOf(With(Each(3, S), Each(2, T)), c)
    <3>1. \A q \in T \cap Points : 2 <= c[q]
      <4>1. \A q \in Points : c[q] \in 0..4
        BY DEF Counts
      <4> QED
        BY <1>1, <2>1, <4>1
    <3> HIDE DEF S
    <3> QED
      BY <1>2, <2>2, <3>1, LotsThere
  <2> QED
    BY <1>3, <1>4, <2>3, <2>4, TypedLeads
<1>5. CASE ~(Cardinality(pairs) >= 2)
  <2>1. HandType(Each(3, S)) = "Plane"
    BY PlaneHand
  <2>2. PartOf(Each(3, S), c)
    BY <1>2, EachThere
  <2> QED
    BY <1>3, <1>5, <2>1, <2>2, TypedLeads
<1> QED
  BY <1>4, <1>5

\* A triple is led bare or with a single or a pair.
LEMMA TripleLeads ==
  ASSUME NEW c \in Counts, NEW rest \in [Points -> 0..2], \A p \in Points : rest[p] <= c[p],
         NEW p \in Points, c[p] >= 3, rest[p] = 0
  PROVE  LeadsWith(c, LeadTriple(Each(3, {p}), rest))
<1> DEFINE points == { q \in 1..Card_A : rest[q] \in {1, 2} }
           q == First(points)
<1>1. LeadTriple(Each(3, {p}), rest) =
        IF First(Held(Each(3, {p}), 3)) < Card_A /\ points # {}
        THEN With(Each(3, {p}), Each(rest[q], {q})) ELSE Each(3, {p})
  BY DEF LeadTriple
<1>2. \A r \in {p} \cap Points : 3 <= c[r]
  <2>1. c[p] \in 0..4
    BY DEF Counts
  <2> QED
    BY <2>1
<1>3. CASE LeadTriple(Each(3, {p}), rest) = Each(3, {p})
  <2>1. HandType(Each(3, {p})) = "Triple"
    <3>1. 3 \in 1..4 /\ << "Single", "Pair", "Triple", "Bomb" >>[3] = "Triple"
      OBVIOUS
    <3> QED
      BY <3>1, OnePointHand
  <2>2. PartOf(Each(3, {p}), c)
    BY <1>2, EachThere
  <2> QED
    BY <1>3, <2>1, <2>2, TypedLeads
<1>4. CASE points # {} /\ LeadTriple(Each(3, {p}), rest) =
                              With(Each(3, {p}), Each(rest[q], {q}))
  <2>1. points \in SUBSET Points
    BY DEF Points, Card_A
  <2>2. q \in points
    BY <1>4, <2>1, FirstAndLast
  <2>3. q \in Points /\ rest[q] \in 1..2 /\ p # q /\ rest[q] <= c[q]
    BY <2>1, <2>2
  <2> HIDE DEF q, points
  <2>4. PICK k \in 1..2 : k = rest[q]
    BY <2>3
  <2>5. HandType(With(Each(3, {p}), Each(k, {q}))) = << "Triple_Single", "Triple_Pair" >>[k]
    BY <2>3, TripleWithKicker
  <2>6. HandType(With(Each(3, {p}), Each(k, {q}))) \notin {"Unknown", "Pass"}
    BY <2>5
  <2>7. PartOf(With(Each(3, {p}), Each(k, {q})), c)
    <3> DEFINE P == {p}
               Q == {q}
    <3>1. /\ \A r \in P \cap Points : 3 <= c[r]
          /\ \A r \in Q \cap Points : k <= c[r]
          /\ P \cap Q = {} /\ 3 \in 1..4 /\ k \in 1..4
      BY <1>2, <2>3, <2>4
    <3> HIDE DEF P, Q
    <3>2. PartOf(With(Each(3, P), Each(k, Q)), c)
      BY <3>1, LotsThere
    <3> QED
      BY <3>2 DEF P, Q
  <2> QED
    BY <1>4, <2>4, <2>6, <2>7, TypedLeads
<1> QED
  BY <1>1, <1>3, <1>4

\* The last resort is a single or a pair; without one there are none left.
LEMMA LowLeads ==
  ASSUME NEW c \in Counts, NEW rest \in [Points -> 0..2], \A p \in Points : rest[p] <= c[p],
         NEW tbl, (\A p \in Points : rest[p] = 0) => \A p \in Points : c[p] \in {0, 4}
  PROVE  LeadsWith(c, LeadLow(rest, tbl))
<1> DEFINE points == { q \in Points : rest[q] \in {1, 2} }
           p == IF tbl.nextIsOpponent /\ tbl.nextCount = 1 THEN Last(points) ELSE First(points)
<1>1. LeadLow(rest, tbl) = IF points = {} THEN NoCards ELSE Each(rest[p], {p})
  BY DEF LeadLow
<1>2. CASE points = {}
  <2>1. \A q \in Points : rest[q] = 0
    BY <1>2
  <2>2. PartOf(NoCards, c)
    BY DEF NoCards, Counts, PartOf
  <2>3. HandType(NoCards) = "Pass"
    BY NoCardsPicked, NoCardsIs, TypeIs
  <2> QED
    BY <1>1, <1>2, <2>1, <2>2, <2>3 DEF LeadsWith
<1>3. CASE points # {}
  <2>1. points \in SUBSET Points
    OBVIOUS
  <2>2. First(points) \in points /\ Last(points) \in points
    BY <1>3, <2>1, FirstAndLast
  <2>3. p \in points
    BY <2>2
  <2>4. p \in Points /\ rest[p] \in 1..2 /\ rest[p] <= c[p]
    BY <2>3
  <2> HIDE DEF p, points
  <2>5. PICK k \in 1..2 : k = rest[p]
    BY <2>4
  <2>6. HandType(Each(k, {p})) = << "Single", "Pair", "Triple", "Bomb" >>[k] /\ k \in 1..4
    BY <2>4, OnePointHand
  <2>7. HandType(Each(k, {p})) \notin {"Unknown", "Pass"}
    BY <2>6
  <2>8. PartOf(Each(k, {p}), c)
    BY <2>4, <2>5, <2>6, EachThere
  <2> QED
    BY <1>1, <1>3, <2>5, <2>7, <2>8, TypedLeads
<1> QED
  BY <1>2, <1>3

\* firstPlay leads a hand out of what it has set aside so far and what is left.
LEMMA FirstPlayLeads ==
  ASSUME NEW c \in Counts, NEW tbl
  PROVE  LeadsWith(c, FirstPlay(c, tbl))
<1> DEFINE saved   == Without(c, Each(4, Same(c, 4)))
           planes  == PlanesOf(saved)
           left    == Without(saved, Each(3, PlanePoints(planes)))
           triples == Held(left, 3)
           rest    == Without(left, Each(3, triples))
           seqs    == SeqsOf(rest, 2, 3)
<1>1. FirstPlay(c, tbl) =
        IF HandType(c) # "Unknown" THEN c
        ELSE IF seqs # {}    THEN LeadSeqPair(seqs)
        ELSE IF planes # {}  THEN LeadPlane(GetPlane(saved, 1)[First(planes)], rest)
        ELSE IF triples # {} THEN LeadTriple(Each(3, {First(triples)}), rest)
        ELSE LeadLow(rest, tbl)
  BY DEF FirstPlay
<1>2. \A p \in Points : c[p] \in 0..4 /\ saved[p] = IF c[p] = 4 THEN 0 ELSE c[p]
  <2> TAKE p \in Points
  <2>1. saved[p] = c[p] - IF p \in Same(c, 4) THEN 4 ELSE 0
    BY DEF Without, Each
  <2>2. c[p] \in 0..4
    BY DEF Counts
  <2>3. p \in Same(c, 4) <=> c[p] = 4
    BY <2>2 DEF Same
  <2> HIDE DEF saved
  <2> QED
    BY <2>1, <2>2, <2>3
<1>3. saved \in Counts
  <2>1. \A p \in Points : saved[p] \in 0..4 /\ saved[p] <= c[p]
    BY <1>2
  <2>2. saved[Card_SJ] <= 1 /\ saved[Card_BJ] <= 1
    <3>1. /\ c[Card_SJ] <= 1 /\ c[Card_BJ] <= 1
          /\ Card_SJ \in Points /\ Card_BJ \in Points
      BY DEF Counts, Card_SJ, Card_BJ, Points
    <3> HIDE DEF saved
    <3> QED
      BY <1>2, <2>1, <3>1
  <2>3. saved = [p \in Points |-> saved[p]]
    BY DEF Without
  <2> HIDE DEF saved
  <2> QED
    BY <2>1, <2>2, <2>3 DEF Counts
<1>4. \A p \in planes : /\ p \in Points /\ p + 1 \in Points /\ p < Card_A
                        /\ saved[p] >= 3 /\ saved[p + 1] >= 3
  BY <1>3, PlaneAt
<1>5. \A p \in PlanePoints(planes) : p \in Points /\ saved[p] = 3
  <2>1. \A p \in PlanePoints(planes) : p \in Points /\ saved[p] >= 3
    BY <1>4 DEF PlanePoints
  <2> HIDE DEF saved, planes
  <2> QED
    BY <1>2, <2>1
<1>6. \A p \in Points : left[p] = IF p \in PlanePoints(planes) THEN 0 ELSE saved[p]
  <2> TAKE p \in Points
  <2>1. left[p] = saved[p] - IF p \in PlanePoints(planes) THEN 3 ELSE 0
    BY DEF Without, Each
  <2> HIDE DEF saved, planes, left
  <2> QED
    BY <1>2, <1>5, <2>1
<1>7. \A p \in Points : rest[p] = IF left[p] = 3 THEN 0 ELSE left[p]
  <2> TAKE p \in Points
  <2>1. rest[p] = left[p] - IF p \in triples THEN 3 ELSE 0
    BY DEF Without, Each
  <2>2. p \in triples <=> left[p] = 3
    BY DEF Held
  <2> HIDE DEF saved, planes, left, triples, rest
  <2> QED
    BY <1>2, <1>6, <2>1, <2>2
<1>8. rest = [p \in Points |-> rest[p]]
  BY DEF Without
<1>9. \A p \in triples : p \in Points /\ left[p] = 3
  BY DEF Held
<1>10. triples \in SUBSET Points /\ planes \in SUBSET Points
  BY <1>4, <1>9
<1>11. \A p \in planes : GetPlane(saved, 1)[p] = Each(3, {p, p + 1})
  <2> SUFFICES ASSUME NEW p \in planes
               PROVE  GetPlane(saved, 1)[p] = Each(3, {p, p + 1})
    OBVIOUS
  <2>1. p \in From(1, planes)
    BY <1>4 DEF From, Points
  <2> QED
    BY <2>1 DEF GetPlane
<1>12. \A p \in planes : p \in PlanePoints(planes) /\ p + 1 \in PlanePoints(planes)
  BY DEF PlanePoints
<1>13. planes = {} => PlanePoints(planes) = {}
  BY DEF PlanePoints
<1> HIDE DEF saved, planes, left, triples, rest
<1>14. /\ \A p \in Points : rest[p] \in 0..2 /\ rest[p] <= c[p]
       /\ rest \in [Points -> 0..2]
  <2>1. \A p \in Points : rest[p] \in 0..2 /\ rest[p] <= c[p]
    BY <1>2, <1>6, <1>7
  <2> QED
    BY <1>8, <2>1
<1>15. CASE HandType(c) # "Unknown"
  <2>1. PartOf(c, c)
    <3>1. c \in [Points -> Nat]
      BY DEF Counts
    <3> QED
      BY <1>2, <3>1 DEF PartOf
  <2>2. c = NoCards => \A p \in Points : c[p] \in {0, 4}
    BY DEF NoCards
  <2> QED
    BY <1>1, <1>15, <2>1, <2>2 DEF LeadsWith
<1>16. CASE HandType(c) = "Unknown" /\ seqs # {}
  BY <1>1, <1>14, <1>16, SeqPairLeads
<1>17. CASE HandType(c) = "Unknown" /\ seqs = {} /\ planes # {}
  <2>1. First(planes) \in planes
    BY <1>10, <1>17, FirstAndLast
  <2>2. PICK p \in planes : p = First(planes)
    BY <2>1
  <2>3. p \in PlanePoints(planes) /\ p + 1 \in PlanePoints(planes)
    BY <1>12
  <2>4. /\ p \in Points /\ p + 1 \in Points /\ p < Card_A
        /\ c[p] >= 3 /\ c[p + 1] >= 3 /\ rest[p] = 0 /\ rest[p + 1] = 0
    <3>1. p \in Points /\ p + 1 \in Points /\ p < Card_A
      BY <1>4
    <3>2. saved[p] = 3 /\ saved[p + 1] = 3 /\ left[p] = 0 /\ left[p + 1] = 0
      BY <1>5, <1>6, <2>3
    <3> QED
      BY <1>2, <1>7, <3>1, <3>2
  <2>5. LeadsWith(c, LeadPlane(Each(3, {p, p + 1}), rest))
    BY <1>14, <2>4, PlaneLeads
  <2> QED
    BY <1>1, <1>11, <1>17, <2>2, <2>5
<1>18. CASE HandType(c) = "Unknown" /\ seqs = {} /\ planes = {} /\ triples # {}
  <2>1. First(triples) \in triples
    BY <1>10, <1>18, FirstAndLast
  <2>2. PICK p \in triples : p = First(triples)
    BY <2>1
  <2>3. p \in Points /\ c[p] >= 3 /\ rest[p] = 0
    <3>1. p \in Points /\ left[p] = 3
      BY <1>9
    <3> QED
      BY <1>2, <1>6, <1>7, <3>1
  <2>4. LeadsWith(c, LeadTriple(Each(3, {p}), rest))
    BY <1>14, <2>3, TripleLeads
  <2> QED
    BY <1>1, <1>18, <2>2, <2>4
<1>19. CASE HandType(c) = "Unknown" /\ seqs = {} /\ planes = {} /\ triples = {}
  <2>1. (\A p \in Points : rest[p] = 0) => \A p \in Points : c[p] \in {0, 4}
    <3> SUFFICES ASSUME \A p \in Points : rest[p] = 0, NEW p \in Points
                 PROVE  c[p] \in {0, 4}
      OBVIOUS
    <3>1. left[p] # 3
      <4>1. left[p] = 3 => p \in triples
        BY DEF triples, Held
      <4> QED
        BY <1>19, <4>1
    <3>2. saved[p] = left[p]
      BY <1>6, <1>13, <1>19
    <3> QED
      BY <1>2, <1>7, <3>1, <3>2
  <2>2. LeadsWith(c, LeadLow(rest, tbl))
    BY <1>14, <2>1, LowLeads
  <2> QED
    BY <1>1, <1>19, <2>2
<1> QED
  BY <1>15, <1>16, <1>17, <1>18, <1>19

\* A robot that has cards and leads none has two bombs or more: of one it makes a hand.
LEMMA NothingToLead ==
  ASSUME NEW c \in Counts, NEW tbl, FirstPlay(c, tbl) = NoCards, c # NoCards
  PROVE  /\ \A p \in Points : c[p] \in {0, 4}
         /\ \E p, q \in Points : p # q /\ c[p] = 4 /\ c[q] = 4
<1>1. \A p \in Points : c[p] \in {0, 4}
  BY FirstPlayLeads DEF LeadsWith
<1>2. HandType(c) = "Unknown"
  BY DEF FirstPlay
<1>3. c = [p \in Points |-> c[p]]
  BY DEF Counts
<1>4. PICK p \in Points : c[p] = 4
  <2>1. (\A p \in Points : c[p] = 0) => c = NoCards
    BY <1>3 DEF NoCards
  <2> QED
    BY <1>1, <2>1
<1>5. \E q \in Points : q # p /\ c[q] = 4
  <2> SUFFICES ASSUME \A q \in Points : q # p => c[q] = 0 PROVE FALSE
    BY <1>1
  <2>1. c = Each(4, {p})
    BY <1>3, <1>4 DEF Each
  <2>2. HandType(Each(4, {p})) = << "Single", "Pair", "Triple", "Bomb" >>[4] /\ 4 \in 1..4
    BY OnePointHand
  <2> QED
    BY <1>2, <2>1, <2>2
<1> QED
  BY <1>1, <1>4, <1>5
=============================================================================
