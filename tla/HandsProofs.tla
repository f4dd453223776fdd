----------------------------- MODULE HandsProofs -----------------------------
(***************************************************************************)
(* Which hands there are and which of them beat which, for all cards two   *)
(* players can pick of one deck; and what a robot leads and answers, for   *)
(* all cards that it can be dealt.                                         *)
(***************************************************************************)
EXTENDS MCHands, StrategyProofs

-----------------------------------------------------------------------------
(* What two players pick *)

\* What both have picked is in one deck.
HandsInv ==
  Picking =>
    /\ mine \in Counts
    /\ other \in Counts
    /\ \A p \in Points : mine[p] + other[p] <= InDeck(p)

\* A robot's deck has cards.
LEMMA DecksHaveCards == NoRobot \notin Decks
<1>1. /\ With(Each(2, Wide), Each(1, Jokers))[Card_BJ] \in {1, 3}
      /\ With(Each(4, Deep), Each(1, {Card_BJ}))[Card_BJ] \in {1, 5}
  BY DEF With, Each, Points, Jokers, Card_BJ, Card_SJ
<1>2. NoRobot[Card_BJ] = 0
  BY DEF NoRobot, NoCards, Points, Card_BJ
<1> QED
  BY <1>1, <1>2 DEF Decks

\* The specification begins with nothing picked.
LEMMA InitHandsInv == Init => HandsInv
<1> SUFFICES ASSUME Init, Picking PROVE HandsInv
  BY DEF HandsInv
<1>1. mine = NoCards /\ other = NoCards
  BY DecksHaveCards DEF Init, Picking
<1>2. \A p \in Points : NoCards[p] + NoCards[p] <= InDeck(p)
  BY DEF NoCards, InDeck
<1> QED
  BY <1>1, <1>2, NoCardsPicked DEF HandsInv

\* One card more.
LEMMA PickOne ==
  ASSUME NEW c \in Counts, NEW d \in Counts, NEW p \in Points,
         \A q \in Points : c[q] + d[q] <= InDeck(q), c[p] + d[p] < InDeck(p)
  PROVE  /\ Pick(c, p) \in Counts
         /\ \A q \in Points : Pick(c, p)[q] + d[q] <= InDeck(q)
<1>1. \A q \in Points : c[q] \in 0..4 /\ d[q] \in 0..4 /\ InDeck(q) \in {1, 4}
  BY DEF Counts, InDeck
<1>2. Pick(c, p) = [q \in Points |-> IF q = p THEN c[p] + 1 ELSE c[q]]
  BY DEF Pick, Counts
<1>3. \A q \in Points : Pick(c, p)[q] + d[q] <= InDeck(q)
  BY <1>1, <1>2
<1>4. \A q \in Points : Pick(c, p)[q] \in 0..4
  BY <1>1, <1>2
<1>5. Pick(c, p)[Card_SJ] <= 1 /\ Pick(c, p)[Card_BJ] <= 1
  BY <1>1, <1>3, <1>4 DEF InDeck, Jokers, Card_SJ, Card_BJ, Points
<1> QED
  BY <1>2, <1>3, <1>4, <1>5 DEF Counts

\* What is picked comes out of what the deck still has.
LEMMA NextHandsInv == HandsInv /\ [Next]_vars => HandsInv'
<1> SUFFICES ASSUME HandsInv, [Next]_vars, Picking' PROVE HandsInv'
  BY DEF HandsInv
<1>1. deck' = deck
  BY DEF Next, SelectMine, SelectOther, Deal, vars
<1>2. Picking
  BY <1>1 DEF Picking
<1>3. /\ mine \in Counts /\ other \in Counts
      /\ \A p \in Points : mine[p] + other[p] <= InDeck(p)
  BY <1>2 DEF HandsInv
<1>4. \A p \in Points : mine[p] \in 0..4 /\ other[p] \in 0..4 /\ NoCards[p] = 0 /\ deck[p] = 0
  BY <1>2, <1>3 DEF Counts, NoCards, Picking, NoRobot
<1>5. CASE SelectMine
  <2>1. PICK p \in Points : mine[p] < InDeck(p) /\ mine' = Pick(mine, p)
    BY <1>5, HandsAssumption DEF SelectMine
  <2>2. other = NoCards /\ other' = other
    BY <1>5 DEF SelectMine
  <2>3. mine[p] + other[p] < InDeck(p)
    BY <1>4, <2>1, <2>2
  <2> QED
    BY <1>3, <2>1, <2>2, <2>3, PickOne DEF HandsInv
<1>6. CASE SelectOther
  <2>1. PICK p \in Points : mine[p] + other[p] < InDeck(p) /\ other' = Pick(other, p)
    BY <1>6, HandsAssumption DEF SelectOther
  <2>2. mine' = mine
    BY <1>6 DEF SelectOther
  <2>3. \A q \in Points : other[q] + mine[q] <= InDeck(q) /\ other[p] + mine[p] < InDeck(p)
    BY <1>3, <1>4, <2>1
  <2>4. other' \in Counts /\ \A q \in Points : other'[q] + mine[q] <= InDeck(q)
    BY <1>3, <2>1, <2>3, PickOne
  <2>5. \A q \in Points : mine[q] + other'[q] <= InDeck(q)
    <3>1. \A q \in Points : other'[q] \in 0..4
      BY <2>4 DEF Counts
    <3> QED
      BY <1>4, <2>4, <3>1
  <2> QED
    BY <1>3, <2>2, <2>4, <2>5 DEF HandsInv
<1>7. CASE Deal
  BY <1>4, <1>7 DEF Deal
<1>8. CASE UNCHANGED vars
  BY <1>3, <1>8 DEF HandsInv, vars
<1> QED
  BY <1>5, <1>6, <1>7, <1>8 DEF Next

-----------------------------------------------------------------------------
(* Beating *)

\* Both players cannot have the jokers.
LEMMA JokersOnce ==
  ASSUME NEW c \in Counts, NEW d \in Counts,
         \A p \in Points : c[p] + d[p] <= InDeck(p),
         HandType(c) = "Bomb_Jokers"
  PROVE  HandType(d) # "Bomb_Jokers"
<1> SUFFICES ASSUME HandType(d) = "Bomb_Jokers" PROVE FALSE
  OBVIOUS
<1>1. Card_SJ \in Held(c, 1) /\ Card_SJ \in Held(d, 1)
  BY TypeIs DEF Jokers
<1>2. c[Card_SJ] = 1 /\ d[Card_SJ] = 1
  BY <1>1 DEF Held
<1>3. InDeck(Card_SJ) = 1 /\ Card_SJ \in Points
  BY DEF InDeck, Jokers, Card_SJ, Points
<1> QED
  BY <1>2, <1>3

\* Of two hands picked of one deck at most one beats the other (canBeat), so nobody
\* takes a trick back with the hand it was taken from.
THEOREM BeatenOnce == Spec => []BeatingIsOneWay
<1>1. HandsInv => BeatingIsOneWay
  <2> SUFFICES ASSUME HandsInv, Picking, mine # NoCards,
                      CanBeat(HandOf(mine), HandOf(other)),
                      CanBeat(HandOf(other), HandOf(mine))
               PROVE  FALSE
    BY DEF BeatingIsOneWay
  <2>1. /\ mine \in Counts /\ other \in Counts
        /\ \A p \in Points : mine[p] + other[p] <= InDeck(p)
    BY DEF HandsInv
  <2>2. HandType(mine) # "Pass"
    BY <2>1, PassIsNone
  <2>3. HandPoint(mine) \in Nat /\ HandPoint(other) \in Nat
    BY PointIsNumber
  <2>4. ~(HandType(mine) = "Bomb_Jokers" /\ HandType(other) = "Bomb_Jokers")
    BY <2>1, JokersOnce
  <2> QED
    BY <2>2, <2>3, <2>4 DEF CanBeat, HandOf, Ordinary
<1> QED
  BY <1>1, InitHandsInv, NextHandsInv, PTL DEF Spec

\* What beats a hand has as many cards, or is a bomb: the type, the point and the length
\* that PlayHand keeps are enough for canBeat to compare like with like.
THEOREM OneSize == Spec => []SizesMatch
<1>1. HandsInv => SizesMatch
  <2> SUFFICES ASSUME HandsInv, Picking, CanBeat(HandOf(mine), HandOf(other)),
                      HandType(mine) \notin {"Bomb", "Bomb_Jokers"}, other # NoCards
               PROVE  CardCount(mine) = CardCount(other)
    BY DEF SizesMatch
  <2>1. mine \in Counts /\ other \in Counts
    BY DEF HandsInv
  <2>2. HandType(other) # "Pass"
    BY <2>1, PassIsNone
  <2>3. /\ HandType(mine) = HandType(other) /\ HandType(mine) # "Unknown"
        /\ HandType(mine) \in Sequences => HandExtra(mine) = HandExtra(other)
    BY <2>2 DEF CanBeat, HandOf
  <2> QED
    BY <2>1, <2>3, TypeIsAType, SameTypeSameSize
<1> QED
  BY <1>1, InitHandsInv, NextHandsInv, PTL DEF Spec

-----------------------------------------------------------------------------
(* The types and the rules *)

\* The rules one by one.
LEMMA RuleIs ==
  ASSUME NEW c
  PROVE  /\ c \in Rule("Pass") <=> c = NoCards
         /\ c \in Rule("Single") <=> c \in One(1, {})
         /\ c \in Rule("Pair") <=> c \in One(2, {})
         /\ c \in Rule("Triple") <=>
             \E S \in Singletons : \E k \in None(S) : c = With(Each(3, S), k)
         /\ c \in Rule("Triple_Single") <=>
             \E S \in Singletons : \E k \in One(1, S) : c = With(Each(3, S), k)
         /\ c \in Rule("Triple_Pair") <=>
             \E S \in Singletons : \E k \in One(2, S) : c = With(Each(3, S), k)
         /\ c \in Rule("Plane") <=>
             \E S \in RunsOf(2) : \E k \in None(S) : c = With(Each(3, S), k)
         /\ c \in Rule("Plane_Two_Single") <=>
             \E S \in RunsOf(2) : \E k \in Two(1, S) : c = With(Each(3, S), k)
         /\ c \in Rule("Plane_Two_Pair") <=>
             \E S \in RunsOf(2) : \E k \in Two(2, S) : c = With(Each(3, S), k)
         /\ c \in Rule("Seq_Pair") <=>
             \E S \in UNION { RunsOf(k) : k \in 3..12 } : \E k \in None(S) : c = With(Each(2, S), k)
         /\ c \in Rule("Seq_Single") <=>
             \E S \in UNION { RunsOf(k) : k \in 5..12 } : \E k \in None(S) : c = With(Each(1, S), k)
         /\ c \in Rule("Bomb") <=>
             \E S \in Singletons : \E k \in None(S) : c = With(Each(4, S), k)
         /\ c \in Rule("Bomb_Single") <=>
             \E S \in Singletons : \E k \in One(1, S) : c = With(Each(4, S), k)
         /\ c \in Rule("Bomb_Pair") <=>
             \E S \in Singletons : \E k \in One(2, S) : c = With(Each(4, S), k)
         /\ c \in Rule("Bomb_Two_Single") <=>
             \E S \in Singletons : \E k \in Two(1, S) : c = With(Each(4, S), k)
         /\ c \in Rule("Bomb_Jokers") <=> c = Each(1, Jokers)
         /\ c \in Rule("Bomb_Jokers_Single") <=>
             \E S \in {Jokers} : \E k \in One(1, S) : c = With(Each(1, S), k)
         /\ c \in Rule("Bomb_Jokers_Pair") <=>
             \E S \in {Jokers} : \E k \in One(2, S) : c = With(Each(1, S), k)
         /\ c \in Rule("Bomb_Jokers_Two_Single") <=>
             \E S \in {Jokers} : \E k \in Two(1, S) : c = With(Each(1, S), k)
<1>Pass. c \in Rule("Pass") <=> c = NoCards
  BY DEF Rule, Lead
<1>Single. c \in Rule("Single") <=> c \in One(1, {})
  BY DEF Rule, Lead
<1>Pair. c \in Rule("Pair") <=> c \in One(2, {})
  BY DEF Rule, Lead
<1>Triple. c \in Rule("Triple") <=>
             \E S \in Singletons : \E k \in None(S) : c = With(Each(3, S), k)
  BY DEF Rule, Lead
<1>Triple_Single. c \in Rule("Triple_Single") <=>
             \E S \in Singletons : \E k \in One(1, S) : c = With(Each(3, S), k)
  BY DEF Rule, Lead
<1>Triple_Pair. c \in Rule("Triple_Pair") <=>
             \E S \in Singletons : \E k \in One(2, S) : c = With(Each(3, S), k)
  BY DEF Rule, Lead
<1>Plane. c \in Rule("Plane") <=>
             \E S \in RunsOf(2) : \E k \in None(S) : c = With(Each(3, S), k)
  BY DEF Rule, Lead
<1>Plane_Two_Single. c \in Rule("Plane_Two_Single") <=>
             \E S \in RunsOf(2) : \E k \in Two(1, S) : c = With(Each(3, S), k)
  BY DEF Rule, Lead
<1>Plane_Two_Pair. c \in Rule("Plane_Two_Pair") <=>
             \E S \in RunsOf(2) : \E k \in Two(2, S) : c = With(Each(3, S), k)
  BY DEF Rule, Lead
<1>Seq_Pair. c \in Rule("Seq_Pair") <=>
             \E S \in UNION { RunsOf(k) : k \in 3..12 } : \E k \in None(S) : c = With(Each(2, S), k)
  BY DEF Rule, Lead
<1>Seq_Single. c \in Rule("Seq_Single") <=>
             \E S \in UNION { RunsOf(k) : k \in 5..12 } : \E k \in None(S) : c = With(Each(1, S), k)
  BY DEF Rule, Lead
<1>Bomb. c \in Rule("Bomb") <=>
             \E S \in Singletons : \E k \in None(S) : c = With(Each(4, S), k)
  BY DEF Rule, Lead
<1>Bomb_Single. c \in Rule("Bomb_Single") <=>
             \E S \in Singletons : \E k \in One(1, S) : c = With(Each(4, S), k)
  BY DEF Rule, Lead
<1>Bomb_Pair. c \in Rule("Bomb_Pair") <=>
             \E S \in Singletons : \E k \in One(2, S) : c = With(Each(4, S), k)
  BY DEF Rule, Lead
<1>Bomb_Two_Single. c \in Rule("Bomb_Two_Single") <=>
             \E S \in Singletons : \E k \in Two(1, S) : c = With(Each(4, S), k)
  BY DEF Rule, Lead
<1>Bomb_Jokers. c \in Rule("Bomb_Jokers") <=> c = Each(1, Jokers)
  BY DEF Rule, Lead
<1>Bomb_Jokers_Single. c \in Rule("Bomb_Jokers_Single") <=>
             \E S \in {Jokers} : \E k \in One(1, S) : c = With(Each(1, S), k)
  BY DEF Rule, Lead
<1>Bomb_Jokers_Pair. c \in Rule("Bomb_Jokers_Pair") <=>
             \E S \in {Jokers} : \E k \in One(2, S) : c = With(Each(1, S), k)
  BY DEF Rule, Lead
<1>Bomb_Jokers_Two_Single. c \in Rule("Bomb_Jokers_Two_Single") <=>
             \E S \in {Jokers} : \E k \in Two(1, S) : c = With(Each(1, S), k)
  BY DEF Rule, Lead
<1> QED
  BY <1>Pass, <1>Single, <1>Pair, <1>Triple, <1>Triple_Single, <1>Triple_Pair, <1>Plane, <1>Plane_Two_Single, <1>Plane_Two_Pair, <1>Seq_Pair, <1>Seq_Single, <1>Bomb, <1>Bomb_Single, <1>Bomb_Pair, <1>Bomb_Two_Single, <1>Bomb_Jokers, <1>Bomb_Jokers_Single, <1>Bomb_Jokers_Pair, <1>Bomb_Jokers_Two_Single

\* No second lot.
LEMMA OneLot ==
  ASSUME NEW S \in SUBSET Points, NEW n \in 1..4, NEW k \in 1..4
  PROVE  /\ Each(n, S) = With(Each(n, S), Each(k, {}))
         /\ NoCards = Each(k, {})
         /\ NoCards = With(Each(n, {}), Each(k, {}))
BY DEF With, Each, NoCards

\* Cards are put together of the points held.
LEMMA LotsOfHeld ==
  ASSUME NEW c \in Counts, NEW n \in 1..4, NEW k \in 1..4, n # k,
         \A m \in (1..4) \ {n, k} : Held(c, m) = {}
  PROVE  c = With(Each(n, Held(c, n)), Each(k, Held(c, k)))
<1>1. ASSUME NEW p \in Points
      PROVE  c[p] = With(Each(n, Held(c, n)), Each(k, Held(c, k)))[p]
  <2>1. c[p] \in 0..4 /\ c[p] \notin (1..4) \ {n, k}
    BY DEF Held, Counts
  <2>2. /\ p \in Held(c, n) <=> c[p] = n
        /\ p \in Held(c, k) <=> c[p] = k
    BY DEF Held
  <2>3. With(Each(n, Held(c, n)), Each(k, Held(c, k)))[p] =
          (IF p \in Held(c, n) THEN n ELSE 0) + (IF p \in Held(c, k) THEN k ELSE 0)
    BY DEF With, Each
  <2> QED
    BY <2>1, <2>2, <2>3
<1>2. c = [p \in Points |-> c[p]]
  BY DEF Counts
<1>3. With(Each(n, Held(c, n)), Each(k, Held(c, k))) =
        [p \in Points |-> With(Each(n, Held(c, n)), Each(k, Held(c, k)))[p]]
  BY DEF With
<1> QED
  BY <1>1, <1>2, <1>3, Zenon

\* Nobody holds a joker twice.
LEMMA JokersAreSingle ==
  ASSUME NEW c \in Counts, NEW n \in 2..4
  PROVE  Held(c, n) \in SUBSET (Points \ Jokers)
BY DEF Held, Counts, Jokers

\* The rules list the runs of k points by their first.
LEMMA RunIsListed ==
  ASSUME NEW S \in SUBSET Points, NEW k \in 1..15
  PROVE  Cardinality(S) = k /\ Consecutive(S) <=> k <= 12 /\ S \in RunsOf(k)
<1>1. S \in RunsOf(k) <=> \E a \in 1..(Card_A - k + 1) : S = a..(a + k - 1)
  BY DEF RunsOf
<1> QED
  BY <1>1, RunIs

\* n cards of each point of S tell S.
LEMMA EachTells ==
  ASSUME NEW n \in 1..4, NEW S \in SUBSET Points, NEW T \in SUBSET Points,
         Each(n, S) = Each(n, T)
  PROVE  S = T
<1>1. ASSUME NEW p \in Points PROVE p \in S <=> p \in T
  <2>1. /\ Each(n, S)[p] = IF p \in S THEN n ELSE 0
        /\ Each(n, T)[p] = IF p \in T THEN n ELSE 0
    BY DEF Each
  <2> QED
    BY <2>1
<1> QED
  BY <1>1

\* The kickers: n cards of one point or of each of two, of points not in S.
LEMMA OneKicker ==
  ASSUME NEW n \in 1..2, NEW S \in SUBSET Points, NEW x
  PROVE  x \in One(n, S) <=>
           \E T \in SUBSET (Points \ S) :
             Cardinality(T) = 1 /\ (n = 2 => T \cap Jokers = {}) /\ x = Each(n, T)
<1>1. ASSUME x \in One(n, S)
      PROVE  \E T \in SUBSET (Points \ S) :
               Cardinality(T) = 1 /\ (n = 2 => T \cap Jokers = {}) /\ x = Each(n, T)
  <2>1. PICK p \in Points \ S : (n = 1 \/ p \notin Jokers) /\ x = Each(n, {p})
    BY <1>1 DEF One
  <2>2. {p} \in SUBSET (Points \ S) /\ Cardinality({p}) = 1 /\ (n = 2 => {p} \cap Jokers = {})
    BY <2>1, FS_Singleton
  <2> QED
    BY <2>1, <2>2
<1>2. ASSUME NEW T \in SUBSET (Points \ S), Cardinality(T) = 1, n = 2 => T \cap Jokers = {},
             x = Each(n, T)
      PROVE  x \in One(n, S)
  <2>1. PICK p \in Points : T = {p}
    BY <1>2, OnePoint
  <2>2. p \in Points \ S /\ (n = 1 \/ p \notin Jokers)
    BY <1>2, <2>1
  <2> QED
    BY <1>2, <2>1, <2>2 DEF One
<1> QED
  BY <1>1, <1>2

\* Two kickers: singles or pairs of different points, and not both jokers.
LEMMA TwoKickers ==
  ASSUME NEW n \in 1..2, NEW S \in SUBSET Points, NEW x
  PROVE  x \in Two(n, S) <=>
           \E T \in SUBSET (Points \ S) :
             /\ Cardinality(T) = 2 /\ T # Jokers /\ (n = 2 => T \cap Jokers = {})
             /\ x = Each(n, T)
<1>1. ASSUME x \in Two(n, S)
      PROVE  \E T \in SUBSET (Points \ S) :
               /\ Cardinality(T) = 2 /\ T # Jokers /\ (n = 2 => T \cap Jokers = {})
               /\ x = Each(n, T)
  <2>1. PICK p \in (Points \ Jokers) \ S, q \in Points \ S :
          (n = 2 => q \notin Jokers) /\ x = Each(n, {p, q})
    BY <1>1 DEF Two
  <2>2. x \notin One(n, S)
    BY <1>1 DEF Two
  <2>3. p # q
    <3>1. p = q => x = Each(n, {p}) /\ x \in One(n, S)
      <4>1. p = q => {p, q} = {p}
        OBVIOUS
      <4> QED
        BY <2>1, <4>1 DEF One
    <3> QED
      BY <2>2, <3>1
  <2>4. /\ {p, q} \in SUBSET (Points \ S) /\ {p, q} # Jokers
        /\ n = 2 => {p, q} \cap Jokers = {}
    BY <2>1
  <2>5. Cardinality({p, q}) = 2
    BY <2>1, <2>3, TwoPoints
  <2> QED
    BY <2>1, <2>4, <2>5
<1>2. ASSUME NEW T \in SUBSET (Points \ S), Cardinality(T) = 2, T # Jokers,
             n = 2 => T \cap Jokers = {}, x = Each(n, T)
      PROVE  x \in Two(n, S)
  <2>1. PICK p, q \in Points : p # q /\ T = {p, q}
    BY <1>2, TwoPoints
  <2>2. p \notin Jokers \/ q \notin Jokers
    BY <1>2, <2>1 DEF Jokers
  <2>3. T = {q, p} /\ p \in Points \ S /\ q \in Points \ S
        /\ (n = 2 => p \notin Jokers /\ q \notin Jokers)
    BY <1>2, <2>1
  <2>4. x \notin One(n, S)
    <3>1. SUFFICES ASSUME x \in One(n, S) PROVE FALSE
      OBVIOUS
    <3>2. PICK r \in Points : x = Each(n, {r})
      BY <3>1 DEF One
    <3>3. T = {r}
      <4>1. T \in SUBSET Points /\ {r} \in SUBSET Points /\ n \in 1..4
        OBVIOUS
      <4> QED
        BY <1>2, <3>2, <4>1, EachTells
    <3> QED
      BY <2>1, <3>3
  <2>5. PICK a, b \in Points \ S :
          /\ a \notin Jokers /\ (n = 2 => b \notin Jokers)
          /\ x = Each(n, {a, b})
    BY <1>2, <2>1, <2>2, <2>3
  <2> DEFINE A == (Points \ Jokers) \ S
             B == (IF n = 1 THEN Points ELSE Points \ Jokers) \ S
             F(u, v) == Each(n, {u, v})
  <2>6. a \in A /\ b \in B
    BY <2>5
  <2>7. Two(n, S) = { F(u, v) : u \in A, v \in B } \ One(n, S)
    BY DEF Two
  <2>8. x = F(a, b)
    BY <2>5
  <2> HIDE DEF A, B, F
  <2>9. x \in { F(u, v) : u \in A, v \in B }
    BY <2>6, <2>8
  <2> QED
    BY <2>4, <2>7, <2>9
<1> QED
  BY <1>1, <1>2

\* Two lots of cards, of different numbers, are the points held that often.
LEMMA LotsAre ==
  ASSUME NEW c \in Counts, NEW S \in SUBSET Points, NEW T \in SUBSET Points, S \cap T = {},
         NEW n \in 1..4, NEW k \in 1..4, n # k
  PROVE  c = With(Each(n, S), Each(k, T)) <=>
           /\ Held(c, n) = S /\ Held(c, k) = T
           /\ \A m \in (1..4) \ {n, k} : Held(c, m) = {}
<1>1. ASSUME c = With(Each(n, S), Each(k, T))
      PROVE  /\ Held(c, n) = S /\ Held(c, k) = T
             /\ \A m \in (1..4) \ {n, k} : Held(c, m) = {}
  <2>1. \A m \in 1..4 : Held(c, m) = (IF m = n THEN S ELSE {}) \cup (IF m = k THEN T ELSE {})
    BY <1>1, HeldOfLots
  <2> QED
    BY <2>1
<1> QED
  BY <1>1, LotsOfHeld

\* A hand of one lot, of a lot with one kicker, and of a lot with two.
LEMMA NoneIs ==
  ASSUME NEW c \in Counts, NEW Ss \in SUBSET (SUBSET Points), NEW n \in 1..4
  PROVE  (\E S \in Ss : \E x \in None(S) : c = With(Each(n, S), x)) <=>
           /\ Held(c, n) \in Ss
           /\ \A m \in (1..4) \ {n} : Held(c, m) = {}
<1>1. PICK k \in 1..4 : k # n
  OBVIOUS
<1>2. ASSUME NEW S \in Ss, NEW x \in None(S)
      PROVE  c = With(Each(n, S), x) <=>
               Held(c, n) = S /\ \A m \in (1..4) \ {n} : Held(c, m) = {}
  <2>1. x = Each(k, {})
    BY OneLot DEF None
  <2>4. S \in SUBSET Points
    OBVIOUS
  <2>2. PICK T \in SUBSET Points : T = {} /\ S \cap T = {} /\ x = Each(k, T)
    BY <2>1
  <2>3. c = With(Each(n, S), Each(k, T)) <=>
          /\ Held(c, n) = S /\ Held(c, k) = T
          /\ \A m \in (1..4) \ {n, k} : Held(c, m) = {}
    <3>1. n # k /\ S \cap T = {}
      BY <1>1, <2>2
    <3> QED
      BY <2>4, <3>1, LotsAre
  <2> QED
    BY <1>1, <2>2, <2>3
<1>3. \A S : NoCards \in None(S)
  BY DEF None
<1> QED
  BY <1>2, <1>3

\* The rules for a hand that carries one kicker, in the numbers of cards held.
LEMMA WithOneIs ==
  ASSUME NEW c \in Counts, NEW Ss \in SUBSET (SUBSET Points), NEW n \in 1..4,
         NEW k \in 1..2, n # k
  PROVE  (\E S \in Ss : \E x \in One(k, S) : c = With(Each(n, S), x)) <=>
           /\ Held(c, n) \in Ss
           /\ Cardinality(Held(c, k)) = 1
           /\ \A m \in (1..4) \ {n, k} : Held(c, m) = {}
<1>1. ASSUME NEW S \in Ss, NEW x \in One(k, S), c = With(Each(n, S), x)
      PROVE  /\ Held(c, n) = S
             /\ Cardinality(Held(c, k)) = 1
             /\ \A m \in (1..4) \ {n, k} : Held(c, m) = {}
  <2>1. PICK T \in SUBSET (Points \ S) : Cardinality(T) = 1 /\ x = Each(k, T)
    BY OneKicker
  <2> QED
    BY <1>1, <2>1, LotsAre
<1>2. ASSUME Held(c, n) \in Ss, Cardinality(Held(c, k)) = 1,
             \A m \in (1..4) \ {n, k} : Held(c, m) = {}
      PROVE  \E S \in Ss : \E x \in One(k, S) : c = With(Each(n, S), x)
  <2>1. c = With(Each(n, Held(c, n)), Each(k, Held(c, k)))
    BY <1>2, LotsOfHeld
  <2>2. Held(c, k) \in SUBSET (Points \ Held(c, n)) /\ Held(c, n) \in SUBSET Points
    BY DEF Held
  <2>3. k = 2 => Held(c, k) \cap Jokers = {}
    BY JokersAreSingle
  <2>4. Each(k, Held(c, k)) \in One(k, Held(c, n))
    BY <1>2, <2>2, <2>3, OneKicker
  <2> QED
    BY <1>2, <2>1, <2>4
<1> QED
  BY <1>1, <1>2

\* The rules for a hand that carries two kickers, in the numbers of cards held.
LEMMA WithTwoIs ==
  ASSUME NEW c \in Counts, NEW Ss \in SUBSET (SUBSET Points), NEW n \in 1..4,
         NEW k \in 1..2, n # k
  PROVE  (\E S \in Ss : \E x \in Two(k, S) : c = With(Each(n, S), x)) <=>
           /\ Held(c, n) \in Ss
           /\ Cardinality(Held(c, k)) = 2 /\ Held(c, k) # Jokers
           /\ \A m \in (1..4) \ {n, k} : Held(c, m) = {}
<1>1. ASSUME NEW S \in Ss, NEW x \in Two(k, S), c = With(Each(n, S), x)
      PROVE  /\ Held(c, n) = S
             /\ Cardinality(Held(c, k)) = 2 /\ Held(c, k) # Jokers
             /\ \A m \in (1..4) \ {n, k} : Held(c, m) = {}
  <2>1. PICK T \in SUBSET (Points \ S) : Cardinality(T) = 2 /\ T # Jokers /\ x = Each(k, T)
    BY TwoKickers
  <2> QED
    BY <1>1, <2>1, LotsAre
<1>2. ASSUME Held(c, n) \in Ss, Cardinality(Held(c, k)) = 2, Held(c, k) # Jokers,
             \A m \in (1..4) \ {n, k} : Held(c, m) = {}
      PROVE  \E S \in Ss : \E x \in Two(k, S) : c = With(Each(n, S), x)
  <2>1. c = With(Each(n, Held(c, n)), Each(k, Held(c, k)))
    BY <1>2, LotsOfHeld
  <2>2. Held(c, k) \in SUBSET (Points \ Held(c, n)) /\ Held(c, n) \in SUBSET Points
    BY DEF Held
  <2>3. k = 2 => Held(c, k) \cap Jokers = {}
    BY JokersAreSingle
  <2>4. Each(k, Held(c, k)) \in Two(k, Held(c, n))
    BY <1>2, <2>2, <2>3, TwoKickers
  <2> QED
    BY <1>2, <2>1, <2>4
<1> QED
  BY <1>1, <1>2

\* Where the lots come from.
LEMMA SingletonIs ==
  ASSUME NEW S \in SUBSET (Points \ Jokers)
  PROVE  S \in Singletons <=> Cardinality(S) = 1
<1>1. S \in SUBSET Points
  OBVIOUS
<1>2. Cardinality(S) = 1 <=> \E p \in Points : S = {p}
  BY <1>1, OnePoint
<1> QED
  BY <1>2 DEF Singletons

\* Some points are a run of at least so many.
LEMMA RunsIs ==
  ASSUME NEW S \in SUBSET Points, NEW least \in 1..12
  PROVE  S \in UNION { RunsOf(k) : k \in least..12 } <=>
           \E n \in least..15 : Cardinality(S) = n /\ Consecutive(S)
<1>1. ASSUME NEW n \in least..15
      PROVE  Cardinality(S) = n /\ Consecutive(S) <=> n <= 12 /\ S \in RunsOf(n)
  BY RunIsListed
<1>2. \A n \in least..15 : n <= 12 <=> n \in least..12
  OBVIOUS
<1> QED
  BY <1>1, <1>2

\* Singles and runs are sets of points.
LEMMA LotsArePoints ==
  /\ Singletons \in SUBSET (SUBSET Points)
  /\ \A k \in 1..12 : RunsOf(k) \in SUBSET (SUBSET Points)
  /\ \A least \in 1..12 : UNION { RunsOf(k) : k \in least..12 } \in SUBSET (SUBSET Points)
<1>1. Singletons \in SUBSET (SUBSET Points)
  BY DEF Singletons
<1>2. \A k \in 1..12 : RunsOf(k) \in SUBSET (SUBSET Points)
  BY DEF RunsOf, Points, Card_A
<1>3. \A least \in 1..12 : \A k \in least..12 : k \in 1..12
  OBVIOUS
<1> QED
  BY <1>1, <1>2, <1>3

\* Which cards the rules put together.
LEMMA RuleShapes ==
  ASSUME NEW c \in Counts
  PROVE  /\ c \in Rule("Triple") <=>
             Held4(c, 0, 0, 1, 0)
         /\ c \in Rule("Triple_Single") <=>
             Held4(c, 1, 0, 1, 0)
         /\ c \in Rule("Triple_Pair") <=>
             Held4(c, 0, 1, 1, 0)
         /\ c \in Rule("Plane") <=>
             Held4(c, 0, 0, 2, 0) /\ Consecutive(Held(c, 3))
         /\ c \in Rule("Plane_Two_Single") <=>
             Held4(c, 2, 0, 2, 0) /\ Consecutive(Held(c, 3)) /\ Held(c, 1) # Jokers
         /\ c \in Rule("Plane_Two_Pair") <=>
             Held4(c, 0, 2, 2, 0) /\ Consecutive(Held(c, 3))
         /\ c \in Rule("Seq_Pair") <=>
             \E n \in 3..15 : Held4(c, 0, n, 0, 0) /\ Consecutive(Held(c, 2))
         /\ c \in Rule("Seq_Single") <=>
             \E n \in 5..15 : Held4(c, n, 0, 0, 0) /\ Consecutive(Held(c, 1))
         /\ c \in Rule("Bomb") <=>
             Held4(c, 0, 0, 0, 1)
         /\ c \in Rule("Bomb_Single") <=>
             Held4(c, 1, 0, 0, 1)
         /\ c \in Rule("Bomb_Pair") <=>
             Held4(c, 0, 1, 0, 1)
         /\ c \in Rule("Bomb_Two_Single") <=>
             Held4(c, 2, 0, 0, 1) /\ Held(c, 1) # Jokers
<1>1. /\ \A n \in 1..4 : Held(c, n) \in SUBSET Points
      /\ \A n \in 2..4 : Held(c, n) \in SUBSET (Points \ Jokers)
      /\ \A n \in 1..4 : Held(c, n) = {} <=> Cardinality(Held(c, n)) = 0
      /\ \A n \in 2..4 : Held(c, n) # Jokers
  <2>1. \A n \in 1..4 : Held(c, n) \in SUBSET Points
    BY DEF Held
  <2>2. \A n \in 2..4 : Held(c, n) \in SUBSET (Points \ Jokers)
    BY JokersAreSingle
  <2>3. \A n \in 2..4 : Held(c, n) # Jokers
    BY <2>2 DEF Jokers
  <2> QED
    BY <2>1, <2>2, <2>3, NoneHeld
<1>2. \A n \in 2..4 : Held(c, n) \in Singletons <=> Cardinality(Held(c, n)) = 1
  BY <1>1, SingletonIs
<1>3. \A n \in 1..4 : Held(c, n) \in RunsOf(2) <=>
        Cardinality(Held(c, n)) = 2 /\ Consecutive(Held(c, n))
  BY <1>1, RunIsListed
<1>4. \A n \in 1..4, least \in 1..12 :
        Held(c, n) \in UNION { RunsOf(k) : k \in least..12 } <=>
          \E m \in least..15 : Cardinality(Held(c, n)) = m /\ Consecutive(Held(c, n))
  BY <1>1, RunsIs
<1>Triple. c \in Rule("Triple") <=>
        Held4(c, 0, 0, 1, 0)
  <2>1. Singletons \in SUBSET (SUBSET Points)
    BY LotsArePoints
  <2>2. c \in Rule("Triple") <=>
          Held(c, 3) \in Singletons /\ \A m \in (1..4) \ {3} : Held(c, m) = {}
    <3>1. c \in Rule("Triple") <=> \E S \in Singletons : \E x \in None(S) : c = With(Each(3, S), x)
      BY RuleIs
    <3> QED
      BY <2>1, <3>1, NoneIs
  <2>3. (\A m \in (1..4) \ {3} : Held(c, m) = {}) <=> Cardinality(Held(c, 1)) = 0 /\ Cardinality(Held(c, 2)) = 0 /\ Cardinality(Held(c, 4)) = 0
    BY <1>1
  <2> QED
    BY <1>1, <1>2, <1>3, <1>4, <2>2, <2>3 DEF Held4
<1>Triple_Single. c \in Rule("Triple_Single") <=>
        Held4(c, 1, 0, 1, 0)
  <2>1. Singletons \in SUBSET (SUBSET Points)
    BY LotsArePoints
  <2>2. c \in Rule("Triple_Single") <=>
          /\ Held(c, 3) \in Singletons
          /\ Cardinality(Held(c, 1)) = 1
          /\ \A m \in (1..4) \ {3, 1} : Held(c, m) = {}
    <3>1. c \in Rule("Triple_Single") <=> \E S \in Singletons : \E x \in One(1, S) : c = With(Each(3, S), x)
      BY RuleIs
    <3> QED
      BY <2>1, <3>1, WithOneIs
  <2>3. (\A m \in (1..4) \ {3, 1} : Held(c, m) = {}) <=> Cardinality(Held(c, 2)) = 0 /\ Cardinality(Held(c, 4)) = 0
    BY <1>1
  <2> QED
    BY <1>1, <1>2, <1>3, <1>4, <2>2, <2>3 DEF Held4
<1>Triple_Pair. c \in Rule("Triple_Pair") <=>
        Held4(c, 0, 1, 1, 0)
  <2>1. Singletons \in SUBSET (SUBSET Points)
    BY LotsArePoints
  <2>2. c \in Rule("Triple_Pair") <=>
          /\ Held(c, 3) \in Singletons
          /\ Cardinality(Held(c, 2)) = 1
          /\ \A m \in (1..4) \ {3, 2} : Held(c, m) = {}
    <3>1. c \in Rule("Triple_Pair") <=> \E S \in Singletons : \E x \in One(2, S) : c = With(Each(3, S), x)
      BY RuleIs
    <3> QED
      BY <2>1, <3>1, WithOneIs
  <2>3. (\A m \in (1..4) \ {3, 2} : Held(c, m) = {}) <=> Cardinality(Held(c, 1)) = 0 /\ Cardinality(Held(c, 4)) = 0
    BY <1>1
  <2> QED
    BY <1>1, <1>2, <1>3, <1>4, <2>2, <2>3 DEF Held4
<1>Plane. c \in Rule("Plane") <=>
        Held4(c, 0, 0, 2, 0) /\ Consecutive(Held(c, 3))
  <2>1. RunsOf(2) \in SUBSET (SUBSET Points)
    BY LotsArePoints
  <2>2. c \in Rule("Plane") <=>
          Held(c, 3) \in RunsOf(2) /\ \A m \in (1..4) \ {3} : Held(c, m) = {}
    <3>1. c \in Rule("Plane") <=> \E S \in RunsOf(2) : \E x \in None(S) : c = With(Each(3, S), x)
      BY RuleIs
    <3> QED
      BY <2>1, <3>1, NoneIs
  <2>3. (\A m \in (1..4) \ {3} : Held(c, m) = {}) <=> Cardinality(Held(c, 1)) = 0 /\ Cardinality(Held(c, 2)) = 0 /\ Cardinality(Held(c, 4)) = 0
    BY <1>1
  <2> QED
    BY <1>1, <1>2, <1>3, <1>4, <2>2, <2>3 DEF Held4
<1>Plane_Two_Single. c \in Rule("Plane_Two_Single") <=>
        Held4(c, 2, 0, 2, 0) /\ Consecutive(Held(c, 3)) /\ Held(c, 1) # Jokers
  <2>1. RunsOf(2) \in SUBSET (SUBSET Points)
    BY LotsArePoints
  <2>2. c \in Rule("Plane_Two_Single") <=>
          /\ Held(c, 3) \in RunsOf(2)
          /\ Cardinality(Held(c, 1)) = 2 /\ Held(c, 1) # Jokers
          /\ \A m \in (1..4) \ {3, 1} : Held(c, m) = {}
    <3>1. c \in Rule("Plane_Two_Single") <=> \E S \in RunsOf(2) : \E x \in Two(1, S) : c = With(Each(3, S), x)
      BY RuleIs
    <3> QED
      BY <2>1, <3>1, WithTwoIs
  <2>3. (\A m \in (1..4) \ {3, 1} : Held(c, m) = {}) <=> Cardinality(Held(c, 2)) = 0 /\ Cardinality(Held(c, 4)) = 0
    BY <1>1
  <2> QED
    BY <1>1, <1>2, <1>3, <1>4, <2>2, <2>3 DEF Held4
<1>Plane_Two_Pair. c \in Rule("Plane_Two_Pair") <=>
        Held4(c, 0, 2, 2, 0) /\ Consecutive(Held(c, 3))
  <2>1. RunsOf(2) \in SUBSET (SUBSET Points)
    BY LotsArePoints
  <2>2. c \in Rule("Plane_Two_Pair") <=>
          /\ Held(c, 3) \in RunsOf(2)
          /\ Cardinality(Held(c, 2)) = 2 /\ Held(c, 2) # Jokers
          /\ \A m \in (1..4) \ {3, 2} : Held(c, m) = {}
    <3>1. c \in Rule("Plane_Two_Pair") <=> \E S \in RunsOf(2) : \E x \in Two(2, S) : c = With(Each(3, S), x)
      BY RuleIs
    <3> QED
      BY <2>1, <3>1, WithTwoIs
  <2>3. (\A m \in (1..4) \ {3, 2} : Held(c, m) = {}) <=> Cardinality(Held(c, 1)) = 0 /\ Cardinality(Held(c, 4)) = 0
    BY <1>1
  <2> QED
    BY <1>1, <1>2, <1>3, <1>4, <2>2, <2>3 DEF Held4
<1>Seq_Pair. c \in Rule("Seq_Pair") <=>
        \E n \in 3..15 : Held4(c, 0, n, 0, 0) /\ Consecutive(Held(c, 2))
  <2>1. UNION { RunsOf(k) : k \in 3..12 } \in SUBSET (SUBSET Points)
    BY LotsArePoints
  <2>2. c \in Rule("Seq_Pair") <=>
          Held(c, 2) \in UNION { RunsOf(k) : k \in 3..12 } /\ \A m \in (1..4) \ {2} : Held(c, m) = {}
    <3>1. c \in Rule("Seq_Pair") <=> \E S \in UNION { RunsOf(k) : k \in 3..12 } : \E x \in None(S) : c = With(Each(2, S), x)
      BY RuleIs
    <3> QED
      BY <2>1, <3>1, NoneIs
  <2>3. (\A m \in (1..4) \ {2} : Held(c, m) = {}) <=> Cardinality(Held(c, 1)) = 0 /\ Cardinality(Held(c, 3)) = 0 /\ Cardinality(Held(c, 4)) = 0
    BY <1>1
  <2> QED
    BY <1>1, <1>2, <1>3, <1>4, <2>2, <2>3 DEF Held4
<1>Seq_Single. c \in Rule("Seq_Single") <=>
        \E n \in 5..15 : Held4(c, n, 0, 0, 0) /\ Consecutive(Held(c, 1))
  <2>1. UNION { RunsOf(k) : k \in 5..12 } \in SUBSET (SUBSET Points)
    BY LotsArePoints
  <2>2. c \in Rule("Seq_Single") <=>
          Held(c, 1) \in UNION { RunsOf(k) : k \in 5..12 } /\ \A m \in (1..4) \ {1} : Held(c, m) = {}
    <3>1. c \in Rule("Seq_Single") <=> \E S \in UNION { RunsOf(k) : k \in 5..12 } : \E x \in None(S) : c = With(Each(1, S), x)
      BY RuleIs
    <3> QED
      BY <2>1, <3>1, NoneIs
  <2>3. (\A m \in (1..4) \ {1} : Held(c, m) = {}) <=> Cardinality(Held(c, 2)) = 0 /\ Cardinality(Held(c, 3)) = 0 /\ Cardinality(Held(c, 4)) = 0
    BY <1>1
  <2> QED
    BY <1>1, <1>2, <1>3, <1>4, <2>2, <2>3 DEF Held4
<1>Bomb. c \in Rule("Bomb") <=>
        Held4(c, 0, 0, 0, 1)
  <2>1. Singletons \in SUBSET (SUBSET Points)
    BY LotsArePoints
  <2>2. c \in Rule("Bomb") <=>
          Held(c, 4) \in Singletons /\ \A m \in (1..4) \ {4} : Held(c, m) = {}
    <3>1. c \in Rule("Bomb") <=> \E S \in Singletons : \E x \in None(S) : c = With(Each(4, S), x)
      BY RuleIs
    <3> QED
      BY <2>1, <3>1, NoneIs
  <2>3. (\A m \in (1..4) \ {4} : Held(c, m) = {}) <=> Cardinality(Held(c, 1)) = 0 /\ Cardinality(Held(c, 2)) = 0 /\ Cardinality(Held(c, 3)) = 0
    BY <1>1
  <2> QED
    BY <1>1, <1>2, <1>3, <1>4, <2>2, <2>3 DEF Held4
<1>Bomb_Single. c \in Rule("Bomb_Single") <=>
        Held4(c, 1, 0, 0, 1)
  <2>1. Singletons \in SUBSET (SUBSET Points)
    BY LotsArePoints
  <2>2. c \in Rule("Bomb_Single") <=>
          /\ Held(c, 4) \in Singletons
          /\ Cardinality(Held(c, 1)) = 1
          /\ \A m \in (1..4) \ {4, 1} : Held(c, m) = {}
    <3>1. c \in Rule("Bomb_Single") <=> \E S \in Singletons : \E x \in One(1, S) : c = With(Each(4, S), x)
      BY RuleIs
    <3> QED
      BY <2>1, <3>1, WithOneIs
  <2>3. (\A m \in (1..4) \ {4, 1} : Held(c, m) = {}) <=> Cardinality(Held(c, 2)) = 0 /\ Cardinality(Held(c, 3)) = 0
    BY <1>1
  <2> QED
    BY <1>1, <1>2, <1>3, <1>4, <2>2, <2>3 DEF Held4
<1>Bomb_Pair. c \in Rule("Bomb_Pair") <=>
        Held4(c, 0, 1, 0, 1)
  <2>1. Singletons \in SUBSET (SUBSET Points)
    BY LotsArePoints
  <2>2. c \in Rule("Bomb_Pair") <=>
          /\ Held(c, 4) \in Singletons
          /\ Cardinality(Held(c, 2)) = 1
          /\ \A m \in (1..4) \ {4, 2} : Held(c, m) = {}
    <3>1. c \in Rule("Bomb_Pair") <=> \E S \in Singletons : \E x \in One(2, S) : c = With(Each(4, S), x)
      BY RuleIs
    <3> QED
      BY <2>1, <3>1, WithOneIs
  <2>3. (\A m \in (1..4) \ {4, 2} : Held(c, m) = {}) <=> Cardinality(Held(c, 1)) = 0 /\ Cardinality(Held(c, 3)) = 0
    BY <1>1
  <2> QED
    BY <1>1, <1>2, <1>3, <1>4, <2>2, <2>3 DEF Held4
<1>Bomb_Two_Single. c \in Rule("Bomb_Two_Single") <=>
        Held4(c, 2, 0, 0, 1) /\ Held(c, 1) # Jokers
  <2>1. Singletons \in SUBSET (SUBSET Points)
    BY LotsArePoints
  <2>2. c \in Rule("Bomb_Two_Single") <=>
          /\ Held(c, 4) \in Singletons
          /\ Cardinality(Held(c, 1)) = 2 /\ Held(c, 1) # Jokers
          /\ \A m \in (1..4) \ {4, 1} : Held(c, m) = {}
    <3>1. c \in Rule("Bomb_Two_Single") <=> \E S \in Singletons : \E x \in Two(1, S) : c = With(Each(4, S), x)
      BY RuleIs
    <3> QED
      BY <2>1, <3>1, WithTwoIs
  <2>3. (\A m \in (1..4) \ {4, 1} : Held(c, m) = {}) <=> Cardinality(Held(c, 2)) = 0 /\ Cardinality(Held(c, 3)) = 0
    BY <1>1
  <2> QED
    BY <1>1, <1>2, <1>3, <1>4, <2>2, <2>3 DEF Held4
<1> QED
  BY <1>Triple, <1>Triple_Single, <1>Triple_Pair, <1>Plane, <1>Plane_Two_Single, <1>Plane_Two_Pair, <1>Seq_Pair, <1>Seq_Single, <1>Bomb, <1>Bomb_Single, <1>Bomb_Pair, <1>Bomb_Two_Single

\* n cards of one point.
LEMMA OneIs ==
  ASSUME NEW c \in Counts, NEW n \in 1..2
  PROVE  c \in One(n, {}) <=>
           Cardinality(Held(c, n)) = 1 /\ \A m \in (1..4) \ {n} : Held(c, m) = {}
<1>1. PICK S \in SUBSET Points : S = {}
  OBVIOUS
<1>2. \A T \in SUBSET Points : Each(n, T) = With(Each(n, T), Each(3, S))
  BY <1>1, OneLot
<1>3. c \in One(n, {}) <=>
        \E T \in SUBSET Points :
          Cardinality(T) = 1 /\ (n = 2 => T \cap Jokers = {}) /\ c = Each(n, T)
  <2>1. c \in One(n, S) <=>
          \E T \in SUBSET (Points \ S) :
            Cardinality(T) = 1 /\ (n = 2 => T \cap Jokers = {}) /\ c = Each(n, T)
    BY OneKicker
  <2>2. Points \ S = Points
    BY <1>1
  <2> QED
    BY <1>1, <2>1, <2>2
<1>4. ASSUME NEW T \in SUBSET Points
      PROVE  c = Each(n, T) <=> Held(c, n) = T /\ \A m \in (1..4) \ {n} : Held(c, m) = {}
  <2>1. T \cap S = {} /\ n # 3 /\ n \in 1..4 /\ 3 \in 1..4
    BY <1>1
  <2>2. c = With(Each(n, T), Each(3, S)) <=>
          /\ Held(c, n) = T /\ Held(c, 3) = S
          /\ \A m \in (1..4) \ {n, 3} : Held(c, m) = {}
    BY <2>1, LotsAre
  <2> QED
    BY <1>1, <1>2, <2>1, <2>2
<1>5. Held(c, n) \in SUBSET Points /\ (n = 2 => Held(c, n) \cap Jokers = {})
  BY JokersAreSingle DEF Held
<1> QED
  BY <1>3, <1>4, <1>5

\* What carries the jokers: cards of one point, or of each of two.
LEMMA JokersWith ==
  ASSUME NEW c \in Counts, Jokers \subseteq Held(c, 1), NEW k \in 1..2, NEW T,
         T = IF k = 1 THEN Held(c, 1) \ Jokers ELSE Held(c, 2),
         k = 1 => Held(c, 2) = {}, k = 2 => Held(c, 1) = Jokers,
         Held(c, 3) = {}, Held(c, 4) = {}
  PROVE  c = With(Each(1, Jokers), Each(k, T)) /\ T \in SUBSET (Points \ Jokers)
<1>1. T \in SUBSET (Points \ Jokers)
  BY JokersAreSingle DEF Held
<1>2. ASSUME NEW p \in Points
      PROVE  c[p] = With(Each(1, Jokers), Each(k, T))[p]
  <2>1. With(Each(1, Jokers), Each(k, T))[p] =
          (IF p \in Jokers THEN 1 ELSE 0) + (IF p \in T THEN k ELSE 0)
    BY DEF With, Each
  <2>2. c[p] \in 0..4 /\ c[p] # 3 /\ c[p] # 4 /\ (k = 1 => c[p] # 2)
    BY DEF Counts, Held
  <2>3. /\ p \in Held(c, 1) <=> c[p] = 1
        /\ p \in Held(c, 2) <=> c[p] = 2
    BY DEF Held
  <2> QED
    BY <2>1, <2>2, <2>3
<1>3. c = [p \in Points |-> c[p]]
  BY DEF Counts
<1>4. With(Each(1, Jokers), Each(k, T)) =
        [p \in Points |-> With(Each(1, Jokers), Each(k, T))[p]]
  BY DEF With
<1> QED
  BY <1>1, <1>2, <1>3, <1>4, Zenon

\* Bombs of jokers, with what they carry, are what the rules say of them.
LEMMA JokerBombsObey ==
  ASSUME NEW c \in Counts, NEW t \in JokerBombs
  PROVE  /\ HandType(c) = t => c \in Rule(t)
         /\ c \in Rule(t) => c[Card_BJ] = 1
<1>1. Jokers \in SUBSET Points /\ IsFiniteSet(Jokers) /\ Cardinality(Jokers) = 2
  <2>1. Card_SJ \in Points /\ Card_BJ \in Points /\ Card_SJ # Card_BJ
    BY DEF Card_SJ, Card_BJ, Points
  <2>2. Jokers \in SUBSET Points
    BY <2>1 DEF Jokers
  <2> QED
    BY <2>1, <2>2, TwoPoints, HeldFinite DEF Jokers
<1>2. /\ \A n \in 1..4 : Held(c, n) \in SUBSET Points /\ IsFiniteSet(Held(c, n))
      /\ \A n \in 1..4 : Held(c, n) = {} <=> Cardinality(Held(c, n)) = 0
  BY NoneHeld, HeldFinite DEF Held
<1>3. Jokers \subseteq Held(c, 1) =>
        Cardinality(Held(c, 1) \ Jokers) = Cardinality(Held(c, 1)) - 2
  <2> SUFFICES ASSUME Jokers \subseteq Held(c, 1)
               PROVE  Cardinality(Held(c, 1) \ Jokers) = Cardinality(Held(c, 1)) - 2
    OBVIOUS
  <2>1. Held(c, 1) \cap Jokers = Jokers
    OBVIOUS
  <2>2. Cardinality(Held(c, 1) \ Jokers) =
          Cardinality(Held(c, 1)) - Cardinality(Held(c, 1) \cap Jokers)
    <3>1. IsFiniteSet(Held(c, 1))
      BY <1>2
    <3> QED
      BY <3>1, FS_Difference
  <2> QED
    BY <1>1, <2>1, <2>2
<1>4. CASE t = "Bomb_Jokers"
  <2>1. ASSUME HandType(c) = t PROVE c = Each(1, Jokers)
    <3>1. Held4(c, 2, 0, 0, 0) /\ Held(c, 1) = Jokers
      BY <1>4, <2>1, TypeIs
    <3>2. \A m \in (1..4) \ {1, 3} : Held(c, m) = {}
      BY <1>2, <3>1 DEF Held4
    <3>3. c = With(Each(1, Held(c, 1)), Each(3, Held(c, 3)))
      BY <3>2, LotsOfHeld
    <3>4. Held(c, 3) = {}
      BY <1>2, <3>1 DEF Held4
    <3> QED
      BY <1>1, <3>1, <3>3, <3>4, OneLot
  <2>2. Each(1, Jokers)[Card_BJ] = 1
    BY DEF Each, Jokers, Card_BJ, Points
  <2> QED
    BY <1>4, <2>1, <2>2, RuleIs
<1>5. ASSUME NEW S \in {Jokers}, NEW n \in 1..2, NEW x \in One(n, S) \cup Two(n, S),
             c = With(Each(1, S), x)
      PROVE  c[Card_BJ] = 1
  <2>1. PICK T \in SUBSET (Points \ Jokers) : x = Each(n, T)
    BY <1>1, <1>5, OneKicker, TwoKickers
  <2>2. x[Card_BJ] = 0 /\ Each(1, Jokers)[Card_BJ] = 1 /\ Card_BJ \in Points
    BY <2>1 DEF Each, Jokers, Card_BJ, Points
  <2> QED
    BY <1>5, <2>2 DEF With
<1>6. CASE t = "Bomb_Jokers_Single"
  <2>1. ASSUME HandType(c) = t PROVE c \in Rule(t)
    <3>1. Held4(c, 3, 0, 0, 0) /\ Jokers \subseteq Held(c, 1)
      BY <1>6, <2>1, TypeIs
    <3>2. Held(c, 2) = {} /\ Held(c, 3) = {} /\ Held(c, 4) = {}
      BY <1>2, <3>1 DEF Held4
    <3>3. PICK T : T = Held(c, 1) \ Jokers
      OBVIOUS
    <3>4. c = With(Each(1, Jokers), Each(1, T)) /\ T \in SUBSET (Points \ Jokers)
      BY <3>1, <3>2, <3>3, JokersWith
    <3>5. Cardinality(T) = 1
      BY <1>3, <3>1, <3>3 DEF Held4
    <3>6. Each(1, T) \in One(1, Jokers)
      BY <1>1, <3>4, <3>5, OneKicker
    <3> QED
      BY <1>6, <3>4, <3>6, RuleIs
  <2> QED
    BY <1>5, <1>6, <2>1, RuleIs
<1>7. CASE t = "Bomb_Jokers_Pair"
  <2>1. ASSUME HandType(c) = t PROVE c \in Rule(t)
    <3>1. Held4(c, 2, 1, 0, 0) /\ Held(c, 1) = Jokers
      BY <1>7, <2>1, TypeIs
    <3>2. Held(c, 3) = {} /\ Held(c, 4) = {}
      BY <1>2, <3>1 DEF Held4
    <3>3. PICK T : T = Held(c, 2)
      OBVIOUS
    <3>4. c = With(Each(1, Jokers), Each(2, T)) /\ T \in SUBSET (Points \ Jokers)
      BY <3>1, <3>2, <3>3, JokersWith
    <3>5. Cardinality(T) = 1
      BY <3>1, <3>3 DEF Held4
    <3>6. Each(2, T) \in One(2, Jokers)
      BY <1>1, <3>4, <3>5, OneKicker
    <3> QED
      BY <1>7, <3>4, <3>6, RuleIs
  <2> QED
    BY <1>5, <1>7, <2>1, RuleIs
<1>8. CASE t = "Bomb_Jokers_Two_Single"
  <2>1. ASSUME HandType(c) = t PROVE c \in Rule(t)
    <3>1. Held4(c, 4, 0, 0, 0) /\ Jokers \subseteq Held(c, 1)
      BY <1>8, <2>1, TypeIs
    <3>2. Held(c, 2) = {} /\ Held(c, 3) = {} /\ Held(c, 4) = {}
      BY <1>2, <3>1 DEF Held4
    <3>3. PICK T : T = Held(c, 1) \ Jokers
      OBVIOUS
    <3>4. c = With(Each(1, Jokers), Each(1, T)) /\ T \in SUBSET (Points \ Jokers)
      BY <3>1, <3>2, <3>3, JokersWith
    <3>5. Cardinality(T) = 2
      BY <1>3, <3>1, <3>3 DEF Held4
    <3>6. T # Jokers
      BY <3>4 DEF Jokers
    <3>7. Each(1, T) \in Two(1, Jokers)
      BY <1>1, <3>4, <3>5, <3>6, TwoKickers
    <3> QED
      BY <1>8, <3>4, <3>7, RuleIs
  <2> QED
    BY <1>5, <1>8, <2>1, RuleIs
<1> QED
  BY <1>4, <1>6, <1>7, <1>8 DEF JokerBombs

\* judgeCardType gives cards the type whose rule puts them together, except for some
\* that carry the big joker.
LEMMA TypesObey ==
  ASSUME NEW c \in Counts, NEW t \in Types \ {"Unknown"}
  PROVE  /\ HandType(c) = t => c \in Rule(t)
         /\ c \in Rule(t) => HandType(c) = t \/ c[Card_BJ] = 1
<1>1. CASE t \in JokerBombs
  BY <1>1, JokerBombsObey
<1>2. CASE t = "Pass"
  BY <1>2, NoCardsIs, RuleIs, TypeIs
<1>3. CASE t \in {"Single", "Pair"}
  <2>1. \A n \in 1..4 : Held(c, n) = {} <=> Cardinality(Held(c, n)) = 0
    BY NoneHeld
  <2>2. /\ c \in One(1, {}) <=> Held4(c, 1, 0, 0, 0)
        /\ c \in One(2, {}) <=> Held4(c, 0, 1, 0, 0)
    <3>1. c \in One(1, {}) <=>
            Cardinality(Held(c, 1)) = 1 /\ \A m \in (1..4) \ {1} : Held(c, m) = {}
      BY OneIs
    <3>2. c \in One(2, {}) <=>
            Cardinality(Held(c, 2)) = 1 /\ \A m \in (1..4) \ {2} : Held(c, m) = {}
      BY OneIs
    <3> QED
      BY <2>1, <3>1, <3>2 DEF Held4
  <2> QED
    BY <1>3, <2>2, RuleIs, TypeIs
<1>4. CASE t \in {"Plane_Two_Single", "Bomb_Two_Single"}
  <2>1. Held(c, 1) \in SUBSET Points /\ (Card_BJ \in Held(c, 1) => c[Card_BJ] = 1)
    BY DEF Held
  <2>2. Cardinality(Held(c, 1)) = 2 =>
          /\ CarriedSingles(Held(c, 1)) => Held(c, 1) # Jokers
          /\ Held(c, 1) # Jokers => CarriedSingles(Held(c, 1)) \/ c[Card_BJ] = 1
    BY <2>1, CarriedIs
  <2>3. /\ Held4(c, 2, 0, 2, 0) => Cardinality(Held(c, 1)) = 2
        /\ Held4(c, 2, 0, 0, 1) => Cardinality(Held(c, 1)) = 2
    BY DEF Held4
  <2> QED
    BY <1>4, <2>2, <2>3, RuleShapes, TypeIs
<1>5. CASE t \in (Ordinary \cup Bombs)
                   \ {"Single", "Pair", "Plane_Two_Single", "Bomb_Two_Single"}
  BY <1>5, RuleShapes, TypeIs DEF Ordinary, Bombs
<1> QED
  BY <1>1, <1>2, <1>3, <1>4, <1>5 DEF Types

\* Whatever has been picked has the type that the rules of playhand.h give it, and no
\* other (judgeCardType).
THEOREM RulesFollowed == Spec => []TypesFollowTheRules
<1>1. HandsInv => TypesFollowTheRules
  <2> SUFFICES ASSUME HandsInv, Picking, NEW t \in DOMAIN RuleTable
               PROVE  /\ HandType(mine) = t => mine \in RuleTable[t]
                      /\ mine \in RuleTable[t] => HandType(mine) = t \/ mine[Card_BJ] = 1
    BY DEF TypesFollowTheRules
  <2>1. mine \in Counts
    BY DEF HandsInv
  <2>2. t \in Types \ {"Unknown"} /\ RuleTable[t] = Rule(t)
    BY DEF RuleTable
  <2> QED
    BY <2>1, <2>2, TypesObey
<1> QED
  BY <1>1, InitHandsInv, NextHandsInv, PTL DEF Spec

-----------------------------------------------------------------------------
(* What a robot is dealt *)

\* A robot is dealt cards of one deck, and what it has to follow are cards too.
DealtInv ==
  ~Picking =>
    /\ mine \in Counts
    /\ other \in [Points -> Nat]

\* Cards put together are a number of each point.
LEMMA LotsAreCounts ==
  /\ \A n \in Nat : \A S : Each(n, S) \in [Points -> Nat]
  /\ \A c, d \in [Points -> Nat] : With(c, d) \in [Points -> Nat]
<1>1. ASSUME NEW n \in Nat, NEW S PROVE Each(n, S) \in [Points -> Nat]
  BY DEF Each
<1>2. ASSUME NEW c \in [Points -> Nat], NEW d \in [Points -> Nat]
      PROVE  With(c, d) \in [Points -> Nat]
  BY DEF With
<1> QED
  BY <1>1, <1>2

\* So are the hands that a robot has to follow.
LEMMA FollowedAreCounts == ToFollow \in SUBSET [Points -> Nat]
<1>1. NoCards \in [Points -> Nat]
  BY DEF NoCards
<1>2. /\ 1 \in Nat /\ 2 \in Nat /\ 3 \in Nat /\ 4 \in Nat
  OBVIOUS
<1>3. \A S : /\ Each(1, S) \in [Points -> Nat] /\ Each(2, S) \in [Points -> Nat]
             /\ Each(3, S) \in [Points -> Nat] /\ Each(4, S) \in [Points -> Nat]
  BY <1>2, LotsAreCounts
<1>4. \A S, T : /\ With(Each(3, S), Each(1, T)) \in [Points -> Nat]
                /\ With(Each(3, S), Each(2, T)) \in [Points -> Nat]
                /\ With(Each(4, S), Each(1, T)) \in [Points -> Nat]
  BY <1>3, LotsAreCounts
<1> DEFINE N == [Points -> Nat]
<1>5. /\ NoCards \in N
      /\ Each(1, {Low}) \in N /\ Each(1, {Card_SJ}) \in N /\ Each(2, {Low}) \in N
      /\ Each(3, {Low}) \in N
      /\ With(Each(3, {Low}), Each(1, {1})) \in N
      /\ With(Each(3, {Low}), Each(2, {1})) \in N
      /\ Each(3, {Low, Low + 1}) \in N
      /\ With(Each(3, {Low, Low + 1}), Each(1, {1, 2})) \in N
      /\ With(Each(3, {Low, Low + 1}), Each(2, {1, 2})) \in N
      /\ Each(2, Low..(Low + 2)) \in N
      /\ Each(1, Low..(Low + 4)) \in N
      /\ Each(4, {Low}) \in N /\ With(Each(4, {Low}), Each(1, {1})) \in N
      /\ Each(1, Jokers) \in N
  BY <1>1, <1>3, <1>4, Zenon
<1> HIDE DEF N
<1>6. ToFollow \subseteq N
  BY <1>5, Zenon DEF ToFollow
<1> QED
  BY <1>6 DEF N

\* The first card is dealt to a robot that holds none.
LEMMA InitDealtInv == Init => DealtInv
<1> SUFFICES ASSUME Init, ~Picking PROVE DealtInv
  BY DEF DealtInv
<1>1. mine = NoCards /\ other \in ToFollow
  BY DEF Init, Picking
<1> QED
  BY <1>1, NoCardsPicked, FollowedAreCounts DEF DealtInv

\* A card is dealt while the deck has one of its point.
LEMMA NextDealtInv == DealtInv /\ [Next]_vars => DealtInv'
<1> SUFFICES ASSUME DealtInv, [Next]_vars, ~Picking' PROVE DealtInv'
  BY DEF DealtInv
<1>1. deck' = deck
  BY DEF Next, SelectMine, SelectOther, Deal, vars
<1>2. ~Picking
  BY <1>1 DEF Picking
<1>3. mine \in Counts /\ other \in [Points -> Nat]
  BY <1>2 DEF DealtInv
<1>4. CASE Deal
  <2>1. PICK p \in Points : mine[p] + other[p] < InDeck(p) /\ mine' = Pick(mine, p)
    BY <1>4 DEF Deal
  <2>2. \A q \in Points : mine[q] \in 0..4
    BY <1>3 DEF Counts
  <2>3. mine[p] < InDeck(p)
    BY <1>3, <2>1, <2>2 DEF InDeck
  <2>4. Pick(mine, p) = [q \in Points |-> IF q = p THEN mine[p] + 1 ELSE mine[q]]
    BY <1>3 DEF Pick, Counts
  <2>5. \A q \in Points : mine'[q] \in 0..4 /\ (q = p => mine'[q] <= InDeck(q))
                          /\ (q # p => mine'[q] = mine[q])
    BY <2>1, <2>2, <2>3, <2>4 DEF InDeck
  <2>6. mine'[Card_SJ] <= 1 /\ mine'[Card_BJ] <= 1
    <3>1. /\ mine[Card_SJ] <= 1 /\ mine[Card_BJ] <= 1
          /\ Card_SJ \in Points /\ Card_BJ \in Points
          /\ InDeck(Card_SJ) = 1 /\ InDeck(Card_BJ) = 1
      BY <1>3 DEF Counts, InDeck, Jokers, Card_SJ, Card_BJ, Points
    <3> QED
      BY <2>5, <3>1
  <2>7. mine' \in Counts
    BY <2>1, <2>4, <2>5, <2>6 DEF Counts
  <2>8. other' = other
    BY <1>4 DEF Deal
  <2> QED
    BY <1>3, <2>7, <2>8 DEF DealtInv
<1>5. CASE SelectMine \/ SelectOther
  BY <1>2, <1>5 DEF SelectMine, SelectOther
<1>6. CASE UNCHANGED vars
  BY <1>3, <1>6 DEF DealtInv, vars
<1> QED
  BY <1>4, <1>5, <1>6 DEF Next

\* What a robot plays on a hand comes out of its own cards and beats that hand, whatever
\* it holds and whoever follows it, apart from the kickers that getGreaterCards takes
\* where the rules allow none and the ones that it does not find (Strategy::makeStrategy).
THEOREM RobotAnswers == Spec => []AnswersBeat
<1>1. DealtInv => AnswersBeat
  <2> SUFFICES ASSUME DealtInv, ~Picking, other # NoCards,
                      MakeStrategy(mine, other, table) # NoCards
               PROVE  Answers(mine, other, MakeStrategy(mine, other, table))
    BY DEF AnswersBeat, Answers, PartOf
  <2>1. mine \in Counts
    BY DEF DealtInv
  <2>2. /\ MakeStrategy(mine, other, table) = GetGreaterCards(mine, HandOf(other), table)
        /\ GetGreaterCards(mine, HandOf(other), table) # NoCards
    BY DEF MakeStrategy
  <2> QED
    BY <2>1, <2>2, GreaterAnswers
<1> QED
  BY <1>1, InitDealtInv, NextDealtInv, PTL DEF Spec

\* A robot that leads plays one hand of its own cards, and plays nothing only when it holds
\* bombs and no other cards, whatever it holds (Strategy::firstPlay).
THEOREM RobotLeads == Spec => []LeadsOneHand
<1>1. DealtInv => LeadsOneHand
  <2> SUFFICES ASSUME DealtInv, ~Picking, other = NoCards
               PROVE  LeadsWith(mine, MakeStrategy(mine, other, table))
    BY DEF LeadsOneHand, LeadsWith, PartOf, OnlyBombs
  <2>1. mine \in Counts
    BY DEF DealtInv
  <2>2. MakeStrategy(mine, other, table) = FirstPlay(mine, table)
    BY DEF MakeStrategy
  <2> QED
    BY <2>1, <2>2, FirstPlayLeads
<1> QED
  BY <1>1, InitDealtInv, NextDealtInv, PTL DEF Spec
=============================================================================
