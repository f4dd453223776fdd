------------------------------ MODULE PlayHand ------------------------------
(***************************************************************************)
(* Class PlayHand (strategy/playhand.cpp): what kind of hand some cards    *)
(* make, and which hand beats which.  Suits play no part in either, so the *)
(* cards are counted by point: c[p] cards of point p, the array            *)
(* cardRecord of classify.                                                 *)
(***************************************************************************)
EXTENDS Integers, FiniteSets

\* card.h, enum CardPoint: 3 is 1, ..., ace is 12; then 2 and the two jokers.
Card_A  == 12
Card_2  == 13
Card_SJ == 14
Card_BJ == 15
Points  == 1..15

Jokers == {Card_SJ, Card_BJ}

\* The cards one deck can hold.
Counts == { c \in [Points -> 0..4] : c[Card_SJ] <= 1 /\ c[Card_BJ] <= 1 }

NoCards == [p \in Points |-> 0]

\* classify: the points held n times (m_oneCard to m_fourCard), in order.
Held(c, n) == { p \in Points : c[p] = n }

First(S) == CHOOSE p \in S : \A q \in S : p <= q
Last(S)  == CHOOSE p \in S : \A q \in S : q <= p

\* How many points are held once, twice, three and four times.
Shape(c) == [ n \in 1..4 |-> Cardinality(Held(c, n)) ]

\* Mistake: a 2 continues a sequence.
ConsecutiveToTwo(S) == Last(S) - First(S) = Cardinality(S) - 1 /\ Last(S) <= Card_2

\* Neighbouring points that end below 2.
Consecutive(S) == Last(S) - First(S) = Cardinality(S) - 1 /\ Last(S) < Card_2

\* The singles a plane or a bomb carries, in order: not SJ first, not BJ last.
CarriedSingles(S) == First(S) # Card_SJ /\ Last(S) # Card_BJ

\* judgeCardType. The first conjuncts, one shape each, keep the cases apart.
HandType(c) ==
  LET s == Shape(c)
      one == Held(c, 1)
      two == Held(c, 2)
      three == Held(c, 3)
  IN  CASE s = <<0, 0, 0, 0>> -> "Pass"
        [] s = <<1, 0, 0, 0>> -> "Single"
        [] s = <<0, 1, 0, 0>> -> "Pair"
        [] s = <<0, 0, 1, 0>> -> "Triple"
        [] s = <<1, 0, 1, 0>> -> "Triple_Single"
        [] s = <<0, 1, 1, 0>> -> "Triple_Pair"
        [] s = <<0, 0, 2, 0>> /\ Consecutive(three) -> "Plane"
        [] s = <<2, 0, 2, 0>> /\ Consecutive(three) /\ CarriedSingles(one) ->
             "Plane_Two_Single"
        [] s = <<0, 2, 2, 0>> /\ Consecutive(three) -> "Plane_Two_Pair"
        [] s = <<0, s[2], 0, 0>> /\ s[2] >= 3 /\ Consecutive(two) -> "Seq_Pair"
        [] s = <<s[1], 0, 0, 0>> /\ s[1] >= 5 /\ Consecutive(one) -> "Seq_Single"
        [] s = <<0, 0, 0, 1>> -> "Bomb"
        [] s = <<1, 0, 0, 1>> -> "Bomb_Single"
        [] s = <<0, 1, 0, 1>> -> "Bomb_Pair"
        [] s = <<2, 0, 0, 1>> /\ CarriedSingles(one) -> "Bomb_Two_Single"
        [] s = <<2, 0, 0, 0>> /\ one = Jokers -> "Bomb_Jokers"
        [] s = <<3, 0, 0, 0>> /\ Jokers \subseteq one -> "Bomb_Jokers_Single"
        [] s = <<2, 1, 0, 0>> /\ one = Jokers -> "Bomb_Jokers_Pair"
        [] s = <<4, 0, 0, 0>> /\ Jokers \subseteq one -> "Bomb_Jokers_Two_Single"
        [] OTHER -> "Unknown"

\* The types, in the order of enum HandType, between Single and Seq_Single.
Ordinary == { "Single", "Pair", "Triple", "Triple_Single", "Triple_Pair", "Plane",
              "Plane_Two_Single", "Plane_Two_Pair", "Seq_Pair", "Seq_Single" }
Sequences == {"Seq_Pair", "Seq_Single"}
Bombs == {"Bomb", "Bomb_Single", "Bomb_Pair", "Bomb_Two_Single"}
JokerBombs == { "Bomb_Jokers", "Bomb_Jokers_Single", "Bomb_Jokers_Pair",
                "Bomb_Jokers_Two_Single" }
Types == {"Unknown", "Pass"} \cup Ordinary \cup Bombs \cup JokerBombs

\* m_pt: the lowest point of the part that gives the hand its name; Card_Begin,
\* which is 0, for the hands built on the jokers.
HandPoint(c) ==
  LET t == HandType(c)
  IN  CASE t \in {"Single", "Seq_Single"} -> First(Held(c, 1))
        [] t \in {"Pair", "Seq_Pair"}     -> First(Held(c, 2))
        [] t \in Ordinary \ {"Single", "Pair", "Seq_Single", "Seq_Pair"} ->
             First(Held(c, 3))
        [] t \in Bombs -> First(Held(c, 4))
        [] OTHER -> 0

\* m_extra: the length of a sequence.
HandExtra(c) ==
  CASE HandType(c) = "Seq_Single" -> Cardinality(Held(c, 1))
    [] HandType(c) = "Seq_Pair"   -> Cardinality(Held(c, 2))
    [] OTHER -> 0

\* What PlayHand keeps of the cards.
HandOf(c) == [type |-> HandType(c), point |-> HandPoint(c), extra |-> HandExtra(c)]

\* Mistake: sequences of any length compare.
CanBeatAnyLength(mine, other) ==
  /\ mine.type # "Unknown"
  /\ \/ other.type = "Pass"
     \/ mine.type = "Bomb_Jokers"
     \/ mine.type = "Bomb" /\ other.type \in Ordinary
     \/ mine.type = other.type /\ mine.point > other.point

\* Mistake: an equal point is enough.
CanBeatEqual(mine, other) ==
  /\ mine.type # "Unknown"
  /\ \/ other.type = "Pass"
     \/ mine.type = "Bomb_Jokers"
     \/ mine.type = "Bomb" /\ other.type \in Ordinary
     \/ /\ mine.type = other.type
        /\ mine.point >= other.point
        /\ mine.type \in Sequences => mine.extra = other.extra

CanBeat(mine, other) ==
  /\ mine.type # "Unknown"
  /\ \/ other.type = "Pass"
     \/ mine.type = "Bomb_Jokers"
     \/ mine.type = "Bomb" /\ other.type \in Ordinary
     \/ /\ mine.type = other.type
        /\ mine.point > other.point
        /\ mine.type \in Sequences => mine.extra = other.extra
=============================================================================
