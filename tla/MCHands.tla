------------------------------- MODULE MCHands -------------------------------
(* PlayHand and Strategy for TLC, in one of two ways. Two players pick cards   *)
(* of one deck, one card at a time (GamePanel::onCardSelected), and their two  *)
(* selections are judged and compared; the properties compare the code with    *)
(* rules written down independently of it. Or a robot is given one card after  *)
(* the other, and asked to lead and to follow with what it holds.              *)
EXTENDS Strategy

CONSTANTS
  Ranks,    \* bounds: the points that are picked,
  Compared, \* the points of two hands that are compared,
  MaxFirst, \* and the most cards of the one and of the other
  MaxOther,
  Low,      \* the lowest point of the hands that a robot has to follow
  Wide,     \* bounds: the points of a deck for sequences, two cards of each,
  Deep,     \* of one for triples, planes and bombs, four of each,
  MaxMine   \* and the number of cards picked or dealt

ASSUME HandsAssumption ==
  /\ Ranks \subseteq Points
  /\ Compared \subseteq Points

VARIABLES
  mine,   \* the player's cards
  other,  \* the other selection, or what the robot has to follow
  deck,   \* the cards a robot is dealt from, if there is one
  table   \* what it knows of the others

vars == << mine, other, deck, table >>

\* No deck: the players pick.
NoRobot == NoCards
Picking == deck = NoRobot

\* Between them the hands to follow have every type.
ToFollow ==
  { NoCards,
    Each(1, {Low}), Each(1, {Card_SJ}), Each(2, {Low}), Each(3, {Low}),
    With(Each(3, {Low}), Each(1, {1})),
    With(Each(3, {Low}), Each(2, {1})),
    Each(3, {Low, Low + 1}),
    With(Each(3, {Low, Low + 1}), Each(1, {1, 2})),
    With(Each(3, {Low, Low + 1}), Each(2, {1, 2})),
    Each(2, Low..(Low + 2)),
    Each(1, Low..(Low + 4)),
    Each(4, {Low}), With(Each(4, {Low}), Each(1, {1})),
    Each(1, Jokers) }

\* An opponent next who is nearly done, or one who is not; who played last is an
\* opponent, nearly done or not, or the partner.
Tables ==
  { t \in [ nextIsOpponent : {TRUE}, nextCount : {1, 17},
            pendIsOpponent : BOOLEAN, pendCount : {3, 17} ] :
      t.pendIsOpponent \/ t.pendCount = 17 }

\* A deck tells how many cards of a point may be dealt.
Decks == { With(Each(2, Wide), Each(1, Jokers)), With(Each(4, Deep), Each(1, {Card_BJ})) }

InDeck(p) == IF p \in Jokers THEN 1 ELSE 4

Pick(c, p) == [c EXCEPT ![p] = @ + 1]

Init ==
  /\ mine = NoCards
  /\ \/ deck = NoRobot /\ other = NoCards /\ table = CHOOSE t \in Tables : TRUE
     \/ deck \in Decks /\ other \in ToFollow /\ table \in Tables

\* One hand is picked, and judged on the way; if it is a small one, then another
\* is, and compared with it on the way.
SelectMine ==
  /\ Picking
  /\ other = NoCards
  /\ CardCount(mine) < MaxMine
  /\ \E p \in Ranks : mine[p] < InDeck(p) /\ mine' = Pick(mine, p)
  /\ UNCHANGED << other, deck, table >>

SelectOther ==
  /\ Picking
  /\ CardCount(mine) <= MaxFirst
  /\ \A p \in Points \ Compared : mine[p] = 0
  /\ CardCount(other) < MaxOther
  /\ \E p \in Compared : mine[p] + other[p] < InDeck(p) /\ other' = Pick(other, p)
  /\ UNCHANGED << mine, deck, table >>

\* A deck tells how many cards of a point may be dealt.
Deal ==
  /\ CardCount(mine) < MaxMine
  /\ \E p \in Points :
       /\ mine[p] < deck[p]
       /\ mine[p] + other[p] < InDeck(p)
       /\ mine' = Pick(mine, p)
  /\ UNCHANGED << other, deck, table >>

Next == SelectMine \/ SelectOther \/ Deal

Spec == Init /\ [][Next]_vars

-----------------------------------------------------------------------------
\* k neighbouring points from 3 to the ace.
RunsOf(k) == { a..(a + k - 1) : a \in 1..(Card_A - k + 1) }

\* n cards of one point, or of each of two, that are not points of S; the two
\* jokers together are a bomb and not two singles.
One(n, S) == { Each(n, {p}) : p \in { q \in Points \ S : n = 1 \/ q \notin Jokers } }
Two(n, S) == { Each(n, {p, q}) : p \in (Points \ Jokers) \ S,
                                 q \in (IF n = 1 THEN Points ELSE Points \ Jokers) \ S }
             \ One(n, S)

Lead(n, Ss, Kickers(_)) == UNION { { With(Each(n, S), k) : k \in Kickers(S) } : S \in Ss }
None(S) == {NoCards}
Singletons == { {p} : p \in Points \ Jokers }

\* The hands of each type, put together by the examples in playhand.h:12-35.
Rule(t) ==
  LET single(S) == One(1, S)
      pair(S)   == One(2, S)
      singles(S) == Two(1, S)
      pairs(S)   == Two(2, S)
      runs(least) == UNION { RunsOf(k) : k \in least..12 }
  IN  CASE t = "Pass"             -> {NoCards}
        [] t = "Single"           -> One(1, {})
        [] t = "Pair"             -> One(2, {})
        [] t = "Triple"           -> Lead(3, Singletons, None)
        [] t = "Triple_Single"    -> Lead(3, Singletons, single)
        [] t = "Triple_Pair"      -> Lead(3, Singletons, pair)
        [] t = "Plane"            -> Lead(3, RunsOf(2), None)
        [] t = "Plane_Two_Single" -> Lead(3, RunsOf(2), singles)
        [] t = "Plane_Two_Pair"   -> Lead(3, RunsOf(2), pairs)
        [] t = "Seq_Pair"         -> Lead(2, runs(3), None)
        [] t = "Seq_Single"       -> Lead(1, runs(5), None)
        [] t = "Bomb"             -> Lead(4, Singletons, None)
        [] t = "Bomb_Single"      -> Lead(4, Singletons, single)
        [] t = "Bomb_Pair"        -> Lead(4, Singletons, pair)
        [] t = "Bomb_Two_Single"  -> Lead(4, Singletons, singles)
        [] t = "Bomb_Jokers"      -> {Each(1, Jokers)}
        [] t = "Bomb_Jokers_Single"     -> Lead(1, {Jokers}, single)
        [] t = "Bomb_Jokers_Pair"       -> Lead(1, {Jokers}, pair)
        [] t = "Bomb_Jokers_Two_Single" -> Lead(1, {Jokers}, singles)

RuleTable == [ t \in Types \ {"Unknown"} |-> Rule(t) ]

\* judgeCardType gives cards a type exactly if the rules can put them together
\* that way: nothing illegal is accepted, no cards can be read as two types
\* whatever the order of the tests, and nothing legal is refused but some hands
\* that carry the big joker (playhand.cpp judgeCardType).
TypesFollowTheRules ==
  Picking =>
    LET type == HandType(mine)
    IN  \A t \in DOMAIN RuleTable :
          /\ type = t => mine \in RuleTable[t]
          /\ mine \in RuleTable[t] => type = t \/ mine[Card_BJ] = 1

\* Of two hands that can be on the table at once at most one beats the other,
\* so a trick is never taken back with the hand it took (playhand.cpp canBeat).
BeatingIsOneWay ==
  Picking /\ mine # NoCards /\ CanBeat(HandOf(mine), HandOf(other)) =>
     ~CanBeat(HandOf(other), HandOf(mine))

\* Only bombs beat hands of another size: m_type, m_pt and m_extra, all that
\* PlayHand keeps of the cards, tell the sizes apart (playhand.cpp canBeat).
SizesMatch ==
  /\ Picking
  /\ CanBeat(HandOf(mine), HandOf(other))
  /\ HandType(mine) \notin {"Bomb", "Bomb_Jokers"}
  /\ other # NoCards
  => CardCount(mine) = CardCount(other)
-----------------------------------------------------------------------------
OnlyBombs == \A p \in Points : mine[p] \in {0, 4}

\* firstPlay leads one hand out of the robot's own cards, whatever it sets aside on
\* the way, and plays something unless it holds bombs only.
LeadsOneHand ==
  ~Picking /\ other = NoCards =>
    LET played == MakeStrategy(mine, other, table)
    IN  /\ \A p \in Points : played[p] <= mine[p]
        /\ HandType(played) # "Unknown"
        /\ played = NoCards => OnlyBombs

\* strategy.h:14: getGreaterCards finds what beats the hand on the table, out of the
\* robot's own cards; but a plane may carry the big joker or the fourth card of its own
\* points, and triples may be more than the kickers for them.
AnswersBeat ==
  ~Picking /\ other # NoCards =>
    LET played == MakeStrategy(mine, other, table)
        type   == HandType(other)
    IN  played # NoCards =>
          /\ \A p \in Points : played[p] <= mine[p]
          /\ \/ CanBeat(HandOf(played), HandOf(other))
             \/ type = "Plane_Two_Single" /\ (played[Card_BJ] = 1 \/ Held(played, 4) # {})
             \/ \E n \in 1..2 : type = <<"Triple_Single", "Triple_Pair">>[n]
                                /\ KickersMissing(mine, HandPoint(other) + 1, n)
=============================================================================
