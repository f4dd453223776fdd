------------------------------ MODULE Strategy ------------------------------
(***************************************************************************)
(* Class Strategy (strategy/strategy.cpp): which of its cards a robot      *)
(* plays.  As in PlayHand the cards are counted by point; the search takes *)
(* the first suits of a point, so two finds of one point share cards.      *)
(***************************************************************************)
EXTENDS PlayHand, FiniteSetsExt

Card_10 == 8
Card_Q  == 10

\* n cards of every point of S; two lots of cards together; how many cards there are,
\* as no point has more than four.
Each(n, S) == [p \in Points |-> IF p \in S THEN n ELSE 0]
With(c, d) == [p \in Points |-> c[p] + d[p]]
CardCount(c) == Cardinality({ x \in Points \X (1..4) : x[2] <= c[x[1]] })

\* Mistake: what is found stays in the hand.
WithoutNothing(c, d) == c

\* Cards::remove.
Without(c, d) == [p \in Points |-> c[p] - d[p]]

\* The k lowest points of S, and how many are lower than p.
Lowest(S, k) == { p \in S : Cardinality({ q \in S : q < p }) < k }
Rank(S, p) == Cardinality({ q \in S : q < p })

-----------------------------------------------------------------------------
(* The search. What is found is a function from the point a hand begins with to   *)
(* the hand; begin is the lowest point that is looked at.                          *)

\* findSamePointCards: the points with n cards.
Same(c, n) == { p \in Points : c[p] >= n }

\* Mistake: the hand's own point will do.
FromBelow(begin, S) == { p \in S : p >= begin - 1 }

From(begin, S) == { p \in S : p >= begin }

\* findCardsByCount and getCards take points held n times and do not split others.
GetCards(c, begin, n) == [p \in From(begin, Held(c, n)) |-> Each(n, {p})]

GetBomb(c, begin) == [p \in From(begin, Same(c, 4)) |-> Each(4, {p})]

\* Two neighbouring triples, the higher an ace at most.
PlanesOf(c) == { p \in Same(c, 3) : p < Card_A /\ p + 1 \in Same(c, 3) }
PlanePoints(S) == S \cup { p + 1 : p \in S }
GetPlane(c, begin) == [p \in From(begin, PlanesOf(c)) |-> Each(3, {p, p + 1})]

\* Kickers of n cards for the triples at S.
KickersFor(c, S, n) == Held(Without(c, Each(3, S)), n)

\* More triples than kickers: the kickers are read beyond their end.
KickersMissing(c, begin, n) ==
  LET triples == From(begin, Held(c, 3))
  IN  Cardinality(KickersFor(c, triples, n)) \in 1..(Cardinality(triples) - 1)

\* Triples, the lowest with the lowest kicker and so on; none if there is no kicker.
\* One whose kicker is missing is undefined: at best it stays alone.
GetTripleSingleOrPair(c, begin, n) ==
  LET triples == From(begin, Held(c, 3))
      kickers == KickersFor(c, triples, n)
  IN  [ p \in { q \in triples : kickers # {} } |->
          With(Each(3, {p}), Each(n, { k \in kickers : Rank(kickers, k) = Rank(triples, p) })) ]

\* Planes, each with the two lowest kickers.
GetPlane2SingleOr2Pair(c, begin, n) ==
  LET planes  == From(begin, PlanesOf(c))
      kickers == KickersFor(c, PlanePoints(planes), n)
  IN  [ p \in { q \in planes : Cardinality(kickers) >= 2 } |->
          With(Each(3, {p, p + 1}), Each(n, Lowest(kickers, 2))) ]

\* To beat a sequence: the lowest of the same length from begin to end, if it stays
\* below the ace.
GetGreaterSeq(c, begin, end, n, extra) ==
  LET starts == { p \in begin..end : p + extra < Card_2 /\ p..(p + extra - 1) \subseteq Same(c, n) }
  IN  [ p \in Lowest(starts, 1) |-> Each(n, p..(p + extra - 1)) ]

\* findCardType(hand, true).
FindGreater(c, h) ==
  LET begin == h.point + 1
  IN  CASE h.type = "Single" -> GetCards(c, begin, 1)
        [] h.type = "Pair"   -> GetCards(c, begin, 2)
        [] h.type = "Triple" -> GetCards(c, begin, 3)
        [] h.type = "Triple_Single" -> GetTripleSingleOrPair(c, begin, 1)
        [] h.type = "Triple_Pair"   -> GetTripleSingleOrPair(c, begin, 2)
        [] h.type = "Plane" -> GetPlane(c, begin)
        [] h.type = "Plane_Two_Single" -> GetPlane2SingleOr2Pair(c, begin, 1)
        [] h.type = "Plane_Two_Pair"   -> GetPlane2SingleOr2Pair(c, begin, 2)
        [] h.type = "Seq_Pair"   -> GetGreaterSeq(c, begin, Card_Q, 2, h.extra)
        [] h.type = "Seq_Single" -> GetGreaterSeq(c, begin, Card_10, 1, h.extra)
        [] h.type = "Bomb" -> GetBomb(c, begin)
        [] OTHER -> [p \in {} |-> NoCards]

\* The sequences of at least least points, n cards each (findCardType(hand, false)).
SeqsOf(c, n, least) ==
  LET points == { p \in Same(c, n) : p <= Card_A }
  IN  { s \in { a..b : a \in points, b \in points } :
          Cardinality(s) >= least /\ s \subseteq points }

\* pickSeqSingles tries all sequences and records none of them, so the best choice
\* of sequences is none.
PickOptimalSeqSingles(c) == NoCards

-----------------------------------------------------------------------------
(* The choice. A table tells, of the next player and of the one who played last,   *)
(* whether they are opponents and how many cards they hold.                        *)

\* firstPlay's last resort: a point held once or twice, the highest if an opponent
\* could be done with the next card.
LeadLow(rest, table) ==
  LET points == { p \in Points : rest[p] \in {1, 2} }
      p == IF table.nextIsOpponent /\ table.nextCount = 1 THEN Last(points) ELSE First(points)
  IN  IF points = {} THEN NoCards ELSE Each(rest[p], {p})

\* A triple below the ace takes along the lowest single or pair up to the ace.
LeadTriple(triple, rest) ==
  LET points == { p \in 1..Card_A : rest[p] \in {1, 2} }
  IN  IF First(Held(triple, 3)) < Card_A /\ points # {}
      THEN With(triple, Each(rest[First(points)], {First(points)}))
      ELSE triple

\* A plane takes along the two lowest pairs up to the 10, and never singles, which
\* are collected in the list of the pairs.
LeadPlane(plane, rest) ==
  LET pairs == { p \in Same(rest, 2) : p <= Card_10 }
  IN  IF Cardinality(pairs) >= 2 THEN With(plane, Each(2, Lowest(pairs, 2))) ELSE plane

\* The first of the longest sequences of pairs.
LeadSeqPair(seqs) ==
  LET longest == { s \in seqs : \A t \in seqs : Cardinality(t) <= Cardinality(s) }
  IN  Each(2, CHOOSE s \in longest : \A t \in longest : First(s) <= First(t))

\* A hand that is one type is played at once. Otherwise bombs are set aside, then
\* planes, then triples.
FirstPlay(c, table) ==
  LET saved   == Without(c, Each(4, Same(c, 4)))
      planes  == PlanesOf(saved)
      left    == Without(saved, Each(3, PlanePoints(planes)))
      triples == Held(left, 3)
      rest    == Without(left, Each(3, triples))
      seqs    == SeqsOf(rest, 2, 3)
  IN  IF HandType(c) # "Unknown" THEN c
      ELSE IF seqs # {}    THEN LeadSeqPair(seqs)
      ELSE IF planes # {}  THEN LeadPlane(GetPlane(saved, 1)[First(planes)], rest)
      ELSE IF triples # {} THEN LeadTriple(Each(3, {First(triples)}), rest)
      ELSE LeadLow(rest, table)

\* Against an opponent with three cards or less any bomb will do; else the lowest
\* greater hand, or the highest if an opponent comes next and has two cards or less.
GetGreaterCards(c, h, table) ==
  LET urgent  == table.pendIsOpponent /\ table.pendCount <= 3
      bombs   == { p \in Held(c, 4) : CanBeat(HandOf(Each(4, {p})), h) }
      unsplit == FindGreater(Without(c, PickOptimalSeqSingles(c)), h)
      found   == IF DOMAIN unsplit # {} THEN unsplit ELSE FindGreater(c, h)
  IN  IF urgent /\ bombs # {} THEN Each(4, {First(bombs)})
      ELSE IF urgent /\ Jokers \subseteq Held(c, 1) THEN Each(1, Jokers)
      ELSE IF DOMAIN found = {} THEN NoCards
      ELSE IF table.nextIsOpponent /\ table.nextCount <= 2 THEN found[Last(DOMAIN found)]
      ELSE found[First(DOMAIN found)]

\* A partner is beaten to get rid of the last hand, or cheaply; an opponent, but
\* not with the twos while they may wait.
WhetherToBeat(c, answer, table) ==
  /\ answer # NoCards
  /\ LET h == HandOf(answer)
     IN  IF table.pendIsOpponent
         THEN /\ ~(h.type \in {"Triple_Pair", "Triple_Single"} /\ h.point = Card_2)
              /\ ~(/\ h.type = "Pair" /\ h.point = Card_2
                   /\ table.pendCount >= 10 /\ CardCount(c) >= 5)
         ELSE \/ HandType(Without(c, answer)) # "Unknown"
              \/ h.point \notin {Card_2, Card_SJ, Card_BJ}

\* What a robot that holds c plays; last is on the table, or NoCards if the robot
\* leads.
MakeStrategy(c, last, table) ==
  IF last = NoCards
  THEN FirstPlay(c, table)
  ELSE LET answer == GetGreaterCards(c, HandOf(last), table)
       IN  IF WhetherToBeat(c, answer, table) THEN answer ELSE NoCards
=============================================================================
