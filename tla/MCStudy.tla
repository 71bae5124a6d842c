------------------------------ MODULE MCStudy -------------------------------
EXTENDS Study, Scheduler, Sequences, TLC

CONSTANTS u1, d1

\* One user and one deck: rows of other users and decks are never touched by the
\* statements of these.
MCCardDeck    == [c \in Cards |-> d1]
MCSessionUser == [s \in Sessions |-> u1]
MCSessionDeck == [s \in Sessions |-> d1]

\* What the locals of an answer hold once no step and no property reads them again
\* tells no states apart.
Locally(a) ==
  LET m == mem[a]
      at(steps, value) == IF pc[a] \in steps THEN <<value>> ELSE <<>>
  IN <<at({"review"}, m.memory),
       at({"snapshot", "write"}, m.deck),
       at({"write"}, m.percent),
       at({"credit", "credited"}, <<m.studied, m.correct, m.today>>),
       m.early>>
View == <<tables, start, pc, req, [a \in Answers |-> Locally(a)], day, faults>>

Symmetry == Permutations(Cards) \cup Permutations(Sessions) \cup Permutations(Answers)

\* The scheduler's theorems on the least and greatest arguments, on either side of
\* the clamps, and where the rounding goes from one day to the next.
Edges == {10, 41, 99, 100, 118, 149, 150, 249, 250, 313, 1547, 36449, 36450, 36500}

\* The straight lines through points of a curve, given in order.
Through(points, xs) ==
  LET Line(x) == CHOOSE i \in 1..(Len(points) - 1) :
                   points[i][1] <= x /\ x <= points[i + 1][1]
      At(x, p, q) == p[2] + ((q[2] - p[2]) * (x - p[1])) \div (q[1] - p[1])
  IN [x \in xs |-> At(x, points[Line(x)], points[Line(x) + 1])]

MCRecallPower == Through(<<<<10, 143>>, <<100, 100>>, <<1000, 70>>, <<36500, 40>>>>,
                         Stabilities)
MCRecallExp == Through(<<<<0, 273>>, <<50, 165>>, <<100, 100>>>>, Retrievabilities)
MCDifficultyPower == Through(<<<<1, 164>>, <<10, 128>>, <<100, 100>>>>, Difficulties)
MCForgetPower == Through(<<<<10, 103>>, <<100, 126>>, <<1000, 225>>, <<36500, 739>>>>,
                         Stabilities)
MCForgetExp == Through(<<<<0, 124>>, <<100, 100>>>>, Retrievabilities)

ASSUME SchedulerOnEdges ==
  /\ IntervalsInOrder(Edges)
  /\ ReviewsInRange(Edges, {1, 50, 100})
  /\ DifficultySaturates(Difficulties)
  /\ FirstRatingsInOrder
=============================================================================
