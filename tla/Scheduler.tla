----------------------------- MODULE Scheduler ------------------------------
(***************************************************************************)
(* When a card is due again (models/fsrs.go): stability, difficulty and    *)
(* the interval, next to the counters of FSRS.  Both numbers, and the      *)
(* weights they start from, are rounded to hundredths.                     *)
(*                                                                         *)
(* A power or an exponential is a constant, known by the bounds that its   *)
(* argument and its weight give it; what the formulas make of it, and the  *)
(* range of a stability, follow from them.  The time since the last review *)
(* is never negative, which makes the retrievability any r in [0, 1].      *)
(***************************************************************************)
EXTENDS FSRS

CONSTANTS RecallPower,      \* s^-W[9]           of a stability s
          RecallExp,        \* e^(W[10] (1-r))   of a retrievability r
          DifficultyPower,  \* d^-W[12]          of a difficulty d
          ForgetPower,      \* (s+1)^W[13]       of a stability s
          ForgetExp         \* e^(W[14] (1-r))   of a retrievability r

Unit             == 100
MaximumInterval  == 365 * Unit          \* in days, as the stability is
MinimumStability == 10
Stabilities      == MinimumStability..MaximumInterval
Difficulties     == 1..Unit
Retrievabilities == 0..Unit

\* The greatest values are those of the least s for RecallPower, of the greatest for
\* ForgetPower, of the least d and of r = 0.
ASSUME SchedulerAssumption ==
  /\ RecallPower     \in [Stabilities -> 1..143]
  /\ RecallExp       \in [Retrievabilities -> 100..274]
  /\ DifficultyPower \in [Difficulties -> 100..165]
  /\ ForgetPower     \in [Stabilities -> 100..740]
  /\ ForgetExp       \in [Retrievabilities -> 100..125]

\* A card that was reviewed before.
Reviewed == [stability : Stabilities, difficulty : Difficulties,
             memory : {m \in Memories : m.state # New}]
NewCard  == [stability |-> 0, difficulty |-> 30, memory |-> NewMemory]

Clamp(value, low, high) ==
  IF value < low THEN low ELSE IF value > high THEN high ELSE value

\* W[0] to W[3].
InitialStability(rating) == <<41, 118, 313, 1547>>[rating]

\* W[4] + 1 - e^(W[5] (rating - 1)), from 7.21 for Again down to 3.28.
InitialDifficulty(rating) ==
  Clamp(<<721, 651, 531, 328>>[rating], 1, Unit)

\* W[7] D0 + (1 - W[7]) (D - W[6] (rating - 3)), where W[7] is 0.0234.
NextDifficulty(d, rating) ==
  Clamp((234 * InitialDifficulty(rating) + 9766 * (d - 107 * (rating - Good)))
          \div 10000,
        1, Unit)

Times(x, y) == (x * y) \div Unit

\* W[15], the penalty of Hard, is 0 and W[16], the bonus of Easy, 2.327.
Bonus(rating) == CASE rating = Hard -> 0 [] rating = Easy -> 233 [] OTHER -> Unit

\* s (e^W[8] (11 - d) s^-W[9] (e^(W[10] (1-r)) - 1) bonus + 1), and a year at most.
StabilityAfterRecall(d, s, r, rating) ==
  LET factor == Times(Times(Times(Times(503, 11 * Unit - d), RecallPower[s]),
                            RecallExp[r] - Unit),
                      Bonus(rating))
      newS   == s + Times(s, factor)
  IN IF newS < MaximumInterval THEN newS ELSE MaximumInterval

\* W[11] d^-W[12] e^(W[14] (1-r)) ((s+1)^W[13] - 1), and 0.1 days at least.
StabilityAfterForget(d, s, r) ==
  LET newS == Times(Times(Times(194, DifficultyPower[d]), ForgetExp[r]),
                    ForgetPower[s] - Unit)
  IN IF newS > MinimumStability THEN newS ELSE MinimumStability

InitializeSchedule(c, rating) ==
  [stability |-> InitialStability(rating), difficulty |-> InitialDifficulty(rating),
   memory |-> InitializeCard(c.memory, rating)]

\* The stability is computed from the new difficulty.
UpdateSchedule(c, rating, r) ==
  LET d == NextDifficulty(c.difficulty, rating) IN
    [stability  |-> IF rating = Again
                      THEN StabilityAfterForget(d, c.stability, r)
                      ELSE StabilityAfterRecall(d, c.stability, r, rating),
     difficulty |-> d,
     memory     |-> UpdateCard(c.memory, rating)]

\* What Review may make of a card, whenever it comes.
ReviewSchedule(c, rating) ==
  IF c.memory.state = New
    THEN {InitializeSchedule(c, rating)}
    ELSE {UpdateSchedule(c, rating, r) : r \in Retrievabilities}

\* 0.9^-2 - 1 is 19/81, so the interval is the stability in whole days.
NextInterval(s) == (Clamp(s, Unit, MaximumInterval) + Unit \div 2) \div Unit

-----------------------------------------------------------------------------
\* Every review leaves a card within the ranges (models/fsrs.go:69-201).
ReviewsInRange(stabilities, difficulties) ==
  \A s \in stabilities, d \in difficulties, rating \in AllRatings :
    LET c == [stability |-> s, difficulty |-> d, memory |-> Lapse(NewMemory)] IN
      \A n \in ReviewSchedule(c, rating) : /\ n.stability \in Stabilities
                                           /\ n.difficulty \in Difficulties

\* Every stability is due after 1 to 365 days, the later the higher it is.
IntervalsInOrder(sample) ==
  \A s, t \in sample : /\ NextInterval(s) \in 1..365
                       /\ s <= t => NextInterval(s) <= NextInterval(t)

\* The rating alone decides the difficulty after a review, except for Good: Again
\* and Hard make it the greatest there is, Easy the least.
DifficultySaturates(sample) ==
  \A d \in sample : /\ NextDifficulty(d, Again) = Unit
                    /\ NextDifficulty(d, Hard) = Unit
                    /\ NextDifficulty(d, Easy) = 1
                    /\ NextDifficulty(d, Good) \in 1..Unit

\* The better the first rating, the later the second review.
FirstRatingsInOrder ==
  \A r, q \in AllRatings :
    r < q => /\ InitialStability(r) < InitialStability(q)
             /\ NextInterval(InitialStability(r)) <= NextInterval(InitialStability(q))
=============================================================================
