---------------------------- MODULE StudyProofs -----------------------------
(***************************************************************************)
(* Proofs about the scheduler, for every card and rating, and about the    *)
(* study handlers, for every number of users, decks, cards, sessions,      *)
(* answers and failures.                                                   *)
(***************************************************************************)
EXTENDS StudyClient, Scheduler, Functions, FiniteSetTheorems, TLAPS

\* What UserStatsProofs shows, of the statistics as the study handlers drive them.
StatsFacts == INSTANCE UserStatsProofs WITH Calls <- Answers,
                                            MaxCards <- Cardinality(Answers),
                                            call <- [a \in Answers |-> StatsCall(a)]

-----------------------------------------------------------------------------
(* The scheduler *)

\* A review adds one to the repetitions and lapses of a card together, and it is
\* a lapse exactly when the rating is Again (models/fsrs.go:87-148).
THEOREM ReviewAddsOne ==
  ASSUME NEW m \in Memories, NEW rating \in AllRatings
  PROVE  LET n == Review(m, rating) IN
           /\ n \in Memories
           /\ n.reps + n.lapses = m.reps + m.lapses + 1
           /\ n.lapses = m.lapses + (IF rating = Again THEN 1 ELSE 0)
<1>0. m.reps \in Nat /\ m.lapses \in Nat /\ m.state \in States
  BY DEF Memories
<1>1. /\ Lapse(m) \in Memories
      /\ Lapse(m).reps = m.reps /\ Lapse(m).lapses = m.lapses + 1
  BY <1>0 DEF Lapse, Memories, States, New, Relearning
<1>2. ASSUME NEW state \in {Learning, Mastered}
      PROVE  /\ Recall(m, state) \in Memories
             /\ Recall(m, state).reps = m.reps + 1
             /\ Recall(m, state).lapses = m.lapses
  BY <1>0, <1>2 DEF Recall, Memories, States, New, Learning, Mastered, Relearning
<1>3. \/ rating = Again /\ Review(m, rating) = Lapse(m)
      \/ rating # Again /\ \E state \in {Learning, Mastered} :
                              Review(m, rating) = Recall(m, state)
  BY DEF Review, InitializeCard, UpdateCard, Again, Hard
<1> QED
  BY <1>0, <1>1, <1>2, <1>3

LEMMA MaximumType == MaximumInterval = 36500 /\ Unit = 100 /\ MinimumStability = 10
BY SMT DEF MaximumInterval, Unit, MinimumStability

LEMMA Ranges ==
  /\ \A s \in Stabilities : s \in Int /\ 10 <= s /\ s <= 36500
  /\ \A s \in Int : 10 <= s /\ s <= 36500 => s \in Stabilities
  /\ \A d \in Difficulties : d \in Int /\ 1 <= d /\ d <= 100
<1> DEFINE most == 36500
<1>1. Stabilities = 10..most /\ Difficulties = 1..100
  BY MaximumType DEF Stabilities, Difficulties
<1>2. most \in Int
  OBVIOUS
<1> HIDE DEF most
<1>3. /\ \A s \in 10..most : s \in Int /\ 10 <= s /\ s <= most
      /\ \A s \in Int : 10 <= s /\ s <= most => s \in 10..most
  BY <1>2
<1>4. \A d \in 1..100 : d \in Int /\ 1 <= d /\ d <= 100
  OBVIOUS
<1>5. \A s \in Stabilities : s \in Int /\ 10 <= s /\ s <= most
  BY <1>1, <1>3
<1>6. \A s \in Int : 10 <= s /\ s <= most => s \in Stabilities
  BY <1>1, <1>3
<1>7. \A d \in Difficulties : d \in Int /\ 1 <= d /\ d <= 100
  BY <1>1, <1>4
<1> QED
  BY <1>5, <1>6, <1>7 DEF most

\* The least stability and difficulty are above zero, and every rating starts a
\* card within the bounds.
LEMMA InitialValues ==
  ASSUME NEW rating \in AllRatings
  PROVE  /\ InitialStability(rating) \in Stabilities
         /\ InitialDifficulty(rating) = Unit
<1>1. rating \in {1, 2, 3, 4}
  BY DEF AllRatings, Again, Easy
<1>2. InitialStability(rating) \in {41, 118, 313, 1547}
  BY <1>1 DEF InitialStability
<1>3. InitialDifficulty(rating) = Unit
  BY <1>1, SMT DEF InitialDifficulty, Clamp, Unit
<1> QED
  BY <1>2, <1>3, MaximumType, SMT DEF Stabilities

LEMMA TimesType ==
  ASSUME NEW x \in Nat, NEW y \in Nat
  PROVE  Times(x, y) \in Nat
<1>1. x * y \in Nat
  BY SMT
<1> QED
  BY <1>1, SMT DEF Times, Unit

\* A recall keeps the stability or raises it, up to a year, and Hard keeps it:
\* each factor of the formula is at least zero, and that of Hard is zero.
LEMMA RecallRange ==
  ASSUME NEW d \in Difficulties, NEW s \in Stabilities, NEW r \in Retrievabilities,
         NEW rating \in AllRatings
  PROVE  LET t == StabilityAfterRecall(d, s, r, rating) IN
           t \in Stabilities /\ s <= t /\ (rating = Hard => t = s)
<1>1. s \in Nat /\ 10 <= s /\ s <= 36500 /\ d \in Nat /\ d <= 100
  BY Ranges
<1>2. /\ 11 * Unit - d \in Nat /\ RecallPower[s] \in Nat
      /\ RecallExp[r] - Unit \in Nat /\ Bonus(rating) \in Nat
      /\ 503 \in Nat
  <2>1. 11 * Unit - d \in Nat
    BY <1>1, MaximumType
  <2>2. RecallPower[s] \in 1..143 /\ RecallExp[r] \in 100..274
    BY SchedulerAssumption
  <2>3. Bonus(rating) \in Nat
    BY MaximumType DEF Bonus
  <2> QED
    BY <2>1, <2>2, <2>3, MaximumType
<1> DEFINE base   == Times(Times(Times(503, 11 * Unit - d), RecallPower[s]), RecallExp[r] - Unit)
           factor == Times(base, Bonus(rating))
<1>3. base \in Nat
  <2>1. Times(503, 11 * Unit - d) \in Nat
    BY <1>2, TimesType
  <2>2. Times(Times(503, 11 * Unit - d), RecallPower[s]) \in Nat
    BY <1>2, <2>1, TimesType
  <2> QED
    BY <1>2, <2>2, TimesType
<1>4. factor \in Nat /\ (rating = Hard => factor = 0)
  <2> HIDE DEF base
  <2>1. factor \in Nat
    BY <1>2, <1>3, TimesType
  <2>2. rating = Hard => Bonus(rating) = 0
    BY DEF Bonus, Hard, Easy
  <2>3. Times(base, 0) = 0
    BY <1>3, SMT DEF Times, Unit
  <2> QED
    BY <2>1, <2>2, <2>3
<1>5. StabilityAfterRecall(d, s, r, rating) =
        IF s + Times(s, factor) < 36500 THEN s + Times(s, factor) ELSE 36500
  BY MaximumType DEF StabilityAfterRecall
<1> HIDE DEF base, factor
<1>6. Times(s, factor) \in Nat /\ (factor = 0 => Times(s, factor) = 0)
  <2>1. Times(s, factor) \in Nat
    <3>1. factor \in Nat /\ s \in Nat
      BY <1>1, <1>4
    <3> QED
      BY <3>1, TimesType, Zenon
  <2>2. Times(s, 0) = 0
    BY <1>1, SMT DEF Times, Unit
  <2> QED
    BY <2>1, <2>2
<1> QED
  BY <1>1, <1>4, <1>5, <1>6, Ranges

\* However well a card was known, forgetting leaves it less than 26 days.
LEMMA ForgetRange ==
  ASSUME NEW d \in Difficulties, NEW s \in Stabilities, NEW r \in Retrievabilities
  PROVE  LET t == StabilityAfterForget(d, s, r) IN t \in Stabilities /\ t <= 2560
<1>1. /\ DifficultyPower[d] \in Nat /\ DifficultyPower[d] <= 165
      /\ ForgetPower[s] - Unit \in Nat /\ ForgetPower[s] - Unit <= 640
      /\ ForgetExp[r] \in Nat /\ ForgetExp[r] <= 125
  <2>1. /\ DifficultyPower[d] \in 100..165 /\ ForgetPower[s] \in 100..740
        /\ ForgetExp[r] \in 100..125
    BY SchedulerAssumption
  <2> QED
    BY <2>1, MaximumType
<1> DEFINE x == Times(194, DifficultyPower[d])
           y == Times(x, ForgetExp[r])
           z == Times(y, ForgetPower[s] - Unit)
<1>2. x \in Nat /\ x <= 320
  <2>1. \A p \in Nat : p <= 165 => Times(194, p) \in Nat /\ Times(194, p) <= 320
    BY SMT DEF Times, Unit
  <2> QED
    BY <1>1, <2>1, Zenon
<1>3. y \in Nat /\ y <= 400
  <2> HIDE DEF x
  <2>1. \A p, q \in Nat : p <= 320 /\ q <= 125 => Times(p, q) \in Nat /\ Times(p, q) <= 400
    BY SMT DEF Times, Unit
  <2> QED
    BY <1>1, <1>2, <2>1, Zenon
<1>4. z \in Nat /\ z <= 2560
  <2> HIDE DEF y
  <2>1. \A p, q \in Nat : p <= 400 /\ q <= 640 => Times(p, q) \in Nat /\ Times(p, q) <= 2560
    BY SMT DEF Times, Unit
  <2> QED
    BY <1>1, <1>3, <2>1, SMT
<1>5. StabilityAfterForget(d, s, r) = IF z > 10 THEN z ELSE 10
  BY MaximumType DEF StabilityAfterForget
<1> HIDE DEF x, y, z
<1> QED
  BY <1>4, <1>5, Ranges

LEMMA ClampRange ==
  ASSUME NEW x \in Int PROVE Clamp(x, 1, Unit) \in Difficulties
  BY SMT DEF Clamp, Difficulties, Unit

LEMMA NextDifficultyType ==
  ASSUME NEW d \in Difficulties, NEW rating \in AllRatings
  PROVE  NextDifficulty(d, rating) \in Difficulties
<1>1. d \in Int /\ rating \in Int
  BY SMT DEF Difficulties, Unit, AllRatings, Again, Easy
<1>2. (234 * InitialDifficulty(rating) + 9766 * (d - 107 * (rating - Good)))
          \div 10000 \in Int
  BY <1>1, InitialValues, SMT DEF Unit, Good
<1> QED
  BY <1>2, ClampRange DEF NextDifficulty

\* Stability and difficulty stay in their ranges whenever the review comes, though
\* nothing clamps the stability of a forgotten card from above; and a card that was
\* reviewed is never New again (models/fsrs.go:70-201).
THEOREM ReviewInRange ==
  ASSUME NEW c \in Reviewed \cup {NewCard}, NEW rating \in AllRatings
  PROVE  /\ ReviewSchedule(c, rating) \subseteq Reviewed
         /\ ReviewSchedule(c, rating) # {}
<1>0. Unit \in Difficulties
  BY SMT DEF Difficulties, Unit
<1>1. CASE c = NewCard
  <2>1. c.memory = NewMemory
    BY <1>1 DEF NewCard
  <2>2. NewMemory.state = New
    BY DEF NewMemory
  <2>3. InitializeCard(NewMemory, rating) \in {m \in Memories : m.state # New}
    BY SMT DEF NewMemory, InitializeCard, Lapse, Recall, Memories, States,
               New, Learning, Mastered, Relearning
  <2>4. ReviewSchedule(c, rating) = {InitializeSchedule(c, rating)}
    BY <2>1, <2>2 DEF ReviewSchedule
  <2>5. InitializeSchedule(c, rating) \in Reviewed
    BY <1>0, <2>1, <2>3, InitialValues DEF InitializeSchedule, Reviewed
  <2> QED
    BY <2>4, <2>5
<1>2. CASE c \in Reviewed
  <2>1. c.stability \in Stabilities /\ c.difficulty \in Difficulties
        /\ c.memory \in Memories /\ c.memory.state # New
    BY <1>2 DEF Reviewed
  <2>2. UpdateCard(c.memory, rating) \in {m \in Memories : m.state # New}
    BY <2>1, SMT DEF UpdateCard, Lapse, Recall, Memories, States,
                     New, Learning, Mastered, Relearning
  <2>3. NextDifficulty(c.difficulty, rating) \in Difficulties
    BY <2>1, NextDifficultyType
  <2>4. ASSUME NEW r \in Retrievabilities
        PROVE  UpdateSchedule(c, rating, r) \in Reviewed
    <3> DEFINE d == NextDifficulty(c.difficulty, rating)
               s == IF rating = Again
                      THEN StabilityAfterForget(d, c.stability, r)
                      ELSE StabilityAfterRecall(d, c.stability, r, rating)
    <3>1. s \in Stabilities
      <4> HIDE DEF d
      <4>1. d \in Difficulties
        BY <2>3 DEF d
      <4> QED
        BY <2>1, <4>1, ForgetRange, RecallRange
    <3> HIDE DEF s
    <3> QED
      BY <2>2, <2>3, <3>1 DEF UpdateSchedule, Reviewed, s
  <2>5. Unit \in Retrievabilities
    BY SMT DEF Retrievabilities, Unit
  <2> QED
    BY <2>1, <2>4, <2>5 DEF ReviewSchedule
<1> QED
  BY <1>1, <1>2

\* Every interval is 1 to 365 days and grows with the stability
\* (models/fsrs.go:204-214).
THEOREM IntervalTheorem == IntervalsInOrder(Stabilities)
<1> SUFFICES ASSUME NEW s \in Stabilities, NEW t \in Stabilities
             PROVE  /\ NextInterval(s) \in 1..365
                    /\ s <= t => NextInterval(s) <= NextInterval(t)
  BY DEF IntervalsInOrder
<1>1. s \in Int /\ t \in Int
  BY MaximumType, SMT DEF Stabilities
<1> DEFINE low  == Clamp(s, 100, 36500)
           high == Clamp(t, 100, 36500)
<1>2. /\ low \in Int /\ 100 <= low /\ low <= 36500
      /\ high \in Int /\ 100 <= high /\ high <= 36500
  BY <1>1 DEF Clamp
<1>3. s <= t => low <= high
  BY <1>1 DEF Clamp
<1>4. NextInterval(s) = (low + 50) \div 100 /\ NextInterval(t) = (high + 50) \div 100
  BY SMT DEF NextInterval, MaximumInterval, Unit
<1> HIDE DEF low, high
<1> QED
  BY <1>2, <1>3, <1>4, SMT

\* After Again, Hard and Easy the difficulty does not depend on what it was
\* (models/fsrs.go:161-166).
THEOREM SaturationTheorem == DifficultySaturates(Difficulties)
<1> SUFFICES ASSUME NEW d \in Difficulties
             PROVE  /\ NextDifficulty(d, Again) = Unit /\ NextDifficulty(d, Hard) = Unit
                    /\ NextDifficulty(d, Easy) = 1 /\ NextDifficulty(d, Good) \in 1..Unit
  BY DEF DifficultySaturates
<1>1. d \in 1..100
  BY SMT DEF Difficulties, Unit
<1>2. \A rating \in AllRatings : InitialDifficulty(rating) = 100
  BY InitialValues, SMT DEF Unit
<1>3. \A rating \in AllRatings :
        NextDifficulty(d, rating) =
          Clamp((234 * 100 + 9766 * (d - 107 * (rating - 3))) \div 10000, 1, 100)
  BY <1>2, SMT DEF NextDifficulty, Unit, Good
<1>4. Again = 1 /\ Hard = 2 /\ Good = 3 /\ Easy = 4 /\ AllRatings = 1..4
  BY DEF AllRatings, Again, Hard, Good, Easy
<1>5. /\ (234 * 100 + 9766 * (d - 107 * (1 - 3))) \div 10000 > 100
      /\ (234 * 100 + 9766 * (d - 107 * (2 - 3))) \div 10000 > 100
      /\ (234 * 100 + 9766 * (d - 107 * (4 - 3))) \div 10000 < 1
      /\ (234 * 100 + 9766 * (d - 107 * (3 - 3))) \div 10000 \in Int
  BY <1>1, SMT
<1>6. \A x \in Int : /\ x > 100 => Clamp(x, 1, 100) = 100
                     /\ x < 1 => Clamp(x, 1, 100) = 1
                     /\ Clamp(x, 1, 100) \in 1..100
  BY SMT DEF Clamp
<1>7. /\ NextDifficulty(d, 1) = 100 /\ NextDifficulty(d, 2) = 100
      /\ NextDifficulty(d, 4) = 1 /\ NextDifficulty(d, 3) \in 1..100
  BY <1>1, <1>3, <1>4, <1>5, <1>6, SMT
<1> QED
  BY <1>4, <1>7, SMT DEF Unit

\* A recall never brings the next review closer than it was, and Hard leaves it
\* where it was (models/fsrs.go:169-190, where its factor is W[15] = 0).
THEOREM RecallKeepsInterval ==
  ASSUME NEW c \in Reviewed, NEW rating \in AllRatings \ {Again},
         NEW n \in ReviewSchedule(c, rating)
  PROVE  /\ NextInterval(c.stability) <= NextInterval(n.stability)
         /\ rating = Hard => NextInterval(n.stability) = NextInterval(c.stability)
<1>1. c.stability \in Stabilities /\ c.difficulty \in Difficulties /\ c.memory.state # New
  BY DEF Reviewed
<1>2. PICK r \in Retrievabilities :
        n.stability = StabilityAfterRecall(NextDifficulty(c.difficulty, rating),
                                           c.stability, r, rating)
  BY <1>1 DEF ReviewSchedule, UpdateSchedule
<1>3. /\ n.stability \in Stabilities /\ c.stability <= n.stability
      /\ rating = Hard => n.stability = c.stability
  BY <1>1, <1>2, RecallRange, NextDifficultyType
<1>4. /\ NextInterval(c.stability) \in Int
      /\ \A t \in Stabilities : c.stability <= t => NextInterval(c.stability) <= NextInterval(t)
  BY <1>1, IntervalTheorem DEF IntervalsInOrder
<1> QED
  BY <1>3, <1>4

\* A forgotten card is due within 26 days, whatever its stability and difficulty were
\* and however late the review came (models/fsrs.go:192-201).
THEOREM LapseComesSoon ==
  ASSUME NEW c \in Reviewed, NEW n \in ReviewSchedule(c, Again)
  PROVE  NextInterval(n.stability) \in 1..26
<1>1. c.stability \in Stabilities /\ c.difficulty \in Difficulties /\ c.memory.state # New
  BY DEF Reviewed
<1>2. PICK r \in Retrievabilities :
        n.stability = StabilityAfterForget(NextDifficulty(c.difficulty, Again),
                                           c.stability, r)
  BY <1>1 DEF ReviewSchedule, UpdateSchedule
<1>3. Again \in AllRatings
  BY SMT DEF AllRatings, Again, Easy
<1>4. n.stability \in Stabilities /\ n.stability <= 2560
  BY <1>1, <1>2, <1>3, ForgetRange, NextDifficultyType
<1>5. n.stability \in Int
  BY <1>4, Ranges
<1> QED
  BY <1>4, <1>5, SMT DEF NextInterval, Clamp, MaximumInterval, Unit

LEMMA NewMemoryType == NewMemory \in Memories /\ NewMemory.reps = 0 /\ NewMemory.lapses = 0
  BY DEF NewMemory, Memories, States, New, Relearning

-----------------------------------------------------------------------------
(* Types *)

\* mastery_percent satisfies the CHECK of its column (db/database.sql:140).
LEMMA PercentType ==
  ASSUME NEW u, NEW d PROVE Percent(u, d) \in 0..100
<1> DEFINE all  == CardsOf(d)
           mastered == {c \in CardsOf(d) : progress[u][c].memory.state = Mastered}
           t == Cardinality(all)
           m == Cardinality(mastered)
<1>1. IsFiniteSet(all)
  BY FS_Subset, StudyAssumption DEF CardsOf
<1>2. t \in Nat /\ m \in Nat /\ m <= t
  <2>1. mastered \in SUBSET all
    OBVIOUS
  <2>2. IsFiniteSet(mastered) /\ m <= t
    BY <1>1, <2>1, FS_Subset
  <2> QED
    BY <1>1, <2>2, FS_CardinalityType
<1>3. ASSUME NEW x \in Nat, NEW y \in Nat, x <= y, y # 0
      PROVE  (x * 100) \div y \in 0..100
  BY <1>3
<1> QED
  <2>1. CASE t = 0
    BY <2>1 DEF Percent
  <2>2. CASE t # 0
    <3>1. Percent(u, d) = (m * 100) \div t
      BY <2>2 DEF Percent
    <3> HIDE DEF t, m
    <3> QED
      BY <1>2, <1>3, <2>2, <3>1
  <2> QED
    BY <2>1, <2>2

LEMMA TalliedType ==
  ASSUME NEW row \in SessionRows, NEW k \in {0, 1}
  PROVE  [row EXCEPT !.cards_studied = @ + 1, !.correct_count = @ + k] \in SessionRows
<1> DEFINE studied == row.cards_studied + 1
           correct == row.correct_count + k
<1>1. studied \in Nat /\ correct \in Nat
  BY DEF SessionRows
<1>2. [row EXCEPT !.cards_studied = studied, !.correct_count = correct] \in SessionRows
  <2> HIDE DEF studied, correct
  <2> QED
    BY <1>1 DEF SessionRows
<1> QED
  BY <1>2

\* Writing one field of a session.
LEMMA FlaggedType ==
  ASSUME NEW row \in SessionRows, NEW b \in BOOLEAN
  PROVE  /\ [row EXCEPT !.live = b] \in SessionRows
         /\ [row EXCEPT !.completed = b] \in SessionRows
BY DEF SessionRows

LEMMA ReloadedType ==
  ASSUME NEW m \in Locals, NEW n \in Nat, NEW k \in Nat, NEW d \in Days
  PROVE  [m EXCEPT !.studied = n, !.correct = k, !.today = d] \in Locals
BY DEF Locals

LEMMA MemorisedType ==
  ASSUME NEW m \in Locals, NEW x \in Memories
  PROVE  [m EXCEPT !.memory = x] \in Locals
BY DEF Locals

LEMMA EarlyType ==
  ASSUME NEW m \in Locals, NEW b \in BOOLEAN
  PROVE  [m EXCEPT !.early = b] \in Locals
BY DEF Locals

LEMMA InitType == Init => TypeOK
<1> SUFFICES ASSUME Init PROVE TypeOK
  OBVIOUS
<1>1. NoProgress \in ProgressRows
  BY NewMemoryType DEF NoProgress, ProgressRows
<1>2. NoSession \in SessionRows
  BY DEF NoSession, SessionRows
<1>3. NoLocals \in Locals
  BY NewMemoryType, StudyAssumption DEF NoLocals, Locals, Days
<1>4. SeedRow \in StatsRows
  BY DEF SeedRow, StatsRows, Never
<1> QED
  BY <1>1, <1>2, <1>3, <1>4, StudyAssumption DEF Init, TypeOK, Days

\* What a step of an answer relies on: its request is a request.
LEMMA RequestType ==
  ASSUME TypeOK, NEW a \in Answers, pc[a] # "idle"
  PROVE  /\ req[a] \in Requests
         /\ req[a].user \in Users /\ req[a].session \in Sessions
         /\ req[a].card \in Cards /\ req[a].rating \in AllRatings
         /\ req[a].last \in BOOLEAN
<1>1. req[a] \in Requests
  BY DEF TypeOK
<1> QED
  BY <1>1, StudyAssumption DEF Requests

LEMMA UpdatedType ==
  ASSUME NEW row \in StatsRows, NEW studied \in Nat, NEW correct \in Nat,
         NEW today \in Nat \ {0}
  PROVE  Updated(row, studied, correct, today) \in StatsRows
BY StatsFacts!UpdatedType
   DEF StatsRows, Updated, StreakOn, Greatest, XpGained, Never,
       StatsFacts!StatsRows, StatsFacts!Updated, StatsFacts!StreakOn,
       StatsFacts!Greatest, StatsFacts!XpGained, StatsFacts!Never

LEMMA NextType == TypeOK /\ [Next]_vars => TypeOK'
<1> SUFFICES ASSUME TypeOK, [Next]_vars PROVE TypeOK'
  OBVIOUS
<1> USE StudyAssumption
<1>1. ASSUME NEW s \in Sessions, BeginStart(s) PROVE TypeOK'
  BY <1>1 DEF BeginStart, TypeOK, tables
<1>2. ASSUME NEW s \in Sessions, InsertSession(s) PROVE TypeOK'
  <2>1. session' \in [Sessions -> SessionRows]
    <3>1. session[s] \in SessionRows
      BY DEF TypeOK
    <3>2. [session[s] EXCEPT !.live = TRUE] \in SessionRows
      BY <3>1, FlaggedType
    <3>3. \/ session' = session
          \/ session' = [session EXCEPT ![s] = [session[s] EXCEPT !.live = TRUE]]
      BY <1>2 DEF InsertSession, TypeOK
    <3> QED
      BY <3>2, <3>3 DEF TypeOK
  <2> QED
    BY <1>2, <2>1 DEF InsertSession, TypeOK
<1>3. ASSUME NEW s \in Sessions, AddBookmark(s) PROVE TypeOK'
  BY <1>3 DEF AddBookmark, TypeOK
<1>4. ASSUME NEW s \in Sessions, StartFails(s) PROVE TypeOK'
  BY <1>4 DEF StartFails, TypeOK, tables
<1>5. ASSUME NEW u \in Users, NEW d \in Decks, Stop(u, d) PROVE TypeOK'
  BY <1>5 DEF Stop, TypeOK, SessionRows, NoSession, handlers
<1>6. ASSUME NEW a \in Answers, Submit(a) PROVE TypeOK'
  BY <1>6 DEF Submit, Goto, TypeOK, tables, Steps
<1>7. ASSUME NEW a \in Answers, Answer(a) PROVE TypeOK'
  <2> DEFINE u == req[a].user
             s == req[a].session
             c == req[a].card
  <2>0. pc[a] # "idle"
    BY <1>7 DEF Answer, ReadProgress, RecordReview, BumpTally, LogAnswer, LoadSession,
       CountMastered, WriteMastery, MarkCompleted, ReloadSession, CreditUser
  <2>a. u \in Users /\ s \in Sessions /\ c \in Cards /\ req[a].rating \in AllRatings
    BY <2>0, RequestType
  <2>b. mem[a] \in Locals
    BY DEF TypeOK
  <2>1. CASE ReadProgress(a)
    <3>1. progress[u][c].memory \in Memories
      BY <2>a DEF TypeOK, ProgressRows
    <3>2. Review(progress[u][c].memory, req[a].rating) \in Memories
      BY <2>a, <3>1, ReviewAddsOne
    <3>3. mem' \in [Answers -> Locals]
      BY <2>1, <2>b, <3>2 DEF ReadProgress, TypeOK, Locals
    <3> QED
      BY <2>0, <2>1, <3>3 DEF ReadProgress, Goto, TypeOK, tables, Steps
  <2>2. CASE RecordReview(a)
    <3>1. progress' \in [Users -> [Cards -> ProgressRows]]
      <4> DEFINE row == progress[u][c]
                 new == [times_reviewed |-> row.times_reviewed + 1,
                         times_correct |-> row.times_correct
                                             + (IF Correct(req[a].rating) THEN 1 ELSE 0),
                         memory |-> mem[a].memory]
      <4>1. row \in ProgressRows /\ progress[u] \in [Cards -> ProgressRows]
        BY <2>a DEF TypeOK
      <4>2. new \in ProgressRows
        BY <2>b, <4>1 DEF ProgressRows, Locals
      <4>3. \/ progress' = progress
            \/ progress' = [progress EXCEPT ![u] = [progress[u] EXCEPT ![c] = new]]
        BY <2>2, <2>a DEF RecordReview, TypeOK
      <4>4. [progress[u] EXCEPT ![c] = new] \in [Cards -> ProgressRows]
        BY <2>a, <4>1, <4>2
      <4> HIDE DEF new, row
      <4> QED
        BY <2>a, <4>3, <4>4 DEF TypeOK
    <3> QED
      BY <2>0, <2>2, <3>1, ZenonT(30) DEF RecordReview, Goto, TypeOK, Steps, Outcomes
  <2>3. CASE BumpTally(a)
    <3>1. session' \in [Sessions -> SessionRows]
      <4> DEFINE k == IF Correct(req[a].rating) THEN 1 ELSE 0
                 new == [session[s] EXCEPT !.cards_studied = @ + 1,
                                           !.correct_count = @ + k]
      <4>1. session[s] \in SessionRows /\ k \in {0, 1}
        BY <2>a DEF TypeOK
      <4>2. new \in SessionRows
        <5> HIDE DEF k
        <5> QED
          BY <4>1, TalliedType
      <4>3. session' = session \/ session' = [session EXCEPT ![s] = new]
        BY <2>3, <2>a DEF BumpTally, TypeOK
      <4> HIDE DEF new
      <4> QED
        BY <2>a, <4>2, <4>3 DEF TypeOK
    <3>2. mem' \in [Answers -> Locals]
      <4> DEFINE b == start[s] \in {"idle", "insert"}
                 m == [mem[a] EXCEPT !.early = b]
      <4>1. mem' = [mem EXCEPT ![a] = m]
        BY <2>3, <2>a DEF BumpTally, TypeOK
      <4>2. m \in Locals
        <5>1. b \in BOOLEAN
          OBVIOUS
        <5> HIDE DEF b
        <5> QED
          BY <2>b, <5>1, EarlyType
      <4> HIDE DEF m
      <4> QED
        BY <2>a, <4>1, <4>2 DEF TypeOK
    <3> QED
      BY <2>0, <2>3, <3>1, <3>2 DEF BumpTally, Goto, TypeOK, Steps
  <2>4. CASE LogAnswer(a)
    <3>1. log' \subseteq Answers
      BY <2>4 DEF LogAnswer, TypeOK
    <3>2. \E step \in {"load", "failed"} : pc' = [pc EXCEPT ![a] = step]
      BY <2>4 DEF LogAnswer, Goto
    <3> QED
      BY <2>0, <2>4, <3>1, <3>2 DEF LogAnswer, TypeOK, Steps, Outcomes
  <2>5. CASE LoadSession(a)
    <3>1. mem' \in [Answers -> Locals]
      BY <2>5, <2>a, <2>b DEF LoadSession, TypeOK, Locals
    <3> QED
      BY <2>0, <2>5, <3>1 DEF LoadSession, Goto, TypeOK, tables, Steps
  <2>6. CASE CountMastered(a)
    <3>1. mem' \in [Answers -> Locals]
      BY <2>6, <2>b, PercentType DEF CountMastered, TypeOK, Locals
    <3> QED
      BY <2>0, <2>6, <3>1 DEF CountMastered, Goto, TypeOK, tables, Steps
  <2>7. CASE WriteMastery(a)
    <3>1. mastery' \in [Users -> [Decks -> 0..100]]
      BY <2>7, <2>a, <2>b DEF WriteMastery, TypeOK, Locals
    <3> QED
      BY <2>0, <2>7, <3>1 DEF WriteMastery, AfterMastery, Goto, TypeOK, Steps, Outcomes
  <2>8. CASE MarkCompleted(a)
    <3>1. session' \in [Sessions -> SessionRows]
      <4>1. session[s] \in SessionRows /\ session[s].live \in BOOLEAN
        BY <2>a DEF TypeOK, SessionRows
      <4>2. [session[s] EXCEPT !.completed = session[s].live] \in SessionRows
        BY <4>1, FlaggedType
      <4>3. session' = [session EXCEPT ![s] = [session[s] EXCEPT !.completed = session[s].live]]
        BY <2>8, <2>a DEF MarkCompleted, TypeOK
      <4> QED
        BY <2>a, <4>2, <4>3 DEF TypeOK
    <3> QED
      BY <2>0, <2>8, <3>1 DEF MarkCompleted, Goto, TypeOK, Steps
  <2>9. CASE ReloadSession(a)
    <3>1. mem' \in [Answers -> Locals]
      <4> DEFINE new == [mem[a] EXCEPT !.studied = session[s].cards_studied,
                                       !.correct = session[s].correct_count,
                                       !.today = day]
      <4>1. session[s].cards_studied \in Nat /\ session[s].correct_count \in Nat
        BY <2>a DEF TypeOK, SessionRows
      <4>2. new \in Locals
        BY <2>b, <4>1, ReloadedType DEF TypeOK
      <4>3. mem' = mem \/ mem' = [mem EXCEPT ![a] = new]
        BY <2>9 DEF ReloadSession, TypeOK
      <4> HIDE DEF new
      <4> QED
        BY <4>2, <4>3 DEF TypeOK
    <3> QED
      BY <2>0, <2>9, <3>1, ZenonT(30) DEF ReloadSession, Goto, TypeOK, tables, Steps, Outcomes
  <2>10. CASE CreditUser(a)
    <3>1. PICK today \in mem[a].today..day :
            /\ stats' = [stats EXCEPT ![SessionUser[s]] =
                           Updated(@, mem[a].studied, mem[a].correct, today)]
            /\ mem' = [mem EXCEPT ![a].today = today]
      BY <2>10 DEF CreditUser
    <3>2. today \in Days
      BY <2>b DEF TypeOK, Locals, Days
    <3>3. Updated(stats[SessionUser[s]], mem[a].studied, mem[a].correct, today) \in StatsRows
      <4>1. today \in Nat \ {0}
        BY <3>2 DEF Days
      <4>2. stats[SessionUser[s]] \in StatsRows
        BY <2>a DEF TypeOK
      <4> QED
        BY <2>b, <4>1, <4>2, UpdatedType DEF Locals
    <3>4. stats' \in [Users -> StatsRows]
      BY <2>a, <3>1, <3>3 DEF TypeOK
    <3>5. mem' \in [Answers -> Locals]
      BY <2>b, <3>1, <3>2 DEF TypeOK, Locals
    <3> QED
      BY <2>0, <2>10, <3>4, <3>5 DEF CreditUser, Goto, TypeOK, Outcomes
  <2> QED
    BY <1>7, <2>1, <2>2, <2>3, <2>4, <2>5, <2>6, <2>7, <2>8, <2>9, <2>10 DEF Answer
<1>8. ASSUME NEW a \in Answers, StatementFails(a) PROVE TypeOK'
  <2>0. pc[a] # "idle"
    BY <1>8 DEF StatementFails
  <2>1. req[a].rating \in AllRatings
    BY <2>0, RequestType
  <2>2. Review(NewMemory, req[a].rating) \in Memories
    BY <2>1, NewMemoryType, ReviewAddsOne
  <2>3. mem' \in [Answers -> Locals]
    <3>1. mem[a] \in Locals
      BY DEF TypeOK
    <3>2. [mem[a] EXCEPT !.memory = Review(NewMemory, req[a].rating)] \in Locals
      BY <2>2, <3>1, MemorisedType
    <3>3. [mem[a] EXCEPT !.deck = NoDeck] \in Locals
      BY <3>1 DEF Locals
    <3>4. \/ mem' = mem
          \/ mem' = [mem EXCEPT ![a] = [mem[a] EXCEPT !.memory =
                                          Review(NewMemory, req[a].rating)]]
          \/ mem' = [mem EXCEPT ![a] = [mem[a] EXCEPT !.deck = NoDeck]]
      BY <1>8 DEF StatementFails, TypeOK
    <3> QED
      BY <3>2, <3>3, <3>4 DEF TypeOK
  <2>4. pc' \in [Answers -> {"idle"} \cup Steps \cup Outcomes]
    BY <1>8, ZenonT(30) DEF StatementFails, AfterMastery, Goto, TypeOK, Steps, Outcomes
  <2>5. \A b \in Answers : pc'[b] # "idle" => pc[b] # "idle"
    BY <1>8, <2>0 DEF StatementFails, AfterMastery, Goto, TypeOK
  <2> QED
    BY <1>8, <2>3, <2>4, <2>5 DEF StatementFails, TypeOK, tables
<1>9. ASSUME NEW a \in Answers, HandlerDies(a) PROVE TypeOK'
  BY <1>9 DEF HandlerDies, Goto, TypeOK, tables, Steps, Outcomes
<1>10. ASSUME NEW c \in Cards, CreateCard(c) PROVE TypeOK'
  BY <1>10 DEF CreateCard, TypeOK, handlers
<1>a. NoProgress \in ProgressRows
  BY NewMemoryType DEF NoProgress, ProgressRows
<1>11. ASSUME NEW c \in Cards, DeleteCard(c) PROVE TypeOK'
  BY <1>11, <1>a DEF DeleteCard, ForgetCards, TypeOK, handlers
<1>12. ASSUME NEW d \in Decks, DeleteDeck(d) PROVE TypeOK'
  <2>1. mastery' \in [Users -> [Decks -> 0..100]]
    BY <1>12 DEF DeleteDeck, TypeOK
  <2>2. session' \in [Sessions -> SessionRows]
    BY <1>12 DEF DeleteDeck, TypeOK, NoSession, SessionRows
  <2> QED
    BY <1>12, <1>a, <2>1, <2>2 DEF DeleteDeck, ForgetCards, TypeOK, handlers
<1>13. CASE NextDay
  BY <1>13 DEF NextDay, TypeOK, tables, handlers, Days
<1>14. CASE UNCHANGED vars
  BY <1>14 DEF vars, TypeOK, tables, handlers
<1> QED
  BY <1>1, <1>2, <1>3, <1>4, <1>5, <1>6, <1>7, <1>8, <1>9, <1>10, <1>11, <1>12,
     <1>13, <1>14 DEF Next

\* Every table row, request and local variable the model can reach is of its
\* type; in particular mastery_percent stays within its CHECK.
THEOREM TypeCorrect == Spec => []TypeOK
<1>1. TypeOK /\ [Next]_vars => TypeOK'
  BY NextType
<1> QED
  BY InitType, <1>1, PTL DEF Spec

-----------------------------------------------------------------------------
(* What the memory of a card accounts for *)

CorrectOf(rating) == IF Correct(rating) THEN 1 ELSE 0

\* What the row of a card will accept: MemoryAccounted after the upsert.
Accepts(row, memory, rating) ==
  /\ memory.reps + memory.lapses <= row.times_reviewed + 1
  /\ memory.lapses + row.times_correct + CorrectOf(rating) <= row.times_reviewed + 1

\* MemoryAccounted is not inductive: the memory a request computed may be written
\* long after it was read.  But the counts only grow while the card is there.
PendingMemory ==
  \A a \in Answers :
    (pc[a] = "review" /\ card[req[a].card] # "gone") =>
       Accepts(progress[req[a].user][req[a].card], mem[a].memory, req[a].rating)

MemoryInv == MemoryAccounted /\ PendingMemory

\* A start and a card never go back to where they were.
Unsaved == {"idle", "insert"}
Saved   == {"bookmark", "started"}

LEMMA StartOnward ==
  ASSUME TypeOK, [Next]_vars, NEW s \in Sessions
  PROVE  /\ start'[s] \in Unsaved => start[s] \in Unsaved
         /\ start[s] \in Saved => start'[s] \in Saved
         /\ start[s] = "started" => start'[s] = "started"
<1>1. ASSUME NEW b \in Answers,
             Submit(b) \/ Answer(b) \/ StatementFails(b) \/ HandlerDies(b)
      PROVE  UNCHANGED start
  BY <1>1 DEF Submit, Answer, ReadProgress, RecordReview, BumpTally, LogAnswer,
     LoadSession, CountMastered, WriteMastery, MarkCompleted, ReloadSession, CreditUser,
     StatementFails, HandlerDies
<1>2. ASSUME NEW t \in Sessions,
             BeginStart(t) \/ InsertSession(t) \/ AddBookmark(t) \/ StartFails(t)
      PROVE  /\ start'[s] \in Unsaved => start[s] \in Unsaved
             /\ start[s] \in Saved => start'[s] \in Saved
             /\ start[s] = "started" => start'[s] = "started"
  BY <1>2 DEF BeginStart, InsertSession, AddBookmark, StartFails, TypeOK, Unsaved, Saved
<1> QED
  BY <1>1, <1>2 DEF Next, Stop, CreateCard, DeleteCard, DeleteDeck, NextDay, vars, handlers

LEMMA CardOnward ==
  ASSUME TypeOK, [Next]_vars, NEW c \in Cards, card[c] # "new"
  PROVE  card'[c] # "new"
<1>1. ASSUME NEW b \in Answers,
             Submit(b) \/ Answer(b) \/ StatementFails(b) \/ HandlerDies(b)
      PROVE  UNCHANGED card
  BY <1>1 DEF Submit, Answer, ReadProgress, RecordReview, BumpTally, LogAnswer,
     LoadSession, CountMastered, WriteMastery, MarkCompleted, ReloadSession, CreditUser,
     StatementFails, HandlerDies, tables
<1>2. ASSUME NEW gone, ForgetCards(gone) PROVE card'[c] # "new"
  BY <1>2 DEF ForgetCards
<1>3. ASSUME NEW k \in Cards, CreateCard(k) PROVE card'[c] # "new"
  BY <1>3 DEF CreateCard, TypeOK
<1>4. ASSUME NEW s \in Sessions,
             BeginStart(s) \/ InsertSession(s) \/ AddBookmark(s) \/ StartFails(s)
      PROVE  UNCHANGED card
  BY <1>4 DEF BeginStart, InsertSession, AddBookmark, StartFails, tables
<1> QED
  BY <1>1, <1>2, <1>3, <1>4 DEF Next, Stop, DeleteCard, DeleteDeck, NextDay, vars, tables

\* A step that writes no progress, brings no request to its upsert and leaves
\* those there alone.
LEMMA MemoryFrame ==
  ASSUME MemoryInv, progress' = progress,
         \A a \in Answers : pc'[a] = "review" =>
            /\ pc[a] = "review" /\ req'[a] = req[a]
            /\ mem'[a].memory = mem[a].memory
            /\ card'[req[a].card] # "gone" => card[req[a].card] # "gone"
  PROVE  MemoryInv'
<1>1. MemoryAccounted'
  BY DEF MemoryInv, MemoryAccounted
<1>2. ASSUME NEW a \in Answers, pc'[a] = "review", card'[req'[a].card] # "gone"
      PROVE  Accepts(progress'[req'[a].user][req'[a].card], mem'[a].memory, req'[a].rating)
  <2>1. /\ pc[a] = "review" /\ req'[a] = req[a] /\ mem'[a].memory = mem[a].memory
        /\ card[req[a].card] # "gone"
    BY <1>2
  <2>2. Accepts(progress[req[a].user][req[a].card], mem[a].memory, req[a].rating)
    BY <2>1 DEF MemoryInv, PendingMemory
  <2> QED
    BY <2>1, <2>2 DEF Accepts
<1> QED
  BY <1>1, <1>2 DEF MemoryInv, PendingMemory, Accepts

\* A memory computed from the row, or from no row at all, can be written to it.
LEMMA ReviewAccepted ==
  ASSUME NEW row \in ProgressRows, NEW rating \in AllRatings,
         row.memory.reps + row.memory.lapses <= row.times_reviewed,
         row.memory.lapses + row.times_correct <= row.times_reviewed
  PROVE  /\ Accepts(row, Review(row.memory, rating), rating)
         /\ Accepts(row, Review(NewMemory, rating), rating)
<1>0. /\ row.times_reviewed \in Nat /\ row.times_correct \in Nat
      /\ row.memory \in Memories
      /\ row.memory.reps \in Nat /\ row.memory.lapses \in Nat
  BY DEF ProgressRows, Memories
<1>1. CorrectOf(rating) = 0 \/ (CorrectOf(rating) = 1 /\ rating # Again)
  BY DEF CorrectOf, Correct, Good, Again, AllRatings, Easy
<1>2. Accepts(row, Review(row.memory, rating), rating)
  <2> DEFINE n == Review(row.memory, rating)
  <2>1. /\ n.reps + n.lapses = row.memory.reps + row.memory.lapses + 1
        /\ n.lapses = row.memory.lapses + (IF rating = Again THEN 1 ELSE 0)
    BY <1>0, ReviewAddsOne
  <2> HIDE DEF n
  <2>2. Accepts(row, n, rating)
    BY <1>0, <1>1, <2>1 DEF Accepts
  <2> QED
    BY <2>2 DEF n
<1>3. Accepts(row, Review(NewMemory, rating), rating)
  <2> DEFINE n == Review(NewMemory, rating)
  <2>1. n.reps + n.lapses = 1 /\ n.lapses = (IF rating = Again THEN 1 ELSE 0)
    BY NewMemoryType, ReviewAddsOne
  <2> HIDE DEF n
  <2>2. Accepts(row, n, rating)
    BY <1>0, <1>1, <2>1 DEF Accepts
  <2> QED
    BY <2>2 DEF n
<1> QED
  BY <1>2, <1>3

LEMMA NextMemory ==
  TypeOK /\ MemoryInv /\ [Next]_vars => MemoryInv'
<1> SUFFICES ASSUME TypeOK, MemoryInv, [Next]_vars PROVE MemoryInv'
  OBVIOUS
<1>0. \A a \in Answers : pc[a] # "idle" =>
         /\ req[a].user \in Users /\ req[a].card \in Cards /\ req[a].rating \in AllRatings
         /\ progress[req[a].user][req[a].card] \in ProgressRows
  <2> SUFFICES ASSUME NEW a \in Answers, pc[a] # "idle"
               PROVE  /\ req[a].user \in Users /\ req[a].card \in Cards
                      /\ req[a].rating \in AllRatings
                                   /\ progress[req[a].user][req[a].card] \in ProgressRows
    OBVIOUS
  <2>1. req[a].user \in Users /\ req[a].card \in Cards /\ req[a].rating \in AllRatings
    BY RequestType
  <2> QED
    BY <2>1 DEF TypeOK
\* The steps that bring a memory to the upsert.
<1>1. ASSUME NEW a \in Answers, pc[a] = "read",
             progress' = progress, card' = card, req' = req,
             pc' = [pc EXCEPT ![a] = "review"],
             \E m \in {progress[req[a].user][req[a].card].memory, NewMemory} :
               mem' = [mem EXCEPT ![a].memory = Review(m, req[a].rating)]
      PROVE  MemoryInv'
  <2> DEFINE row == progress[req[a].user][req[a].card]
  <2>1. PICK m \in {row.memory, NewMemory} :
               mem' = [mem EXCEPT ![a].memory = Review(m, req[a].rating)]
    BY <1>1
  <2>2. /\ row \in ProgressRows
        /\ row.memory.reps + row.memory.lapses <= row.times_reviewed
        /\ row.memory.lapses + row.times_correct <= row.times_reviewed
    BY <1>0, <1>1 DEF MemoryInv, MemoryAccounted
  <2>3. Accepts(row, Review(m, req[a].rating), req[a].rating)
    BY <1>0, <1>1, <2>2, ReviewAccepted
  <2>4. mem'[a].memory = Review(m, req[a].rating)
    BY <2>1 DEF TypeOK, Locals
  <2>5. MemoryAccounted'
    BY <1>1 DEF MemoryInv, MemoryAccounted
  <2>6. ASSUME NEW b \in Answers, pc'[b] = "review", card'[req'[b].card] # "gone"
        PROVE  Accepts(progress'[req'[b].user][req'[b].card], mem'[b].memory, req'[b].rating)
    <3>1. CASE b = a
      BY <1>1, <2>3, <2>4, <3>1 DEF Accepts
    <3>2. CASE b # a
      <4>1. pc[b] = "review" /\ mem'[b] = mem[b] /\ card[req[b].card] # "gone"
        BY <1>1, <2>1, <2>6, <3>2 DEF TypeOK
      <4> QED
        BY <1>1, <4>1 DEF MemoryInv, PendingMemory, Accepts
    <3> QED
      BY <3>1, <3>2
  <2> QED
    BY <2>5, <2>6 DEF MemoryInv, PendingMemory, Accepts
\* The upsert.
<1>2. ASSUME NEW a \in Answers, RecordReview(a) PROVE MemoryInv'
  <2>1. CASE card[req[a].card] # "live"
    BY <1>2, <2>1, MemoryFrame DEF RecordReview, Goto, TypeOK
  <2>2. CASE card[req[a].card] = "live"
    <3> DEFINE u == req[a].user
               c == req[a].card
               row == progress[u][c]
               new == [times_reviewed |-> row.times_reviewed + 1,
                       times_correct |-> row.times_correct + CorrectOf(req[a].rating),
                       memory |-> mem[a].memory]
    <3>1. pc[a] = "review" /\ u \in Users /\ c \in Cards /\ row \in ProgressRows
      BY <1>0, <1>2 DEF RecordReview
    <3>2. /\ progress' = [progress EXCEPT ![u][c] = new]
          /\ UNCHANGED <<card, req, mem>> /\ pc' = [pc EXCEPT ![a] = "bump"]
      BY <1>2, <2>2 DEF RecordReview, Goto, CorrectOf
    <3>3. Accepts(row, mem[a].memory, req[a].rating)
      BY <2>2, <3>1 DEF MemoryInv, PendingMemory
    <3>4. CorrectOf(req[a].rating) \in {0, 1}
      BY DEF CorrectOf
    <3>5. /\ row.times_reviewed \in Nat /\ row.times_correct \in Nat
          /\ mem[a].memory.reps \in Nat /\ mem[a].memory.lapses \in Nat
      BY <3>1 DEF ProgressRows, TypeOK, Locals, Memories
    <3>6. \A v \in Users, k \in Cards :
             progress'[v][k] = IF v = u /\ k = c THEN new ELSE progress[v][k]
      BY <3>1, <3>2 DEF TypeOK
    <3>7. /\ new.memory.reps + new.memory.lapses <= new.times_reviewed
          /\ new.memory.lapses + new.times_correct <= new.times_reviewed
      BY <3>3, <3>4, <3>5 DEF Accepts
    <3>8. MemoryAccounted'
      BY <3>6, <3>7 DEF MemoryInv, MemoryAccounted
    <3>9. ASSUME NEW b \in Answers, pc'[b] = "review", card'[req'[b].card] # "gone"
          PROVE  Accepts(progress'[req'[b].user][req'[b].card], mem'[b].memory, req'[b].rating)
      <4> DEFINE old == progress[req[b].user][req[b].card]
      <4>1. /\ pc[b] = "review" /\ mem'[b] = mem[b] /\ req'[b] = req[b]
            /\ card[req[b].card] # "gone"
        BY <3>1, <3>2, <3>9 DEF TypeOK
      <4>2. req[b].user \in Users /\ req[b].card \in Cards /\ old \in ProgressRows
        BY <1>0, <4>1
      <4>3. Accepts(old, mem[b].memory, req[b].rating)
        BY <4>1 DEF MemoryInv, PendingMemory
      <4>4. CASE req[b].user = u /\ req[b].card = c
        <5>1. progress'[req[b].user][req[b].card] = new /\ old = row
          BY <3>6, <4>2, <4>4
        <5>2. /\ new.times_reviewed = row.times_reviewed + 1
              /\ new.times_correct = row.times_correct + CorrectOf(req[a].rating)
          OBVIOUS
        <5>3. mem[b].memory.reps \in Nat /\ mem[b].memory.lapses \in Nat
              /\ CorrectOf(req[b].rating) \in {0, 1}
          BY DEF TypeOK, Locals, Memories, CorrectOf
        <5> HIDE DEF new, row, old
        <5>4. Accepts(new, mem[b].memory, req[b].rating)
          BY <3>4, <3>5, <4>3, <5>1, <5>2, <5>3 DEF Accepts
        <5> QED
          BY <4>1, <5>1, <5>4
      <4>5. CASE ~(req[b].user = u /\ req[b].card = c)
        <5>1. progress'[req[b].user][req[b].card] = old
          BY <3>6, <4>2, <4>5
        <5> QED
          BY <4>1, <4>3, <5>1
      <4> QED
        BY <4>4, <4>5
    <3> QED
      BY <3>8, <3>9 DEF MemoryInv, PendingMemory, Accepts
  <2> QED
    BY <2>1, <2>2
\* The deletions: a deleted card accepts nothing any more.
<1>3. ASSUME NEW gone \in SUBSET Cards, ForgetCards(gone), UNCHANGED handlers
      PROVE  MemoryInv'
  <2>1. \A u \in Users, c \in Cards :
           progress'[u][c] = IF c \in gone THEN NoProgress ELSE progress[u][c]
    BY <1>3 DEF ForgetCards
  <2>2. \A c \in Cards : card'[c] = IF c \in gone THEN "gone" ELSE card[c]
    BY <1>3 DEF ForgetCards
  <2>3. MemoryAccounted'
    BY <2>1, NewMemoryType DEF MemoryInv, MemoryAccounted, NoProgress
  <2>4. ASSUME NEW b \in Answers, pc'[b] = "review", card'[req'[b].card] # "gone"
        PROVE  Accepts(progress'[req'[b].user][req'[b].card], mem'[b].memory, req'[b].rating)
    <3>1. pc[b] = "review" /\ mem' = mem /\ req' = req
      BY <1>3, <2>4 DEF handlers
    <3>2. req[b].user \in Users /\ req[b].card \in Cards
      BY <1>0, <3>1
    <3>3. card[req[b].card] # "gone" /\ req[b].card \notin gone
      BY <2>2, <2>4, <3>1, <3>2
    <3>4. progress'[req[b].user][req[b].card] = progress[req[b].user][req[b].card]
      BY <2>1, <3>2, <3>3
    <3> QED
      BY <3>1, <3>3, <3>4 DEF MemoryInv, PendingMemory, Accepts
  <2> QED
    BY <2>3, <2>4 DEF MemoryInv, PendingMemory, Accepts
\* All others.
<1>4. ASSUME NEW s \in Sessions,
             BeginStart(s) \/ InsertSession(s) \/ AddBookmark(s) \/ StartFails(s)
      PROVE  MemoryInv'
  BY <1>4, MemoryFrame DEF BeginStart, InsertSession, AddBookmark, StartFails, tables
<1>5. ASSUME NEW u \in Users, NEW d \in Decks, Stop(u, d) PROVE MemoryInv'
  BY <1>5, MemoryFrame DEF Stop, handlers
<1>6. ASSUME NEW a \in Answers, Submit(a) PROVE MemoryInv'
  BY <1>6, MemoryFrame DEF Submit, Goto, TypeOK, tables
<1>7. ASSUME NEW a \in Answers, Answer(a) PROVE MemoryInv'
  <2>1. CASE ReadProgress(a)
    BY <1>1, <2>1 DEF ReadProgress, Goto, tables
  <2>2. CASE RecordReview(a)
    BY <1>2, <2>2
  <2>3. CASE BumpTally(a) \/ LogAnswer(a) \/ MarkCompleted(a)
    BY <2>3, MemoryFrame DEF BumpTally, LogAnswer, MarkCompleted, Goto, TypeOK
  <2>4. CASE LoadSession(a) \/ CountMastered(a)
    BY <2>4, MemoryFrame DEF LoadSession, CountMastered, Goto, TypeOK, tables
  <2>5. CASE WriteMastery(a)
    BY <2>5, MemoryFrame DEF WriteMastery, AfterMastery, Goto, TypeOK
  <2>6. CASE ReloadSession(a)
    BY <2>6, MemoryFrame DEF ReloadSession, Goto, TypeOK, tables
  <2>7. CASE CreditUser(a)
    BY <2>7, MemoryFrame DEF CreditUser, Goto, TypeOK
  <2> QED
    BY <1>7, <2>1, <2>2, <2>3, <2>4, <2>5, <2>6, <2>7 DEF Answer
<1>8. ASSUME NEW a \in Answers, StatementFails(a) PROVE MemoryInv'
  <2>1. CASE pc[a] = "read"
    BY <1>1, <1>8, <2>1 DEF StatementFails, Goto, tables
  <2>2. CASE pc[a] # "read"
    BY <1>8, <2>2, MemoryFrame DEF StatementFails, AfterMastery, Goto, TypeOK, tables
  <2> QED
    BY <2>1, <2>2
<1>9. ASSUME NEW a \in Answers, HandlerDies(a) PROVE MemoryInv'
  BY <1>9, MemoryFrame DEF HandlerDies, Goto, TypeOK, tables
<1>10. ASSUME NEW c \in Cards, CreateCard(c) PROVE MemoryInv'
  <2>1. \A a \in Answers : pc[a] = "review" =>
           (card'[req[a].card] # "gone" => card[req[a].card] # "gone")
    BY <1>0, <1>10 DEF CreateCard, TypeOK
  <2> QED
    BY <1>10, <2>1, MemoryFrame DEF CreateCard, handlers
<1>11. ASSUME NEW c \in Cards, DeleteCard(c) PROVE MemoryInv'
  BY <1>3, <1>11 DEF DeleteCard
<1>12. ASSUME NEW d \in Decks, DeleteDeck(d) PROVE MemoryInv'
  <2>1. CardsOf(d) \in SUBSET Cards
    BY DEF CardsOf
  <2> QED
    BY <1>3, <1>12, <2>1 DEF DeleteDeck
<1>13. CASE NextDay
  BY <1>13, MemoryFrame DEF NextDay, tables, handlers
<1>14. CASE UNCHANGED vars
  BY <1>14, MemoryFrame DEF vars, tables, handlers
<1> QED
  BY <1>4, <1>5, <1>6, <1>7, <1>8, <1>9, <1>10, <1>11, <1>12, <1>13, <1>14 DEF Next

\* However many reviews of a card overlap, fail or read nothing, its repetitions
\* and lapses stay within its review counts.
THEOREM MemoryTheorem == Spec => []MemoryAccounted
<1>1. Init => MemoryInv
  <2> SUFFICES ASSUME Init PROVE MemoryInv
    OBVIOUS
  <2>1. \A a \in Answers : pc[a] = "idle"
    BY DEF Init
  <2>2. MemoryAccounted
    BY NewMemoryType DEF Init, MemoryAccounted, NoProgress
  <2> QED
    BY <2>1, <2>2 DEF MemoryInv, PendingMemory
<1>2. MemoryInv => MemoryAccounted
  BY DEF MemoryInv
<1> QED
  BY TypeCorrect, NextMemory, <1>1, <1>2, PTL DEF Spec

-----------------------------------------------------------------------------
(* What the log accounts for *)

\* The answers a tally, and the progress of a card, must have counted: those that
\* are logged and those on their way there.
Bumped   == {a \in Answers : pc[a] = "log" \/ a \in log}
Recorded == {a \in Answers : pc[a] \in {"bump", "log"} \/ a \in log}

BumpedIn(s)       == {a \in Bumped : req[a].session = s /\ ~mem[a].early}
RecordedFor(u, c) == {a \in Recorded : req[a].user = u /\ req[a].card = c}

\* Only a row that is there counts; one that was deleted took its log along, and
\* the foreign key keeps later answers out.  Answers may name a session that is
\* not there yet, but those are early, and the foreign key refuses a new card.
Tallied(s) ==
  IF session[s].live
    THEN /\ Cardinality(BumpedIn(s)) <= session[s].cards_studied
         /\ Cardinality(CorrectIn(BumpedIn(s))) <= session[s].correct_count
    ELSE LoggedIn(s) = {}

TallyCounts(s) ==
  /\ session[s].live => start[s] \in Saved
  /\ start[s] \in Unsaved => BumpedIn(s) = {}
  /\ Tallied(s)

RowCounts(u, c) ==
  IF card[c] = "live"
    THEN /\ Cardinality(RecordedFor(u, c)) <= progress[u][c].times_reviewed
         /\ Cardinality(CorrectIn(RecordedFor(u, c))) <= progress[u][c].times_correct
    ELSE LoggedFor(u, c) = {}

ProgressCounts(u, c) ==
  /\ card[c] = "new" => RecordedFor(u, c) = {}
  /\ RowCounts(u, c)

LogInv ==
  /\ \A a \in log : pc[a] # "idle"
  /\ \A s \in Sessions : TallyCounts(s)
  /\ \A u \in Users, c \in Cards : ProgressCounts(u, c)

\* Counting fewer answers, or one more.
LEMMA CountFewer ==
  ASSUME NEW T \in SUBSET Answers, NEW S \in SUBSET T, NEW n \in Nat, Cardinality(T) <= n
  PROVE  Cardinality(S) <= n
<1>1. IsFiniteSet(T)
  BY FS_Subset, StudyAssumption
<1>2. IsFiniteSet(S) /\ Cardinality(S) <= Cardinality(T)
  BY <1>1, FS_Subset
<1> QED
  BY <1>1, <1>2, FS_CardinalityType

LEMMA CountOneMore ==
  ASSUME NEW T \in SUBSET Answers, NEW a \in Answers, NEW S \in SUBSET (T \cup {a}),
         NEW n \in Nat, Cardinality(T) <= n
  PROVE  Cardinality(S) <= n + 1
<1>1. IsFiniteSet(T)
  BY FS_Subset, StudyAssumption
<1>2. Cardinality(T) \in Nat /\ Cardinality(T \cup {a}) <= Cardinality(T) + 1
  BY <1>1, FS_AddElement, FS_CardinalityType, SMTT(30)
<1>3. T \cup {a} \in SUBSET Answers /\ Cardinality(T) + 1 \in Nat
  BY <1>2
<1>4. Cardinality(S) <= Cardinality(T) + 1
  BY <1>2, <1>3, CountFewer
<1>5. Cardinality(S) \in Nat
  BY <1>3, FS_Subset, FS_CardinalityType, StudyAssumption
<1> QED
  BY <1>2, <1>4, <1>5

\* A request keeps its contents, and only one step brings it to each of the
\* program points that count.
LEMMA RequestKept ==
  ASSUME TypeOK, [Next]_vars, NEW a \in Answers, pc[a] # "idle"
  PROVE  req'[a] = req[a] /\ pc'[a] # "idle"
<1>1. ASSUME NEW b \in Answers, Submit(b) PROVE req'[a] = req[a] /\ pc'[a] # "idle"
  BY <1>1 DEF Submit, Goto, TypeOK
<1>2. ASSUME NEW b \in Answers, Answer(b) PROVE req'[a] = req[a] /\ pc'[a] # "idle"
  BY <1>2, ZenonT(30) DEF Answer, ReadProgress, RecordReview, BumpTally, LogAnswer, LoadSession,
     CountMastered, WriteMastery, AfterMastery, MarkCompleted, ReloadSession,
     CreditUser, Goto, TypeOK
<1>3. ASSUME NEW b \in Answers, StatementFails(b) \/ HandlerDies(b)
      PROVE  req'[a] = req[a] /\ pc'[a] # "idle"
  BY <1>3 DEF StatementFails, HandlerDies, AfterMastery, Goto, TypeOK, Steps
<1>4. ASSUME UNCHANGED <<pc, req>> PROVE req'[a] = req[a] /\ pc'[a] # "idle"
  BY <1>4
<1> QED
  BY <1>1, <1>2, <1>3, <1>4 DEF Next, BeginStart, InsertSession, AddBookmark,
     StartFails, Stop, CreateCard, DeleteCard, DeleteDeck, NextDay, vars, handlers

LEMMA WhoCounts ==
  ASSUME TypeOK, [Next]_vars, NEW a \in Answers
  PROVE  /\ pc'[a] = "log" => pc[a] = "log" \/ BumpTally(a)
         /\ pc'[a] = "bump" => pc[a] = "bump" \/ RecordReview(a)
<1> DEFINE Goal == /\ pc'[a] = "log" => pc[a] = "log" \/ BumpTally(a)
                   /\ pc'[a] = "bump" => pc[a] = "bump" \/ RecordReview(a)
<1>1. ASSUME NEW b \in Answers, Submit(b) PROVE Goal
  BY <1>1 DEF Submit, Goto, TypeOK
<1>2. ASSUME NEW b \in Answers, Answer(b) PROVE Goal
  <2>1. CASE BumpTally(b)
    BY <2>1 DEF BumpTally, Goto, TypeOK
  <2>2. CASE RecordReview(b)
    BY <2>2 DEF RecordReview, Goto, TypeOK
  <2>3. CASE ~BumpTally(b) /\ ~RecordReview(b)
    <3>1. \E step : step \notin {"log", "bump"} /\ pc' = [pc EXCEPT ![b] = step]
      <4>1. CASE ReadProgress(b) \/ LogAnswer(b) \/ LoadSession(b) \/ CountMastered(b)
        BY <4>1 DEF ReadProgress, LogAnswer, LoadSession, CountMastered, Goto
      <4>2. CASE WriteMastery(b) \/ MarkCompleted(b) \/ ReloadSession(b) \/ CreditUser(b)
        BY <4>2 DEF WriteMastery, AfterMastery, MarkCompleted, ReloadSession,
           CreditUser, Goto
      <4> QED
        BY <1>2, <2>3, <4>1, <4>2 DEF Answer
    <3> QED
      BY <3>1 DEF TypeOK
  <2> QED
    BY <2>1, <2>2, <2>3
<1>3. ASSUME NEW b \in Answers, StatementFails(b) \/ HandlerDies(b) PROVE Goal
  BY <1>3 DEF StatementFails, HandlerDies, AfterMastery, Goto, TypeOK
<1>4. ASSUME UNCHANGED pc PROVE Goal
  BY <1>4
<1> QED
  BY <1>1, <1>2, <1>3, <1>4 DEF Next, BeginStart, InsertSession, AddBookmark,
     StartFails, Stop, CreateCard, DeleteCard, DeleteDeck, NextDay, vars, handlers

LEMMA WhoLogs ==
  ASSUME TypeOK, [Next]_vars, NEW a \in Answers, a \in log'
  PROVE  \/ a \in log
         \/ pc[a] = "log" /\ session[req[a].session].live /\ card[req[a].card] = "live"
            /\ UNCHANGED <<session, card>>
<1>1. ASSUME NEW b \in Answers, LogAnswer(b)
      PROVE  \/ a \in log
             \/ pc[a] = "log" /\ session[req[a].session].live /\ card[req[a].card] = "live"
                /\ UNCHANGED <<session, card>>
  BY <1>1 DEF LogAnswer
<1>2. ASSUME NEW b \in Answers, Answer(b), ~LogAnswer(b) PROVE log' = log
  BY <1>2 DEF Answer, ReadProgress, RecordReview, BumpTally, LoadSession,
     CountMastered, WriteMastery, MarkCompleted, ReloadSession, CreditUser, tables
<1> QED
  BY <1>1, <1>2 DEF Next, BeginStart, InsertSession, AddBookmark, StartFails, Stop,
     Submit, StatementFails, HandlerDies,
     CreateCard, DeleteCard, DeleteDeck, NextDay, vars, tables

\* Whether an answer was early is settled when it bumps the tally.
LEMMA EarlyKept ==
  ASSUME TypeOK, [Next]_vars, NEW a \in Answers
  PROVE  /\ ~BumpTally(a) => mem'[a].early = mem[a].early
         /\ BumpTally(a) => mem'[a].early = (start[req[a].session] \in Unsaved)
<1>0. mem[a] \in Locals
  BY DEF TypeOK
<1>1. ASSUME NEW b \in Answers, BumpTally(b), b # a PROVE mem'[a] = mem[a]
  BY <1>1 DEF BumpTally, TypeOK
<1>2. ASSUME BumpTally(a) PROVE mem'[a].early = (start[req[a].session] \in Unsaved)
  BY <1>0, <1>2 DEF BumpTally, TypeOK, Locals, Unsaved
<1>3. ASSUME NEW b \in Answers, Answer(b), ~BumpTally(b) PROVE mem'[a].early = mem[a].early
  <2>1. CASE RecordReview(b) \/ LogAnswer(b) \/ WriteMastery(b) \/ MarkCompleted(b)
    BY <2>1 DEF RecordReview, LogAnswer, WriteMastery, MarkCompleted
  <2>2. CASE ReadProgress(b)
    BY <1>0, <2>2 DEF ReadProgress, TypeOK, Locals
  <2>3. CASE LoadSession(b)
    BY <1>0, <2>3 DEF LoadSession, TypeOK, Locals
  <2>4. CASE CountMastered(b)
    BY <1>0, <2>4 DEF CountMastered, TypeOK, Locals
  <2>5. CASE ReloadSession(b)
    <3>1. CASE UNCHANGED mem
      BY <3>1
    <3>2. CASE ~UNCHANGED mem
      <4> DEFINE n == session[req[b].session].cards_studied
                 k == session[req[b].session].correct_count
      <4>1. mem' = [mem EXCEPT ![b].studied = n, ![b].correct = k, ![b].today = day]
        BY <2>5, <3>2 DEF ReloadSession
      <4> HIDE DEF n, k
      <4> QED
        BY <1>0, <4>1 DEF TypeOK, Locals
    <3> QED
      BY <3>1, <3>2
  <2>6. CASE CreditUser(b)
    BY <1>0, <2>6 DEF CreditUser, TypeOK, Locals
  <2> QED
    BY <1>3, <2>1, <2>2, <2>3, <2>4, <2>5, <2>6 DEF Answer
<1>4. ASSUME NEW b \in Answers, StatementFails(b) PROVE mem'[a].early = mem[a].early
  <2>1. CASE UNCHANGED mem
    BY <2>1
  <2>2. CASE mem' = [mem EXCEPT ![b].memory = Review(NewMemory, req[b].rating)]
    BY <1>0, <2>2 DEF TypeOK, Locals
  <2>3. CASE mem' = [mem EXCEPT ![b].deck = NoDeck]
    BY <1>0, <2>3 DEF TypeOK, Locals
  <2> QED
    BY <1>4, <2>1, <2>2, <2>3 DEF StatementFails
<1>5. ASSUME NEW b \in Answers, BumpTally(b) PROVE (UNCHANGED start /\ b = a) \/ mem'[a] = mem[a]
  BY <1>1, <1>5 DEF BumpTally
<1>6. BumpTally(a) \/ mem'[a].early = mem[a].early
  BY <1>1, <1>3, <1>4 DEF Next, BeginStart, InsertSession, AddBookmark,
     StartFails, Stop, Submit, HandlerDies, CreateCard, DeleteCard, DeleteDeck, NextDay,
     vars, handlers
<1> QED
  BY <1>2, <1>6

\* One answer bumps at a time.
LEMMA BumpsAlone ==
  ASSUME TypeOK, NEW a \in Answers, NEW b \in Answers, BumpTally(b),
         pc' = [pc EXCEPT ![a] = "log"]
  PROVE  b = a
BY DEF BumpTally, Goto, TypeOK

\* What a step can do to a tally: nothing, delete it, open it, or count an answer.
LEMMA TallyStep ==
  ASSUME TypeOK, [Next]_vars, NEW s \in Sessions
  PROVE  \/ /\ session'[s].live = session[s].live
            /\ session'[s].cards_studied = session[s].cards_studied
            /\ session'[s].correct_count = session[s].correct_count
            /\ session[s].live =>
                 \A a \in Answers : BumpTally(a) => req[a].session # s
         \/ session'[s] = NoSession /\ LoggedIn(s)' = {}
         \/ /\ start[s] = "insert"
            /\ start'[s] = "bookmark" \/ session'[s].live = session[s].live
            /\ session'[s].cards_studied = session[s].cards_studied
            /\ session'[s].correct_count = session[s].correct_count
         \/ \E a \in Answers :
              /\ req[a].session = s
              /\ pc[a] = "bump" /\ pc' = [pc EXCEPT ![a] = "log"]
              /\ req' = req /\ log' = log
              /\ session[s].live /\ session'[s].live
              /\ session'[s].cards_studied = session[s].cards_studied + 1
              /\ session'[s].correct_count =
                   session[s].correct_count + CorrectOf(req[a].rating)
<1> DEFINE Same == /\ session'[s].live = session[s].live
                   /\ session'[s].cards_studied = session[s].cards_studied
                   /\ session'[s].correct_count = session[s].correct_count
           Deleted == session'[s] = NoSession /\ LoggedIn(s)' = {}
           Opened == /\ start[s] = "insert"
                     /\ start'[s] = "bookmark" \/ session'[s].live = session[s].live
                     /\ session'[s].cards_studied = session[s].cards_studied
                     /\ session'[s].correct_count = session[s].correct_count
<1>0. session[s] \in SessionRows
  BY DEF TypeOK
<1>1. ASSUME NEW a \in Answers, BumpTally(a), req[a].session = s, session[s].live
      PROVE  /\ pc[a] = "bump" /\ pc' = [pc EXCEPT ![a] = "log"]
             /\ req' = req /\ log' = log
             /\ session'[s].live
             /\ session'[s].cards_studied = session[s].cards_studied + 1
             /\ session'[s].correct_count =
                  session[s].correct_count + CorrectOf(req[a].rating)
  <2> DEFINE k == CorrectOf(req[a].rating)
             new == [session[s] EXCEPT !.cards_studied = @ + 1, !.correct_count = @ + k]
  <2>1. /\ session' = [session EXCEPT ![s] = new]
        /\ pc[a] = "bump" /\ pc' = [pc EXCEPT ![a] = "log"]
        /\ req' = req /\ log' = log
    BY <1>1 DEF BumpTally, Goto, CorrectOf
  <2>2. session'[s] = new
    BY <2>1 DEF TypeOK
  <2>3. /\ new.live = session[s].live
        /\ new.cards_studied = session[s].cards_studied + 1
        /\ new.correct_count = session[s].correct_count + k
    <3> HIDE DEF k
    <3> QED
      BY <1>0 DEF SessionRows
  <2> HIDE DEF new
  <2> QED
    BY <1>1, <2>1, <2>2, <2>3
<1>2. ASSUME ~\E a \in Answers : BumpTally(a) /\ req[a].session = s /\ session[s].live
      PROVE  Same \/ Deleted \/ Opened
  <2>1. ASSUME NEW a \in Answers, BumpTally(a) PROVE Same
    <3>1. CASE req[a].session = s
      BY <1>2, <2>1, <3>1 DEF BumpTally
    <3>2. CASE req[a].session # s
      <4>1. session'[s] = session[s]
        BY <2>1, <3>2 DEF BumpTally, TypeOK
      <4> QED
        BY <4>1
    <3> QED
      BY <3>1, <3>2
  <2>2. ASSUME NEW a \in Answers, MarkCompleted(a) PROVE Same
    <3>1. PICK b \in BOOLEAN : session' = [session EXCEPT ![req[a].session].completed = b]
      BY <2>2, RequestType DEF MarkCompleted, TypeOK, SessionRows
    <3>2. session'[s] = session[s] \/ session'[s] = [session[s] EXCEPT !.completed = b]
      BY <3>1 DEF TypeOK
    <3>3. LET new == [session[s] EXCEPT !.completed = b] IN
            /\ new.live = session[s].live
            /\ new.cards_studied = session[s].cards_studied
            /\ new.correct_count = session[s].correct_count
      BY <1>0 DEF SessionRows
    <3> QED
      BY <3>2, <3>3
  <2>3. ASSUME NEW a \in Answers, Answer(a), ~BumpTally(a), ~MarkCompleted(a) PROVE Same
    BY <2>3 DEF Answer, ReadProgress, RecordReview, LogAnswer, LoadSession,
       CountMastered, WriteMastery, ReloadSession, CreditUser, tables
  <2>4. ASSUME NEW a \in Answers, Submit(a) \/ StatementFails(a) \/ HandlerDies(a) PROVE Same
    BY <2>4 DEF Submit, StatementFails, HandlerDies, tables
  <2>5. ASSUME NEW t \in Sessions,
               BeginStart(t) \/ InsertSession(t) \/ AddBookmark(t) \/ StartFails(t)
        PROVE  Same \/ Opened
    <3>1. CASE InsertSession(t) /\ t # s
      <4>1. session'[s] = session[s]
        BY <3>1 DEF InsertSession, TypeOK
      <4> QED
        BY <4>1
    <3>2. CASE InsertSession(s)
      <4>1. \/ session' = session
            \/ session' = [session EXCEPT ![s] = [session[s] EXCEPT !.live = TRUE]]
        BY <3>2 DEF InsertSession
      <4>2. session'[s] = session[s] \/ session'[s] = [session[s] EXCEPT !.live = TRUE]
        BY <4>1 DEF TypeOK
      <4>3. LET new == [session[s] EXCEPT !.live = TRUE] IN
              /\ new.cards_studied = session[s].cards_studied
              /\ new.correct_count = session[s].correct_count
        BY <1>0 DEF SessionRows
      <4> QED
        BY <3>2, <4>2, <4>3 DEF InsertSession, TypeOK, Unsaved
    <3> QED
      BY <2>5, <3>1, <3>2 DEF BeginStart, AddBookmark, StartFails, tables
  <2>6. ASSUME NEW u \in Users, NEW d \in Decks, Stop(u, d) PROVE Same \/ Deleted
    <3> DEFINE ended == {t \in Sessions : SessionUser[t] = u /\ SessionDeck[t] = d
                                          /\ session[t].live}
    <3>1. /\ session'[s] = IF s \in ended THEN NoSession ELSE session[s]
          /\ log' = {a \in log : req[a].session \notin ended}
          /\ req' = req
      BY <2>6 DEF Stop, handlers
    <3> HIDE DEF ended
    <3>2. CASE s \in ended
      <4>1. LoggedIn(s)' = {}
        BY <3>1, <3>2 DEF LoggedIn
      <4>2. session'[s] = NoSession
        BY <3>1, <3>2
      <4> QED
        BY <4>1, <4>2
    <3>3. CASE s \notin ended
      BY <3>1, <3>3
    <3> QED
      BY <3>2, <3>3
  <2>7. ASSUME NEW d \in Decks, DeleteDeck(d) PROVE Same \/ Deleted
    <3>1. /\ session'[s] = IF SessionDeck[s] = d THEN NoSession ELSE session[s]
          /\ log' = {a \in log : /\ SessionDeck[req[a].session] # d
                                 /\ CardDeck[req[a].card] # d}
          /\ req' = req
      BY <2>7 DEF DeleteDeck, handlers
    <3>2. CASE SessionDeck[s] = d
      <4>1. LoggedIn(s)' = {}
        BY <3>1, <3>2 DEF LoggedIn
      <4>2. session'[s] = NoSession
        BY <3>1, <3>2
      <4> QED
        BY <4>1, <4>2
    <3>3. CASE SessionDeck[s] # d
      BY <3>1, <3>3
    <3> QED
      BY <3>2, <3>3
  <2>8. ASSUME NEW c \in Cards, CreateCard(c) \/ DeleteCard(c) PROVE Same
    BY <2>8 DEF CreateCard, DeleteCard
  <2>9. CASE NextDay \/ UNCHANGED vars
    BY <2>9 DEF NextDay, vars, tables
  <2> HIDE DEF Same, Deleted, Opened
  <2> QED
    BY <2>1, <2>2, <2>3, <2>4, <2>5, <2>6, <2>7, <2>8, <2>9 DEF Next
<1> QED
  BY <1>1, <1>2

\* And to the progress of a card.
LEMMA ProgressStep ==
  ASSUME TypeOK, [Next]_vars, NEW u \in Users, NEW c \in Cards
  PROVE  \/ /\ card'[c] = card[c]
            /\ progress'[u][c] = progress[u][c]
            /\ card[c] = "live" =>
                 \A a \in Answers : RecordReview(a) => ~(req[a].user = u /\ req[a].card = c)
         \/ card'[c] # "live" /\ LoggedFor(u, c)' = {}
         \/ card[c] = "new"
         \/ \E a \in Answers :
              /\ req[a].user = u /\ req[a].card = c /\ pc' = [pc EXCEPT ![a] = "bump"]
              /\ req' = req /\ log' = log
              /\ card[c] = "live" /\ card'[c] = "live"
              /\ progress'[u][c].times_reviewed = progress[u][c].times_reviewed + 1
              /\ progress'[u][c].times_correct =
                   progress[u][c].times_correct + CorrectOf(req[a].rating)
<1> DEFINE Same == card'[c] = card[c] /\ progress'[u][c] = progress[u][c]
           Deleted == card'[c] # "live" /\ LoggedFor(u, c)' = {}
<1>1. ASSUME NEW a \in Answers, RecordReview(a), req[a].user = u, req[a].card = c,
             card[c] = "live"
      PROVE  /\ pc' = [pc EXCEPT ![a] = "bump"] /\ req' = req /\ log' = log
             /\ card'[c] = "live"
             /\ progress'[u][c].times_reviewed = progress[u][c].times_reviewed + 1
             /\ progress'[u][c].times_correct =
                  progress[u][c].times_correct + CorrectOf(req[a].rating)
  <2> DEFINE row == progress[u][c]
             k == CorrectOf(req[a].rating)
             new == [times_reviewed |-> row.times_reviewed + 1,
                     times_correct |-> row.times_correct + k,
                     memory |-> mem[a].memory]
  <2>1. /\ progress' = [progress EXCEPT ![u][c] = new]
        /\ pc' = [pc EXCEPT ![a] = "bump"] /\ req' = req /\ log' = log /\ card' = card
    BY <1>1 DEF RecordReview, Goto, CorrectOf
  <2>2. progress'[u][c] = new
    BY <2>1 DEF TypeOK
  <2> QED
    BY <1>1, <2>1, <2>2
<1>2. ASSUME ~\E a \in Answers : /\ RecordReview(a) /\ card[c] = "live"
                                 /\ req[a].user = u /\ req[a].card = c
      PROVE  Same \/ Deleted \/ card[c] = "new"
  <2>1. ASSUME NEW a \in Answers, RecordReview(a) PROVE Same
    <3>1. req[a].user \in Users /\ req[a].card \in Cards
      BY <2>1, RequestType DEF RecordReview
    <3>2. progress' = progress \/ ~(req[a].user = u /\ req[a].card = c)
      BY <1>2, <2>1 DEF RecordReview
    <3>3. \/ progress' = progress
          \/ \E row : progress' = [progress EXCEPT ![req[a].user][req[a].card] = row]
      BY <2>1 DEF RecordReview
    <3>4. progress'[u][c] = progress[u][c]
      <4>1. CASE progress' = progress
        BY <4>1
      <4>2. CASE progress' # progress
        <5>1. PICK row : progress' = [progress EXCEPT ![req[a].user][req[a].card] = row]
          BY <3>3, <4>2
        <5>2. ~(req[a].user = u /\ req[a].card = c)
          BY <3>2, <4>2
        <5> QED
          BY <3>1, <5>1, <5>2 DEF TypeOK
      <4> QED
        BY <4>1, <4>2
    <3> QED
      BY <2>1, <3>4 DEF RecordReview
  <2>3. ASSUME NEW a \in Answers, Answer(a), ~RecordReview(a) PROVE Same
    BY <2>3 DEF Answer, ReadProgress, BumpTally, LogAnswer, LoadSession,
       CountMastered, WriteMastery, MarkCompleted, ReloadSession, CreditUser, tables
  <2>4. ASSUME NEW a \in Answers, Submit(a) \/ StatementFails(a) \/ HandlerDies(a) PROVE Same
    BY <2>4 DEF Submit, StatementFails, HandlerDies, tables
  <2>5. ASSUME NEW t \in Sessions,
               BeginStart(t) \/ InsertSession(t) \/ AddBookmark(t) \/ StartFails(t)
        PROVE  Same
    BY <2>5 DEF BeginStart, InsertSession, AddBookmark, StartFails, tables
  <2>6. ASSUME NEW v \in Users, NEW d \in Decks, Stop(v, d) PROVE Same
    BY <2>6 DEF Stop
  <2>7. ASSUME NEW gone \in SUBSET Cards, ForgetCards(gone), req' = req,
               \A a \in log' : req[a].card \notin gone
        PROVE  Same \/ Deleted
    BY <2>7 DEF ForgetCards, LoggedFor
  <2>8. ASSUME NEW k \in Cards, DeleteCard(k) PROVE Same \/ Deleted
    BY <2>7, <2>8 DEF DeleteCard, handlers
  <2>9. ASSUME NEW d \in Decks, DeleteDeck(d) PROVE Same \/ Deleted
    <3>1. /\ ForgetCards(CardsOf(d)) /\ req' = req
          /\ log' = {a \in log : /\ SessionDeck[req[a].session] # d
                                 /\ CardDeck[req[a].card] # d}
      BY <2>9 DEF DeleteDeck, handlers
    <3>2. CardsOf(d) \in SUBSET Cards /\ \A a \in log' : req[a].card \notin CardsOf(d)
      BY <3>1 DEF CardsOf
    <3> QED
      BY <2>7, <3>1, <3>2
  <2>10. ASSUME NEW k \in Cards, CreateCard(k) PROVE Same \/ card[c] = "new"
    BY <2>10 DEF CreateCard, TypeOK
  <2>11. CASE NextDay \/ UNCHANGED vars
    BY <2>11 DEF NextDay, vars, tables
  <2> HIDE DEF Same, Deleted
  <2> QED
    BY <2>1, <2>3, <2>4, <2>5, <2>6, <2>8, <2>9, <2>10, <2>11 DEF Next
<1> QED
  BY <1>1, <1>2

LEMMA NextLog ==
  TypeOK /\ TypeOK' /\ LogInv /\ [Next]_vars => LogInv'
<1> SUFFICES ASSUME TypeOK, TypeOK', LogInv, [Next]_vars PROVE LogInv'
  OBVIOUS
<1>1. \A a \in Bumped \cup Recorded : a \in Answers /\ pc[a] # "idle" /\ req'[a] = req[a]
  <2>1. \A a \in Bumped \cup Recorded : a \in Answers /\ pc[a] # "idle"
    BY DEF LogInv, Bumped, Recorded
  <2> QED
    BY <2>1, RequestKept
<1>2. \A a \in log' : pc'[a] # "idle"
  <2> SUFFICES ASSUME NEW a \in log' PROVE pc'[a] # "idle"
    OBVIOUS
  <2>1. a \in Answers
    BY DEF TypeOK
  <2>2. pc[a] # "idle"
    BY <2>1, WhoLogs DEF LogInv
  <2> QED
    BY <2>1, <2>2, RequestKept
<1>3. ASSUME NEW s \in Sessions PROVE TallyCounts(s)'
  <2>1. /\ session[s].cards_studied \in Nat /\ session[s].correct_count \in Nat
        /\ session'[s].cards_studied \in Nat /\ session'[s].correct_count \in Nat
    BY DEF TypeOK, SessionRows
  <2>2. BumpedIn(s) \in SUBSET Answers /\ CorrectIn(BumpedIn(s)) \in SUBSET Answers
    BY DEF BumpedIn, Bumped, CorrectIn
  <2>3. ASSUME NEW a \in BumpedIn(s)'
        PROVE  \/ a \in BumpedIn(s)
               \/ BumpTally(a) /\ req[a].session = s /\ start[s] \notin Unsaved
    <3>1. /\ a \in Answers /\ (pc'[a] = "log" \/ a \in log')
          /\ req'[a].session = s /\ ~mem'[a].early
      BY <2>3 DEF BumpedIn, Bumped, TypeOK
    <3>2. a \in Bumped \/ BumpTally(a)
      BY <3>1, WhoCounts, WhoLogs DEF Bumped
    <3>3. req'[a] = req[a]
      BY <1>1, <3>2 DEF BumpTally
    <3>4. CASE BumpTally(a)
      BY <3>1, <3>3, <3>4, EarlyKept
    <3>5. CASE ~BumpTally(a)
      BY <3>1, <3>2, <3>3, <3>5, EarlyKept DEF BumpedIn
    <3> QED
      BY <3>4, <3>5
  \* No answer that counts names a session that is not there yet.
  <2>8. /\ start'[s] \in Unsaved => BumpedIn(s)' = {}
        /\ session'[s].live => start'[s] \in Saved
    <3>1. session[s].live => start[s] \in Saved
      BY DEF LogInv, TallyCounts, Tallied
    <3>2. start'[s] \in Unsaved => start[s] \in Unsaved /\ BumpedIn(s) = {}
      BY StartOnward DEF LogInv, TallyCounts, Tallied
    <3>3. session'[s].live => session[s].live \/ start'[s] = "bookmark"
      BY TallyStep DEF NoSession
    <3> QED
      BY <2>3, <3>1, <3>2, <3>3, StartOnward DEF Saved
  <2> SUFFICES Tallied(s)'
    BY <2>8 DEF TallyCounts
  \* Nothing happens to the row.
  <2>4. CASE /\ session'[s].live = session[s].live
             /\ session'[s].cards_studied = session[s].cards_studied
             /\ session'[s].correct_count = session[s].correct_count
             /\ session[s].live => \A a \in Answers : BumpTally(a) => req[a].session # s
    <3>1. CASE session[s].live
      <4>1. BumpedIn(s)' \in SUBSET BumpedIn(s)
        BY <2>3, <2>4, <3>1 DEF BumpedIn, Bumped, TypeOK
      <4>2. CorrectIn(BumpedIn(s))' \in SUBSET CorrectIn(BumpedIn(s))
        BY <1>1, <4>1 DEF CorrectIn, BumpedIn
      <4>3. /\ Cardinality(BumpedIn(s)) <= session[s].cards_studied
            /\ Cardinality(CorrectIn(BumpedIn(s))) <= session[s].correct_count
        BY <3>1 DEF LogInv, TallyCounts, Tallied
      <4>4. Cardinality(BumpedIn(s)') <= session[s].cards_studied
        BY <2>1, <2>2, <4>1, <4>3, CountFewer
      <4>5. Cardinality(CorrectIn(BumpedIn(s))') <= session[s].correct_count
        BY <2>1, <2>2, <4>2, <4>3, CountFewer
      <4> QED
        BY <2>4, <3>1, <4>4, <4>5 DEF Tallied
    <3>2. CASE ~session[s].live
      <4>1. LoggedIn(s) = {}
        BY <3>2 DEF LogInv, TallyCounts, Tallied
      <4>2. ASSUME NEW a \in log', req'[a].session = s PROVE FALSE
        <5>1. a \in Answers
          BY DEF TypeOK
        <5>2. \/ a \in log
              \/ pc[a] = "log" /\ session[req[a].session].live
          BY <5>1, WhoLogs
        <5>3. req[a].session = s
          BY <1>1, <4>2, <5>1, <5>2 DEF Bumped
        <5> QED
          BY <3>2, <4>1, <5>2, <5>3 DEF LoggedIn
      <4>3. LoggedIn(s)' = {}
        BY <4>2 DEF LoggedIn
      <4> QED
        BY <2>4, <3>2, <4>3 DEF Tallied
    <3> QED
      BY <3>1, <3>2
  \* It is deleted.
  <2>5. CASE session'[s] = NoSession /\ LoggedIn(s)' = {}
    BY <2>5 DEF NoSession, Tallied
  \* It comes to be there, or not; no answer that counts has named it.
  <2>6. CASE start[s] = "insert"
    <3>1. start[s] \in Unsaved
      BY <2>6 DEF Unsaved
    <3>2. ~session[s].live /\ BumpedIn(s) = {} /\ LoggedIn(s) = {}
      BY <2>6, <3>1 DEF LogInv, TallyCounts, Tallied, Saved
    <3>3. BumpedIn(s)' = {} /\ CorrectIn(BumpedIn(s))' = {}
      <4>1. BumpedIn(s)' = {}
        BY <2>3, <3>1, <3>2
      <4> QED
        BY <4>1 DEF CorrectIn
    <3>4. ASSUME NEW a \in log', req'[a].session = s PROVE FALSE
      <4>1. a \in Answers
        BY DEF TypeOK
      <4>2. a \in log \/ (pc[a] = "log" /\ session[req[a].session].live)
        BY <4>1, WhoLogs
      <4>3. req[a].session = s
        BY <1>1, <3>4, <4>1, <4>2 DEF Bumped
      <4> QED
        BY <3>2, <4>2, <4>3 DEF LoggedIn
    <3>5. LoggedIn(s)' = {}
      BY <3>4 DEF LoggedIn
    <3> QED
      BY <2>1, <3>3, <3>5, FS_EmptySet DEF Tallied
  \* It counts an answer.
  <2>7. ASSUME NEW a \in Answers,
               req[a].session = s, pc' = [pc EXCEPT ![a] = "log"], req' = req, log' = log,
               session[s].live, session'[s].live,
               session'[s].cards_studied = session[s].cards_studied + 1,
               session'[s].correct_count =
                 session[s].correct_count + CorrectOf(req[a].rating)
        PROVE  Tallied(s)'
    <3>1. BumpedIn(s)' \in SUBSET (BumpedIn(s) \cup {a})
      <4> SUFFICES ASSUME NEW b \in BumpedIn(s)', b # a PROVE b \in BumpedIn(s)
        OBVIOUS
      <4>1. ASSUME BumpTally(b) PROVE FALSE
        BY <2>7, <4>1, BumpsAlone DEF BumpedIn, Bumped
      <4> QED
        BY <2>3, <4>1
    <3>2. /\ Cardinality(BumpedIn(s)) <= session[s].cards_studied
          /\ Cardinality(CorrectIn(BumpedIn(s))) <= session[s].correct_count
      BY <2>7 DEF LogInv, TallyCounts, Tallied
    <3>3. Cardinality(BumpedIn(s)') <= session[s].cards_studied + 1
      BY <2>1, <2>2, <2>7, <3>1, <3>2, CountOneMore
    <3>4. Cardinality(CorrectIn(BumpedIn(s))')
            <= session[s].correct_count + CorrectOf(req[a].rating)
      <4>1. CASE Correct(req[a].rating)
        <5>1. CorrectIn(BumpedIn(s))' \in SUBSET (CorrectIn(BumpedIn(s)) \cup {a})
          BY <2>7, <3>1 DEF CorrectIn
        <5>2. Cardinality(CorrectIn(BumpedIn(s))') <= session[s].correct_count + 1
          BY <2>1, <2>2, <2>7, <3>2, <5>1, CountOneMore
        <5> QED
          BY <4>1, <5>2 DEF CorrectOf
      <4>2. CASE ~Correct(req[a].rating)
        <5>1. CorrectIn(BumpedIn(s))' \in SUBSET CorrectIn(BumpedIn(s))
          BY <2>7, <3>1, <4>2 DEF CorrectIn
        <5>2. Cardinality(CorrectIn(BumpedIn(s))') <= session[s].correct_count
          BY <2>1, <2>2, <3>2, <5>1, CountFewer
        <5>3. CorrectOf(req[a].rating) = 0
          BY <4>2 DEF CorrectOf
        <5> QED
          BY <2>1, <5>2, <5>3
      <4> QED
        BY <4>1, <4>2
    <3> QED
      BY <2>7, <3>3, <3>4 DEF Tallied
  <2> QED
    BY <2>4, <2>5, <2>6, <2>7, TallyStep
<1>4. ASSUME NEW u \in Users, NEW c \in Cards PROVE ProgressCounts(u, c)'
  <2>1. /\ progress[u][c].times_reviewed \in Nat /\ progress[u][c].times_correct \in Nat
        /\ progress'[u][c].times_reviewed \in Nat /\ progress'[u][c].times_correct \in Nat
    BY DEF TypeOK, ProgressRows
  <2>2. RecordedFor(u, c) \in SUBSET Answers /\ CorrectIn(RecordedFor(u, c)) \in SUBSET Answers
    BY DEF RecordedFor, Recorded, CorrectIn
  <2>3. ASSUME NEW a \in RecordedFor(u, c)'
        PROVE  a \in RecordedFor(u, c)
                 \/ (RecordReview(a) /\ req[a].user = u /\ req[a].card = c /\ card[c] = "live")
    <3>1. a \in Answers /\ (pc'[a] \in {"bump", "log"} \/ a \in log')
          /\ req'[a].user = u /\ req'[a].card = c
      BY <2>3 DEF RecordedFor, Recorded
    <3>2. a \in Recorded \/ RecordReview(a)
      BY <3>1, WhoCounts, WhoLogs DEF Recorded, BumpTally
    <3>3. req'[a] = req[a]
      BY <1>1, <3>2 DEF RecordReview
    <3>4. a \notin Recorded => card[req[a].card] = "live"
      <4>1. SUFFICES ASSUME a \notin Recorded PROVE card[req[a].card] = "live"
        OBVIOUS
      <4>2. pc'[a] = "bump" /\ RecordReview(a)
        BY <3>1, <3>2, <4>1, WhoCounts, WhoLogs DEF Recorded, BumpTally
      <4> QED
        BY <3>1, <4>2 DEF RecordReview, Goto, TypeOK
    <3> QED
      BY <3>1, <3>2, <3>3, <3>4 DEF RecordedFor
  <2>8. card'[c] = "new" => RecordedFor(u, c)' = {}
    <3>1. card'[c] = "new" => card[c] = "new" /\ RecordedFor(u, c) = {}
      BY CardOnward DEF LogInv, ProgressCounts, RowCounts
    <3> QED
      BY <2>3, <3>1
  <2> SUFFICES RowCounts(u, c)'
    BY <2>8 DEF ProgressCounts
  <2>4. CASE /\ card'[c] = card[c] /\ progress'[u][c] = progress[u][c]
             /\ card[c] = "live" =>
                  \A a \in Answers : RecordReview(a) => ~(req[a].user = u /\ req[a].card = c)
    <3>1. CASE card[c] = "live"
      <4>1. RecordedFor(u, c)' \in SUBSET RecordedFor(u, c)
        BY <2>3, <2>4, <3>1 DEF RecordedFor, Recorded
      <4>2. CorrectIn(RecordedFor(u, c))' \in SUBSET CorrectIn(RecordedFor(u, c))
        BY <1>1, <4>1 DEF CorrectIn, RecordedFor
      <4>3. /\ Cardinality(RecordedFor(u, c)) <= progress[u][c].times_reviewed
            /\ Cardinality(CorrectIn(RecordedFor(u, c))) <= progress[u][c].times_correct
        BY <3>1 DEF LogInv, ProgressCounts, RowCounts
      <4>4. Cardinality(RecordedFor(u, c)') <= progress[u][c].times_reviewed
        BY <2>1, <2>2, <4>1, <4>3, CountFewer
      <4>5. Cardinality(CorrectIn(RecordedFor(u, c))') <= progress[u][c].times_correct
        BY <2>1, <2>2, <4>2, <4>3, CountFewer
      <4> QED
        BY <2>4, <3>1, <4>4, <4>5 DEF RowCounts
    <3>2. CASE card[c] # "live"
      <4>1. LoggedFor(u, c) = {}
        BY <3>2 DEF LogInv, ProgressCounts, RowCounts
      <4>2. ASSUME NEW a \in log', req'[a].user = u, req'[a].card = c PROVE FALSE
        <5>1. a \in Answers
          BY DEF TypeOK
        <5>2. \/ a \in log
              \/ pc[a] = "log" /\ card[req[a].card] = "live"
          BY <5>1, WhoLogs
        <5>3. req[a].user = u /\ req[a].card = c
          BY <1>1, <4>2, <5>1, <5>2 DEF Bumped
        <5> QED
          BY <3>2, <4>1, <5>2, <5>3 DEF LoggedFor
      <4>3. LoggedFor(u, c)' = {}
        BY <4>2 DEF LoggedFor
      <4> QED
        BY <2>4, <3>2, <4>3 DEF RowCounts
    <3> QED
      BY <3>1, <3>2
  <2>5. CASE card'[c] # "live" /\ LoggedFor(u, c)' = {}
    BY <2>5 DEF RowCounts
  <2>6. CASE card[c] = "new"
    <3>1. RecordedFor(u, c) = {}
      BY <2>6 DEF LogInv, ProgressCounts, RowCounts
    <3>2. RecordedFor(u, c)' = {}
      BY <2>3, <2>6, <3>1
    <3>3. LoggedFor(u, c)' = {} /\ CorrectIn(RecordedFor(u, c))' = {}
      <4>1. \A a \in log' : a \in Answers
        BY DEF TypeOK
      <4> QED
        BY <3>2, <4>1 DEF LoggedFor, CorrectIn, RecordedFor, Recorded
    <3> QED
      <4>1. Cardinality(RecordedFor(u, c)') = 0 /\ Cardinality(CorrectIn(RecordedFor(u, c))') = 0
        BY <3>2, <3>3, FS_EmptySet
      <4> QED
        BY <2>1, <3>3, <4>1 DEF RowCounts
  <2>7. ASSUME NEW a \in Answers,
               req[a].user = u, req[a].card = c, pc' = [pc EXCEPT ![a] = "bump"],
               req' = req, log' = log, card[c] = "live", card'[c] = "live",
               progress'[u][c].times_reviewed = progress[u][c].times_reviewed + 1,
               progress'[u][c].times_correct =
                 progress[u][c].times_correct + CorrectOf(req[a].rating)
        PROVE  RowCounts(u, c)'
    <3>1. RecordedFor(u, c)' \in SUBSET (RecordedFor(u, c) \cup {a})
      BY <2>7 DEF RecordedFor, Recorded, TypeOK
    <3>2. /\ Cardinality(RecordedFor(u, c)) <= progress[u][c].times_reviewed
          /\ Cardinality(CorrectIn(RecordedFor(u, c))) <= progress[u][c].times_correct
      BY <2>7 DEF LogInv, ProgressCounts, RowCounts
    <3>3. Cardinality(RecordedFor(u, c)') <= progress[u][c].times_reviewed + 1
      BY <2>1, <2>2, <2>7, <3>1, <3>2, CountOneMore
    <3>4. Cardinality(CorrectIn(RecordedFor(u, c))')
            <= progress[u][c].times_correct + CorrectOf(req[a].rating)
      <4>1. CASE Correct(req[a].rating)
        <5>1. CorrectIn(RecordedFor(u, c))' \in SUBSET (CorrectIn(RecordedFor(u, c)) \cup {a})
          BY <2>7, <3>1 DEF CorrectIn
        <5>2. Cardinality(CorrectIn(RecordedFor(u, c))') <= progress[u][c].times_correct + 1
          BY <2>1, <2>2, <2>7, <3>2, <5>1, CountOneMore
        <5> QED
          BY <4>1, <5>2 DEF CorrectOf
      <4>2. CASE ~Correct(req[a].rating)
        <5>1. CorrectIn(RecordedFor(u, c))' \in SUBSET CorrectIn(RecordedFor(u, c))
          BY <2>7, <3>1, <4>2 DEF CorrectIn
        <5>2. Cardinality(CorrectIn(RecordedFor(u, c))') <= progress[u][c].times_correct
          BY <2>1, <2>2, <3>2, <5>1, CountFewer
        <5>3. CorrectOf(req[a].rating) = 0
          BY <4>2 DEF CorrectOf
        <5> QED
          BY <2>1, <5>2, <5>3
      <4> QED
        BY <4>1, <4>2
    <3> QED
      BY <2>7, <3>3, <3>4 DEF RowCounts
  <2> QED
    BY <2>4, <2>5, <2>6, <2>7, ProgressStep
<1> QED
  BY <1>2, <1>3, <1>4 DEF LogInv

LEMMA LogHolds == Spec => []LogInv
<1>1. Init => LogInv
  <2> SUFFICES ASSUME Init PROVE LogInv
    OBVIOUS
  <2>1. (\A a \in Answers : pc[a] = "idle") /\ log = {}
    BY DEF Init
  <2>2. \A s \in Sessions : TallyCounts(s)
    <3>1. \A s \in Sessions : ~session[s].live /\ LoggedIn(s) = {} /\ BumpedIn(s) = {}
      BY <2>1 DEF Init, NoSession, LoggedIn, BumpedIn, Bumped
    <3> QED
      BY <3>1 DEF TallyCounts, Tallied
  <2>3. ASSUME NEW u \in Users, NEW c \in Cards PROVE ProgressCounts(u, c)
    <3>1. RecordedFor(u, c) = {} /\ CorrectIn(RecordedFor(u, c)) = {} /\ LoggedFor(u, c) = {}
      BY <2>1 DEF RecordedFor, Recorded, CorrectIn, LoggedFor
    <3>2. progress[u][c].times_reviewed = 0 /\ progress[u][c].times_correct = 0
      BY DEF Init, NoProgress
    <3> QED
      BY <3>1, <3>2, FS_EmptySet DEF ProgressCounts, RowCounts
  <2> QED
    BY <2>1, <2>2, <2>3 DEF LogInv
<1>2. TypeOK /\ LogInv /\ [Next]_vars => LogInv'
  BY NextType, NextLog
<1> QED
  BY TypeCorrect, <1>1, <1>2, PTL DEF Spec

\* In every reachable state an answer in session_cards is among those the progress
\* of its card has counted, and the tallies of its session too unless the answer
\* named the session before its row was there, whatever failed or was deleted
\* (api/session.go:78-111, models/session.go:52-70, db/database.sql).
THEOREM LogTheorem == Spec => []LogCounted
<1>1. TypeOK /\ LogInv => LogCounted
  <2> SUFFICES ASSUME TypeOK, LogInv PROVE LogCounted
    OBVIOUS
  <2>1. ASSUME NEW s \in Sessions
        PROVE  LET timely == {a \in LoggedIn(s) : ~mem[a].early} IN
                 /\ Cardinality(timely) <= session[s].cards_studied
                 /\ Cardinality(CorrectIn(timely)) <= session[s].correct_count
    <3> DEFINE timely == {a \in LoggedIn(s) : ~mem[a].early}
    <3>1. session[s].cards_studied \in Nat /\ session[s].correct_count \in Nat
      BY DEF TypeOK, SessionRows
    <3>2. /\ BumpedIn(s) \in SUBSET Answers /\ CorrectIn(BumpedIn(s)) \in SUBSET Answers
          /\ timely \in SUBSET BumpedIn(s)
          /\ CorrectIn(timely) \in SUBSET CorrectIn(BumpedIn(s))
      BY DEF BumpedIn, Bumped, LoggedIn, CorrectIn, TypeOK
    <3> HIDE DEF timely
    <3> SUFFICES /\ Cardinality(timely) <= session[s].cards_studied
                 /\ Cardinality(CorrectIn(timely)) <= session[s].correct_count
      BY DEF timely
    <3>3. CASE session[s].live
      <4>1. /\ Cardinality(BumpedIn(s)) <= session[s].cards_studied
            /\ Cardinality(CorrectIn(BumpedIn(s))) <= session[s].correct_count
        BY <3>3 DEF LogInv, TallyCounts, Tallied
      <4>2. Cardinality(timely) <= session[s].cards_studied
        BY <3>1, <3>2, <4>1, CountFewer
      <4>3. Cardinality(CorrectIn(timely)) <= session[s].correct_count
        BY <3>1, <3>2, <4>1, CountFewer
      <4> QED
        BY <4>2, <4>3
    <3>4. CASE ~session[s].live
      <4>1. timely = {} /\ CorrectIn(timely) = {}
        BY <3>4 DEF LogInv, TallyCounts, Tallied, CorrectIn, LoggedIn, timely
      <4> QED
        BY <3>1, <4>1, FS_EmptySet
    <3> QED
      BY <3>3, <3>4
  <2>2. ASSUME NEW u \in Users, NEW c \in Cards
        PROVE  /\ Cardinality(LoggedFor(u, c)) <= progress[u][c].times_reviewed
               /\ Cardinality(CorrectIn(LoggedFor(u, c))) <= progress[u][c].times_correct
    <3>1. progress[u][c].times_reviewed \in Nat /\ progress[u][c].times_correct \in Nat
      BY DEF TypeOK, ProgressRows
    <3>2. /\ RecordedFor(u, c) \in SUBSET Answers
          /\ CorrectIn(RecordedFor(u, c)) \in SUBSET Answers
          /\ LoggedFor(u, c) \in SUBSET RecordedFor(u, c)
          /\ CorrectIn(LoggedFor(u, c)) \in SUBSET CorrectIn(RecordedFor(u, c))
      BY DEF RecordedFor, Recorded, LoggedFor, CorrectIn, TypeOK
    <3>3. CASE card[c] = "live"
      <4>1. /\ Cardinality(RecordedFor(u, c)) <= progress[u][c].times_reviewed
            /\ Cardinality(CorrectIn(RecordedFor(u, c))) <= progress[u][c].times_correct
        BY <3>3 DEF LogInv, ProgressCounts, RowCounts
      <4> QED
        BY <3>1, <3>2, <4>1, CountFewer
    <3>4. CASE card[c] # "live"
      <4>1. LoggedFor(u, c) = {} /\ CorrectIn(LoggedFor(u, c)) = {}
        BY <3>4 DEF LogInv, ProgressCounts, RowCounts, CorrectIn
      <4> QED
        BY <3>1, <4>1, FS_EmptySet
    <3> QED
      BY <3>3, <3>4
  <2> QED
    BY <2>1, <2>2 DEF LogCounted
<1> QED
  BY TypeCorrect, LogHolds, <1>1, PTL

-----------------------------------------------------------------------------
(* The completions implement UserStats *)

\* The answers that may have been counted by a tally.
PastBump == {a \in Answers : pc[a] \notin {"idle", "read", "review", "bump"}}

\* What Complete may hand over: no more cards than answers, nor correct ones than
\* cards.
WithinBounds(studied, correct) ==
  /\ correct <= studied
  /\ studied <= Cardinality(PastBump)

TallyBound ==
  /\ \A s \in Sessions : WithinBounds(session[s].cards_studied, session[s].correct_count)
  /\ \A a \in Answers : pc[a] = "credit" => WithinBounds(mem[a].studied, mem[a].correct)

\* No handler goes back to before its count.
LEMMA PastStaysPast ==
  ASSUME TypeOK, [Next]_vars
  PROVE  PastBump \in SUBSET PastBump'
<1> SUFFICES ASSUME NEW a \in PastBump PROVE a \in PastBump'
  OBVIOUS
<1>0. a \in Answers /\ pc[a] \notin {"idle", "read", "review", "bump"}
  BY DEF PastBump
<1>1. ASSUME NEW b \in Answers, Submit(b) PROVE a \in PastBump'
  BY <1>0, <1>1 DEF Submit, Goto, TypeOK, PastBump
<1>2. ASSUME NEW b \in Answers, Answer(b) PROVE a \in PastBump'
  <2>1. \/ pc' = [pc EXCEPT ![b] = "failed"]
        \/ pc[b] = "read" /\ pc' = [pc EXCEPT ![b] = "review"]
        \/ pc[b] = "review" /\ pc' = [pc EXCEPT ![b] = "bump"]
        \/ \E step \in Steps \cup Outcomes :
             /\ step \notin {"read", "review", "bump"}
             /\ pc' = [pc EXCEPT ![b] = step]
    <3>1. CASE ReadProgress(b) \/ RecordReview(b)
      BY <3>1 DEF ReadProgress, RecordReview, Goto
    <3>2. CASE BumpTally(b) \/ LogAnswer(b) \/ LoadSession(b) \/ CountMastered(b)
      BY <3>2 DEF BumpTally, LogAnswer, LoadSession, CountMastered, Goto, Steps
    <3>3. CASE WriteMastery(b) \/ MarkCompleted(b) \/ ReloadSession(b) \/ CreditUser(b)
      BY <3>3 DEF WriteMastery, AfterMastery, MarkCompleted, ReloadSession, CreditUser,
         Goto, Steps, Outcomes
    <3> QED
      BY <1>2, <3>1, <3>2, <3>3 DEF Answer
  <2>2. PICK step : pc' = [pc EXCEPT ![b] = step] /\
                    (pc[b] \notin {"read", "review"} =>
                       step \notin {"idle", "read", "review", "bump"})
    BY <2>1 DEF Steps, Outcomes
  <2>3. pc'[a] = IF a = b THEN step ELSE pc[a]
    BY <1>0, <2>2 DEF TypeOK
  <2> QED
    BY <1>0, <2>2, <2>3 DEF PastBump
<1>3. ASSUME NEW b \in Answers, StatementFails(b) \/ HandlerDies(b) PROVE a \in PastBump'
  BY <1>0, <1>3 DEF StatementFails, HandlerDies, AfterMastery, Goto, TypeOK, PastBump
<1>4. ASSUME UNCHANGED pc PROVE a \in PastBump'
  BY <1>0, <1>4 DEF PastBump
<1> QED
  BY <1>1, <1>2, <1>3, <1>4 DEF Next, BeginStart, InsertSession, AddBookmark,
     StartFails, Stop, CreateCard, DeleteCard, DeleteDeck, NextDay, vars, handlers

LEMMA PastFinite ==
  /\ IsFiniteSet(PastBump) /\ Cardinality(PastBump) \in Nat
  /\ Cardinality(PastBump) <= Cardinality(Answers) /\ Cardinality(Answers) \in Nat
<1>1. PastBump \in SUBSET Answers
  BY DEF PastBump
<1> QED
  BY <1>1, FS_Subset, FS_CardinalityType, StudyAssumption

\* What can happen to a tally in flight.
LEMMA HandedOver ==
  ASSUME TypeOK, [Next]_vars, NEW a \in Answers, pc'[a] = "credit"
  PROVE  \/ pc[a] = "credit" /\ mem'[a] = mem[a]
         \/ /\ pc[a] = "reload"
            /\ mem'[a].studied = session[req[a].session].cards_studied
            /\ mem'[a].correct = session[req[a].session].correct_count
<1> DEFINE Goal == \/ pc[a] = "credit" /\ mem'[a] = mem[a]
                   \/ /\ pc[a] = "reload"
                      /\ mem'[a].studied = session[req[a].session].cards_studied
                      /\ mem'[a].correct = session[req[a].session].correct_count
<1>1. ASSUME NEW b \in Answers, Submit(b) PROVE Goal
  BY <1>1 DEF Submit, Goto, TypeOK
<1>2. ASSUME NEW b \in Answers, ReloadSession(b) PROVE Goal
  <2>1. CASE b = a
    <3>1. mem' = [mem EXCEPT ![a].studied = session[req[a].session].cards_studied,
                             ![a].correct = session[req[a].session].correct_count,
                             ![a].today = day]
          /\ pc[a] = "reload"
      BY <1>2, <2>1 DEF ReloadSession, Goto, TypeOK
    <3>2. mem[a] \in Locals
      BY DEF TypeOK
    <3> QED
      BY <3>1, <3>2 DEF TypeOK, Locals
  <2>2. CASE b # a
    BY <1>2, <2>2 DEF ReloadSession, Goto, TypeOK
  <2> QED
    BY <2>1, <2>2
<1>3. ASSUME NEW b \in Answers, Answer(b), ~ReloadSession(b) PROVE Goal
  <2>1. /\ \E step : step # "credit" /\ pc' = [pc EXCEPT ![b] = step]
        /\ mem' = mem \/ \A c \in Answers \ {b} : mem'[c] = mem[c]
    <3>1. CASE ReadProgress(b)
      BY <3>1 DEF ReadProgress, Goto, TypeOK
    <3>2. CASE RecordReview(b) \/ LogAnswer(b) \/ MarkCompleted(b)
      BY <3>2 DEF RecordReview, LogAnswer, MarkCompleted, Goto
    <3>6. CASE BumpTally(b)
      BY <3>6 DEF BumpTally, Goto, TypeOK
    <3>3. CASE LoadSession(b) \/ CountMastered(b)
      BY <3>3 DEF LoadSession, CountMastered, Goto, TypeOK
    <3>4. CASE WriteMastery(b)
      BY <3>4 DEF WriteMastery, AfterMastery, Goto
    <3>5. CASE CreditUser(b)
      BY <3>5 DEF CreditUser, Goto, TypeOK
    <3> QED
      BY <1>3, <3>1, <3>2, <3>3, <3>4, <3>5, <3>6 DEF Answer
  <2>2. b # a /\ pc'[a] = pc[a]
    BY <2>1 DEF TypeOK
  <2> QED
    BY <2>1, <2>2
<1>4. ASSUME NEW b \in Answers, StatementFails(b) \/ HandlerDies(b) PROVE Goal
  BY <1>4 DEF StatementFails, HandlerDies, AfterMastery, Goto, TypeOK
<1>5. ASSUME UNCHANGED <<pc, mem>> PROVE Goal
  BY <1>5
<1> QED
  BY <1>1, <1>2, <1>3, <1>4, <1>5 DEF Next, BeginStart, InsertSession, AddBookmark,
     StartFails, Stop, CreateCard, DeleteCard, DeleteDeck, NextDay, vars, handlers

LEMMA NextBound == TypeOK /\ TypeOK' /\ TallyBound /\ [Next]_vars => TallyBound'
<1> SUFFICES ASSUME TypeOK, TypeOK', TallyBound, [Next]_vars PROVE TallyBound'
  OBVIOUS
<1> DEFINE past == Cardinality(PastBump)
           past2 == Cardinality(PastBump')
<1>1. past \in Nat /\ past2 \in Nat /\ past <= past2 /\ IsFiniteSet(PastBump')
  <2>1. PastBump' \in SUBSET Answers
    BY DEF PastBump
  <2>2. IsFiniteSet(PastBump') /\ past2 \in Nat
    BY <2>1, FS_Subset, FS_CardinalityType, StudyAssumption
  <2>3. past <= past2
    BY <2>2, PastStaysPast, FS_Subset
  <2> QED
    BY <2>2, <2>3, PastFinite
<1>2. ASSUME NEW n \in Nat, NEW k \in Nat, k <= n, n <= past PROVE k <= n /\ n <= past2
  BY <1>1, <1>2
<1>3. \A s \in Sessions : /\ session[s].cards_studied \in Nat
                          /\ session[s].correct_count \in Nat
                          /\ session[s].correct_count <= session[s].cards_studied
                          /\ session[s].cards_studied <= past
  BY DEF TypeOK, SessionRows, TallyBound, WithinBounds
<1>4. ASSUME NEW s \in Sessions
      PROVE  /\ session'[s].correct_count <= session'[s].cards_studied
             /\ session'[s].cards_studied <= past2
  <2>1. CASE /\ session'[s].cards_studied = session[s].cards_studied
             /\ session'[s].correct_count = session[s].correct_count
    BY <1>2, <1>3, <2>1
  <2>2. CASE session'[s] = NoSession
    BY <1>1, <1>2, <2>2 DEF NoSession
  <2>3. ASSUME NEW a \in Answers, pc[a] = "bump", pc' = [pc EXCEPT ![a] = "log"],
               session'[s].cards_studied = session[s].cards_studied + 1,
               session'[s].correct_count =
                 session[s].correct_count + CorrectOf(req[a].rating)
        PROVE  /\ session'[s].correct_count <= session'[s].cards_studied
             /\ session'[s].cards_studied <= past2
    <3>1. PastBump \cup {a} \in SUBSET PastBump' /\ a \notin PastBump
      BY <2>3, PastStaysPast DEF PastBump, TypeOK
    <3>2. Cardinality(PastBump \cup {a}) = past + 1
      BY <3>1, PastFinite, FS_AddElement
    <3>3. past + 1 <= past2
      BY <1>1, <3>1, <3>2, FS_Subset
    <3>4. CorrectOf(req[a].rating) \in {0, 1}
      BY DEF CorrectOf
    <3> QED
      BY <1>1, <1>3, <2>3, <3>3, <3>4
  <2> QED
    BY <2>1, <2>2, <2>3, TallyStep
<1>5. ASSUME NEW a \in Answers, pc'[a] = "credit"
      PROVE  mem'[a].correct <= mem'[a].studied /\ mem'[a].studied <= past2
  <2>1. CASE pc[a] = "credit" /\ mem'[a] = mem[a]
    <3>1. /\ mem[a].studied \in Nat /\ mem[a].correct \in Nat
          /\ mem[a].correct <= mem[a].studied /\ mem[a].studied <= past
      BY <2>1 DEF TypeOK, Locals, TallyBound, WithinBounds
    <3> QED
      BY <1>2, <2>1, <3>1
  <2>2. CASE /\ pc[a] = "reload"
             /\ mem'[a].studied = session[req[a].session].cards_studied
             /\ mem'[a].correct = session[req[a].session].correct_count
    <3>1. req[a].session \in Sessions
      BY <2>2, RequestType
    <3> QED
      BY <1>2, <1>3, <2>2, <3>1
  <2> QED
    BY <1>5, <2>1, <2>2, HandedOver
<1> QED
  BY <1>4, <1>5 DEF TallyBound, WithinBounds

\* StatsCall by the three places an answer can be at, in both states of a step.
LEMMA StatsCallCases ==
  ASSUME NEW a \in Answers
  PROVE  /\ pc[a] = "credit" =>
              StatsCall(a) = [pc |-> "called", user |-> SessionUser[req[a].session],
                              studied |-> mem[a].studied, correct |-> mem[a].correct,
                              today |-> mem[a].today]
         /\ pc[a] = "credited" =>
              StatsCall(a) = [pc |-> "done", user |-> SessionUser[req[a].session],
                              studied |-> mem[a].studied, correct |-> mem[a].correct,
                              today |-> mem[a].today]
         /\ pc[a] \notin {"credit", "credited"} => StatsCall(a) = [pc |-> "idle"]
         /\ pc'[a] = "credit" =>
              StatsCall(a)' = [pc |-> "called", user |-> SessionUser[req'[a].session],
                               studied |-> mem'[a].studied, correct |-> mem'[a].correct,
                               today |-> mem'[a].today]
         /\ pc'[a] = "credited" =>
              StatsCall(a)' = [pc |-> "done", user |-> SessionUser[req'[a].session],
                               studied |-> mem'[a].studied, correct |-> mem'[a].correct,
                               today |-> mem'[a].today]
         /\ pc'[a] \notin {"credit", "credited"} => StatsCall(a)' = [pc |-> "idle"]
BY DEF StatsCall

\* An answer whose call does not change.
LEMMA SameCall ==
  ASSUME TypeOK, NEW a \in Answers,
         \/ pc[a] \notin {"credit", "credited"} /\ pc'[a] \notin {"credit", "credited"}
         \/ pc'[a] = pc[a] /\ req'[a] = req[a] /\ mem'[a] = mem[a]
  PROVE  StatsCall(a)' = StatsCall(a)
BY StatsCallCases

LEMMA SameUpdate ==
  ASSUME NEW row, NEW n, NEW k, NEW d
  PROVE  Stats!Updated(row, n, k, d) = Updated(row, n, k, d)
BY DEF Stats!Updated, Updated, Stats!StreakOn, StreakOn, Stats!Greatest, Greatest,
       Stats!XpGained, XpGained

\* The steps of the statistics module: a call, an upsert, a call that is dropped.
LEMMA Calls ==
  ASSUME TypeOK, TypeOK', TallyBound, NEW a \in Answers,
         ReloadSession(a), session[req[a].session].live
  PROVE  Stats!Call(a)
<1> DEFINE s == req[a].session
           n == session[s].cards_studied
           k == session[s].correct_count
           new == [pc |-> "called", user |-> SessionUser[s], studied |-> n,
                   correct |-> k, today |-> day]
<1>1. /\ pc[a] = "reload" /\ pc' = [pc EXCEPT ![a] = "credit"]
      /\ mem' = [mem EXCEPT ![a].studied = n, ![a].correct = k, ![a].today = day]
      /\ req' = req /\ stats' = stats /\ day' = day
  BY DEF ReloadSession, Goto, tables
<1>2. s \in Sessions /\ SessionUser[s] \in Users
  BY <1>1, RequestType, StudyAssumption
<1>3. /\ n \in Nat /\ k \in Nat /\ k <= n /\ n <= Cardinality(Answers)
  BY <1>2, PastFinite DEF TypeOK, SessionRows, TallyBound, WithinBounds
<1>4. n \in 0..Cardinality(Answers) /\ k \in 0..n
  BY <1>3, PastFinite
<1>5. mem'[a].studied = n /\ mem'[a].correct = k /\ mem'[a].today = day
  <2>1. mem[a] \in Locals
    BY DEF TypeOK
  <2> HIDE DEF n, k
  <2>2. mem'[a] = [mem[a] EXCEPT !.studied = n, !.correct = k, !.today = day]
    BY <1>1 DEF TypeOK
  <2> QED
    BY <2>1, <2>2 DEF Locals
<1>6. StatsCall(a) = [pc |-> "idle"] /\ StatsCall(a)' = new
  <2>1. pc'[a] = "credit" /\ req'[a] = req[a]
    BY <1>1 DEF TypeOK
  <2> QED
    BY <1>1, <1>5, <2>1, StatsCallCases
<1>7. \A b \in Answers \ {a} : StatsCall(b)' = StatsCall(b)
  <2> SUFFICES ASSUME NEW b \in Answers \ {a} PROVE StatsCall(b)' = StatsCall(b)
    OBVIOUS
  <2>1. pc'[b] = pc[b] /\ req'[b] = req[b] /\ mem'[b] = mem[b]
    BY <1>1 DEF TypeOK
  <2> QED
    BY <2>1, SameCall
<1>8. [b \in Answers |-> StatsCall(b)]'
        = [[b \in Answers |-> StatsCall(b)] EXCEPT ![a] = new]
  <2> HIDE DEF new
  <2> QED
    BY <1>6, <1>7
<1> HIDE DEF n, k, s
<1> QED
  BY <1>1, <1>2, <1>4, <1>6, <1>8 DEF Stats!Call, Stats!Idle

LEMMA Upserts ==
  ASSUME TypeOK, TypeOK', NEW a \in Answers, CreditUser(a)
  PROVE  Stats!Upsert(a)
<1> DEFINE u == SessionUser[req[a].session]
           old == [pc |-> "called", user |-> u, studied |-> mem[a].studied,
                   correct |-> mem[a].correct, today |-> mem[a].today]
<1>1. PICK today \in mem[a].today..day :
        /\ stats' = [stats EXCEPT ![u] =
                       Updated(stats[u], mem[a].studied, mem[a].correct, today)]
        /\ mem' = [mem EXCEPT ![a].today = today]
  BY DEF CreditUser
<1> DEFINE new == [pc |-> "done", user |-> u, studied |-> mem[a].studied,
                   correct |-> mem[a].correct, today |-> today]
<1>2. pc[a] = "credit" /\ pc' = [pc EXCEPT ![a] = "credited"] /\ req' = req /\ day' = day
  BY DEF CreditUser, Goto
<1>3. /\ mem'[a].studied = mem[a].studied /\ mem'[a].correct = mem[a].correct
      /\ mem'[a].today = today
  <2>1. mem[a] \in Locals
    BY DEF TypeOK
  <2> QED
    BY <1>1, <2>1 DEF TypeOK, Locals
<1>4. StatsCall(a) = old /\ StatsCall(a)' = new
  <2>1. pc'[a] = "credited" /\ req'[a] = req[a]
    BY <1>2 DEF TypeOK
  <2> QED
    BY <1>2, <1>3, <2>1, StatsCallCases
<1>5. \A b \in Answers \ {a} : StatsCall(b)' = StatsCall(b)
  <2> SUFFICES ASSUME NEW b \in Answers \ {a} PROVE StatsCall(b)' = StatsCall(b)
    OBVIOUS
  <2>1. pc'[b] = pc[b] /\ req'[b] = req[b] /\ mem'[b] = mem[b]
    BY <1>1, <1>2 DEF TypeOK
  <2> QED
    BY <2>1, SameCall
<1> DEFINE mid == [pc |-> "done", user |-> u, studied |-> mem[a].studied,
                   correct |-> mem[a].correct, today |-> mem[a].today]
<1>6. /\ [old EXCEPT !.pc = "done"] = mid
      /\ [mid EXCEPT !.today = today] = new
  OBVIOUS
<1>7. [b \in Answers |-> StatsCall(b)]'
        = [[b \in Answers |-> StatsCall(b)] EXCEPT ![a].pc = "done", ![a].today = today]
  <2> HIDE DEF old, mid, new
  <2>1. [old EXCEPT !.pc = "done", !.today = today]
          = [[old EXCEPT !.pc = "done"] EXCEPT !.today = today]
    OBVIOUS
  <2>2. [old EXCEPT !.pc = "done", !.today = today] = new
    BY <1>6, <2>1
  <2> QED
    BY <1>4, <1>5, <2>2
<1>8. stats' = [stats EXCEPT ![u] =
                  Stats!Updated(stats[u], mem[a].studied, mem[a].correct, today)]
  BY <1>1, SameUpdate
<1>9. /\ StatsCall(a).pc = "called" /\ StatsCall(a).user = u
      /\ StatsCall(a).studied = mem[a].studied /\ StatsCall(a).correct = mem[a].correct
      /\ StatsCall(a).today = mem[a].today
  BY <1>4
<1> HIDE DEF u, old, new
<1> QED
  BY <1>2, <1>7, <1>8, <1>9 DEF Stats!Upsert

LEMMA Drops ==
  ASSUME TypeOK, NEW a \in Answers, StatementFails(a) \/ HandlerDies(a), pc[a] = "credit"
  PROVE  Stats!Drop(a)
<1>1. /\ pc' = [pc EXCEPT ![a] = "unrecorded"] \/ pc' = [pc EXCEPT ![a] = "failed"]
      /\ mem' = mem /\ req' = req /\ stats' = stats /\ day' = day
  BY DEF StatementFails, HandlerDies, Goto, tables
<1>2. StatsCall(a).pc = "called"
  BY StatsCallCases
<1>3. StatsCall(a)' = [pc |-> "idle"]
  <2>1. pc'[a] \notin {"credit", "credited"}
    BY <1>1 DEF TypeOK
  <2> QED
    BY <2>1, StatsCallCases
<1>4. \A b \in Answers \ {a} : StatsCall(b)' = StatsCall(b)
  <2> SUFFICES ASSUME NEW b \in Answers \ {a} PROVE StatsCall(b)' = StatsCall(b)
    OBVIOUS
  <2>1. pc'[b] = pc[b] /\ req'[b] = req[b] /\ mem'[b] = mem[b]
    BY <1>1 DEF TypeOK
  <2> QED
    BY <2>1, SameCall
<1>5. [b \in Answers |-> StatsCall(b)]'
        = [[b \in Answers |-> StatsCall(b)] EXCEPT ![a] = [pc |-> "idle"]]
  BY <1>3, <1>4
<1> QED
  BY <1>1, <1>2, <1>5 DEF Stats!Drop, Stats!Idle

\* Every other step leaves the calls alone.
LEMMA CallsStay ==
  ASSUME UNCHANGED <<stats, day>>, \A a \in Answers : StatsCall(a)' = StatsCall(a)
  PROVE  UNCHANGED Stats!vars
BY DEF Stats!vars

LEMMA OwnCallStays ==
  ASSUME TypeOK, NEW a \in Answers,
         \A b \in Answers \ {a} : pc'[b] = pc[b] /\ req'[b] = req[b] /\ mem'[b] = mem[b],
         pc[a] \notin {"credit", "credited"}, pc'[a] \notin {"credit", "credited"},
         UNCHANGED <<stats, day>>
  PROVE  UNCHANGED Stats!vars
<1>1. ASSUME NEW b \in Answers PROVE StatsCall(b)' = StatsCall(b)
  BY SameCall
<1> QED
  BY <1>1, CallsStay

LEMMA StepImplements ==
  TypeOK /\ TypeOK' /\ TallyBound /\ [Next]_vars => [Stats!Next]_(Stats!vars)
<1> SUFFICES ASSUME TypeOK, TypeOK', TallyBound, [Next]_vars
             PROVE  [Stats!Next]_(Stats!vars)
  OBVIOUS
<1>1. ASSUME NEW a \in Answers, Submit(a) PROVE UNCHANGED Stats!vars
  BY <1>1, OwnCallStays, SMTT(30) DEF Submit, Goto, TypeOK, tables
<1>2. ASSUME NEW a \in Answers, Answer(a) PROVE [Stats!Next]_(Stats!vars)
  <2>1. CASE ReloadSession(a)
    <3>1. CASE session[req[a].session].live
      BY <2>1, <3>1, Calls DEF Stats!Next
    <3>2. CASE ~session[req[a].session].live
      BY <2>1, <3>2, OwnCallStays, SMTT(30) DEF ReloadSession, Goto, TypeOK, tables
    <3> QED
      BY <3>1, <3>2
  <2>2. CASE CreditUser(a)
    BY <2>2, Upserts DEF Stats!Next
  <2>3. CASE ReadProgress(a) \/ LoadSession(a) \/ CountMastered(a)
    <3>1. /\ pc[a] \in {"read", "load", "snapshot"} /\ req' = req
          /\ \/ pc' = [pc EXCEPT ![a] = "review"]
             \/ pc' = [pc EXCEPT ![a] = "snapshot"]
             \/ pc' = [pc EXCEPT ![a] = "write"]
          /\ UNCHANGED <<stats, day>>
      BY <2>3 DEF ReadProgress, LoadSession, CountMastered, Goto, tables
    <3>2. \A b \in Answers \ {a} : mem'[b] = mem[b]
      BY <2>3 DEF ReadProgress, LoadSession, CountMastered, TypeOK
    <3>3. /\ pc'[a] \notin {"credit", "credited"}
          /\ \A b \in Answers \ {a} : pc'[b] = pc[b] /\ req'[b] = req[b]
      BY <3>1 DEF TypeOK
    <3>4. pc[a] \notin {"credit", "credited"} /\ req' = req /\ UNCHANGED <<stats, day>>
      BY <3>1
    <3> QED
      BY <3>2, <3>3, <3>4, OwnCallStays
  <2>4. CASE RecordReview(a)
    <3>1. /\ pc[a] = "review" /\ UNCHANGED <<req, mem, stats, day>>
          /\ pc' = [pc EXCEPT ![a] = "bump"] \/ pc' = [pc EXCEPT ![a] = "failed"]
      BY <2>4 DEF RecordReview, Goto
    <3> QED
      BY <3>1, OwnCallStays, ZenonT(30) DEF TypeOK
  <2>5. CASE BumpTally(a) \/ LogAnswer(a) \/ MarkCompleted(a) \/ WriteMastery(a)
    <3>1. /\ pc[a] \notin {"credit", "credited"} /\ UNCHANGED <<req, stats, day>>
          /\ \A b \in Answers \ {a} : mem'[b] = mem[b]
          /\ \E step : /\ step \notin {"credit", "credited"}
                       /\ pc' = [pc EXCEPT ![a] = step]
      <4>1. CASE BumpTally(a)
        BY <4>1 DEF BumpTally, Goto, TypeOK
      <4>2. CASE LogAnswer(a)
        BY <4>2 DEF LogAnswer, Goto
      <4>3. CASE MarkCompleted(a)
        BY <4>3 DEF MarkCompleted, Goto
      <4>4. CASE WriteMastery(a)
        BY <4>4 DEF WriteMastery, AfterMastery, Goto
      <4> QED
        BY <2>5, <4>1, <4>2, <4>3, <4>4
    <3>2. pc'[a] \notin {"credit", "credited"} /\ \A b \in Answers \ {a} : pc'[b] = pc[b]
      BY <3>1 DEF TypeOK
    <3> QED
      BY <3>1, <3>2, OwnCallStays
  <2> QED
    BY <1>2, <2>1, <2>2, <2>3, <2>4, <2>5 DEF Answer
<1>3. ASSUME NEW a \in Answers, StatementFails(a) \/ HandlerDies(a)
      PROVE  [Stats!Next]_(Stats!vars)
  <2>1. CASE pc[a] = "credit"
    BY <1>3, <2>1, Drops DEF Stats!Next
  <2>2. CASE pc[a] # "credit"
    <3>1. /\ pc[a] # "credited" /\ pc'[a] \notin {"credit", "credited"}
          /\ req' = req /\ UNCHANGED <<stats, day>>
          /\ \A b \in Answers \ {a} : pc'[b] = pc[b] /\ mem'[b] = mem[b]
      BY <1>3, <2>2 DEF StatementFails, HandlerDies, AfterMastery, Goto, Steps, TypeOK, tables
    <3> QED
      BY <2>2, <3>1, OwnCallStays
  <2> QED
    BY <2>1, <2>2
<1>4. CASE NextDay
  <2>1. ASSUME NEW b \in Answers PROVE StatsCall(b)' = StatsCall(b)
    BY <1>4, SameCall DEF NextDay, handlers
  <2> QED
    BY <1>4, <2>1 DEF NextDay, Stats!NextDay, Stats!Next, tables
<1>5. ASSUME UNCHANGED <<stats, pc, req, mem, day>> PROVE UNCHANGED Stats!vars
  BY <1>5, SameCall, CallsStay
<1> QED
  BY <1>1, <1>2, <1>3, <1>4, <1>5 DEF Next, BeginStart, InsertSession, AddBookmark,
     StartFails, Stop, CreateCard, DeleteCard, DeleteDeck, vars, tables, handlers

\* The study handlers implement the statistics module, so what UserStats proves of
\* totals and streaks holds of every run of the handlers (models/session.go:72-91,
\* models/user_stats.go).
THEOREM RefinementTheorem == Spec => DrivesStats
<1>1. Init => TallyBound
  <2> SUFFICES ASSUME Init PROVE TallyBound
    OBVIOUS
  <2>1. /\ \A s \in Sessions : /\ session[s].cards_studied = 0
                               /\ session[s].correct_count = 0
        /\ \A a \in Answers : pc[a] = "idle"
    BY DEF Init, NoSession
  <2> QED
    BY <2>1, PastFinite DEF TallyBound, WithinBounds
<1>2. Init => Stats!Init
  <2> SUFFICES ASSUME Init PROVE Stats!Init
    OBVIOUS
  <2>1. \A a \in Answers : StatsCall(a) = [pc |-> "idle"]
    BY StatsCallCases DEF Init
  <2> QED
    BY <2>1 DEF Init, Stats!Init, Stats!SeedRow, SeedRow, Stats!Never, Never, Stats!Idle
<1>3. TypeOK /\ TallyBound /\ [Next]_vars => TallyBound' /\ [Stats!Next]_(Stats!vars)
  BY NextType, NextBound, StepImplements
<1> QED
  BY TypeCorrect, <1>1, <1>2, <1>3, PTL DEF Spec, DrivesStats, Stats!Spec

-----------------------------------------------------------------------------
(* What the refinement carries over *)

LEMMA StatsParameters == StatsFacts!IsFiniteSet(Answers) /\ Cardinality(Answers) \in Nat
                           /\ MaxDay \in Nat \ {0}
  BY StudyAssumption, FS_CardinalityType DEF StatsFacts!IsFiniteSet, IsFiniteSet

LEMMA SameStatistics == DrivesStats <=> StatsFacts!Spec
  BY DEF DrivesStats, Stats!Spec, Stats!Init, Stats!Next, Stats!vars, Stats!Call,
         Stats!Upsert, Stats!Drop, Stats!NextDay, Stats!Idle, Stats!SeedRow, Stats!Never,
         Stats!Updated, Stats!StreakOn, Stats!Greatest, Stats!XpGained,
         StatsFacts!Spec, StatsFacts!Init, StatsFacts!Next, StatsFacts!vars,
         StatsFacts!Call, StatsFacts!Upsert, StatsFacts!Drop, StatsFacts!NextDay,
         StatsFacts!Idle, StatsFacts!SeedRow, StatsFacts!Never, StatsFacts!Updated,
         StatsFacts!StreakOn, StatsFacts!Greatest, StatsFacts!XpGained

\* In every run of the study handlers, with whatever requests, failures and overlaps,
\* no streak is overstated: the days it claims all had a session that was completed
\* (models/user_stats.go:55-71, models/session.go:72-91).
THEOREM StudyStreakTheorem == Spec => []Stats!StreakNeverOverstated
<1>1. StatsFacts!Spec => []StatsFacts!StreakNeverOverstated
  BY StatsParameters, StatsFacts!StreakTheorem
<1>2. StatsFacts!StreakNeverOverstated => Stats!StreakNeverOverstated
  BY DEF Stats!StreakNeverOverstated, Stats!Never, Stats!StudyDays, Stats!Done,
         StatsFacts!StreakNeverOverstated, StatsFacts!Never, StatsFacts!StudyDays,
         StatsFacts!Done
<1> QED
  BY <1>1, <1>2, SameStatistics, RefinementTheorem, PTL

\* In every run of the study handlers the totals of a user are the sums of the
\* completions that were credited, once each: sessions, cards, correct cards and XP
\* (models/user_stats.go:36-77, models/session.go:72-91).
THEOREM StudyTotalsTheorem == Spec => []Stats!TotalsAddUp
<1>1. StatsFacts!Spec => []StatsFacts!TotalsAddUp
  BY StatsParameters, StatsFacts!TotalsTheorem
<1>2. \A S : StatsFacts!Cardinality(S) = Stats!Cardinality(S)
  BY DEF Stats!Cardinality, StatsFacts!Cardinality, Stats!IsFiniteSet,
         StatsFacts!IsFiniteSet
<1>3. \A f, S : StatsFacts!SumFunctionOnSet(f, S) = Stats!SumFunctionOnSet(f, S)
  BY DEF StatsFacts!SumFunctionOnSet, StatsFacts!FoldFunctionOnSet,
         StatsFacts!MapThenFoldSet, Stats!SumFunctionOnSet, Stats!FoldFunctionOnSet,
         Stats!MapThenFoldSet
<1>4. StatsFacts!TotalsAddUp => Stats!TotalsAddUp
  BY <1>2, <1>3 DEF Stats!TotalsAddUp, Stats!Done, Stats!StudiedBy, Stats!CorrectBy,
         StatsFacts!TotalsAddUp, StatsFacts!Done, StatsFacts!StudiedBy,
         StatsFacts!CorrectBy
<1> QED
  BY <1>1, <1>4, SameStatistics, RefinementTheorem, PTL

\* In every run of the study handlers a streak that is exact stays exact, as long
\* as completions reach the table in the order of their dates
\* (models/user_stats.go:55-71).
THEOREM StudyExactTheorem == Spec => Stats!StreakFollowsDays
<1>1. StatsFacts!Spec => StatsFacts!StreakFollowsDays
  BY StatsParameters, StatsFacts!ExactTheorem
<1>2. StatsFacts!StreakFollowsDays <=> Stats!StreakFollowsDays
  BY DEF Stats!StreakFollowsDays, Stats!StreakExactOf, Stats!StudyDays, Stats!Done,
         Stats!SeedRow, Stats!Never, Stats!Days, Stats!vars,
         StatsFacts!StreakFollowsDays, StatsFacts!StreakExactOf, StatsFacts!StudyDays,
         StatsFacts!Done, StatsFacts!SeedRow, StatsFacts!Never, StatsFacts!Days,
         StatsFacts!vars
<1> QED
  BY <1>1, <1>2, SameStatistics, RefinementTheorem

-----------------------------------------------------------------------------
(* With the well-behaved frontend *)

LEMMA ClientSteps == ClientSpec => Spec /\ [][Moves]_vars
<1>1. [ClientNext]_clientVars => [Moves]_vars /\ [Next]_vars
  BY DEF ClientNext, clientVars, Moves, Next
<1>2. ClientInit => Init
  BY DEF ClientInit
<1> QED
  BY <1>1, <1>2, PTL DEF ClientSpec, Spec

\* A user has one request at a time, an answer is to a card of the deck of the
\* user's own session, and that session is there as long as its deck is.
OneRequest ==
  /\ \A a, b \in Answers :
        pc[a] \in Steps /\ pc[b] \in Steps /\ req[a].user = req[b].user => a = b
  /\ \A a \in Answers, s \in Sessions :
        pc[a] \in Steps /\ start[s] \in {"insert", "bookmark"}
          => req[a].user # SessionUser[s]

OwnDeck ==
  \A a \in Answers : pc[a] # "idle" =>
    /\ req[a].user = SessionUser[req[a].session]
    /\ CardDeck[req[a].card] = SessionDeck[req[a].session]

SessionStays ==
  \A a \in Answers : pc[a] \in Steps =>
     session[req[a].session].live \/ deck[SessionDeck[req[a].session]] = "gone"

OrderInv == OneRequest /\ OwnDeck /\ SessionStays

\* Which way an answer goes when nothing fails.
LEMMA AnswerFrame ==
  ASSUME TypeOK, NEW a \in Answers, Answer(a)
  PROVE  /\ pc[a] \in Steps /\ pc'[a] \in Steps \cup Outcomes
         /\ \A b \in Answers \ {a} : pc'[b] = pc[b] /\ mem'[b] = mem[b]
         /\ req' = req /\ start' = start /\ deck' = deck /\ card' = card
         /\ \A s \in Sessions : session'[s].live = session[s].live
<1>1. CASE ReadProgress(a)
  BY <1>1 DEF ReadProgress, Goto, TypeOK, Steps, tables
<1>2. CASE RecordReview(a)
  BY <1>2 DEF RecordReview, Goto, TypeOK, Steps, Outcomes
<1>3. CASE BumpTally(a)
  <2>1. \A s \in Sessions : session'[s].live = session[s].live
    BY <1>3 DEF BumpTally, TypeOK, SessionRows
  <2> QED
    BY <1>3, <2>1 DEF BumpTally, Goto, TypeOK, Steps
<1>4. CASE LogAnswer(a)
  BY <1>4 DEF LogAnswer, Goto, TypeOK, Steps, Outcomes
<1>5. CASE LoadSession(a)
  BY <1>5 DEF LoadSession, Goto, TypeOK, Steps, tables
<1>6. CASE CountMastered(a)
  BY <1>6 DEF CountMastered, Goto, TypeOK, Steps, tables
<1>7. CASE WriteMastery(a)
  BY <1>7 DEF WriteMastery, AfterMastery, Goto, TypeOK, Steps, Outcomes
<1>8. CASE MarkCompleted(a)
  <2>1. \A s \in Sessions : session'[s].live = session[s].live
    BY <1>8 DEF MarkCompleted, TypeOK, SessionRows
  <2> QED
    BY <1>8, <2>1 DEF MarkCompleted, Goto, TypeOK, Steps
<1>9. CASE ReloadSession(a)
  BY <1>9 DEF ReloadSession, Goto, TypeOK, Steps, Outcomes, tables
<1>10. CASE CreditUser(a)
  BY <1>10 DEF CreditUser, Goto, TypeOK, Steps, Outcomes
<1> QED
  BY <1>1, <1>2, <1>3, <1>4, <1>5, <1>6, <1>7, <1>8, <1>9, <1>10 DEF Answer

\* What one new answer brings.
LEMMA SubmitFrame ==
  ASSUME TypeOK, NEW a \in Answers, Submit(a)
  PROVE  /\ pc[a] = "idle" /\ pc'[a] = "read" /\ req'[a] \in Requests
         /\ \A b \in Answers \ {a} : pc'[b] = pc[b] /\ req'[b] = req[b]
         /\ UNCHANGED <<tables, start, mem>>
BY DEF Submit, Goto, TypeOK

LEMMA NextOrder == TypeOK /\ OrderInv /\ [Moves]_vars => OrderInv'
<1> SUFFICES ASSUME TypeOK, OrderInv, [Moves]_vars PROVE OrderInv'
  OBVIOUS
<1> USE StudyAssumption DEF OrderInv
<1>1. ASSUME NEW s \in Sessions, BeginStart(s), ~Busy(SessionUser[s]) PROVE OrderInv'
  <2>1. OneRequest'
    BY <1>1 DEF BeginStart, OneRequest, Busy, TypeOK
  <2> QED
    BY <1>1, <2>1 DEF BeginStart, OwnDeck, SessionStays, tables
<1>2. ASSUME NEW s \in Sessions, InsertSession(s) PROVE OrderInv'
  <2>1. OneRequest'
    BY <1>2 DEF InsertSession, OneRequest, TypeOK
  <2>2. \A o \in Sessions : session[o].live => session'[o].live
    <3>1. CASE session' = session
      BY <3>1
    <3>2. CASE session' = [session EXCEPT ![s].live = TRUE]
      BY <3>2 DEF TypeOK, SessionRows
    <3> QED
      BY <1>2, <3>1, <3>2 DEF InsertSession
  <2>3. \A a \in Answers : pc[a] \in Steps => req[a].session \in Sessions
    BY RequestType DEF Steps
  <2> QED
    BY <1>2, <2>1, <2>2, <2>3 DEF InsertSession, OwnDeck, SessionStays
<1>3. ASSUME NEW s \in Sessions, AddBookmark(s) PROVE OrderInv'
  BY <1>3 DEF AddBookmark, OneRequest, OwnDeck, SessionStays, TypeOK
<1>4. ASSUME NEW u \in Users, NEW d \in Decks, Stop(u, d), ~Busy(u) PROVE OrderInv'
  <2>1. \A a \in Answers : pc[a] \in Steps =>
           session'[req[a].session] = session[req[a].session]
    <3> SUFFICES ASSUME NEW a \in Answers, pc[a] \in Steps
                 PROVE  session'[req[a].session] = session[req[a].session]
      OBVIOUS
    <3>1. req[a].session \in Sessions /\ req[a].user # u
      BY <1>4, RequestType DEF Busy, Steps
    <3>2. SessionUser[req[a].session] # u
      BY <3>1 DEF OwnDeck, Steps
    <3> QED
      BY <1>4, <3>1, <3>2 DEF Stop
  <2> QED
    BY <1>4, <2>1 DEF Stop, handlers, OneRequest, OwnDeck, SessionStays
<1>5. ASSUME NEW a \in Answers, Submit(a), Presented(a) PROVE OrderInv'
  <2>1. /\ req'[a].session \in Sessions /\ req'[a].user = SessionUser[req'[a].session]
        /\ CardDeck[req'[a].card] = SessionDeck[req'[a].session]
        /\ session[req'[a].session].live /\ ~Busy(req'[a].user)
    BY <1>5, SubmitFrame DEF Presented, Requests
  <2>2. OneRequest'
    BY <1>5, <2>1, SubmitFrame DEF OneRequest, Busy, Steps
  <2>3. OwnDeck'
    BY <1>5, <2>1, SubmitFrame DEF OwnDeck
  <2>4. SessionStays'
    BY <1>5, <2>1, SubmitFrame DEF SessionStays, tables
  <2> QED
    BY <2>2, <2>3, <2>4
<1>6. ASSUME NEW a \in Answers, Answer(a) PROVE OrderInv'
  <2>1. \A b \in Answers : pc'[b] \in Steps => pc[b] \in Steps
    BY <1>6, AnswerFrame
  <2>2. \A b \in Answers : pc'[b] # "idle" => pc[b] # "idle"
    BY <1>6, AnswerFrame DEF Steps
  <2>3. \A b \in Answers : pc[b] \in Steps => req[b].session \in Sessions
    BY RequestType DEF Steps
  <2>4. OneRequest'
    BY <1>6, <2>1, AnswerFrame DEF OneRequest
  <2>5. OwnDeck'
    BY <1>6, <2>2, AnswerFrame DEF OwnDeck
  <2>6. SessionStays'
    BY <1>6, <2>1, <2>3, AnswerFrame DEF SessionStays
  <2> QED
    BY <2>4, <2>5, <2>6
<1>7. ASSUME NEW d \in Decks, DeleteDeck(d) PROVE OrderInv'
  <2>1. OneRequest' /\ OwnDeck'
    BY <1>7 DEF DeleteDeck, handlers, OneRequest, OwnDeck
  <2>2. ASSUME NEW a \in Answers, pc'[a] \in Steps
        PROVE  session'[req'[a].session].live \/ deck'[SessionDeck[req'[a].session]] = "gone"
    <3>1. pc[a] \in Steps /\ req'[a] = req[a] /\ req[a].session \in Sessions
      BY <1>7, <2>2, RequestType DEF DeleteDeck, handlers, Steps
    <3> QED
      BY <1>7, <3>1 DEF DeleteDeck, SessionStays, TypeOK
  <2> QED
    BY <2>1, <2>2 DEF SessionStays
<1>10. ASSUME NEW c \in Cards, CreateCard(c) \/ DeleteCard(c) PROVE OrderInv'
  BY <1>10 DEF CreateCard, DeleteCard, handlers, OneRequest, OwnDeck, SessionStays
<1>8. CASE NextDay
  BY <1>8 DEF NextDay, tables, handlers, OneRequest, OwnDeck, SessionStays
<1>9. CASE UNCHANGED vars
  BY <1>9 DEF vars, tables, handlers, OneRequest, OwnDeck, SessionStays
<1> QED
  BY <1>1, <1>2, <1>3, <1>4, <1>5, <1>6, <1>7, <1>8, <1>9, <1>10 DEF Moves

\* An answer this frontend sends names a session whose start is over.
SubmittedInv ==
  \A a \in Answers : pc[a] # "idle" => start[req[a].session] = "started"

LEMMA NextSubmitted ==
  TypeOK /\ LogInv /\ SubmittedInv /\ [Moves]_vars /\ [Next]_vars => SubmittedInv'
<1> SUFFICES ASSUME TypeOK, LogInv, SubmittedInv, [Moves]_vars, [Next]_vars,
                    NEW a \in Answers, pc'[a] # "idle"
             PROVE  start'[req'[a].session] = "started"
  BY DEF SubmittedInv
<1>1. CASE pc[a] # "idle"
  <2>1. req'[a] = req[a] /\ req[a].session \in Sessions
    BY <1>1, RequestKept, RequestType
  <2> QED
    BY <1>1, <2>1, StartOnward DEF SubmittedInv
<1>2. CASE pc[a] = "idle"
  <2>1. Submit(a) /\ Presented(a)
    <3>1. ASSUME NEW b \in Answers, Submit(b), Presented(b) PROVE b = a
      BY <1>2, <3>1, SubmitFrame
    <3>2. ASSUME NEW b \in Answers, Answer(b) PROVE FALSE
      BY <1>2, <3>2, AnswerFrame DEF Steps
    <3> QED
      BY <1>2, <3>1, <3>2 DEF Moves, BeginStart, InsertSession, AddBookmark, Stop,
         CreateCard, DeleteCard, DeleteDeck, NextDay, vars, handlers
  <2> DEFINE s == req'[a].session
  <2>2. s \in Sessions /\ session[s].live /\ ~Busy(SessionUser[s]) /\ start' = start
    BY <2>1, SubmitFrame DEF Presented, Requests
  <2>3. start[s] \in Saved
    BY <2>2 DEF LogInv, TallyCounts, Tallied
  <2>4. start[s] # "bookmark"
    BY <2>2 DEF Busy
  <2> QED
    BY <2>2, <2>3, <2>4 DEF Saved
<1> QED
  BY <1>1, <1>2

\* The memory about to be written is the review of the one that is there.
ReviewCurrent ==
  \A a \in Answers : pc[a] = "review" /\ card[req[a].card] # "gone" =>
    mem[a].memory = Review(progress[req[a].user][req[a].card].memory, req[a].rating)

\* A step that records no review.
LEMMA ExactFrame ==
  ASSUME MemoryExact, ReviewCurrent, progress' = progress,
         \A a \in Answers : pc'[a] = "review" =>
            /\ pc[a] = "review" /\ req'[a] = req[a]
            /\ mem'[a].memory = mem[a].memory
            /\ card'[req[a].card] # "gone" => card[req[a].card] # "gone"
  PROVE  MemoryExact' /\ ReviewCurrent'
BY DEF MemoryExact, ReviewCurrent

LEMMA NextExact ==
  TypeOK /\ OrderInv /\ MemoryExact /\ ReviewCurrent /\ [Moves]_vars
    => MemoryExact' /\ ReviewCurrent'
<1> SUFFICES ASSUME TypeOK, OrderInv, MemoryExact, ReviewCurrent, [Moves]_vars
             PROVE  MemoryExact' /\ ReviewCurrent'
  OBVIOUS
<1> DEFINE Goal == MemoryExact' /\ ReviewCurrent'
<1>1. ASSUME NEW a \in Answers, Submit(a) PROVE Goal
  BY <1>1, SubmitFrame, ExactFrame DEF tables
<1>2. ASSUME NEW a \in Answers, Answer(a) PROVE Goal
  <2> DEFINE u == req[a].user
             c == req[a].card
             rating == req[a].rating
  <2>1. pc[a] # "idle" /\ u \in Users /\ c \in Cards /\ rating \in AllRatings
    BY <1>2, AnswerFrame, RequestType DEF Steps
  <2>2. progress[u][c] \in ProgressRows /\ progress[u][c].memory \in Memories
    BY <2>1 DEF TypeOK, ProgressRows
  <2>3. CASE ReadProgress(a)
    <3>1. /\ mem'[a].memory = Review(progress[u][c].memory, rating)
          /\ progress' = progress /\ req' = req /\ card' = card
      BY <2>3 DEF ReadProgress, tables, TypeOK, Locals
    <3> QED
      BY <1>2, <3>1, AnswerFrame DEF MemoryExact, ReviewCurrent
  <2>4. CASE RecordReview(a) /\ card[c] = "live"
    <3>1. mem[a].memory = Review(progress[u][c].memory, rating)
      BY <2>4 DEF ReviewCurrent, RecordReview
    <3>2. /\ progress'[u][c].times_reviewed = progress[u][c].times_reviewed + 1
          /\ progress'[u][c].memory = mem[a].memory
      BY <2>1, <2>4 DEF RecordReview, TypeOK
    <3>3. \A v \in Users, e \in Cards : v # u \/ e # c =>
             progress'[v][e] = progress[v][e]
      BY <2>1, <2>4 DEF RecordReview, TypeOK
    <3>4. MemoryExact'
      <4>1. /\ mem[a].memory.reps + mem[a].memory.lapses
                 = progress[u][c].memory.reps + progress[u][c].memory.lapses + 1
            /\ progress[u][c].memory.reps + progress[u][c].memory.lapses
                 = progress[u][c].times_reviewed
        BY <2>1, <2>2, <3>1, ReviewAddsOne DEF MemoryExact
      <4>2. progress'[u][c].memory.reps + progress'[u][c].memory.lapses
              = progress'[u][c].times_reviewed
        BY <3>2, <4>1
      <4>3. ASSUME NEW v \in Users, NEW e \in Cards
            PROVE  progress'[v][e].memory.reps + progress'[v][e].memory.lapses
                     = progress'[v][e].times_reviewed
        BY <3>3, <4>2, <4>3 DEF MemoryExact
      <4> QED
        BY <4>3 DEF MemoryExact
    <3>5. ASSUME NEW b \in Answers, pc'[b] = "review", card'[req'[b].card] # "gone"
          PROVE  mem'[b].memory
                   = Review(progress'[req'[b].user][req'[b].card].memory, req'[b].rating)
      <4>1. b # a
        BY <2>4, <3>5 DEF RecordReview, Goto, TypeOK
      <4>2. /\ pc[b] = "review" /\ req'[b] = req[b] /\ mem'[b] = mem[b]
            /\ card[req[b].card] # "gone"
        BY <1>2, <3>5, <4>1, AnswerFrame
      <4>3. req[b].user # u /\ req[b].user \in Users /\ req[b].card \in Cards
        BY <2>4, <4>1, <4>2, RequestType DEF OrderInv, OneRequest, Steps, RecordReview
      <4> QED
        BY <3>3, <4>2, <4>3 DEF ReviewCurrent
    <3> QED
      BY <3>4, <3>5 DEF ReviewCurrent
  <2>5. CASE ~ReadProgress(a) /\ ~(RecordReview(a) /\ card[c] = "live")
    <3>1. progress' = progress /\ pc'[a] # "review"
      BY <1>2, <2>5 DEF Answer, RecordReview, BumpTally, LogAnswer, LoadSession,
         CountMastered, WriteMastery, AfterMastery, MarkCompleted, ReloadSession,
         CreditUser, Goto, TypeOK, tables
    <3> QED
      BY <1>2, <3>1, AnswerFrame, ExactFrame
  <2> QED
    BY <2>3, <2>4, <2>5
<1>3. ASSUME NEW gone \in SUBSET Cards, ForgetCards(gone), UNCHANGED handlers PROVE Goal
  <2>1. \A v \in Users, e \in Cards :
          /\ progress'[v][e] = IF e \in gone THEN NoProgress ELSE progress[v][e]
          /\ card'[e] = IF e \in gone THEN "gone" ELSE card[e]
    BY <1>3 DEF ForgetCards
  <2>2. MemoryExact'
    BY <2>1, NewMemoryType DEF MemoryExact, NoProgress
  <2>3. \A b \in Answers : pc[b] = "review" => /\ req[b].user \in Users
                                               /\ req[b].card \in Cards
    BY RequestType
  <2>4. ReviewCurrent'
    BY <1>3, <2>1, <2>3 DEF handlers, ReviewCurrent
  <2> QED
    BY <2>2, <2>4
<1>5. ASSUME NEW c \in Cards, DeleteCard(c) PROVE Goal
  BY <1>3, <1>5 DEF DeleteCard
<1>6. ASSUME NEW d \in Decks, DeleteDeck(d) PROVE Goal
  <2>1. CardsOf(d) \in SUBSET Cards
    BY DEF CardsOf
  <2> QED
    BY <1>3, <1>6, <2>1 DEF DeleteDeck
<1>7. ASSUME NEW c \in Cards, CreateCard(c) PROVE Goal
  <2>1. \A b \in Answers : pc[b] = "review" => req[b].card \in Cards
    BY RequestType
  <2>2. \A e \in Cards : card'[e] # "gone" => card[e] # "gone"
    BY <1>7 DEF CreateCard, TypeOK
  <2> QED
    BY <1>7, <2>1, <2>2, ExactFrame DEF CreateCard, handlers
<1>4. ASSUME UNCHANGED <<progress, card, pc, req, mem>> PROVE Goal
  BY <1>4, ExactFrame
<1> QED
  BY <1>1, <1>2, <1>4, <1>5, <1>6, <1>7 DEF Moves, BeginStart, InsertSession, AddBookmark, Stop,
     NextDay, vars, tables, handlers

\* A memory loses no review when the frontend is well behaved, whatever the author
\* does to the deck: only overlapping reviews of one card, or a failed read, lose one
\* (models/user_card_progress.go:49-106).
THEOREM ExactMemoryTheorem == ClientSpec => []MemoryExact
<1>1. Init => OrderInv /\ MemoryExact /\ ReviewCurrent
  <2> SUFFICES ASSUME Init PROVE OrderInv /\ MemoryExact /\ ReviewCurrent
    OBVIOUS
  <2>1. \A a \in Answers : pc[a] = "idle"
    BY DEF Init
  <2>2. OrderInv
    BY <2>1, StudyAssumption DEF Init, OrderInv, OneRequest, OwnDeck, SessionStays, Steps
  <2>3. MemoryExact
    BY NewMemoryType DEF Init, MemoryExact, NoProgress
  <2> QED
    BY <2>1, <2>2, <2>3 DEF ReviewCurrent
<1> QED
  BY TypeCorrect, ClientSteps, NextOrder, NextExact, <1>1, PTL DEF Spec

-----------------------------------------------------------------------------
(* What a deck shows of the user's mastery *)

\* Between recording a review and writing the mastery of the deck.
Refreshing == {"bump", "log", "load", "snapshot", "write"}

\* A percentage that is out of date is due to an edit by the author, or to an answer
\* that will yet write it.
Shown ==
  \A u \in Users, d \in Decks : deck[d] = "live" =>
    \/ mastery[u][d] = Percent(u, d)
    \/ <<u, d>> \in edited
    \/ \E a \in Answers : /\ pc[a] \in Refreshing /\ req[a].user = u
                          /\ SessionDeck[req[a].session] = d

\* Such an answer has loaded the deck of its card, unless that is gone.
Loaded ==
  \A a \in Answers, d \in Decks :
    pc[a] \in {"snapshot", "write"} /\ SessionDeck[req[a].session] = d =>
      /\ mem[a].deck \in {NoDeck, d}
      /\ deck[d] = "live" => mem[a].deck = d

\* What it has counted is still right when it writes it, but for an edit.
CountedRight ==
  \A a \in Answers, u \in Users, d \in Decks :
    pc[a] = "write" /\ req[a].user = u /\ SessionDeck[req[a].session] = d
      /\ deck[d] = "live" => mem[a].percent = Percent(u, d) \/ <<u, d>> \in edited

\* It only ends without a count when the author has deleted its card.
EditKnown ==
  \A a \in Answers, u \in Users, d \in Decks :
    pc[a] \in {"bump", "log"} /\ req[a].user = u /\ SessionDeck[req[a].session] = d
      /\ deck[d] = "live" => card[req[a].card] = "live" \/ <<u, d>> \in edited

MasteryInv == Shown /\ Loaded /\ CountedRight /\ EditKnown

\* An edit is known until the user's count.
EditsStay == \A u \in Users, d \in Decks : <<u, d>> \in edited => <<u, d>> \in edited'

LEMMA EditsKept ==
  ASSUME TypeOK, EditsTracked,
         \A a \in Answers : pc'[a] = "write" => pc[a] = "write"
  PROVE  /\ EditsStay
         /\ \A u \in Users, d \in Decks : CardsOf(d)' # CardsOf(d) => <<u, d>> \in edited'
<1>1. \A a \in Answers : ~CountMastered(a)
  BY DEF CountMastered, Goto, TypeOK
<1> QED
  BY <1>1 DEF EditsTracked, EditsStay

LEMMA CountsEdits ==
  ASSUME TypeOK, EditsTracked, NEW a \in Answers, CountMastered(a)
  PROVE  \A u \in Users, d \in Decks :
            <<u, d>> \in edited =>
               <<u, d>> \in edited' \/ (u = req[a].user /\ d = mem[a].deck)
<1>1. \A b \in Answers : CountMastered(b) => b = a
  BY DEF CountMastered, Goto, TypeOK
<1> QED
  BY <1>1 DEF EditsTracked

\* A percentage depends on the cards of one deck and the rows of one user.
LEMMA PercentStays ==
  ASSUME NEW u \in Users, NEW d \in Decks,
         \A c \in Cards : CardDeck[c] = d => /\ card'[c] = card[c]
                                             /\ progress'[u][c] = progress[u][c]
  PROVE  Percent(u, d)' = Percent(u, d)
<1>1. CardsOf(d)' = CardsOf(d)
  BY DEF CardsOf
<1>2. {c \in CardsOf(d)' : progress'[u][c].memory.state = Mastered}
        = {c \in CardsOf(d) : progress[u][c].memory.state = Mastered}
  BY <1>1 DEF CardsOf
<1> QED
  BY <1>1, <1>2 DEF Percent

\* A step that takes no answer past its refresh.
LEMMA MasteryFrame ==
  ASSUME MasteryInv, EditsStay,
         UNCHANGED <<mastery, deck, card, progress>>,
         \A b \in Answers : pc[b] \in Refreshing =>
            pc'[b] \in Refreshing /\ req'[b] = req[b],
         \A b \in Answers : pc'[b] \in Refreshing =>
            /\ pc'[b] = pc[b] /\ req'[b] = req[b] /\ mem'[b] = mem[b]
  PROVE  MasteryInv'
<1>1. \A u \in Users, d \in Decks : Percent(u, d)' = Percent(u, d)
  BY PercentStays
<1>2. Shown'
  BY <1>1 DEF MasteryInv, Shown, EditsStay
<1>3. Loaded'
  BY DEF MasteryInv, Loaded, Refreshing
<1>4. CountedRight'
  BY <1>1 DEF MasteryInv, CountedRight, EditsStay, Refreshing
<1>5. EditKnown'
  BY DEF MasteryInv, EditKnown, EditsStay, Refreshing
<1> QED
  BY <1>2, <1>3, <1>4, <1>5 DEF MasteryInv

\* A step of one answer that records no review and writes no mastery.
LEMMA RefreshStep ==
  ASSUME TypeOK, OrderInv, MasteryInv, NEW a \in Answers, Answer(a),
         UNCHANGED <<mastery, progress>>,
         \A u \in Users, d \in Decks : <<u, d>> \in edited =>
            \/ <<u, d>> \in edited'
            \/ /\ u = req[a].user /\ d = SessionDeck[req[a].session]
               /\ pc'[a] = "write",
         pc[a] \in Refreshing => \/ pc'[a] \in Refreshing
                                 \/ deck[SessionDeck[req[a].session]] # "live"
                                 \/ <<req[a].user, SessionDeck[req[a].session]>> \in edited',
         pc'[a] \in {"bump", "log"} => pc[a] = "bump",
         pc'[a] \in {"snapshot", "write"} =>
            \A d \in Decks : SessionDeck[req[a].session] = d =>
              /\ mem'[a].deck \in {NoDeck, d}
              /\ deck[d] = "live" => mem'[a].deck = d,
         pc'[a] = "write" =>
            \A d \in Decks, u \in Users :
              SessionDeck[req[a].session] = d /\ req[a].user = u /\ deck[d] = "live"
                => mem'[a].percent = Percent(u, d)
  PROVE  MasteryInv'
<1>0. /\ req' = req /\ deck' = deck /\ card' = card /\ pc[a] \in Steps
      /\ \A b \in Answers \ {a} : pc'[b] = pc[b] /\ mem'[b] = mem[b]
  BY AnswerFrame
<1>1. \A u \in Users, d \in Decks : Percent(u, d)' = Percent(u, d)
  BY <1>0, PercentStays
<1>2. \A b \in Answers \ {a} : pc[b] \in Steps => req[b].user # req[a].user
  BY <1>0 DEF OrderInv, OneRequest
<1>3. Shown'
  <2> SUFFICES ASSUME NEW u \in Users, NEW d \in Decks, deck'[d] = "live"
               PROVE  \/ mastery'[u][d] = Percent(u, d)'
                      \/ <<u, d>> \in edited'
                      \/ \E b \in Answers : /\ pc'[b] \in Refreshing /\ req'[b].user = u
                                            /\ SessionDeck[req'[b].session] = d
    BY DEF Shown
  <2>1. \/ mastery[u][d] = Percent(u, d)
        \/ <<u, d>> \in edited
        \/ \E b \in Answers : /\ pc[b] \in Refreshing /\ req[b].user = u
                              /\ SessionDeck[req[b].session] = d
    BY <1>0 DEF MasteryInv, Shown
  <2>2. CASE mastery[u][d] = Percent(u, d)
    BY <1>1, <2>2
  <2>3. CASE <<u, d>> \in edited
    BY <1>0, <2>3 DEF Refreshing
  <2>4. ASSUME NEW b \in Answers, pc[b] \in Refreshing, req[b].user = u,
               SessionDeck[req[b].session] = d
        PROVE  \/ <<u, d>> \in edited'
               \/ pc'[b] \in Refreshing /\ req'[b] = req[b]
    BY <1>0, <2>4
  <2> QED
    BY <2>1, <2>2, <2>3, <2>4
<1>4. Loaded'
  BY <1>0 DEF MasteryInv, Loaded
<1>5. CountedRight'
  <2> SUFFICES ASSUME NEW b \in Answers, NEW u \in Users, NEW d \in Decks,
                      pc'[b] = "write", req'[b].user = u,
                      SessionDeck[req'[b].session] = d, deck'[d] = "live"
               PROVE  mem'[b].percent = Percent(u, d)' \/ <<u, d>> \in edited'
    BY DEF CountedRight
  <2>1. CASE b = a
    BY <1>0, <1>1, <2>1
  <2>2. CASE b # a
    <3>1. pc[b] = "write" /\ u # req[a].user
      BY <1>0, <1>2, <2>2 DEF Steps
    <3>2. mem[b].percent = Percent(u, d) \/ <<u, d>> \in edited
      BY <1>0, <3>1 DEF MasteryInv, CountedRight
    <3> QED
      BY <1>0, <1>1, <2>2, <3>1, <3>2
  <2> QED
    BY <2>1, <2>2
<1>6. EditKnown'
  <2> SUFFICES ASSUME NEW b \in Answers, NEW u \in Users, NEW d \in Decks,
                      pc'[b] \in {"bump", "log"}, req'[b].user = u,
                      SessionDeck[req'[b].session] = d, deck'[d] = "live"
               PROVE  card'[req'[b].card] = "live" \/ <<u, d>> \in edited'
    BY DEF EditKnown
  <2>1. pc[b] \in {"bump", "log"}
    BY <1>0
  <2>2. card[req[b].card] = "live" \/ <<u, d>> \in edited
    BY <1>0, <2>1 DEF MasteryInv, EditKnown
  <2>3. b # a => u # req[a].user
    BY <1>0, <1>2, <2>1 DEF Steps
  <2> QED
    BY <1>0, <2>2, <2>3
<1> QED
  BY <1>3, <1>4, <1>5, <1>6 DEF MasteryInv

LEMMA AnswerMastery ==
  ASSUME TypeOK, OrderInv, MasteryInv, EditsTracked, NEW a \in Answers, Answer(a)
  PROVE  MasteryInv'
<1> USE StudyAssumption
<1> DEFINE u == req[a].user
           c == req[a].card
           s == req[a].session
           D == SessionDeck[s]
<1>0. /\ pc[a] \in Steps /\ u \in Users /\ c \in Cards /\ s \in Sessions /\ D \in Decks
      /\ CardDeck[c] = D
  BY AnswerFrame, RequestType DEF Steps, OrderInv, OwnDeck
<1>f. /\ req' = req /\ deck' = deck /\ card' = card
      /\ \A b \in Answers \ {a} : pc'[b] = pc[b] /\ mem'[b] = mem[b]
  BY AnswerFrame
<1>g. ~session[s].live => deck[D] # "live"
  BY <1>0 DEF OrderInv, SessionStays
<1>e. ~CountMastered(a) => EditsStay
  <2>1. ASSUME ~CountMastered(a) PROVE pc'[a] = "write" => pc[a] = "write"
    BY <2>1 DEF Answer, ReadProgress, RecordReview, BumpTally, LogAnswer, LoadSession,
       WriteMastery, AfterMastery, MarkCompleted, ReloadSession, CreditUser, Goto, TypeOK
  <2> QED
    BY <1>f, <2>1, EditsKept
<1>n. pc[a] # "snapshot" => ~CountMastered(a)
  BY DEF CountMastered
<1>h. mem[a] \in Locals
  BY DEF TypeOK
<1>1. CASE ReadProgress(a)
  BY <1>1, <1>e, <1>n, RefreshStep DEF ReadProgress, Goto, tables, TypeOK, Refreshing, EditsStay
<1>2. CASE RecordReview(a)
  <2>1. pc[a] = "review"
    BY <1>2 DEF RecordReview
  <2>2. CASE card[c] = "live"
    <3>1. pc'[a] = "bump" /\ mastery' = mastery /\ mem' = mem
      BY <1>2, <2>2 DEF RecordReview, Goto, TypeOK
    <3>2. \A v \in Users, e \in Cards : v # u \/ e # c =>
             progress'[v][e] = progress[v][e]
      <4>1. progress \in [Users -> [Cards -> ProgressRows]]
        BY DEF TypeOK
      <4>2. \E row : progress' = [progress EXCEPT ![u] = [progress[u] EXCEPT ![c] = row]]
        BY <1>2, <2>2 DEF RecordReview
      <4> QED
        BY <1>0, <4>1, <4>2
    <3>3. \A v \in Users, d \in Decks : v # u \/ d # D =>
             Percent(v, d)' = Percent(v, d)
      BY <1>0, <1>f, <3>2, PercentStays
    <3>4. Shown'
      <4> SUFFICES ASSUME NEW v \in Users, NEW d \in Decks, deck'[d] = "live"
                   PROVE  \/ mastery'[v][d] = Percent(v, d)'
                          \/ <<v, d>> \in edited'
                          \/ \E b \in Answers : /\ pc'[b] \in Refreshing
                                                /\ req'[b].user = v
                                                /\ SessionDeck[req'[b].session] = d
        BY DEF Shown
      <4>1. CASE v = u /\ d = D
        BY <1>f, <3>1, <4>1 DEF Refreshing
      <4>2. CASE v # u \/ d # D
        <5>1. \/ mastery[v][d] = Percent(v, d)
              \/ <<v, d>> \in edited
              \/ \E b \in Answers : /\ pc[b] \in Refreshing /\ req[b].user = v
                                    /\ SessionDeck[req[b].session] = d
          BY <1>f DEF MasteryInv, Shown
        <5> QED
          BY <1>e, <1>f, <1>n, <2>1, <3>1, <3>3, <4>2, <5>1 DEF EditsStay
      <4> QED
        BY <4>1, <4>2
    <3>5. Loaded'
      BY <1>f, <3>1 DEF MasteryInv, Loaded
    <3>6. CountedRight'
      <4> SUFFICES ASSUME NEW b \in Answers, NEW v \in Users, NEW d \in Decks,
                          pc'[b] = "write", req'[b].user = v,
                          SessionDeck[req'[b].session] = d, deck'[d] = "live"
                   PROVE  mem'[b].percent = Percent(v, d)' \/ <<v, d>> \in edited'
        BY DEF CountedRight
      <4>1. b # a /\ pc[b] = "write"
        BY <1>f, <3>1
      <4>2. v # u
        BY <1>0, <1>f, <4>1 DEF OrderInv, OneRequest, Steps
      <4>3. mem[b].percent = Percent(v, d) \/ <<v, d>> \in edited
        BY <1>f, <4>1 DEF MasteryInv, CountedRight
      <4> QED
        BY <1>e, <1>n, <2>1, <3>1, <3>3, <4>2, <4>3 DEF EditsStay
    <3>7. EditKnown'
      BY <1>e, <1>f, <1>n, <2>1, <2>2 DEF MasteryInv, EditKnown, EditsStay
    <3> QED
      BY <3>4, <3>5, <3>6, <3>7 DEF MasteryInv
  <2>3. CASE card[c] # "live"
    BY <1>2, <1>e, <1>n, <2>1, <2>3, RefreshStep DEF RecordReview, Goto, TypeOK, Refreshing, EditsStay
  <2> QED
    BY <2>2, <2>3
<1>3. CASE BumpTally(a)
  BY <1>3, <1>e, <1>n, RefreshStep DEF BumpTally, Goto, TypeOK, Refreshing, EditsStay
<1>4. CASE LogAnswer(a)
  <2>1. pc[a] = "log" /\ EditsStay /\ UNCHANGED <<mastery, progress>>
    BY <1>4, <1>e, <1>n DEF LogAnswer
  <2>2. \/ pc'[a] = "load"
        \/ pc'[a] = "failed" /\ (~session[s].live \/ card[c] # "live")
    BY <1>4 DEF LogAnswer, Goto, TypeOK
  <2>3. deck[D] # "live" \/ <<u, D>> \in edited' \/ pc'[a] = "load"
    BY <1>0, <1>g, <2>1, <2>2 DEF MasteryInv, EditKnown, EditsStay
  <2> QED
    BY <2>1, <2>2, <2>3, RefreshStep DEF Refreshing, EditsStay
<1>5. CASE LoadSession(a)
  <2>1. /\ pc'[a] = "snapshot" /\ UNCHANGED <<mastery, progress>>
        /\ mem'[a].deck = IF session[s].live THEN D ELSE NoDeck
    BY <1>5, <1>h DEF LoadSession, Goto, TypeOK, tables, Locals
  <2>2. EditsStay
    BY <1>5, <1>e, <1>n DEF LoadSession
  <2> QED
    BY <1>0, <1>g, <2>1, <2>2, RefreshStep DEF Refreshing, EditsStay
<1>6. CASE CountMastered(a)
  <2>1. /\ pc[a] = "snapshot" /\ pc'[a] = "write" /\ UNCHANGED <<mastery, progress>>
        /\ mem'[a].percent = Percent(u, mem[a].deck)
        /\ mem'[a].deck = mem[a].deck
    BY <1>6, <1>h DEF CountMastered, Goto, TypeOK, tables, Locals
  <2>2. mem[a].deck \in {NoDeck, D} /\ (deck[D] = "live" => mem[a].deck = D)
    BY <1>0, <2>1 DEF MasteryInv, Loaded
  <2>3. \A v \in Users, d \in Decks : <<v, d>> \in edited =>
           <<v, d>> \in edited' \/ (v = u /\ d = D /\ pc'[a] = "write")
    BY <1>6, <2>1, <2>2, CountsEdits
  <2> QED
    BY <1>0, <2>1, <2>2, <2>3, RefreshStep DEF Refreshing
<1>7. CASE WriteMastery(a)
  <2>1. pc[a] = "write" /\ pc'[a] \in {"complete", "answered"} /\ mem' = mem
        /\ progress' = progress
    BY <1>7 DEF WriteMastery, AfterMastery, Goto, TypeOK
  <2>2. mem[a].deck \in {NoDeck, D} /\ (deck[D] = "live" => mem[a].deck = D)
    BY <1>0, <2>1 DEF MasteryInv, Loaded
  <2>3. \A v \in Users, d \in Decks : v # u \/ d # D =>
           mastery'[v][d] = mastery[v][d]
    BY <1>0, <1>7, <2>2 DEF WriteMastery, TypeOK
  <2>e. EditsStay
    BY <1>e, <1>n, <2>1
  <2>4. deck[D] = "live" => mastery'[u][D] = Percent(u, D) \/ <<u, D>> \in edited
    <3> SUFFICES ASSUME deck[D] = "live"
                 PROVE  mastery'[u][D] = Percent(u, D) \/ <<u, D>> \in edited
      OBVIOUS
    <3>1. mem[a].deck = D /\ D # NoDeck
      BY <1>0, <2>2
    <3>2. mem[a].percent = Percent(u, D) \/ <<u, D>> \in edited
      BY <1>0, <2>1 DEF MasteryInv, CountedRight
    <3>3. mastery'[u][D] = mem[a].percent
      BY <1>0, <1>7, <3>1 DEF WriteMastery, TypeOK
    <3> QED
      BY <3>2, <3>3
  <2>5. \A v \in Users, d \in Decks : Percent(v, d)' = Percent(v, d)
    BY <1>f, <2>1, PercentStays
  <2>6. Shown'
    <3> SUFFICES ASSUME NEW v \in Users, NEW d \in Decks, deck'[d] = "live"
                 PROVE  \/ mastery'[v][d] = Percent(v, d)'
                        \/ <<v, d>> \in edited'
                        \/ \E b \in Answers : /\ pc'[b] \in Refreshing
                                              /\ req'[b].user = v
                                              /\ SessionDeck[req'[b].session] = d
      BY DEF Shown
    <3>1. CASE v = u /\ d = D
      BY <1>f, <2>e, <2>4, <2>5, <3>1 DEF EditsStay
    <3>2. CASE v # u \/ d # D
      <4>1. \/ mastery[v][d] = Percent(v, d)
            \/ <<v, d>> \in edited
            \/ \E b \in Answers : /\ pc[b] \in Refreshing /\ req[b].user = v
                                  /\ SessionDeck[req[b].session] = d
        BY <1>f DEF MasteryInv, Shown
      <4>2. CASE mastery[v][d] = Percent(v, d)
        BY <2>3, <2>5, <3>2, <4>2
      <4>3. ASSUME NEW b \in Answers, pc[b] \in Refreshing, req[b].user = v,
                   SessionDeck[req[b].session] = d
            PROVE  pc'[b] \in Refreshing /\ req'[b] = req[b]
        BY <1>f, <3>2, <4>3
      <4>4. <<v, d>> \in edited => <<v, d>> \in edited'
        BY <2>e DEF EditsStay
      <4> QED
        BY <4>1, <4>2, <4>3, <4>4
    <3> QED
      BY <3>1, <3>2
  <2>7. Loaded'
    BY <1>f, <2>1 DEF MasteryInv, Loaded
  <2>8. CountedRight'
    BY <1>f, <2>1, <2>e, <2>5 DEF MasteryInv, CountedRight, EditsStay
  <2>9. EditKnown'
    BY <1>f, <2>1, <2>e DEF MasteryInv, EditKnown, EditsStay
  <2> QED
    BY <2>6, <2>7, <2>8, <2>9 DEF MasteryInv
<1>8. CASE MarkCompleted(a)
  BY <1>8, <1>e, <1>n, RefreshStep DEF MarkCompleted, Goto, TypeOK, Refreshing, EditsStay
<1>9. CASE ReloadSession(a)
  BY <1>9, <1>e, <1>n, RefreshStep DEF ReloadSession, Goto, TypeOK, Refreshing, tables, EditsStay
<1>10. CASE CreditUser(a)
  BY <1>10, <1>e, <1>n, RefreshStep DEF CreditUser, Goto, TypeOK, Refreshing, EditsStay
<1> QED
  BY <1>1, <1>2, <1>3, <1>4, <1>5, <1>6, <1>7, <1>8, <1>9, <1>10 DEF Answer

\* The author adds or deletes cards: everyone's mastery of their deck is dated.
LEMMA EditMastery ==
  ASSUME TypeOK, MasteryInv, EditsTracked, UNCHANGED <<mastery, deck, pc, req, mem>>,
         \A u \in Users, d \in Decks :
            \/ CardsOf(d)' # CardsOf(d)
            \/ \A c \in Cards : CardDeck[c] = d => /\ card'[c] = card[c]
                                                  /\ progress'[u][c] = progress[u][c],
         \A a \in Answers : pc[a] # "idle" =>
            req[a].card \in Cards /\ CardDeck[req[a].card] = SessionDeck[req[a].session]
  PROVE  MasteryInv'
<1>1. EditsStay /\ \A u \in Users, d \in Decks : CardsOf(d)' # CardsOf(d) => <<u, d>> \in edited'
  BY EditsKept
<1>2. \A u \in Users, d \in Decks : Percent(u, d)' = Percent(u, d) \/ <<u, d>> \in edited'
  BY <1>1, PercentStays
<1>3. Shown'
  BY <1>1, <1>2 DEF MasteryInv, Shown, EditsStay
<1>4. Loaded'
  BY DEF MasteryInv, Loaded
<1>5. CountedRight'
  BY <1>1, <1>2 DEF MasteryInv, CountedRight, EditsStay
<1>6. EditKnown'
  BY <1>1 DEF MasteryInv, EditKnown, EditsStay
<1> QED
  BY <1>3, <1>4, <1>5, <1>6 DEF MasteryInv

LEMMA NextMastery ==
  TypeOK /\ OrderInv /\ MasteryInv /\ [ClientNext]_clientVars => MasteryInv'
<1> SUFFICES ASSUME TypeOK, OrderInv, MasteryInv, [ClientNext]_clientVars
             PROVE  MasteryInv'
  OBVIOUS
<1> USE StudyAssumption
<1>0. ASSUME UNCHANGED clientVars PROVE MasteryInv'
  BY <1>0, MasteryFrame DEF clientVars, vars, tables, handlers, EditsStay
<1> SUFFICES ASSUME Moves, EditsTracked PROVE MasteryInv'
  BY <1>0 DEF ClientNext
<1>o. \A a \in Answers : pc[a] # "idle" =>
         req[a].card \in Cards /\ CardDeck[req[a].card] = SessionDeck[req[a].session]
  BY RequestType DEF OrderInv, OwnDeck
<1>1. ASSUME NEW a \in Answers, Submit(a) PROVE MasteryInv'
  <2>1. EditsStay
    BY <1>1, SubmitFrame, EditsKept
  <2> QED
    BY <1>1, <2>1, SubmitFrame, MasteryFrame DEF tables, Refreshing
<1>2. ASSUME NEW a \in Answers, Answer(a) PROVE MasteryInv'
  BY <1>2, AnswerMastery
<1>3. ASSUME NEW d \in Decks, DeleteDeck(d) PROVE MasteryInv'
  <2>1. \A e \in Decks : deck'[e] = "live" => e # d /\ deck[e] = "live"
    BY <1>3 DEF DeleteDeck, TypeOK
  <2>c. \A e \in Decks, c \in Cards, v \in Users : e # d /\ CardDeck[c] = e =>
          card'[c] = card[c] /\ progress'[v][c] = progress[v][c]
    BY <1>3 DEF DeleteDeck, ForgetCards, CardsOf
  <2>2. ASSUME NEW e \in Decks, e # d, NEW v \in Users
        PROVE  Percent(v, e)' = Percent(v, e) /\ mastery'[v][e] = mastery[v][e]
    <3>1. \A c \in Cards : CardDeck[c] = e => card'[c] = card[c]
                                              /\ progress'[v][c] = progress[v][c]
      BY <2>2, <2>c
    <3>2. mastery'[v][e] = mastery[v][e]
      BY <1>3, <2>2 DEF DeleteDeck, TypeOK
    <3> QED
      BY <3>1, <3>2, PercentStays
  <2>3. UNCHANGED <<pc, req, mem>>
    BY <1>3 DEF DeleteDeck, handlers
  <2>e. EditsStay
    BY <2>3, EditsKept
  <2>4. Shown'
    BY <2>1, <2>2, <2>3, <2>e DEF MasteryInv, Shown, EditsStay
  <2>5. Loaded'
    BY <2>1, <2>3 DEF MasteryInv, Loaded
  <2>6. CountedRight'
    BY <2>1, <2>2, <2>3, <2>e DEF MasteryInv, CountedRight, EditsStay
  <2>7. EditKnown'
    <3> SUFFICES ASSUME NEW a \in Answers, NEW u \in Users, NEW e \in Decks,
                        pc'[a] \in {"bump", "log"}, req'[a].user = u,
                        SessionDeck[req'[a].session] = e, deck'[e] = "live"
                 PROVE  card'[req'[a].card] = "live" \/ <<u, e>> \in edited'
      BY DEF EditKnown
    <3>1. e # d /\ deck[e] = "live" /\ pc[a] \in {"bump", "log"} /\ req'[a] = req[a]
      BY <2>1, <2>3
    <3>2. req[a].card \in Cards /\ CardDeck[req[a].card] = e
      BY <1>o, <3>1
    <3> QED
      BY <2>c, <2>e, <3>1, <3>2 DEF MasteryInv, EditKnown, EditsStay
  <2> QED
    BY <2>4, <2>5, <2>6, <2>7 DEF MasteryInv
<1>5. ASSUME NEW c \in Cards, CreateCard(c) PROVE MasteryInv'
  <2>1. \A e \in Cards \ {c} : card'[e] = card[e]
    BY <1>5 DEF CreateCard, TypeOK
  <2>2. \A d \in Decks : CardDeck[c] = d => c \in CardsOf(d)' /\ c \notin CardsOf(d)
    BY <1>5 DEF CreateCard, TypeOK, CardsOf
  <2>3. UNCHANGED <<mastery, deck, pc, req, mem, progress>>
    BY <1>5 DEF CreateCard, handlers
  <2> QED
    BY <1>o, <2>1, <2>2, <2>3, EditMastery
<1>6. ASSUME NEW c \in Cards, DeleteCard(c) PROVE MasteryInv'
  <2>1. \A e \in Cards \ {c}, u \in Users :
           card'[e] = card[e] /\ progress'[u][e] = progress[u][e]
    BY <1>6 DEF DeleteCard, ForgetCards
  <2>2. \A d \in Decks : CardDeck[c] = d => c \in CardsOf(d) /\ c \notin CardsOf(d)'
    BY <1>6 DEF DeleteCard, ForgetCards, CardsOf
  <2>3. UNCHANGED <<mastery, deck, pc, req, mem>>
    BY <1>6 DEF DeleteCard, handlers
  <2> QED
    BY <1>o, <2>1, <2>2, <2>3, EditMastery
<1>4. ASSUME UNCHANGED <<mastery, deck, card, progress, pc, req, mem>> PROVE MasteryInv'
  <2>1. EditsStay
    BY <1>4, EditsKept
  <2> QED
    BY <1>4, <2>1, MasteryFrame
<1> QED
  BY <1>1, <1>2, <1>3, <1>4, <1>5, <1>6 DEF Moves, BeginStart, InsertSession, AddBookmark,
     Stop, NextDay, tables, handlers

LEMMA InitMastery == Init => SubmittedInv /\ OrderInv /\ MasteryInv
<1> SUFFICES ASSUME Init PROVE SubmittedInv /\ OrderInv /\ MasteryInv
  OBVIOUS
<1>1. \A a \in Answers : pc[a] = "idle"
  BY DEF Init
<1>2. SubmittedInv /\ OrderInv
  BY <1>1, StudyAssumption
     DEF Init, SubmittedInv, OrderInv, OneRequest, OwnDeck, SessionStays, Steps
<1>3. ASSUME NEW u \in Users, NEW d \in Decks PROVE mastery[u][d] = Percent(u, d)
  <2>1. {c \in CardsOf(d) : progress[u][c].memory.state = Mastered} = {}
    BY DEF Init, CardsOf, NoProgress, NewMemory, New, Mastered
  <2>2. Cardinality(CardsOf(d)) \in Nat
    BY StudyAssumption, FS_Subset, FS_CardinalityType DEF CardsOf
  <2>3. \A n \in Nat : n # 0 => (0 * 100) \div n = 0
    BY SMT
  <2>4. mastery[u][d] = 0
    BY DEF Init
  <2> QED
    BY <2>1, <2>2, <2>3, <2>4, FS_EmptySet DEF Percent
<1> QED
  BY <1>1, <1>2, <1>3 DEF MasteryInv, Shown, Loaded, CountedRight, EditKnown

\* Of a user who is not in the middle of a request, a deck shows the mastery the
\* user has, unless the author added or deleted a card of it since the user's last
\* count.  Each answer leaves the percentage its own count found; besides the
\* author's edits, which recompute nothing, only another answer of the same user could
\* make it wrong (models/deck.go:163-199, models/card.go:20, 68, api/session.go:115-121).
THEOREM MasteryTheorem == ClientSpec => []MasteryFresh
<1>1. MasteryInv => MasteryFresh
  BY DEF MasteryInv, Shown, MasteryFresh, Busy, Refreshing, Steps
<1>2. ClientSpec => Init /\ [][ClientNext]_clientVars
  BY PTL DEF ClientSpec, ClientInit
<1> QED
  BY TypeCorrect, ClientSteps, <1>2, NextOrder, NextMastery, InitMastery, <1>1, PTL
     DEF Spec

-----------------------------------------------------------------------------
(* The ledger *)

Unmade  == {"idle", "insert", "refused"}
Handing == {"credit", "credited"}

\* A session has one last answer, with which its answers end, and a row that is
\* not there counts nothing.
Blank ==
  \A s \in Sessions :
    /\ ~session[s].live => session[s].cards_studied = 0 /\ session[s].correct_count = 0
    /\ start[s] \in Unmade => ~session[s].live

OneLast ==
  \A a, b \in Answers :
    pc[a] # "idle" /\ req[a].last /\ pc[b] # "idle"
      /\ req[b].session = req[a].session /\ (req[b].last \/ pc[b] \in Steps)
        => b = a

Closing ==
  \A a \in Answers : pc[a] \in {"complete", "reload"} \cup Handing => req[a].last

LedgerInv == Blank /\ OneLast /\ Closing

LEMMA SoleCloser ==
  ASSUME LedgerInv, NEW a \in Answers, NEW b \in Answers, pc[a] \in Handing,
         req[b].session = req[a].session,
         pc[b] \in Steps \cup Handing
  PROVE  b = a
BY DEF LedgerInv, OneLast, Closing, Steps, Handing

LEMMA AnswerLedgerInv ==
  ASSUME TypeOK, LedgerInv, NEW a \in Answers, Answer(a)
  PROVE  LedgerInv'
<1>1. Blank'
  <2>1. \A s \in Sessions : \/ session'[s].cards_studied = session[s].cards_studied
                               /\ session'[s].correct_count = session[s].correct_count
                            \/ session[s].live
    <3>1. CASE BumpTally(a)
      <4>1. req[a].session \in Sessions
        BY <3>1, RequestType DEF BumpTally
      <4> QED
        BY <3>1, <4>1 DEF BumpTally, TypeOK, SessionRows
    <3>2. CASE MarkCompleted(a)
      BY <3>2 DEF MarkCompleted, TypeOK, SessionRows
    <3>3. CASE ~BumpTally(a) /\ ~MarkCompleted(a)
      <4>1. session' = session
        BY <3>3 DEF Answer, ReadProgress, RecordReview, LogAnswer, LoadSession,
           CountMastered, WriteMastery, ReloadSession, CreditUser, tables
      <4> QED
        BY <4>1
    <3> QED
      BY <3>1, <3>2, <3>3
  <2> QED
    BY <2>1, AnswerFrame DEF LedgerInv, Blank
<1>2. OneLast'
  BY AnswerFrame DEF LedgerInv, OneLast, Steps
<1>3. Closing'
  <2>1. pc'[a] \in {"complete", "reload"} \cup Handing => req[a].last
    BY DEF LedgerInv, Closing, Answer, ReadProgress, RecordReview, BumpTally, LogAnswer,
       LoadSession, CountMastered, WriteMastery, AfterMastery, MarkCompleted,
       ReloadSession, CreditUser, Goto, TypeOK, Handing
  <2> QED
    BY <2>1, AnswerFrame DEF LedgerInv, Closing
<1> QED
  BY <1>1, <1>2, <1>3 DEF LedgerInv

LEMMA NextLedgerInv == TypeOK /\ OrderInv /\ LedgerInv /\ [Moves]_vars => LedgerInv'
<1> SUFFICES ASSUME TypeOK, OrderInv, LedgerInv, [Moves]_vars PROVE LedgerInv'
  OBVIOUS
<1> USE DEF LedgerInv
<1>1. ASSUME NEW s \in Sessions, BeginStart(s) \/ InsertSession(s) \/ AddBookmark(s)
      PROVE  LedgerInv'
  <2>1. UNCHANGED <<pc, req>>
    BY <1>1 DEF BeginStart, InsertSession, AddBookmark
  <2>2. OneLast' /\ Closing'
    BY <2>1 DEF OneLast, Closing
  <2>3. Blank'
    <3>1. CASE session' = session /\ start'[s] \notin {"idle"}
               /\ (start[s] \in Unmade \/ start'[s] \notin Unmade)
      BY <1>1, <3>1 DEF BeginStart, InsertSession, AddBookmark, Blank, TypeOK, Unmade
    <3>2. CASE session' = [session EXCEPT ![s].live = TRUE]
               /\ start' = [start EXCEPT ![s] = "bookmark"]
      <4>1. \A o \in Sessions \ {s} : session'[o] = session[o] /\ start'[o] = start[o]
        BY <3>2
      <4>2. session'[s].live /\ start'[s] \notin Unmade
        BY <3>2 DEF TypeOK, SessionRows, Unmade
      <4> QED
        BY <4>1, <4>2 DEF Blank
    <3> QED
      BY <1>1, <3>1, <3>2 DEF BeginStart, InsertSession, AddBookmark, tables, TypeOK, Unmade
  <2> QED
    BY <2>2, <2>3
<1>2. ASSUME NEW u \in Users, NEW d \in Decks, Stop(u, d) PROVE LedgerInv'
  <2>1. \A s \in Sessions : session'[s] \in {NoSession, session[s]}
    BY <1>2 DEF Stop
  <2>2. UNCHANGED <<start, pc, req>>
    BY <1>2 DEF Stop, handlers
  <2> QED
    BY <2>1, <2>2 DEF Blank, OneLast, Closing, NoSession
<1>3. ASSUME NEW d \in Decks, DeleteDeck(d) PROVE LedgerInv'
  <2>1. \A s \in Sessions : session'[s] \in {NoSession, session[s]}
    BY <1>3 DEF DeleteDeck
  <2>2. UNCHANGED <<start, pc, req>>
    BY <1>3 DEF DeleteDeck, handlers
  <2> QED
    BY <2>1, <2>2 DEF Blank, OneLast, Closing, NoSession
<1>4. ASSUME NEW a \in Answers, Submit(a), Presented(a) PROVE LedgerInv'
  <2>1. /\ pc[a] = "idle" /\ pc'[a] = "read"
        /\ \A b \in Answers \ {a} : pc'[b] = pc[b] /\ req'[b] = req[b]
        /\ session' = session /\ start' = start
    BY <1>4, SubmitFrame DEF tables
  <2>2. /\ \A b \in Answers : pc[b] # "idle" /\ req[b].last
                                => req[b].session # req'[a].session
        /\ \A b \in Answers : pc[b] \in Steps => req[b].session # req'[a].session
    <3>1. ASSUME NEW b \in Answers, pc[b] \in Steps PROVE req[b].session # req'[a].session
      <4>1. req[b].user = SessionUser[req[b].session]
        BY <3>1 DEF OrderInv, OwnDeck, Steps
      <4>2. req[b].user # SessionUser[req'[a].session]
        BY <1>4, <3>1 DEF Presented, Busy
      <4> QED
        BY <4>1, <4>2
    <3> QED
      BY <1>4, <3>1 DEF Presented
  <2>3. OneLast'
    BY <2>1, <2>2 DEF OneLast, Steps
  <2>4. Closing'
    BY <2>1 DEF Closing, Handing
  <2>5. Blank'
    BY <2>1 DEF Blank
  <2> QED
    BY <2>3, <2>4, <2>5
<1>5. ASSUME NEW a \in Answers, Answer(a) PROVE LedgerInv'
  BY <1>5, AnswerLedgerInv
<1>6. ASSUME UNCHANGED <<session, start, pc, req>> PROVE LedgerInv'
  BY <1>6 DEF Blank, OneLast, Closing
<1> QED
  BY <1>1, <1>2, <1>3, <1>4, <1>5, <1>6 DEF Moves, CreateCard, DeleteCard, NextDay,
     vars, tables, handlers

\* What the mapping makes of a state.
LEMMA PhaseCases ==
  ASSUME NEW s \in Sessions
  PROVE  /\ Closer(s) \subseteq Answers
         /\ \A a \in Answers :
              a \in Closer(s) <=> pc[a] \in Handing /\ req[a].session = s
         /\ start[s] \in Unmade => Phase(s) = "none"
         /\ start[s] \notin Unmade =>
              /\ (\E a \in Closer(s) : pc[a] = "credited") => Phase(s) = "credited"
              /\ (Closer(s) # {} /\ \A a \in Closer(s) : pc[a] = "credit")
                   => Phase(s) = "closed"
              /\ Closer(s) = {} => Phase(s) = IF session[s].live THEN "open" ELSE "dropped"
<1>1. /\ Closer(s) \subseteq Answers
      /\ \A a \in Answers :
           a \in Closer(s) <=> pc[a] \in Handing /\ req[a].session = s
  BY DEF Closer, Handing
<1>2. start[s] \in Unmade => Phase(s) = "none"
  BY DEF Phase, Unmade
<1>3. ASSUME start[s] \notin Unmade, NEW a \in Closer(s), pc[a] = "credited"
      PROVE  Phase(s) = "credited"
  BY <1>3 DEF Phase, Unmade
<1>4. ASSUME start[s] \notin Unmade, Closer(s) # {},
             \A a \in Closer(s) : pc[a] = "credit"
      PROVE  Phase(s) = "closed"
  BY <1>4 DEF Phase, Unmade
<1>5. ASSUME start[s] \notin Unmade, Closer(s) = {}
      PROVE  Phase(s) = IF session[s].live THEN "open" ELSE "dropped"
  BY <1>5 DEF Phase, Unmade
<1> QED
  BY <1>1, <1>2, <1>3, <1>4, <1>5

LEMMA PhaseCasesNext ==
  ASSUME NEW s \in Sessions
  PROVE  /\ Closer(s)' \subseteq Answers
         /\ \A a \in Answers :
              a \in Closer(s)' <=> pc'[a] \in Handing /\ req'[a].session = s
         /\ start'[s] \in Unmade => Phase(s)' = "none"
         /\ start'[s] \notin Unmade =>
              /\ (\E a \in Closer(s)' : pc'[a] = "credited") => Phase(s)' = "credited"
              /\ (Closer(s)' # {} /\ \A a \in Closer(s)' : pc'[a] = "credit")
                   => Phase(s)' = "closed"
              /\ Closer(s)' = {} => Phase(s)' = IF session'[s].live THEN "open"
                                                                   ELSE "dropped"
<1>1. /\ Closer(s)' \subseteq Answers
      /\ \A a \in Answers :
           a \in Closer(s)' <=> pc'[a] \in Handing /\ req'[a].session = s
  BY DEF Closer, Handing
<1>2. start'[s] \in Unmade => Phase(s)' = "none"
  BY DEF Phase, Unmade
<1>3. ASSUME start'[s] \notin Unmade, NEW a \in Closer(s)', pc'[a] = "credited"
      PROVE  Phase(s)' = "credited"
  BY <1>3 DEF Phase, Unmade
<1>4. ASSUME start'[s] \notin Unmade, Closer(s)' # {},
             \A a \in Closer(s)' : pc'[a] = "credit"
      PROVE  Phase(s)' = "closed"
  BY <1>4 DEF Phase, Unmade
<1>5. ASSUME start'[s] \notin Unmade, Closer(s)' = {}
      PROVE  Phase(s)' = IF session'[s].live THEN "open" ELSE "dropped"
  BY <1>5 DEF Phase, Unmade
<1> QED
  BY <1>1, <1>2, <1>3, <1>4, <1>5

\* The closers of a session are the same, with the same tally in hand.
SameClosers(s) ==
  /\ \A a \in Answers : pc[a] \in Handing /\ req[a].session = s =>
       /\ pc'[a] = pc[a] /\ req'[a] = req[a]
       /\ mem'[a].studied = mem[a].studied /\ mem'[a].correct = mem[a].correct
  /\ \A a \in Answers : pc'[a] \in Handing /\ req'[a].session = s =>
       pc[a] \in Handing /\ req[a].session = s

SameCounts(s) == /\ session'[s].cards_studied = session[s].cards_studied
                 /\ session'[s].correct_count = session[s].correct_count

LEMMA ClosersStay ==
  ASSUME NEW s \in Sessions, SameClosers(s)
  PROVE  Closer(s)' = Closer(s)
BY DEF SameClosers, Closer, Handing

LEMMA PhaseStays ==
  ASSUME NEW s \in Sessions, SameClosers(s),
         start'[s] \in Unmade <=> start[s] \in Unmade,
         Closer(s) = {} /\ start[s] \notin Unmade => session'[s].live = session[s].live
  PROVE  Phase(s)' = Phase(s)
<1>1. Closer(s)' = Closer(s)
  BY ClosersStay
<1>2. \A a \in Closer(s) : pc'[a] = pc[a] /\ pc[a] \in Handing
  BY PhaseCases DEF SameClosers
<1>3. CASE start[s] \in Unmade
  BY <1>3, PhaseCases, PhaseCasesNext
<1>4. CASE start[s] \notin Unmade
  <2>1. CASE Closer(s) = {}
    BY <1>1, <1>4, <2>1, PhaseCases, PhaseCasesNext
  <2>2. CASE \E a \in Closer(s) : pc[a] = "credited"
    BY <1>1, <1>2, <1>4, <2>2, PhaseCases, PhaseCasesNext
  <2>3. CASE Closer(s) # {} /\ \A a \in Closer(s) : pc[a] = "credit"
    BY <1>1, <1>2, <1>4, <2>3, PhaseCases, PhaseCasesNext
  <2> QED
    BY <1>2, <2>1, <2>2, <2>3 DEF Handing
<1> QED
  BY <1>3, <1>4

LEMMA TallyStays ==
  ASSUME NEW s \in Sessions, SameClosers(s), Closer(s) = {} => SameCounts(s)
  PROVE  Tally(s)' = Tally(s)
<1>1. Closer(s)' = Closer(s)
  BY ClosersStay
<1>2. CASE Closer(s) = {}
  BY <1>1, <1>2 DEF Tally, SameCounts
<1>3. CASE Closer(s) # {}
  <2> DEFINE one == CHOOSE a \in Closer(s) : TRUE
  <2>1. one \in Closer(s)
    BY <1>3
  <2>2. mem'[one].studied = mem[one].studied /\ mem'[one].correct = mem[one].correct
    <3> HIDE DEF one
    <3> QED
      BY <2>1, PhaseCases DEF SameClosers
  <2>3. /\ Tally(s) = [answers |-> mem[one].studied, correct |-> mem[one].correct]
        /\ Tally(s)' = [answers |-> mem'[one].studied, correct |-> mem'[one].correct]
    BY <1>1, <1>3 DEF Tally
  <2> QED
    BY <2>2, <2>3
<1> QED
  BY <1>2, <1>3

\* A session with one closer shows the tally that has in hand.
LEMMA TallyInHand ==
  ASSUME NEW s \in Sessions, NEW a \in Answers
  PROVE  /\ Closer(s) = {a} =>
              Tally(s) = [answers |-> mem[a].studied, correct |-> mem[a].correct]
         /\ Closer(s)' = {a} =>
              Tally(s)' = [answers |-> mem'[a].studied, correct |-> mem'[a].correct]
         /\ Closer(s) = {} =>
              Tally(s) = [answers |-> session[s].cards_studied,
                          correct |-> session[s].correct_count]
         /\ Closer(s)' = {} =>
              Tally(s)' = [answers |-> session'[s].cards_studied,
                           correct |-> session'[s].correct_count]
BY DEF Tally

LEMMA CreditStays ==
  ASSUME stats' = stats
  PROVE  [u \in Users |-> CreditOf(u)]' = [u \in Users |-> CreditOf(u)]
BY DEF CreditOf

LEMMA LedgerStays ==
  ASSUME stats' = stats,
         \A s \in Sessions : Phase(s)' = Phase(s) /\ Tally(s)' = Tally(s)
  PROVE  UNCHANGED Ledger!vars
BY CreditStays DEF Ledger!vars

\* A session whose row is to come has no closer.
LEMMA UnmadeOpen ==
  ASSUME SubmittedInv, NEW s \in Sessions, start[s] # "started"
  PROVE  Closer(s) = {}
BY PhaseCases DEF SubmittedInv, Handing

-----------------------------------------------------------------------------
(* The steps of the ledger *)

LEMMA Opens ==
  ASSUME TypeOK, SubmittedInv, LedgerInv, NEW s \in Sessions, InsertSession(s),
         session' = [session EXCEPT ![s].live = TRUE],
         start' = [start EXCEPT ![s] = "bookmark"]
  PROVE  Ledger!Open(s)
<1>1. start[s] = "insert" /\ UNCHANGED <<pc, req, mem, stats>>
  BY DEF InsertSession
<1>2. \A o \in Sessions : SameClosers(o)
  BY <1>1 DEF SameClosers
<1>3. Closer(s) = {} /\ Closer(s)' = {}
  BY <1>1, <1>2, UnmadeOpen, ClosersStay
<1>4. SameCounts(s) /\ session'[s].live /\ start'[s] = "bookmark"
  BY DEF TypeOK, SessionRows, SameCounts
<1>5. \A o \in Sessions \ {s} : session'[o] = session[o] /\ start'[o] = start[o]
  BY DEF TypeOK
<1>6. Phase(s) = "none" /\ Phase(s)' = "open"
  BY <1>1, <1>3, <1>4, PhaseCases, PhaseCasesNext DEF Unmade
<1>7. \A o \in Sessions \ {s} : Phase(o)' = Phase(o)
  BY <1>2, <1>5, PhaseStays
<1>8. \A o \in Sessions : Tally(o)' = Tally(o)
  BY <1>2, <1>4, <1>5, TallyStays DEF SameCounts
<1>9. [o \in Sessions |-> Phase(o)]'
        = [[o \in Sessions |-> Phase(o)] EXCEPT ![s] = "open"]
  BY <1>6, <1>7
<1> QED
  BY <1>1, <1>6, <1>8, <1>9, CreditStays DEF Ledger!Open, Ledger!Enter

LEMMA Counts ==
  ASSUME TypeOK, SubmittedInv, LedgerInv, NEW a \in Answers, BumpTally(a),
         NEW s \in Sessions, s = req[a].session, session[s].live
  PROVE  Ledger!Answer(s)
<1> DEFINE k == IF Correct(req[a].rating) THEN 1 ELSE 0
           new == [answers |-> Tally(s).answers + 1, correct |-> Tally(s).correct + k]
<1>1. pc[a] = "bump" /\ pc' = [pc EXCEPT ![a] = "log"]
      /\ UNCHANGED <<start, req, stats>>
      /\ \A b \in Answers : /\ mem'[b].studied = mem[b].studied
                            /\ mem'[b].correct = mem[b].correct
  <2>1. \A b \in Answers : mem[b] \in Locals
    BY DEF TypeOK
  <2> QED
    BY <2>1 DEF BumpTally, Goto, TypeOK, Locals
<1>2. start[s] \notin Unmade
  BY <1>1, RequestType DEF SubmittedInv, Unmade
<1>3. \A o \in Sessions : SameClosers(o)
  BY <1>1 DEF SameClosers, Handing, TypeOK
<1>4. Closer(s) = {} /\ Closer(s)' = {}
  <2>1. \A b \in Answers : pc[b] \in Handing => req[b].session # s
    BY <1>1, SoleCloser DEF Steps, Handing
  <2> QED
    BY <1>2, <1>3, <2>1, PhaseCases, ClosersStay
<1>5. /\ \A o \in Sessions \ {s} : session'[o] = session[o]
      /\ session'[s].live = session[s].live
      /\ session'[s].cards_studied = session[s].cards_studied + 1
      /\ session'[s].correct_count = session[s].correct_count + k
  <2>1. session[s] \in SessionRows /\ k \in {0, 1}
    BY DEF TypeOK
  <2>2. session' = [session EXCEPT ![s].cards_studied = @ + 1, ![s].correct_count = @ + k]
    BY DEF BumpTally
  <2> HIDE DEF k
  <2>3. session'[s] = [session[s] EXCEPT !.cards_studied = @ + 1, !.correct_count = @ + k]
    BY <2>2 DEF TypeOK
  <2> QED
    BY <2>1, <2>2, <2>3 DEF TypeOK, SessionRows
<1> HIDE DEF k
<1>6. \A o \in Sessions : Phase(o)' = Phase(o)
  BY <1>1, <1>3, <1>5, PhaseStays
<1>7. Phase(s) = "open"
  BY <1>2, <1>4, PhaseCases
<1>8. Tally(s)' = new
  BY <1>2, <1>4, <1>5, TallyInHand
<1>9. \A o \in Sessions \ {s} : Tally(o)' = Tally(o)
  BY <1>3, <1>5, TallyStays DEF SameCounts
<1>10. [o \in Sessions |-> Tally(o)]'
         = [[o \in Sessions |-> Tally(o)] EXCEPT ![s] = [answers |-> @.answers + 1,
                                                         correct |-> @.correct + k]]
  BY <1>2, <1>8, <1>9
<1>11. k \in {0, 1}
  BY DEF k
<1> QED
  BY <1>1, <1>2, <1>6, <1>7, <1>10, <1>11, CreditStays DEF Ledger!Answer

LEMMA Closes ==
  ASSUME TypeOK, SubmittedInv, LedgerInv, NEW a \in Answers, ReloadSession(a),
         NEW s \in Sessions, s = req[a].session, session[s].live
  PROVE  Ledger!Close(s)
<1> DEFINE n == session[s].cards_studied
           k == session[s].correct_count
<1>1. /\ pc[a] = "reload" /\ pc' = [pc EXCEPT ![a] = "credit"]
      /\ mem' = [mem EXCEPT ![a].studied = n, ![a].correct = k, ![a].today = day]
      /\ UNCHANGED <<start, req, session, stats>>
  BY DEF ReloadSession, Goto, tables
<1>2. start[s] \notin Unmade
  BY <1>1, RequestType DEF SubmittedInv, Unmade
<1>3. /\ pc'[a] = "credit"
      /\ \A b \in Answers \ {a} : pc'[b] = pc[b] /\ mem'[b] = mem[b]
  BY <1>1 DEF TypeOK
<1>4. mem'[a].studied = n /\ mem'[a].correct = k
  <2>1. mem[a] \in Locals
    BY DEF TypeOK
  <2> HIDE DEF n, k
  <2>2. mem'[a] = [mem[a] EXCEPT !.studied = n, !.correct = k, !.today = day]
    BY <1>1 DEF TypeOK
  <2> QED
    BY <2>1, <2>2 DEF Locals
<1> HIDE DEF n, k
<1>5. Closer(s) = {}
  BY <1>1, <1>2, SoleCloser, PhaseCases DEF Steps, Handing
<1>6. Closer(s)' = {a}
  BY <1>1, <1>2, <1>3, <1>5, PhaseCases, PhaseCasesNext DEF Handing
<1>7. Phase(s) = "open" /\ Phase(s)' = "closed"
  BY <1>1, <1>2, <1>3, <1>5, <1>6, PhaseCases, PhaseCasesNext
<1>8. Tally(s)' = Tally(s)
  BY <1>2, <1>4, <1>5, <1>6, TallyInHand DEF n, k
<1>9. \A o \in Sessions \ {s} : SameClosers(o)
  BY <1>1, <1>3 DEF SameClosers
<1>10. \A o \in Sessions \ {s} : Phase(o)' = Phase(o) /\ Tally(o)' = Tally(o)
  BY <1>1, <1>9, PhaseStays, TallyStays DEF SameCounts
<1>11. [o \in Sessions |-> Phase(o)]'
         = [[o \in Sessions |-> Phase(o)] EXCEPT ![s] = "closed"]
  BY <1>7, <1>10
<1>12. [o \in Sessions |-> Tally(o)]' = [o \in Sessions |-> Tally(o)]
  BY <1>8, <1>10
<1> QED
  BY <1>1, <1>2, <1>7, <1>11, <1>12, CreditStays DEF Ledger!Close, Ledger!Enter

LEMMA Credits ==
  ASSUME TypeOK, SubmittedInv, LedgerInv, NEW a \in Answers, CreditUser(a),
         NEW s \in Sessions, s = req[a].session
  PROVE  Ledger!Credit(s)
<1> DEFINE u == SessionUser[s]
           n == mem[a].studied
           k == mem[a].correct
<1>0. PICK today \in mem[a].today..day :
         /\ stats' = [stats EXCEPT ![u] = Updated(@, n, k, today)]
         /\ mem' = [mem EXCEPT ![a].today = today]
  BY DEF CreditUser
<1>1. /\ pc[a] = "credit" /\ pc' = [pc EXCEPT ![a] = "credited"]
      /\ UNCHANGED <<start, req, session>>
  BY DEF CreditUser, Goto
<1>2. start[s] \notin Unmade /\ u \in Users
  BY <1>1, RequestType, StudyAssumption DEF SubmittedInv, Unmade
<1>3. /\ pc'[a] = "credited"
      /\ \A b \in Answers \ {a} : pc'[b] = pc[b] /\ mem'[b] = mem[b]
      /\ mem'[a].studied = n /\ mem'[a].correct = k
  <2>1. mem[a] \in Locals
    BY DEF TypeOK
  <2>2. mem'[a] = [mem[a] EXCEPT !.today = today]
    BY <1>0 DEF TypeOK
  <2> QED
    BY <1>0, <1>1, <2>1, <2>2 DEF TypeOK, Locals
<1>4. Closer(s) = {a}
  BY <1>1, <1>2, SoleCloser, PhaseCases DEF Handing
<1>5. Closer(s)' = {a}
  BY <1>1, <1>2, <1>3, <1>4, PhaseCases, PhaseCasesNext DEF Handing
<1>6. Phase(s) = "closed" /\ Phase(s)' = "credited"
  BY <1>1, <1>2, <1>3, <1>4, <1>5, PhaseCases, PhaseCasesNext
<1>7. Tally(s) = [answers |-> n, correct |-> k] /\ Tally(s)' = Tally(s)
  BY <1>2, <1>3, <1>4, <1>5, TallyInHand
<1>8. \A o \in Sessions \ {s} : SameClosers(o)
  BY <1>1, <1>3 DEF SameClosers
<1>9. \A o \in Sessions \ {s} : Phase(o)' = Phase(o) /\ Tally(o)' = Tally(o)
  BY <1>1, <1>8, PhaseStays, TallyStays DEF SameCounts
<1> HIDE DEF u, n, k
<1>10. /\ CreditOf(u)' = [sessions |-> CreditOf(u).sessions + 1,
                          answers  |-> CreditOf(u).answers + n,
                          correct  |-> CreditOf(u).correct + k]
       /\ \A v \in Users \ {u} : CreditOf(v)' = CreditOf(v)
  <2>1. stats'[u] = Updated(stats[u], n, k, today)
        /\ \A v \in Users \ {u} : stats'[v] = stats[v]
    BY <1>0, <1>2 DEF TypeOK
  <2> QED
    BY <2>1 DEF CreditOf, Updated
<1>11. [v \in Users |-> CreditOf(v)]'
         = [[v \in Users |-> CreditOf(v)] EXCEPT
              ![u] = [sessions |-> @.sessions + 1,
                      answers  |-> @.answers + [o \in Sessions |-> Tally(o)][s].answers,
                      correct  |-> @.correct + [o \in Sessions |-> Tally(o)][s].correct]]
  <2>1. /\ [o \in Sessions |-> Tally(o)][s].answers = n
        /\ [o \in Sessions |-> Tally(o)][s].correct = k
    BY <1>7
  <2>2. [v \in Users |-> CreditOf(v)]'
          = [[v \in Users |-> CreditOf(v)] EXCEPT
               ![u] = [sessions |-> @.sessions + 1, answers |-> @.answers + n,
                       correct |-> @.correct + k]]
    BY <1>2, <1>10
  <2> QED
    BY <2>1, <2>2
<1>12. [o \in Sessions |-> Phase(o)]'
         = [[o \in Sessions |-> Phase(o)] EXCEPT ![s] = "credited"]
  BY <1>6, <1>9
<1>13. [o \in Sessions |-> Tally(o)]' = [o \in Sessions |-> Tally(o)]
  BY <1>7, <1>9
<1> QED
  BY <1>6, <1>11, <1>12, <1>13 DEF Ledger!Credit, Ledger!Enter, u

\* Sessions whose rows are deleted before they were closed are dropped.
LEMMA SessionsGo ==
  ASSUME TypeOK, SubmittedInv, LedgerInv, NEW ended \in SUBSET Sessions,
         session' = [s \in Sessions |-> IF s \in ended THEN NoSession ELSE session[s]],
         UNCHANGED <<start, pc, req, mem, stats>>
  PROVE  [Ledger!Next]_(Ledger!vars)
<1> DEFINE gone == {s \in ended : session[s].live /\ Closer(s) = {}}
<1>1. \A s \in Sessions : SameClosers(s) /\ Closer(s)' = Closer(s)
  BY ClosersStay DEF SameClosers
<1>2. ASSUME NEW s \in Sessions \ gone
      PROVE  Phase(s)' = Phase(s) /\ Tally(s)' = Tally(s)
  <2>1. Closer(s) = {} => session'[s].live = session[s].live /\ SameCounts(s)
    BY <1>2 DEF LedgerInv, Blank, NoSession, SameCounts, TypeOK, SessionRows
  <2> QED
    BY <1>1, <2>1, PhaseStays, TallyStays
<1>3. ASSUME NEW s \in gone
      PROVE  Phase(s) = "open" /\ Phase(s)' = "dropped" /\ Tally(s)' = Ledger!Empty
  <2>1. start[s] \notin Unmade /\ Closer(s)' = {} /\ session'[s] = NoSession
    BY <1>1, <1>3 DEF LedgerInv, Blank
  <2>2. Phase(s) = "open" /\ Phase(s)' = "dropped"
    BY <1>3, <2>1, PhaseCases, PhaseCasesNext DEF NoSession
  <2>3. Tally(s)' = [answers |-> 0, correct |-> 0]
    BY <2>1 DEF Tally, NoSession
  <2> QED
    BY <2>2, <2>3 DEF Ledger!Empty
<1> HIDE DEF gone
<1>4. CASE gone = {}
  BY <1>2, <1>4, LedgerStays
<1>5. CASE gone # {}
  <2>1. gone \in SUBSET Sessions
    BY DEF gone
  <2>2. [s \in Sessions |-> Phase(s)]'
          = [s \in Sessions |-> IF s \in gone THEN "dropped" ELSE Phase(s)]
    BY <1>2, <1>3
  <2>3. [s \in Sessions |-> Tally(s)]'
          = [s \in Sessions |-> IF s \in gone THEN Ledger!Empty ELSE Tally(s)]
    BY <1>2, <1>3
  <2>4. Ledger!Drop(gone)
    BY <1>3, <1>5, <2>1, <2>2, <2>3, CreditStays DEF Ledger!Drop
  <2> QED
    BY <2>1, <2>4 DEF Ledger!Next
<1> QED
  BY <1>4, <1>5

LEMMA AnswerKeepsLedger ==
  ASSUME TypeOK, SubmittedInv, LedgerInv, NEW a \in Answers, Answer(a)
  PROVE  [Ledger!Next]_(Ledger!vars)
<1>0. PICK s \in Sessions : s = req[a].session
  BY AnswerFrame, RequestType DEF Steps
<1>1. CASE BumpTally(a) /\ session[s].live
  BY <1>0, <1>1, Counts DEF Ledger!Next
<1>2. CASE ReloadSession(a) /\ session[s].live
  BY <1>0, <1>2, Closes DEF Ledger!Next
<1>3. CASE CreditUser(a)
  BY <1>0, <1>3, Credits DEF Ledger!Next
<1>4. CASE ~(BumpTally(a) /\ session[s].live) /\ ~(ReloadSession(a) /\ session[s].live)
           /\ ~CreditUser(a)
  <2>1. stats' = stats /\ pc[a] \notin Handing /\ pc'[a] \notin Handing
    BY <1>0, <1>4 DEF Answer, ReadProgress, RecordReview, BumpTally, LogAnswer, LoadSession,
       CountMastered, WriteMastery, AfterMastery, MarkCompleted, ReloadSession, Goto,
       TypeOK, tables, Handing
  <2>2. \A o \in Sessions : SameClosers(o)
    BY <2>1, AnswerFrame DEF SameClosers
  <2>3. \A o \in Sessions : SameCounts(o)
    <3>1. CASE MarkCompleted(a)
      BY <3>1 DEF MarkCompleted, TypeOK, SessionRows, SameCounts
    <3>2. CASE ~MarkCompleted(a)
      <4>1. session' = session
        BY <1>0, <1>4, <3>2 DEF Answer, ReadProgress, RecordReview, BumpTally, LogAnswer,
           LoadSession, CountMastered, WriteMastery, ReloadSession, tables
      <4> QED
        BY <4>1 DEF SameCounts
    <3> QED
      BY <3>1, <3>2
  <2> QED
    BY <2>1, <2>2, <2>3, AnswerFrame, PhaseStays, TallyStays, LedgerStays
<1> QED
  BY <1>1, <1>2, <1>3, <1>4

LEMMA ClientKeepsLedger ==
  TypeOK /\ SubmittedInv /\ LedgerInv /\ [Moves]_vars => [Ledger!Next]_(Ledger!vars)
<1> SUFFICES ASSUME TypeOK, SubmittedInv, LedgerInv, [Moves]_vars
             PROVE  [Ledger!Next]_(Ledger!vars)
  OBVIOUS
<1>1. ASSUME NEW s \in Sessions, InsertSession(s) PROVE [Ledger!Next]_(Ledger!vars)
  <2>1. CASE session' = [session EXCEPT ![s].live = TRUE]
             /\ start' = [start EXCEPT ![s] = "bookmark"]
    BY <1>1, <2>1, Opens DEF Ledger!Next
  <2>2. CASE session' = session /\ start' = [start EXCEPT ![s] = "refused"]
    <3>1. /\ UNCHANGED <<pc, req, mem, stats>>
          /\ \A o \in Sessions : start'[o] \in Unmade <=> start[o] \in Unmade
      BY <1>1, <2>2 DEF InsertSession, TypeOK, Unmade
    <3>2. \A o \in Sessions : SameClosers(o) /\ SameCounts(o)
      BY <2>2, <3>1 DEF SameClosers, SameCounts
    <3> QED
      BY <2>2, <3>1, <3>2, PhaseStays, TallyStays, LedgerStays
  <2> QED
    BY <1>1, <2>1, <2>2 DEF InsertSession
<1>2. ASSUME NEW u \in Users, NEW d \in Decks, Stop(u, d)
      PROVE  [Ledger!Next]_(Ledger!vars)
  <2> DEFINE ended == {s \in Sessions : SessionUser[s] = u /\ SessionDeck[s] = d
                                        /\ session[s].live}
  <2>1. /\ session' = [s \in Sessions |-> IF s \in ended THEN NoSession ELSE session[s]]
        /\ UNCHANGED <<start, pc, req, mem, stats>>
    BY <1>2 DEF Stop, handlers
  <2>2. ended \in SUBSET Sessions
    OBVIOUS
  <2> HIDE DEF ended
  <2> QED
    BY <2>1, <2>2, SessionsGo
<1>3. ASSUME NEW d \in Decks, DeleteDeck(d) PROVE [Ledger!Next]_(Ledger!vars)
  <2> DEFINE ended == {s \in Sessions : SessionDeck[s] = d}
  <2>1. /\ session' = [s \in Sessions |-> IF s \in ended THEN NoSession ELSE session[s]]
        /\ UNCHANGED <<start, pc, req, mem, stats>>
    BY <1>3 DEF DeleteDeck, handlers
  <2>2. ended \in SUBSET Sessions
    OBVIOUS
  <2> HIDE DEF ended
  <2> QED
    BY <2>1, <2>2, SessionsGo
<1>4. ASSUME NEW a \in Answers, Answer(a) PROVE [Ledger!Next]_(Ledger!vars)
  BY <1>4, AnswerKeepsLedger
<1>5. ASSUME UNCHANGED <<session, stats, mem>>,
             \A s \in Sessions : start'[s] \in Unmade <=> start[s] \in Unmade,
             \A a \in Answers : \/ pc'[a] = pc[a] /\ req'[a] = req[a]
                                \/ pc[a] \notin Handing /\ pc'[a] \notin Handing
      PROVE  [Ledger!Next]_(Ledger!vars)
  <2>1. \A s \in Sessions : SameClosers(s) /\ SameCounts(s)
    BY <1>5 DEF SameClosers, SameCounts
  <2> QED
    BY <1>5, <2>1, PhaseStays, TallyStays, LedgerStays
<1>6. ASSUME NEW s \in Sessions, BeginStart(s) \/ AddBookmark(s)
      PROVE  [Ledger!Next]_(Ledger!vars)
  BY <1>5, <1>6 DEF BeginStart, AddBookmark, tables, TypeOK, Unmade
<1>7. ASSUME NEW a \in Answers, Submit(a) PROVE [Ledger!Next]_(Ledger!vars)
  BY <1>5, <1>7, SubmitFrame DEF tables, Handing
<1>8. CASE NextDay \/ UNCHANGED vars
  BY <1>5, <1>8 DEF NextDay, vars, tables, handlers
<1>9. ASSUME NEW c \in Cards, CreateCard(c) \/ DeleteCard(c)
      PROVE  [Ledger!Next]_(Ledger!vars)
  BY <1>5, <1>9 DEF CreateCard, DeleteCard, handlers
<1> QED
  BY <1>1, <1>2, <1>3, <1>4, <1>6, <1>7, <1>8, <1>9 DEF Moves

LEMMA InitLedger == Init => Ledger!Init /\ LedgerInv
<1> SUFFICES ASSUME Init PROVE Ledger!Init /\ LedgerInv
  OBVIOUS
<1>1. \A a \in Answers : pc[a] = "idle"
  BY DEF Init
<1>2. /\ \A s \in Sessions : session[s] = NoSession /\ start[s] = "idle"
      /\ \A u \in Users : stats[u] = SeedRow
  BY DEF Init
<1>3. LedgerInv
  BY <1>1, <1>2 DEF LedgerInv, Blank, OneLast, Closing, NoSession, Handing
<1>4. \A s \in Sessions : Phase(s) = "none" /\ Closer(s) = {}
  BY <1>1, <1>2, PhaseCases DEF Unmade, Handing
<1>5. \A s \in Sessions : Tally(s) = [answers |-> 0, correct |-> 0]
  BY <1>2, <1>4 DEF Tally, NoSession
<1>6. \A u \in Users : CreditOf(u) = [sessions |-> 0, answers |-> 0, correct |-> 0]
  BY <1>2 DEF CreditOf, SeedRow
<1> QED
  BY <1>3, <1>4, <1>5, <1>6 DEF Ledger!Init, Ledger!Empty, Ledger!Zero

\* The handlers, seen through phase, tally and credit, do only what the ledger does:
\* a session is closed at most once and credited at most once, with the tally of its
\* answers, and never after it was dropped (models/session.go:72-91, api/session.go).
THEOREM LedgerTheorem == ClientSpec => KeepsLedger
<1> QED
  BY TypeCorrect, LogHolds, ClientSteps, NextSubmitted, NextOrder, InitMastery, InitLedger,
     NextLedgerInv, ClientKeepsLedger, PTL
     DEF Spec, KeepsLedger, Ledger!Spec

-----------------------------------------------------------------------------
(* Sums, as UserStatsProofs shows them *)

LEMMA FactsSum ==
  ASSUME NEW f, NEW S
  PROVE  StatsFacts!SumFunctionOnSet(f, S) = SumFunctionOnSet(f, S)
BY DEF StatsFacts!SumFunctionOnSet, StatsFacts!FoldFunctionOnSet,
       StatsFacts!MapThenFoldSet, SumFunctionOnSet, FoldFunctionOnSet, MapThenFoldSet

LEMMA FactsFinite ==
  ASSUME NEW S
  PROVE  /\ StatsFacts!IsFiniteSet(S) <=> IsFiniteSet(S)
         /\ StatsFacts!Cardinality(S) = Cardinality(S)
BY DEF StatsFacts!IsFiniteSet, IsFiniteSet, StatsFacts!Cardinality, Cardinality

LEMMA SumNothing == ASSUME NEW f PROVE SumFunctionOnSet(f, {}) = 0
<1>1. StatsFacts!IsFiniteSet({})
  BY FactsFinite, FS_EmptySet
<1>2. StatsFacts!SumFunctionOnSet(f, {}) = 0
  BY <1>1, StudyAssumption, StatsParameters, StatsFacts!SumStep
<1> QED
  BY <1>2, FactsSum

LEMMA SumWithout ==
  ASSUME NEW f, NEW S, IsFiniteSet(S), \A x \in S : f[x] \in Nat, NEW y \in S
  PROVE  SumFunctionOnSet(f, S) = f[y] + SumFunctionOnSet(f, S \ {y})
<1>1. StatsFacts!IsFiniteSet(S)
  BY FactsFinite
<1>2. StatsFacts!SumFunctionOnSet(f, S) = f[y] + StatsFacts!SumFunctionOnSet(f, S \ {y})
  BY <1>1, StudyAssumption, StatsParameters, StatsFacts!SumWithout
<1> QED
  BY <1>2, FactsSum

LEMMA SumSame ==
  ASSUME NEW f, NEW g, NEW S, IsFiniteSet(S), \A x \in S : f[x] = g[x]
  PROVE  SumFunctionOnSet(f, S) = SumFunctionOnSet(g, S)
<1>1. StatsFacts!IsFiniteSet(S)
  BY FactsFinite
<1>2. StatsFacts!SumFunctionOnSet(f, S) = StatsFacts!SumFunctionOnSet(g, S)
  BY <1>1, StudyAssumption, StatsParameters, StatsFacts!SumSame
<1> QED
  BY <1>2, FactsSum

-----------------------------------------------------------------------------
(* The sums the ledger promises *)

Credited(u) == {s \in Sessions : SessionUser[s] = u /\ Phase(s) = "credited"}

AnswerTally == [s \in Sessions |-> Tally(s).answers]
CorrectTally == [s \in Sessions |-> Tally(s).correct]

SumsHold(u) ==
  /\ IsFiniteSet(Credited(u))
  /\ stats[u].total_sessions = Cardinality(Credited(u))
  /\ stats[u].total_cards_studied = SumFunctionOnSet(AnswerTally, Credited(u))
  /\ stats[u].total_correct = SumFunctionOnSet(CorrectTally, Credited(u))

LEMMA SameSum ==
  ASSUME NEW f, NEW S
  PROVE  Ledger!SumFunctionOnSet(f, S) = SumFunctionOnSet(f, S)
BY DEF Ledger!SumFunctionOnSet, Ledger!FoldFunctionOnSet, Ledger!MapThenFoldSet,
       SumFunctionOnSet, FoldFunctionOnSet, MapThenFoldSet

LEMMA SameSize ==
  ASSUME NEW S
  PROVE  Ledger!Cardinality(S) = Cardinality(S)
BY DEF Ledger!Cardinality, Cardinality, Ledger!IsFiniteSet, IsFiniteSet

LEMMA SumsAre == (\A u \in Users : SumsHold(u)) => CreditIsSum
<1> SUFFICES ASSUME NEW u \in Users, SumsHold(u)
             PROVE  LET mine == {s \in Sessions : SessionUser[s] = u /\ Phase(s) = "credited"}
                    IN /\ CreditOf(u).sessions = Ledger!Cardinality(mine)
                       /\ CreditOf(u).answers = Ledger!SumFunctionOnSet(
                                [s \in Sessions |-> Tally(s).answers], mine)
                       /\ CreditOf(u).correct = Ledger!SumFunctionOnSet(
                                [s \in Sessions |-> Tally(s).correct], mine)
  BY DEF CreditIsSum, Ledger!CreditIsSum
<1> QED
  BY SameSum, SameSize DEF SumsHold, Credited, AnswerTally, CorrectTally, CreditOf

LEMMA TallyType ==
  ASSUME TypeOK
  PROVE  \A s \in Sessions : AnswerTally[s] \in Nat /\ CorrectTally[s] \in Nat
<1> SUFFICES ASSUME NEW s \in Sessions PROVE Tally(s).answers \in Nat /\ Tally(s).correct \in Nat
  BY DEF AnswerTally, CorrectTally
<1>1. CASE Closer(s) = {}
  BY <1>1 DEF Tally, TypeOK, SessionRows
<1>2. CASE Closer(s) # {}
  <2> DEFINE one == CHOOSE a \in Closer(s) : TRUE
  <2>1. one \in Answers
    BY <1>2 DEF Closer
  <2>2. Tally(s) = [answers |-> mem[one].studied, correct |-> mem[one].correct]
    BY <1>2 DEF Tally
  <2> HIDE DEF one
  <2> QED
    BY <2>1, <2>2 DEF TypeOK, Locals
<1> QED
  BY <1>1, <1>2

LEMMA InitSums ==
  ASSUME Init, NEW u \in Users
  PROVE  SumsHold(u)
<1>1. Credited(u) = {}
  <2>1. \A s \in Sessions : Phase(s) = "none"
    BY PhaseCases DEF Init, Unmade
  <2> QED
    BY <2>1 DEF Credited
<1>2. stats[u] = SeedRow
  BY DEF Init
<1>3. SumFunctionOnSet(AnswerTally, {}) = 0 /\ SumFunctionOnSet(CorrectTally, {}) = 0
  BY SumNothing
<1> QED
  BY <1>1, <1>2, <1>3, FS_EmptySet DEF SumsHold, SeedRow

\* Sums to which nothing is added, and whose terms stay.
LEMMA SumsStay ==
  ASSUME NEW u \in Users, SumsHold(u), CreditOf(u)' = CreditOf(u),
         Credited(u)' = Credited(u),
         \A s \in Credited(u) : Tally(s)' = Tally(s)
  PROVE  SumsHold(u)'
<1>1. \A s \in Credited(u) : /\ AnswerTally'[s] = AnswerTally[s]
                             /\ CorrectTally'[s] = CorrectTally[s]
  BY DEF Credited, AnswerTally, CorrectTally
<1>2. /\ SumFunctionOnSet(AnswerTally', Credited(u)) = SumFunctionOnSet(AnswerTally, Credited(u))
      /\ SumFunctionOnSet(CorrectTally', Credited(u)) = SumFunctionOnSet(CorrectTally, Credited(u))
  BY <1>1, SumSame DEF SumsHold
<1>3. /\ stats'[u].total_sessions = stats[u].total_sessions
      /\ stats'[u].total_cards_studied = stats[u].total_cards_studied
      /\ stats'[u].total_correct = stats[u].total_correct
  BY DEF CreditOf
<1> QED
  BY <1>2, <1>3 DEF SumsHold

\* The credit of one more session.
LEMMA SumsGrow ==
  ASSUME TypeOK, NEW u \in Users, SumsHold(u), NEW s \in Sessions, s \notin Credited(u),
         Credited(u)' = Credited(u) \cup {s},
         \A t \in Sessions : Tally(t)' = Tally(t),
         CreditOf(u)' = [sessions |-> CreditOf(u).sessions + 1,
                         answers  |-> CreditOf(u).answers + Tally(s).answers,
                         correct  |-> CreditOf(u).correct + Tally(s).correct]
  PROVE  SumsHold(u)'
<1> DEFINE more == Credited(u) \cup {s}
<1>1. AnswerTally' = AnswerTally /\ CorrectTally' = CorrectTally
  BY DEF AnswerTally, CorrectTally
<1>2. IsFiniteSet(more) /\ Cardinality(more) = Cardinality(Credited(u)) + 1
  BY FS_AddElement DEF SumsHold
<1>3. more \ {s} = Credited(u) /\ s \in more /\ more \subseteq Sessions
  BY DEF Credited
<1> HIDE DEF more
<1>4. \A t \in more : AnswerTally[t] \in Nat /\ CorrectTally[t] \in Nat
  BY <1>3, TallyType
<1>5. /\ SumFunctionOnSet(AnswerTally, more)
           = AnswerTally[s] + SumFunctionOnSet(AnswerTally, Credited(u))
      /\ SumFunctionOnSet(CorrectTally, more)
           = CorrectTally[s] + SumFunctionOnSet(CorrectTally, Credited(u))
  BY <1>2, <1>3, <1>4, SumWithout
<1>6. /\ AnswerTally[s] = Tally(s).answers /\ CorrectTally[s] = Tally(s).correct
      /\ AnswerTally[s] \in Nat /\ CorrectTally[s] \in Nat
  BY TallyType DEF AnswerTally, CorrectTally
<1>7. /\ stats'[u].total_sessions = stats[u].total_sessions + 1
      /\ stats'[u].total_cards_studied = stats[u].total_cards_studied + AnswerTally[s]
      /\ stats'[u].total_correct = stats[u].total_correct + CorrectTally[s]
  BY <1>6 DEF CreditOf
<1>8. stats[u].total_cards_studied \in Nat /\ stats[u].total_correct \in Nat
  BY DEF TypeOK, StatsRows
<1> QED
  BY <1>1, <1>2, <1>5, <1>6, <1>7, <1>8 DEF SumsHold, more

\* A step that credits nobody and leaves the credited sessions alone.
LEMMA OthersStay ==
  ASSUME \A u \in Users : SumsHold(u) /\ CreditOf(u)' = CreditOf(u),
         \A s \in Sessions : Phase(s)' = "credited" <=> Phase(s) = "credited",
         \A s \in Sessions : Phase(s) = "credited" => Tally(s)' = Tally(s)
  PROVE  \A u \in Users : SumsHold(u)'
<1> SUFFICES ASSUME NEW u \in Users PROVE SumsHold(u)'
  OBVIOUS
<1>1. Credited(u)' = Credited(u)
  BY DEF Credited
<1>2. \A s \in Credited(u) : Tally(s)' = Tally(s)
  BY DEF Credited
<1> QED
  BY <1>1, <1>2, SumsStay

\* The variables of the ledger, one session or user at a time.
LEMMA OneByOne ==
  /\ UNCHANGED [s \in Sessions |-> Phase(s)] =>
       \A s \in Sessions : Phase(s)' = Phase(s)
  /\ UNCHANGED [s \in Sessions |-> Tally(s)] =>
       \A s \in Sessions : Tally(s)' = Tally(s)
  /\ UNCHANGED [u \in Users |-> CreditOf(u)] =>
       \A u \in Users : CreditOf(u)' = CreditOf(u)
BY Zenon

LEMMA Entered ==
  ASSUME NEW s \in Sessions, NEW p, Ledger!Enter(s, p)
  PROVE  \A t \in Sessions : Phase(t)' = IF t = s THEN p ELSE Phase(t)
<1> DEFINE phase == [t \in Sessions |-> Phase(t)]
<1>1. phase' = [phase EXCEPT ![s] = p]
  BY DEF Ledger!Enter
<1>2. \A t \in Sessions : phase'[t] = IF t = s THEN p ELSE phase[t]
  BY <1>1
<1> QED
  BY <1>2

\* The steps of the ledger that credit nobody.
LEMMA LedgerSumsStay ==
  ASSUME \A u \in Users : SumsHold(u),
         \/ UNCHANGED Ledger!vars
         \/ \E s \in Sessions : Ledger!Open(s) \/ Ledger!Answer(s) \/ Ledger!Close(s)
         \/ \E gone \in SUBSET Sessions : Ledger!Drop(gone)
  PROVE  \A u \in Users : SumsHold(u)'
<1>1. CASE UNCHANGED Ledger!vars
  <2>1. /\ \A s \in Sessions : Phase(s)' = Phase(s) /\ Tally(s)' = Tally(s)
        /\ \A u \in Users : CreditOf(u)' = CreditOf(u)
    BY <1>1, OneByOne DEF Ledger!vars
  <2> QED
    BY <2>1, OthersStay
<1>2. ASSUME NEW s \in Sessions, Ledger!Open(s) \/ Ledger!Close(s)
      PROVE  \A u \in Users : SumsHold(u)'
  <2>1. /\ \A t \in Sessions : Tally(t)' = Tally(t)
        /\ \A u \in Users : CreditOf(u)' = CreditOf(u)
    BY <1>2, OneByOne DEF Ledger!Open, Ledger!Close
  <2>2. Phase(s) \in {"none", "open"}
    BY <1>2 DEF Ledger!Open, Ledger!Close
  <2>3. \A t \in Sessions : Phase(t)' = IF t = s THEN Phase(s)' ELSE Phase(t)
    BY <1>2, Entered DEF Ledger!Open, Ledger!Close
  <2>4. Phase(s)' \in {"open", "closed"}
    BY <1>2, Entered DEF Ledger!Open, Ledger!Close
  <2> QED
    BY <2>1, <2>2, <2>3, <2>4, OthersStay
<1>3. ASSUME NEW s \in Sessions, Ledger!Answer(s)
      PROVE  \A u \in Users : SumsHold(u)'
  <2>1. /\ \A t \in Sessions : Phase(t)' = Phase(t)
        /\ \A u \in Users : CreditOf(u)' = CreditOf(u)
    BY <1>3, OneByOne DEF Ledger!Answer
  <2>2. Phase(s) = "open"
    BY <1>3 DEF Ledger!Answer
  <2>3. \A t \in Sessions : t # s => Tally(t)' = Tally(t)
    <3> DEFINE tally == [t \in Sessions |-> Tally(t)]
    <3>1. PICK k \in {0, 1} :
            tally' = [tally EXCEPT ![s] = [answers |-> @.answers + 1,
                                           correct |-> @.correct + k]]
      BY <1>3 DEF Ledger!Answer
    <3>2. \A t \in Sessions : t # s => tally'[t] = tally[t]
      BY <3>1
    <3> QED
      BY <3>2
  <2> QED
    BY <2>1, <2>2, <2>3, OthersStay
<1>4. ASSUME NEW gone \in SUBSET Sessions, Ledger!Drop(gone)
      PROVE  \A u \in Users : SumsHold(u)'
  <2>1. \A u \in Users : CreditOf(u)' = CreditOf(u)
    BY <1>4, OneByOne DEF Ledger!Drop
  <2>2. \A s \in gone : Phase(s) = "open"
    BY <1>4 DEF Ledger!Drop
  <2>3. \A s \in Sessions : /\ Phase(s)' = IF s \in gone THEN "dropped" ELSE Phase(s)
                            /\ s \notin gone => Tally(s)' = Tally(s)
    <3> DEFINE phase == [t \in Sessions |-> Phase(t)]
               tally == [t \in Sessions |-> Tally(t)]
    <3>1. /\ phase' = [s \in Sessions |-> IF s \in gone THEN "dropped" ELSE phase[s]]
          /\ tally' = [s \in Sessions |-> IF s \in gone THEN Ledger!Empty ELSE tally[s]]
      BY <1>4 DEF Ledger!Drop
    <3>2. \A s \in Sessions :
             /\ phase'[s] = IF s \in gone THEN "dropped" ELSE phase[s]
             /\ s \notin gone => tally'[s] = tally[s]
      <4> HIDE DEF phase, tally
      <4> QED
        BY <3>1
    <3> QED
      BY <3>2
  <2> QED
    BY <2>1, <2>2, <2>3, OthersStay
<1> QED
  BY <1>1, <1>2, <1>3, <1>4

LEMMA LedgerSumsGrow ==
  ASSUME TypeOK, \A u \in Users : SumsHold(u), NEW s \in Sessions, Ledger!Credit(s)
  PROVE  \A u \in Users : SumsHold(u)'
<1> DEFINE credit == [u \in Users |-> CreditOf(u)]
           more == [sessions |-> CreditOf(SessionUser[s]).sessions + 1,
                    answers  |-> CreditOf(SessionUser[s]).answers + Tally(s).answers,
                    correct  |-> CreditOf(SessionUser[s]).correct + Tally(s).correct]
<1>0. SessionUser[s] \in Users
  BY StudyAssumption
<1>1. Phase(s) = "closed" /\ \A t \in Sessions : Tally(t)' = Tally(t)
  BY OneByOne DEF Ledger!Credit
<1>2. \A t \in Sessions : Phase(t)' = IF t = s THEN "credited" ELSE Phase(t)
  BY Entered DEF Ledger!Credit
<1>3. \A u \in Users : CreditOf(u)' = IF u = SessionUser[s] THEN more ELSE CreditOf(u)
  <2>1. credit' = [credit EXCEPT ![SessionUser[s]] =
                     [sessions |-> credit[SessionUser[s]].sessions + 1,
                      answers  |-> credit[SessionUser[s]].answers + Tally(s).answers,
                      correct  |-> credit[SessionUser[s]].correct + Tally(s).correct]]
    BY DEF Ledger!Credit
  <2>2. credit[SessionUser[s]] = CreditOf(SessionUser[s])
    BY <1>0
  <2>3. \A u \in Users : credit'[u] = IF u = SessionUser[s] THEN more ELSE credit[u]
    BY <1>0, <2>1, <2>2
  <2> QED
    BY <2>3
<1> SUFFICES ASSUME NEW u \in Users PROVE SumsHold(u)'
  OBVIOUS
<1>4. s \notin Credited(u)
  BY <1>1 DEF Credited
<1>5. Credited(u)' = IF u = SessionUser[s] THEN Credited(u) \cup {s} ELSE Credited(u)
  BY <1>2 DEF Credited
<1>6. CASE u = SessionUser[s]
  BY <1>1, <1>3, <1>4, <1>5, <1>6, SumsGrow
<1>7. CASE u # SessionUser[s]
  <2>1. \A t \in Credited(u) : Tally(t)' = Tally(t)
    BY <1>1 DEF Credited
  <2> QED
    BY <1>3, <1>5, <1>7, <2>1, SumsStay
<1> QED
  BY <1>6, <1>7

\* Every user is credited with exactly the sessions that were completed, and with the
\* sums of their answers and correct answers: nothing is credited twice, in part or to
\* someone else (models/session.go:72-91, models/user_stats.go:43-72).
THEOREM CreditTheorem == ClientSpec => []CreditIsSum
<1> DEFINE Sums == \A u \in Users : SumsHold(u)
<1>1. Init => Sums
  BY InitSums
<1>2. TypeOK /\ Sums /\ [Ledger!Next]_(Ledger!vars) => Sums'
  BY LedgerSumsStay, LedgerSumsGrow DEF Ledger!Next
<1>3. Sums => CreditIsSum
  BY SumsAre
<1>4. ClientSpec => Init /\ []TypeOK
  BY TypeCorrect, ClientSteps, PTL DEF Spec
<1>5. ClientSpec => [][Ledger!Next]_(Ledger!vars)
  BY LedgerTheorem, PTL DEF KeepsLedger, Ledger!Spec
<1> HIDE DEF Sums
<1> QED
  BY <1>1, <1>2, <1>3, <1>4, <1>5, PTL
=============================================================================
