-------------------------------- MODULE FSRS --------------------------------
(***************************************************************************)
(* The spaced-repetition scheduler (models/fsrs.go), reduced to the part of *)
(* its result that other tables depend on: the two counters and the state   *)
(* of a card.  Stability, difficulty and the interval computed from them    *)
(* are real numbers and are left out.                                       *)
(***************************************************************************)
EXTENDS Integers

Again == 1
Hard  == 2
Good  == 3
Easy  == 4
AllRatings == Again..Easy

New        == 0
Learning   == 1
Mastered   == 2     \* StateReview
Relearning == 3
States == New..Relearning

Memories == [reps : Nat, lapses : Nat, state : States]

\* What GetOrCreate hands to the scheduler for a card without a progress row.
NewMemory == [reps |-> 0, lapses |-> 0, state |-> New]

Correct(rating) == rating >= Good

\* Mutant: a lapse counts as a repetition too.
LapseAlsoRep(m) ==
  [reps |-> m.reps + 1, lapses |-> m.lapses + 1, state |-> Relearning]

Lapse(m) == [reps |-> m.reps, lapses |-> m.lapses + 1, state |-> Relearning]
Recall(m, state) == [reps |-> m.reps + 1, lapses |-> m.lapses, state |-> state]

\* The first review of a card: only here does Hard lead to Learning.
InitializeCard(m, rating) ==
  CASE rating = Again -> Lapse(m)
    [] rating = Hard  -> Recall(m, Learning)
    [] OTHER          -> Recall(m, Mastered)

UpdateCard(m, rating) ==
  IF rating = Again THEN Lapse(m) ELSE Recall(m, Mastered)

Review(m, rating) ==
  IF m.state = New THEN InitializeCard(m, rating) ELSE UpdateCard(m, rating)
=============================================================================
