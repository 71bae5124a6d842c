------------------------------ MODULE StatsRow ------------------------------
(***************************************************************************)
(* One row of the user_stats table and the upsert that                     *)
(* UserStatsModel.UpdateAfterSession (models/user_stats.go) runs on it.    *)
(* Days are numbered from 1; a DATE is a day number.                       *)
(***************************************************************************)
EXTENDS Integers

\* last_study_date IS NULL.  No day is 0, so NULL is never anyone's yesterday.
Never == -1

StatsRows == [total_cards_studied : Nat, total_correct : Nat,
              total_sessions : Nat, current_streak : Nat,
              longest_streak : Nat, xp : Nat,
              last_study_date : {Never} \cup (Nat \ {0})]

\* The row signup inserts; also what Get reports when there is no row.
SeedRow == [total_cards_studied |-> 0, total_correct |-> 0,
            total_sessions |-> 0, current_streak |-> 0,
            longest_streak |-> 0, xp |-> 0, last_study_date |-> Never]

\* 10 XP for the session, 2 for each correct card.
XpGained(correct) == 10 + 2 * correct

Greatest(a, b) == IF a >= b THEN a ELSE b

\* Mutant: the streak counts sessions, not days.
StreakPerSession(row, today) ==
  IF row.last_study_date \in {today - 1, today} THEN row.current_streak + 1 ELSE 1

\* Mutant: a second session of a day starts the streak again.
StreakSameDayResets(row, today) ==
  IF row.last_study_date = today - 1 THEN row.current_streak + 1 ELSE 1

\* The CASE expression that both streak columns are computed from.
StreakOn(row, today) ==
  CASE row.last_study_date = today - 1 -> row.current_streak + 1
    [] row.last_study_date = today     -> row.current_streak
    [] OTHER                           -> 1

\* INSERT ... VALUES: the user had no row.
Inserted(studied, correct, today) ==
  [total_cards_studied |-> studied, total_correct |-> correct,
   total_sessions |-> 1, current_streak |-> 1, longest_streak |-> 1,
   xp |-> XpGained(correct), last_study_date |-> today]

\* Mutant: the date is truncated to the day before.
UpdatedDayEarly(row, studied, correct, today) ==
  [Inserted(studied, correct, today) EXCEPT !.last_study_date = today - 1]

\* Mutant: total_correct is incremented by $2 instead of $3.
UpdatedSwapped(row, studied, correct, today) ==
  [total_cards_studied |-> row.total_cards_studied + studied,
   total_correct |-> row.total_correct + studied,
   total_sessions |-> row.total_sessions + 1,
   current_streak |-> StreakOn(row, today),
   longest_streak |-> Greatest(row.longest_streak, StreakOn(row, today)),
   xp |-> row.xp + XpGained(correct),
   last_study_date |-> today]

\* Mutant: a second session of a day keeps the card totals, as it keeps the streak.
UpdatedOncePerDay(row, studied, correct, today) ==
  LET counted == IF row.last_study_date = today THEN 0 ELSE 1
  IN [total_cards_studied |-> row.total_cards_studied + counted * studied,
      total_correct |-> row.total_correct + counted * correct,
      total_sessions |-> row.total_sessions + 1,
      current_streak |-> StreakOn(row, today),
      longest_streak |-> Greatest(row.longest_streak, StreakOn(row, today)),
      xp |-> row.xp + 10 + 2 * counted * correct,
      last_study_date |-> today]

\* ON CONFLICT (user_id) DO UPDATE: one atomic statement on the stored row.
Updated(row, studied, correct, today) ==
  [total_cards_studied |-> row.total_cards_studied + studied,
   total_correct |-> row.total_correct + correct,
   total_sessions |-> row.total_sessions + 1,
   current_streak |-> StreakOn(row, today),
   longest_streak |-> Greatest(row.longest_streak, StreakOn(row, today)),
   xp |-> row.xp + XpGained(correct),
   last_study_date |-> today]
=============================================================================
