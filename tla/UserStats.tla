----------------------------- MODULE UserStats ------------------------------
(***************************************************************************)
(* The cached statistics of every user (models/user_stats.go) under        *)
(* concurrent completions.  A call of UpdateAfterSession reads the clock   *)
(* (today := time.Now()...) and only then runs its upsert, so upserts of   *)
(* two requests may reach the table in the opposite order of their dates.  *)
(***************************************************************************)
EXTENDS StatsRow, FiniteSets, Functions

CONSTANTS Users,       \* the user ids
          Calls,       \* each element is one call of UpdateAfterSession
          MaxCards,    \* bound on the cards of a session
          MaxDay       \* bound on the clock

ASSUME StatsAssumption == IsFiniteSet(Calls) /\ MaxCards \in Nat /\ MaxDay \in Nat \ {0}

VARIABLES stats,       \* user_stats, one row per user
          call,        \* the control state of every call
          day          \* today

vars == <<stats, call, day>>

Days == 1..MaxDay
Idle == [pc |-> "idle"]
CallRecord == [pc : {"called", "done"}, user : Users, studied : Nat,
               correct : Nat, today : Days]

TypeOK == /\ stats \in [Users -> StatsRows]
          /\ call \in [Calls -> {Idle} \cup CallRecord]
          /\ day \in Days

Init == /\ stats = [u \in Users |-> SeedRow]
        /\ call = [c \in Calls |-> Idle]
        /\ day = 1

\* SessionModel.Complete has fetched the session and calls the model.  "today"
\* is so far only the earliest date the clock can still return.
Call(c) ==
  /\ call[c] = Idle
  /\ \E u \in Users, n \in 0..MaxCards : \E k \in 0..n :
       call' = [call EXCEPT ![c] =
                  [pc |-> "called", user |-> u, studied |-> n,
                   correct |-> k, today |-> day]]
  /\ UNCHANGED <<stats, day>>

\* The clock was read at some day since the call, and the upsert runs now.
Upsert(c) ==
  /\ call[c].pc = "called"
  /\ \E today \in call[c].today..day :
       /\ stats' = [stats EXCEPT ![call[c].user] =
                      Updated(@, call[c].studied, call[c].correct, today)]
       /\ call' = [call EXCEPT ![c].pc = "done", ![c].today = today]
  /\ UNCHANGED day

\* The statement fails or the server dies first: nothing is written.  Complete
\* returns the error and the handler drops it.
Drop(c) ==
  /\ call[c].pc = "called"
  /\ call' = [call EXCEPT ![c] = Idle]
  /\ UNCHANGED <<stats, day>>

NextDay == /\ day < MaxDay
           /\ day' = day + 1
           /\ UNCHANGED <<stats, call>>

Next == \/ \E c \in Calls : Call(c) \/ Upsert(c) \/ Drop(c)
        \/ NextDay

Spec == Init /\ [][Next]_vars

-----------------------------------------------------------------------------
Done(u) == {c \in Calls : call[c].pc = "done" /\ call[c].user = u}
Pending == {c \in Calls : call[c].pc = "called"}

\* The days of which user_stats has heard that u studied.
StudyDays(u) == {call[c].today : c \in Done(u)}

\* However upserts are interleaved and reordered, a streak is never overstated:
\* the days it claims, counted back from last_study_date, all had a session, and
\* longest_streak was reached by some run of days that all had a session
\* (models/user_stats.go, the two CASE expressions).
StreakNeverOverstated ==
  \A u \in Users :
    LET row == stats[u] IN
      /\ row.last_study_date # Never =>
           ((row.last_study_date - row.current_streak) + 1)..row.last_study_date
             \subseteq StudyDays(u)
      /\ \E d \in 0..MaxDay : (d + 1)..(d + row.longest_streak) \subseteq StudyDays(u)

\* What the calls that ran their upsert for u had handed over.
StudiedBy(u) == SumFunctionOnSet([c \in Calls |-> call[c].studied], Done(u))
CorrectBy(u) == SumFunctionOnSet([c \in Calls |-> call[c].correct], Done(u))

\* The totals are the sums over the calls whose upsert ran, however many ran at
\* once: of each total no increment is lost and none is applied twice, cards are
\* not mistaken for correct cards, and XP is what the formula in the comment of
\* UpdateAfterSession says (models/user_stats.go:36-77).  A call that failed is in
\* no sum: that its session stays uncredited is not excluded here.
TotalsAddUp ==
  \A u \in Users :
    LET row == stats[u] IN
      /\ row.total_sessions = Cardinality(Done(u))
      /\ row.total_cards_studied = StudiedBy(u)
      /\ row.total_correct = CorrectBy(u)
      /\ row.total_correct <= row.total_cards_studied
      /\ row.xp = 10 * row.total_sessions + 2 * row.total_correct

\* current_streak is the number of consecutive days with a session that end at
\* the last day studied, and longest_streak the longest such run.
StreakExactOf(u) ==
  LET row  == stats[u]
      days == StudyDays(u)
  IN IF days = {}
       THEN row = SeedRow
       ELSE /\ row.last_study_date \in days
            /\ \A d \in days : d <= row.last_study_date
            /\ (row.last_study_date - row.current_streak) \notin days
            /\ \A d \in Days : ~(d..(d + row.longest_streak) \subseteq days)

\* As long as the upserts of a user reach the table in the order of their dates,
\* both streaks stay exact: first session, same day, next day, and after a gap
\* (models/user_stats.go:55-71).  Failed calls and other users do not matter.
StreakFollowsDays ==
  [][\A u \in Users :
       (StreakExactOf(u) /\ stats'[u].last_study_date >= stats[u].last_study_date)
         => StreakExactOf(u)']_vars

\* The same without the order (db/database.sql:168: "consecutive days with at
\* least one session").
StreakExact == \A u \in Users : StreakExactOf(u)
=============================================================================
