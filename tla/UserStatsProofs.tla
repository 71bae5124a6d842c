-------------------------- MODULE UserStatsProofs ---------------------------
(***************************************************************************)
(* Proofs about one row of user_stats, its upsert, and the cached          *)
(* statistics of every user.                                               *)
(***************************************************************************)
EXTENDS UserStats, FiniteSetTheorems, WellFoundedInduction, TLAPS

-----------------------------------------------------------------------------
(* One row and its upsert *)

\* The two branches of the upsert agree: a user without a row and a user with
\* the row signup inserts end up with the same one, so the row signup may fail to
\* insert (models/user.go:41-42) is never missed.
THEOREM InsertIsUpdateOfSeed ==
  ASSUME NEW studied \in Nat, NEW correct \in Nat, NEW today \in Nat \ {0}
  PROVE  Inserted(studied, correct, today) = Updated(SeedRow, studied, correct, today)
<1>1. StreakOn(SeedRow, today) = 1
  BY DEF StreakOn, SeedRow, Never
<1>2. SeedRow.total_cards_studied + studied = studied /\ SeedRow.total_correct + correct = correct
  BY DEF SeedRow
<1>3. SeedRow.total_sessions + 1 = 1 /\ SeedRow.xp + XpGained(correct) = XpGained(correct)
  BY DEF SeedRow, XpGained
<1>4. Greatest(SeedRow.longest_streak, 1) = 1
  BY DEF SeedRow, Greatest
<1> QED
  BY <1>1, <1>2, <1>3, <1>4 DEF Inserted, Updated

\* The streak after a session is a natural number, and one of three.
LEMMA StreakCases ==
  ASSUME NEW row \in StatsRows, NEW today \in Nat \ {0}
  PROVE  /\ StreakOn(row, today) \in Nat
         /\ \/ /\ row.last_study_date = today - 1
               /\ StreakOn(row, today) = row.current_streak + 1
            \/ /\ row.last_study_date = today
               /\ StreakOn(row, today) = row.current_streak
            \/ StreakOn(row, today) = 1
<1>1. row.current_streak \in Nat
  BY DEF StatsRows
<1>2. row.last_study_date = today - 1 => StreakOn(row, today) = row.current_streak + 1
  BY <1>1 DEF StreakOn
<1>3. row.last_study_date = today => StreakOn(row, today) = row.current_streak
  BY <1>1 DEF StreakOn
<1>4. (row.last_study_date # today - 1 /\ row.last_study_date # today)
         => StreakOn(row, today) = 1
  BY DEF StreakOn
<1> QED
  BY <1>1, <1>2, <1>3, <1>4

LEMMA UpdatedType ==
  ASSUME NEW row \in StatsRows, NEW studied \in Nat, NEW correct \in Nat,
         NEW today \in Nat \ {0}
  PROVE  Updated(row, studied, correct, today) \in StatsRows
<1>1. StreakOn(row, today) \in Nat
  BY StreakCases
<1>2. Greatest(row.longest_streak, StreakOn(row, today)) \in Nat
  BY <1>1 DEF Greatest, StatsRows
<1>3. XpGained(correct) \in Nat
  BY DEF XpGained
<1> QED
  BY <1>1, <1>2, <1>3 DEF Updated, StatsRows

-----------------------------------------------------------------------------
(* Types *)

LEMMA InitType == Init => TypeOK
  BY StatsAssumption DEF Init, TypeOK, StatsRows, SeedRow, Days, Idle, Never

LEMMA NextType == TypeOK /\ [Next]_vars => TypeOK'
<1> SUFFICES ASSUME TypeOK, [Next]_vars PROVE TypeOK'
  OBVIOUS
<1> USE StatsAssumption
<1>1. ASSUME NEW c \in Calls, Call(c) PROVE TypeOK'
  <2>1. PICK u \in Users, n \in 0..MaxCards : \E k \in 0..n :
               call' = [call EXCEPT ![c] =
                          [pc |-> "called", user |-> u, studied |-> n,
                           correct |-> k, today |-> day]]
    BY <1>1 DEF Call
  <2>2. PICK k \in 0..n :
               call' = [call EXCEPT ![c] =
                          [pc |-> "called", user |-> u, studied |-> n,
                           correct |-> k, today |-> day]]
    BY <2>1
  <2>3. [pc |-> "called", user |-> u, studied |-> n, correct |-> k,
         today |-> day] \in CallRecord
    BY DEF TypeOK, CallRecord
  <2> QED
    BY <1>1, <2>2, <2>3 DEF Call, TypeOK
<1>2. ASSUME NEW c \in Calls, Upsert(c) PROVE TypeOK'
  <2>1. call[c] \in CallRecord
    BY <1>2 DEF Upsert, TypeOK, Idle
  <2>2. PICK today \in call[c].today..day :
               /\ stats' = [stats EXCEPT ![call[c].user] =
                      Updated(@, call[c].studied, call[c].correct, today)]
               /\ call' = [call EXCEPT ![c].pc = "done", ![c].today = today]
    BY <1>2 DEF Upsert
  <2>3. today \in Days
    BY <2>1 DEF TypeOK, CallRecord, Days
  <2>4. Updated(stats[call[c].user], call[c].studied, call[c].correct, today) \in StatsRows
    BY <2>1, <2>3, UpdatedType DEF TypeOK, CallRecord, Days
  <2>5. stats' \in [Users -> StatsRows]
    BY <2>1, <2>2, <2>4 DEF TypeOK, CallRecord
  <2>6. call' \in [Calls -> {Idle} \cup CallRecord]
    BY <2>1, <2>2, <2>3 DEF TypeOK, CallRecord
  <2> QED
    BY <1>2, <2>5, <2>6 DEF Upsert, TypeOK
<1>3. ASSUME NEW c \in Calls, Drop(c) PROVE TypeOK'
  BY <1>3 DEF Drop, TypeOK
<1>4. CASE NextDay
  BY <1>4 DEF NextDay, TypeOK, Days
<1>5. CASE UNCHANGED vars
  BY <1>5 DEF vars, TypeOK
<1> QED
  BY <1>1, <1>2, <1>3, <1>4, <1>5 DEF Next

\* Every row, call and clock value the model can reach is of its type.
THEOREM TypeCorrect == Spec => []TypeOK
<1>1. TypeOK /\ [Next]_vars => TypeOK'
  BY NextType
<1> QED
  BY InitType, <1>1, PTL DEF Spec

-----------------------------------------------------------------------------
(* Streaks *)

\* What one step does to the calls that are done: none is lost, and an upsert
\* adds the day it used for its user.
LEMMA StudyDaysGrow ==
  ASSUME TypeOK, [Next]_vars, NEW u \in Users
  PROVE  StudyDays(u) \subseteq StudyDays(u)'
<1> SUFFICES ASSUME NEW c \in Done(u)
             PROVE  c \in Done(u)' /\ call'[c].today = call[c].today
  BY DEF StudyDays
<1>0. c \in Calls /\ call[c].pc = "done" /\ call[c].user = u
  BY DEF Done
<1>1. ASSUME NEW b \in Calls, Call(b) PROVE call'[c] = call[c]
  <2>1. b # c
    BY <1>0, <1>1 DEF Call, Idle
  <2> QED
    BY <1>0, <1>1, <2>1 DEF Call, TypeOK
<1>2. ASSUME NEW b \in Calls, Upsert(b) PROVE call'[c] = call[c]
  <2>1. b # c
    BY <1>0, <1>2 DEF Upsert
  <2> QED
    BY <1>0, <1>2, <2>1 DEF Upsert, TypeOK
<1>3. ASSUME NEW b \in Calls, Drop(b) PROVE call'[c] = call[c]
  <2>1. b # c
    BY <1>0, <1>3 DEF Drop
  <2> QED
    BY <1>0, <1>3, <2>1 DEF Drop, TypeOK
<1>4. CASE NextDay
  BY <1>0, <1>4 DEF NextDay, Done
<1>5. CASE UNCHANGED vars
  BY <1>0, <1>5 DEF vars, Done
<1> QED
  BY <1>0, <1>1, <1>2, <1>3, <1>4, <1>5 DEF Next, Done

LEMMA StudyDaysAreDays ==
  ASSUME TypeOK, NEW u \in Users
  PROVE  StudyDays(u) \subseteq Days
BY DEF StudyDays, Done, TypeOK, Idle, CallRecord

\* The claim about one row, of the days its user is known to have studied.
RowSound(row, days) ==
  /\ row.last_study_date # Never =>
       ((row.last_study_date - row.current_streak) + 1)..row.last_study_date
         \subseteq days
  /\ \E d \in 0..MaxDay : (d + 1)..(d + row.longest_streak) \subseteq days

LEMMA UpdatedSound ==
  ASSUME NEW row \in StatsRows, NEW days \in SUBSET Days, RowSound(row, days),
         NEW studied \in Nat, NEW correct \in Nat, NEW today \in days
  PROVE  RowSound(Updated(row, studied, correct, today), days)
<1> DEFINE new    == Updated(row, studied, correct, today)
           streak == StreakOn(row, today)
<1>0. today \in Nat \ {0} /\ today <= MaxDay /\ MaxDay \in Nat
  BY StatsAssumption DEF Days
<1>1. /\ new.last_study_date = today /\ new.current_streak = streak
      /\ new.longest_streak = Greatest(row.longest_streak, streak)
  BY DEF Updated
<1>2. /\ row.current_streak \in Nat /\ row.longest_streak \in Nat
      /\ row.last_study_date \in {-1} \cup (Nat \ {0}) /\ streak \in Nat
  BY <1>0, StreakCases DEF StatsRows, Never
<1>3. ((today - streak) + 1)..today \subseteq days
  <2>1. CASE row.last_study_date = today - 1 /\ streak = row.current_streak + 1
    <3>1. row.last_study_date # Never
      BY <1>0, <2>1 DEF Never
    <3>2. ((row.last_study_date - row.current_streak) + 1)..row.last_study_date \subseteq days
      BY <3>1 DEF RowSound
    <3>3. \A e \in ((today - streak) + 1)..today :
             e = today \/ e \in ((row.last_study_date - row.current_streak) + 1)..row.last_study_date
      BY <1>0, <1>2, <2>1
    <3> QED
      BY <3>2, <3>3
  <2>2. CASE row.last_study_date = today /\ streak = row.current_streak
    <3>1. row.last_study_date # Never
      BY <1>0, <2>2 DEF Never
    <3> QED
      BY <2>2, <3>1 DEF RowSound
  <2>3. CASE streak = 1
    <3>1. \A e \in ((today - streak) + 1)..today : e = today
      BY <1>0, <2>3
    <3> QED
      BY <3>1
  <2> QED
    BY <1>0, <2>1, <2>2, <2>3, StreakCases
<1>4. \E d \in 0..MaxDay : (d + 1)..(d + streak) \subseteq days
  <2> DEFINE d == today - streak
  <2>1. d \in Int /\ d <= MaxDay /\ d + streak = today
    BY <1>0, <1>2
  <2>2. d >= 0
    <3>1. CASE streak = 0
      BY <1>0, <3>1
    <3>2. CASE streak # 0
      <4>1. (today - streak) + 1 \in ((today - streak) + 1)..today
        BY <1>0, <1>2, <3>2
      <4>2. (today - streak) + 1 \in Days
        BY <1>3, <4>1
      <4> QED
        BY <1>0, <1>2, <4>2 DEF Days
    <3> QED
      BY <3>1, <3>2
  <2>3. (d + 1)..(d + streak) \subseteq days
    BY <1>3, <2>1
  <2> QED
    BY <1>0, <2>1, <2>2, <2>3
<1>5. \E d \in 0..MaxDay : (d + 1)..(d + new.longest_streak) \subseteq days
  <2>1. new.longest_streak = row.longest_streak \/ new.longest_streak = streak
    BY <1>1 DEF Greatest
  <2>2. CASE new.longest_streak = row.longest_streak
    BY <2>2 DEF RowSound
  <2>3. CASE new.longest_streak = streak
    BY <1>4, <2>3
  <2> QED
    BY <2>1, <2>2, <2>3
<1> QED
  BY <1>1, <1>3, <1>5 DEF RowSound

LEMMA SoundMonotone ==
  ASSUME NEW row, NEW few, NEW more, few \subseteq more, RowSound(row, few)
  PROVE  RowSound(row, more)
BY DEF RowSound

LEMMA StreakIsRowSound ==
  StreakNeverOverstated <=> \A u \in Users : RowSound(stats[u], StudyDays(u))
BY DEF StreakNeverOverstated, RowSound

LEMMA NextStreak ==
  TypeOK /\ StreakNeverOverstated /\ [Next]_vars => StreakNeverOverstated'
<1> SUFFICES ASSUME TypeOK, StreakNeverOverstated, [Next]_vars, NEW u \in Users
             PROVE  RowSound(stats'[u], StudyDays(u)')
  BY DEF StreakNeverOverstated, RowSound
<1>0. RowSound(stats[u], StudyDays(u)')
  BY StudyDaysGrow, SoundMonotone, StreakIsRowSound
<1>1. ASSUME NEW c \in Calls, Upsert(c) PROVE RowSound(stats'[u], StudyDays(u)')
  <2>1. call[c] \in CallRecord
    BY <1>1 DEF Upsert, TypeOK, Idle
  <2>2. PICK today \in call[c].today..day :
               /\ stats' = [stats EXCEPT ![call[c].user] =
                      Updated(@, call[c].studied, call[c].correct, today)]
               /\ call' = [call EXCEPT ![c].pc = "done", ![c].today = today]
    BY <1>1 DEF Upsert
  <2>3. CASE u # call[c].user
    BY <1>0, <2>1, <2>2, <2>3 DEF TypeOK, CallRecord
  <2>4. CASE u = call[c].user
    <3>1. c \in Done(u)' /\ call'[c].today = today
      BY <2>1, <2>2, <2>4 DEF Done, TypeOK, CallRecord
    <3>2. today \in StudyDays(u)'
      BY <3>1 DEF StudyDays
    <3>3. StudyDays(u)' \subseteq Days
      <4>1. TypeOK'
        BY NextType
      <4>2. \A b \in Done(u)' : call'[b].today \in Days
        BY <4>1 DEF Done, TypeOK, Idle, CallRecord, Days
      <4> QED
        BY <4>2 DEF StudyDays
    <3>4. stats'[u] = Updated(stats[u], call[c].studied, call[c].correct, today)
      BY <2>1, <2>2, <2>4 DEF TypeOK
    <3>5. stats[u] \in StatsRows /\ call[c].studied \in Nat /\ call[c].correct \in Nat
      BY <2>1 DEF TypeOK, CallRecord
    <3> QED
      BY <1>0, <3>2, <3>3, <3>4, <3>5, UpdatedSound
  <2> QED
    BY <2>3, <2>4
<1>2. ASSUME stats' = stats PROVE RowSound(stats'[u], StudyDays(u)')
  BY <1>0, <1>2
<1> QED
  BY <1>1, <1>2 DEF Next, Call, Drop, NextDay, vars

\* For every number of users, calls and days: no order of concurrent upserts, and
\* no midnight between reading the clock and writing, overstates a streak.
THEOREM StreakTheorem == Spec => []StreakNeverOverstated
<1>1. Init => StreakNeverOverstated
  <2> SUFFICES ASSUME Init, NEW u \in Users PROVE RowSound(stats[u], StudyDays(u))
    BY StreakIsRowSound
  <2>1. stats[u] = SeedRow
    BY DEF Init
  <2>2. (0 + 1)..(0 + 0) = {} /\ 0 \in 0..MaxDay
    BY StatsAssumption
  <2> QED
    BY <2>1, <2>2 DEF RowSound, SeedRow
<1> QED
  BY TypeCorrect, <1>1, NextStreak, PTL DEF Spec

-----------------------------------------------------------------------------
(* Exact streaks *)

\* StreakExactOf, of a row and the days its user is known to have studied.
RowExact(row, days) ==
  IF days = {}
    THEN row = SeedRow
    ELSE /\ row.last_study_date \in days
         /\ \A d \in days : d <= row.last_study_date
         /\ (row.last_study_date - row.current_streak) \notin days
         /\ \A d \in Days : ~(d..(d + row.longest_streak) \subseteq days)

LEMMA ExactIsRowExact ==
  ASSUME NEW u \in Users
  PROVE  StreakExactOf(u) <=> RowExact(stats[u], StudyDays(u))
BY DEF StreakExactOf, RowExact

\* An upsert that is not dated before the row keeps the streaks exact.
LEMMA UpdatedExact ==
  ASSUME NEW row \in StatsRows, NEW days \in SUBSET Days, RowExact(row, days),
         NEW studied, NEW correct, NEW today \in Days,
         today >= row.last_study_date
  PROVE  RowExact(Updated(row, studied, correct, today), days \cup {today})
<1> DEFINE new    == Updated(row, studied, correct, today)
           streak == StreakOn(row, today)
           all    == days \cup {today}
<1>0. Days \subseteq Nat \ {0} /\ today \in Nat \ {0}
  BY StatsAssumption DEF Days
<1>1. /\ new.last_study_date = today /\ new.current_streak = streak
      /\ new.longest_streak = Greatest(row.longest_streak, streak)
  BY DEF Updated
<1>2. /\ row.current_streak \in Nat /\ row.longest_streak \in Nat
      /\ row.last_study_date \in {-1} \cup (Nat \ {0}) /\ streak \in Nat
  BY <1>0, StreakCases DEF StatsRows, Never
<1>3. /\ new.longest_streak \in Nat
      /\ new.longest_streak >= row.longest_streak /\ new.longest_streak >= streak
  BY <1>1, <1>2 DEF Greatest
<1>4. \A d \in all : d <= today
  <2>1. CASE days = {}
    BY <1>0, <2>1
  <2>2. CASE days # {}
    BY <1>0, <1>2, <2>2 DEF RowExact
  <2> QED
    BY <2>1, <2>2
<1>5. (today - streak) \notin all
  <2>1. CASE days = {}
    <3>1. row.last_study_date = -1
      BY <2>1 DEF RowExact, SeedRow, Never
    <3>2. streak = 1
      BY <1>0, <3>1 DEF StreakOn
    <3> QED
      BY <1>0, <2>1, <3>2
  <2>2. CASE days # {}
    <3>0. /\ row.last_study_date \in days
          /\ \A d \in days : d <= row.last_study_date
          /\ (row.last_study_date - row.current_streak) \notin days
      BY <2>2 DEF RowExact
    <3>1. CASE row.last_study_date = today - 1 /\ streak = row.current_streak + 1
      <4>1. today - streak = row.last_study_date - row.current_streak
        BY <1>0, <1>2, <3>1
      <4>2. today - streak # today
        BY <1>0, <1>2, <3>1
      <4> QED
        BY <3>0, <4>1, <4>2
    <3>2. CASE row.last_study_date = today /\ streak = row.current_streak
      BY <3>0, <3>2
    <3>3. CASE row.last_study_date # today - 1 /\ row.last_study_date # today /\ streak = 1
      <4>1. row.last_study_date < today - 1
        BY <1>0, <1>2, <3>3
      <4>2. today - 1 \notin days
        BY <1>0, <1>2, <3>0, <4>1
      <4> QED
        BY <1>0, <3>3, <4>2
    <3> QED
      BY <1>0, <3>1, <3>2, <3>3 DEF StreakOn
  <2> QED
    BY <2>1, <2>2
<1>6. ASSUME NEW d \in Days, d..(d + new.longest_streak) \subseteq all PROVE FALSE
  <2> DEFINE end == d + new.longest_streak
  <2>0. d \in Nat /\ end \in Nat /\ d \in d..end /\ end \in d..end
    BY <1>0, <1>3
  <2>1. CASE today \in d..end
    <3>1. end = today
      BY <1>0, <1>4, <1>6, <2>0, <2>1
    <3>2. today - streak \in d..end
      BY <1>0, <1>2, <1>3, <2>0, <3>1
    <3> QED
      BY <1>5, <1>6, <3>2
  <2>2. CASE today \notin d..end
    <3>1. d..end \subseteq days
      BY <1>6, <2>2
    <3>2. days # {}
      BY <2>0, <3>1
    <3>3. d..(d + row.longest_streak) \subseteq d..end
      BY <1>0, <1>2, <1>3
    <3> QED
      BY <3>1, <3>2, <3>3 DEF RowExact
  <2> QED
    BY <2>1, <2>2
<1> QED
  BY <1>1, <1>4, <1>5, <1>6 DEF RowExact

LEMMA UpsertEffect ==
  ASSUME TypeOK, NEW c \in Calls, Upsert(c)
  PROVE  /\ call[c] \in CallRecord /\ call[c].pc = "called"
         /\ \E today \in Days :
              /\ stats' = [stats EXCEPT ![call[c].user] =
                     Updated(@, call[c].studied, call[c].correct, today)]
              /\ call' = [call EXCEPT ![c].pc = "done", ![c].today = today]
<1>1. call[c] \in CallRecord /\ call[c].pc = "called"
  BY DEF Upsert, TypeOK, Idle
<1>2. PICK today \in call[c].today..day :
             /\ stats' = [stats EXCEPT ![call[c].user] =
                    Updated(@, call[c].studied, call[c].correct, today)]
             /\ call' = [call EXCEPT ![c].pc = "done", ![c].today = today]
  BY DEF Upsert
<1>3. today \in Days
  BY <1>1, StatsAssumption DEF TypeOK, CallRecord, Days
<1> QED
  BY <1>1, <1>2, <1>3

\* A step that touches no call that is done leaves the days of a user alone.
LEMMA StudyDaysStay ==
  ASSUME TypeOK, [Next]_vars, NEW u \in Users,
         \A c \in Calls : Upsert(c) => call[c].user # u
  PROVE  StudyDays(u)' = StudyDays(u) /\ stats'[u] = stats[u]
<1>1. ASSUME NEW b \in Calls, Call(b)
      PROVE  StudyDays(u)' = StudyDays(u) /\ stats'[u] = stats[u]
  <2>1. \A c \in Calls : c # b => call'[c] = call[c]
    BY <1>1 DEF Call, TypeOK
  <2>2. call[b].pc # "done" /\ call'[b].pc # "done"
    BY <1>1 DEF Call, Idle, TypeOK
  <2> QED
    BY <1>1, <2>1, <2>2 DEF Call, StudyDays, Done
<1>2. ASSUME NEW b \in Calls, Upsert(b)
      PROVE  StudyDays(u)' = StudyDays(u) /\ stats'[u] = stats[u]
  <2>0. call[b] \in CallRecord
    BY <1>2, UpsertEffect
  <2>1. call[b].user # u
    BY <1>2
  <2>a. PICK today \in Days :
               /\ stats' = [stats EXCEPT ![call[b].user] =
                      Updated(@, call[b].studied, call[b].correct, today)]
               /\ call' = [call EXCEPT ![b].pc = "done", ![b].today = today]
    BY <1>2, UpsertEffect
  <2>2. \A c \in Calls : c # b => call'[c] = call[c]
    BY <2>a DEF TypeOK
  <2>3. call'[b].user # u
    BY <2>0, <2>1, <2>a DEF TypeOK, CallRecord
  <2>4. stats'[u] = stats[u]
    BY <2>0, <2>1, <2>a DEF TypeOK, CallRecord
  <2> QED
    BY <2>1, <2>2, <2>3, <2>4 DEF StudyDays, Done
<1>3. ASSUME NEW b \in Calls, Drop(b)
      PROVE  StudyDays(u)' = StudyDays(u) /\ stats'[u] = stats[u]
  <2>1. \A c \in Calls : c # b => call'[c] = call[c]
    BY <1>3 DEF Drop, TypeOK
  <2>2. call[b].pc # "done" /\ call'[b].pc # "done"
    BY <1>3 DEF Drop, Idle, TypeOK
  <2> QED
    BY <1>3, <2>1, <2>2 DEF Drop, StudyDays, Done
<1>4. CASE NextDay
  BY <1>4 DEF NextDay, StudyDays, Done
<1>5. CASE UNCHANGED vars
  BY <1>5 DEF vars, StudyDays, Done
<1> QED
  BY <1>1, <1>2, <1>3, <1>4, <1>5 DEF Next

LEMMA NextExact ==
  ASSUME TypeOK, [Next]_vars, NEW u \in Users, StreakExactOf(u),
         stats'[u].last_study_date >= stats[u].last_study_date
  PROVE  StreakExactOf(u)'
<1>0. SUFFICES RowExact(stats'[u], StudyDays(u)')
  BY DEF StreakExactOf, RowExact
<1>1. RowExact(stats[u], StudyDays(u))
  BY ExactIsRowExact
<1>2. CASE \A c \in Calls : Upsert(c) => call[c].user # u
  BY <1>1, <1>2, StudyDaysStay
<1>3. ASSUME NEW c \in Calls, Upsert(c), call[c].user = u
      PROVE  RowExact(stats'[u], StudyDays(u)')
  <2>1. call[c] \in CallRecord /\ call[c].pc = "called"
    BY <1>3, UpsertEffect
  <2>2. PICK today \in Days :
               /\ stats' = [stats EXCEPT ![call[c].user] =
                      Updated(@, call[c].studied, call[c].correct, today)]
               /\ call' = [call EXCEPT ![c].pc = "done", ![c].today = today]
    BY <1>3, UpsertEffect
  <2>4. stats'[u] = Updated(stats[u], call[c].studied, call[c].correct, today)
    BY <1>3, <2>2 DEF TypeOK
  <2>5. StudyDays(u)' = StudyDays(u) \cup {today}
    <3>1. \A b \in Calls : b # c => call'[b] = call[b]
      BY <2>2 DEF TypeOK
    <3>2. call'[c].pc = "done" /\ call'[c].user = u /\ call'[c].today = today
      BY <1>3, <2>1, <2>2 DEF TypeOK, CallRecord
    <3>3. Done(u)' = Done(u) \cup {c} /\ c \notin Done(u)
      BY <2>1, <3>1, <3>2 DEF Done
    <3> QED
      BY <3>1, <3>2, <3>3 DEF StudyDays, Done
  <2>6. today >= stats[u].last_study_date
    BY <2>4 DEF Updated
  <2>7. stats[u] \in StatsRows /\ StudyDays(u) \in SUBSET Days
    BY StudyDaysAreDays DEF TypeOK
  <2> QED
    BY <1>1, <2>4, <2>5, <2>6, <2>7, UpdatedExact
<1> QED
  BY <1>2, <1>3

\* For every number of users, calls and days: as long as the upserts of a user
\* arrive in the order of their dates, both streak columns stay exact.
THEOREM ExactTheorem == Spec => StreakFollowsDays
<1>1. TypeOK /\ [Next]_vars =>
        [\A u \in Users :
           (StreakExactOf(u) /\ stats'[u].last_study_date >= stats[u].last_study_date)
             => StreakExactOf(u)']_vars
  BY NextExact
<1> QED
  BY TypeCorrect, <1>1, PTL DEF Spec, StreakFollowsDays

-----------------------------------------------------------------------------
(* Sums over finite sets *)

\* Induction, over a set of numbers.
LEMMA Counting ==
  ASSUME NEW T \in SUBSET Nat, 0 \in T, \A n \in T : n + 1 \in T
  PROVE  T = Nat
<1> SUFFICES ASSUME Nat \ T # {} PROVE FALSE
  OBVIOUS
<1>1. PICK n \in Nat \ T : \A m \in Nat \ T : <<m, n>> \notin OpToRel(<, Nat)
  BY NatLessThanWellFounded, WFMin, Nat \ T \subseteq Nat
<1>2. \A m \in Nat \ T : ~(m < n)
  BY <1>1 DEF OpToRel
<1>3. n - 1 \in Nat /\ (n - 1) + 1 = n /\ n - 1 < n
  OBVIOUS
<1>4. n - 1 \in T
  BY <1>2, <1>3
<1> QED
  BY <1>1, <1>3, <1>4

\* Induction over the subsets of a finite set, by taking out one element.
LEMMA BySize ==
  ASSUME NEW S, IsFiniteSet(S), NEW T,
         \A s \in SUBSET S : (\A x \in s : s \ {x} \in T) => s \in T
  PROVE  S \in T
<1> DEFINE N == {n \in Nat : \A s \in SUBSET S : Cardinality(s) = n => s \in T}
<1>0. ASSUME NEW s \in SUBSET S PROVE IsFiniteSet(s) /\ Cardinality(s) \in Nat
  BY FS_Subset, FS_CardinalityType
<1>1. 0 \in N
  BY <1>0, FS_EmptySet
<1>2. ASSUME NEW n \in N PROVE n + 1 \in N
  <2>1. n \in Nat /\ n + 1 \in Nat /\ (n + 1) - 1 = n
    OBVIOUS
  <2> SUFFICES ASSUME NEW s \in SUBSET S, Cardinality(s) = n + 1 PROVE s \in T
    BY <2>1
  <2>2. ASSUME NEW x \in s PROVE s \ {x} \in T
    <3>1. Cardinality(s \ {x}) = Cardinality(s) - 1
      BY <1>0, FS_RemoveElement
    <3> QED
      BY <1>2, <2>1, <3>1
  <2> QED
    BY <2>2
<1> HIDE DEF N
<1>3. N = Nat
  <2>1. N \in SUBSET Nat
    BY DEF N
  <2> QED
    BY <1>1, <1>2, <2>1, Counting
<1>4. S \in SUBSET S
  OBVIOUS
<1> QED
  BY <1>0, <1>3, <1>4 DEF N

(* What a sum is: the fold that takes out one element after the other *)

\* The element a fold takes next, and the value of the fold at a set.
Pick(s) == CHOOSE x \in s : TRUE
Step(f, g, s) == IF s = {} THEN 0 ELSE f[Pick(s)] + g[s \ {Pick(s)}]
IsFold(f, g, S) == g = [s \in SUBSET S |-> Step(f, g, s)]
Fold(f, S) == CHOOSE g : IsFold(f, g, S)

LEMMA PickIn == ASSUME NEW s, s # {} PROVE Pick(s) \in s
  BY DEF Pick

LEMMA SumUnfolds ==
  ASSUME NEW f, NEW S
  PROVE  SumFunctionOnSet(f, S) = Fold(f, S)[S]
BY DEF SumFunctionOnSet, FoldFunctionOnSet, MapThenFoldSet, Fold, IsFold, Step, Pick

Small(S, n) == {s \in SUBSET S : Cardinality(s) <= n}

LEMMA FoldExists ==
  ASSUME NEW f, NEW S, IsFiniteSet(S)
  PROVE  IsFold(f, Fold(f, S), S)
<1> DEFINE N == {n \in Nat : \E g : g = [s \in Small(S, n) |-> Step(f, g, s)]}
<1>0. ASSUME NEW s \in SUBSET S
      PROVE  IsFiniteSet(s) /\ Cardinality(s) \in Nat
  BY FS_Subset, FS_CardinalityType
<1>1. 0 \in N
  <2>1. \A s \in Small(S, 0) : s = {}
    BY <1>0, FS_EmptySet DEF Small
  <2> DEFINE g == [s \in Small(S, 0) |-> 0]
  <2>2. g = [s \in Small(S, 0) |-> Step(f, g, s)]
    BY <2>1 DEF Step
  <2> QED
    BY <2>2
<1>2. ASSUME NEW n \in N PROVE n + 1 \in N
  <2>0. n \in Nat
    OBVIOUS
  <2>1. PICK g : g = [s \in Small(S, n) |-> Step(f, g, s)]
    BY <1>2
  <2> DEFINE h == [s \in Small(S, n + 1) |-> Step(f, g, s)]
  <2>2. ASSUME NEW s \in Small(S, n + 1) PROVE Step(f, g, s) = Step(f, h, s)
    <3>1. CASE s = {}
      BY <3>1 DEF Step
    <3>2. CASE s # {}
      <4>1. s \ {Pick(s)} \in Small(S, n)
        BY <1>0, <2>0, <3>2, PickIn, FS_RemoveElement DEF Small
      <4>2. s \ {Pick(s)} \in Small(S, n + 1)
        BY <1>0, <2>0, <4>1 DEF Small
      <4>3. h[s \ {Pick(s)}] = Step(f, g, s \ {Pick(s)})
        BY <4>2
      <4>4. g[s \ {Pick(s)}] = Step(f, g, s \ {Pick(s)})
        BY <2>1, <4>1
      <4> HIDE DEF h
      <4> QED
        BY <3>2, <4>3, <4>4 DEF Step
    <3> QED
      BY <3>1, <3>2
  <2>3. h = [s \in Small(S, n + 1) |-> Step(f, h, s)]
    BY <2>2
  <2> HIDE DEF h
  <2> QED
    BY <2>0, <2>3
<1>3. N = Nat
  <2> HIDE DEF N
  <2>1. N \in SUBSET Nat
    BY DEF N
  <2> QED
    BY <1>1, <1>2, <2>1, Counting
<1>4. Small(S, Cardinality(S)) = SUBSET S
  BY FS_Subset DEF Small
<1>5. Cardinality(S) \in N
  BY <1>3, FS_CardinalityType
<1>6. \E g : IsFold(f, g, S)
  BY <1>4, <1>5 DEF IsFold
<1> QED
  BY <1>6 DEF Fold

\* Two folds of one function agree where both are defined.
LEMMA FoldUnique ==
  ASSUME NEW f, NEW S, IsFiniteSet(S),
         NEW g, IsFold(f, g, S),
         NEW R \in SUBSET S,
         NEW h, IsFold(f, h, R)
  PROVE  h[R] = g[R]
<1> DEFINE T == {s \in SUBSET R : h[s] = g[s]}
<1>1. ASSUME NEW s \in SUBSET R, \A x \in s : s \ {x} \in T
      PROVE  s \in T
  <2>1. h[s] = Step(f, h, s) /\ g[s] = Step(f, g, s)
    BY DEF IsFold
  <2>2. s # {} => h[s \ {Pick(s)}] = g[s \ {Pick(s)}]
    BY <1>1, PickIn
  <2> QED
    BY <2>1, <2>2 DEF Step
<1> HIDE DEF T
<1>2. R \in T
  <2>1. IsFiniteSet(R)
    BY FS_Subset
  <2> QED
    BY <1>1, <2>1, BySize
<1> QED
  BY <1>2 DEF T

LEMMA SumStep ==
  ASSUME NEW f, NEW S, IsFiniteSet(S)
  PROVE  /\ SumFunctionOnSet(f, {}) = 0
         /\ S # {} => SumFunctionOnSet(f, S) =
                        f[Pick(S)] + SumFunctionOnSet(f, S \ {Pick(S)})
<1>1. ASSUME NEW R, IsFiniteSet(R)
      PROVE  SumFunctionOnSet(f, R) = Step(f, Fold(f, R), R)
  <2>1. IsFold(f, Fold(f, R), R)
    BY <1>1, FoldExists
  <2>2. R \in SUBSET R
    OBVIOUS
  <2> HIDE DEF Fold
  <2> QED
    BY <2>1, <2>2, SumUnfolds DEF IsFold
<1>2. SumFunctionOnSet(f, {}) = 0
  BY <1>1, FS_EmptySet DEF Step
<1>3. ASSUME S # {}
      PROVE  SumFunctionOnSet(f, S) = f[Pick(S)] + SumFunctionOnSet(f, S \ {Pick(S)})
  <2> DEFINE R == S \ {Pick(S)}
  <2>1. IsFiniteSet(R) /\ R \in SUBSET S
    BY FS_Subset
  <2> HIDE DEF R
  <2>2. Fold(f, R)[R] = Fold(f, S)[R]
    BY <2>1, FoldExists, FoldUnique
  <2>3. SumFunctionOnSet(f, S) = f[Pick(S)] + Fold(f, S)[R]
    BY <1>1, <1>3 DEF Step, R
  <2> QED
    BY <2>2, <2>3, SumUnfolds DEF R
<1> QED
  BY <1>2, <1>3

\* The sum of natural numbers is one.
LEMMA SumType ==
  ASSUME NEW f, NEW S, IsFiniteSet(S), \A x \in S : f[x] \in Nat
  PROVE  SumFunctionOnSet(f, S) \in Nat
<1> DEFINE T == {s \in SUBSET S : SumFunctionOnSet(f, s) \in Nat}
<1>1. ASSUME NEW s \in SUBSET S, \A x \in s : s \ {x} \in T
      PROVE  s \in T
  <2>1. CASE s = {}
    <3>1. SumFunctionOnSet(f, {}) = 0
      BY SumStep, FS_EmptySet
    <3> QED
      BY <2>1, <3>1
  <2>2. CASE s # {}
    <3>1. Pick(s) \in s /\ SumFunctionOnSet(f, s \ {Pick(s)}) \in Nat
      BY <1>1, <2>2, PickIn
    <3> QED
      BY <2>2, <3>1, SumStep, FS_Subset
  <2> QED
    BY <2>1, <2>2
<1> HIDE DEF T
<1>2. S \in T
  BY <1>1, BySize
<1> QED
  BY <1>2 DEF T

\* Any element may be taken out of a sum first.
LEMMA SumWithout ==
  ASSUME NEW f, NEW S, IsFiniteSet(S), \A x \in S : f[x] \in Nat, NEW y \in S
  PROVE  SumFunctionOnSet(f, S) = f[y] + SumFunctionOnSet(f, S \ {y})
<1> DEFINE T == {s \in SUBSET S : \A x \in s :
                   SumFunctionOnSet(f, s) = f[x] + SumFunctionOnSet(f, s \ {x})}
<1>0. ASSUME NEW s \in SUBSET S PROVE IsFiniteSet(s) /\ SumFunctionOnSet(f, s) \in Nat
  BY FS_Subset, SumType
<1>1. ASSUME NEW s \in SUBSET S, \A x \in s : s \ {x} \in T
      PROVE  s \in T
  <2> SUFFICES ASSUME NEW x \in s
               PROVE  SumFunctionOnSet(f, s) = f[x] + SumFunctionOnSet(f, s \ {x})
    OBVIOUS
  <2> DEFINE p == Pick(s)
  <2>1. p \in s
    BY PickIn
  <2> HIDE DEF p
  <2>2. SumFunctionOnSet(f, s) = f[p] + SumFunctionOnSet(f, s \ {p})
    BY <1>0, SumStep DEF p
  <2>3. CASE x = p
    BY <2>2, <2>3
  <2>4. CASE x # p
    <3>1. /\ x \in s \ {p} /\ p \in s \ {x} /\ (s \ {p}) \ {x} = (s \ {x}) \ {p}
          /\ (s \ {x}) \ {p} \in SUBSET S
      BY <2>1, <2>4
    <3>2. SumFunctionOnSet(f, s \ {p}) = f[x] + SumFunctionOnSet(f, (s \ {p}) \ {x})
      BY <1>1, <2>1, <3>1
    <3>3. SumFunctionOnSet(f, s \ {x}) = f[p] + SumFunctionOnSet(f, (s \ {x}) \ {p})
      BY <1>1, <3>1
    <3>4. SumFunctionOnSet(f, (s \ {x}) \ {p}) \in Nat /\ f[x] \in Nat /\ f[p] \in Nat
      BY <1>0, <2>1, <3>1
    <3> HIDE DEF T
    <3> QED
      BY <2>2, <3>1, <3>2, <3>3, <3>4
  <2> QED
    BY <2>3, <2>4
<1> HIDE DEF T
<1>2. S \in T
  BY <1>1, BySize
<1> QED
  BY <1>2 DEF T

\* A sum depends on nothing but its terms.
LEMMA SumSame ==
  ASSUME NEW f, NEW g, NEW S, IsFiniteSet(S), \A x \in S : f[x] = g[x]
  PROVE  SumFunctionOnSet(f, S) = SumFunctionOnSet(g, S)
<1> DEFINE T == {s \in SUBSET S : SumFunctionOnSet(f, s) = SumFunctionOnSet(g, s)}
<1>1. ASSUME NEW s \in SUBSET S, \A x \in s : s \ {x} \in T
      PROVE  s \in T
  <2>1. CASE s = {}
    BY <2>1, SumStep, FS_EmptySet
  <2>2. CASE s # {}
    <3>1. /\ f[Pick(s)] = g[Pick(s)]
          /\ SumFunctionOnSet(f, s \ {Pick(s)}) = SumFunctionOnSet(g, s \ {Pick(s)})
      BY <1>1, <2>2, PickIn
    <3>2. /\ SumFunctionOnSet(f, s) = f[Pick(s)] + SumFunctionOnSet(f, s \ {Pick(s)})
          /\ SumFunctionOnSet(g, s) = g[Pick(s)] + SumFunctionOnSet(g, s \ {Pick(s)})
      BY <2>2, SumStep, FS_Subset
    <3> QED
      BY <3>1, <3>2
  <2> QED
    BY <2>1, <2>2
<1> HIDE DEF T
<1>2. S \in T
  BY <1>1, BySize
<1> QED
  BY <1>2 DEF T

-----------------------------------------------------------------------------
(* Totals *)

\* A call that has not run its upsert holds no more correct cards than cards:
\* without it the totals of the next upsert could not be compared.
TotalsInv ==
  /\ TotalsAddUp
  /\ \A c \in Calls : call[c].pc = "called" => call[c].correct <= call[c].studied

\* What every call was given, of cards and of correct ones.
Studied == [c \in Calls |-> call[c].studied]
Answered == [c \in Calls |-> call[c].correct]

\* The row of a user and the calls counted in it change together.
TotalsOf(row, done, studied, correct) ==
  /\ row.total_sessions = Cardinality(done)
  /\ row.total_cards_studied = SumFunctionOnSet(studied, done)
  /\ row.total_correct = SumFunctionOnSet(correct, done)
  /\ row.total_correct <= row.total_cards_studied
  /\ row.xp = 10 * row.total_sessions + 2 * row.total_correct

RowTotals(u) == TotalsOf(stats[u], Done(u), Studied, Answered)

LEMMA TotalsAre == TotalsAddUp <=> \A u \in Users : RowTotals(u)
BY DEF TotalsAddUp, RowTotals, TotalsOf, StudiedBy, CorrectBy, Studied, Answered

LEMMA DoneType ==
  ASSUME TypeOK, NEW u
  PROVE  /\ IsFiniteSet(Done(u)) /\ Done(u) \subseteq Calls
         /\ \A c \in Done(u) : Studied[c] \in Nat /\ Answered[c] \in Nat
<1>1. Done(u) \subseteq Calls
  BY DEF Done
<1>2. IsFiniteSet(Done(u))
  BY <1>1, FS_Subset, StatsAssumption
<1>3. ASSUME NEW c \in Done(u) PROVE Studied[c] \in Nat /\ Answered[c] \in Nat
  <2>1. call[c] \in CallRecord
    BY <1>3 DEF Done, TypeOK, Idle
  <2> QED
    BY <1>1, <2>1 DEF Studied, Answered, CallRecord
<1> QED
  BY <1>1, <1>2, <1>3

LEMMA InitTotals == Init => TotalsInv
<1> SUFFICES ASSUME Init PROVE TotalsInv
  OBVIOUS
<1>1. ASSUME NEW u \in Users PROVE RowTotals(u)
  <2>1. Done(u) = {}
    BY DEF Init, Done, Idle
  <2>2. /\ stats[u].total_sessions = 0 /\ stats[u].xp = 0
        /\ stats[u].total_correct = 0 /\ stats[u].total_cards_studied = 0
    BY DEF Init, SeedRow
  <2>3. /\ Cardinality({}) = 0
        /\ SumFunctionOnSet(Studied, {}) = 0 /\ SumFunctionOnSet(Answered, {}) = 0
    BY FS_EmptySet, SumStep
  <2> QED
    BY <2>1, <2>2, <2>3 DEF RowTotals, TotalsOf
<1>2. \A c \in Calls : call[c].pc = "idle"
  BY DEF Init, Idle
<1> QED
  BY <1>1, <1>2, TotalsAre DEF TotalsInv

\* The sums are over the calls that ran, whatever is said of the others.
LEMMA TotalsStay ==
  ASSUME NEW row, NEW done, IsFiniteSet(done), NEW f, NEW g, NEW h, NEW k,
         TotalsOf(row, done, f, g), \A c \in done : f[c] = h[c] /\ g[c] = k[c]
  PROVE  TotalsOf(row, done, h, k)
<1>1. /\ SumFunctionOnSet(f, done) = SumFunctionOnSet(h, done)
      /\ SumFunctionOnSet(g, done) = SumFunctionOnSet(k, done)
  BY SumSame
<1> QED
  BY <1>1 DEF TotalsOf

LEMMA SumOneMore ==
  ASSUME NEW f, NEW done, IsFiniteSet(done), NEW c, c \notin done,
         \A x \in done \cup {c} : f[x] \in Nat
  PROVE  SumFunctionOnSet(f, done \cup {c}) = f[c] + SumFunctionOnSet(f, done)
<1>1. IsFiniteSet(done \cup {c}) /\ c \in done \cup {c}
  BY FS_AddElement
<1>2. (done \cup {c}) \ {c} = done
  OBVIOUS
<1>3. SumFunctionOnSet(f, done \cup {c})
        = f[c] + SumFunctionOnSet(f, (done \cup {c}) \ {c})
  BY <1>1, SumWithout
<1> QED
  BY <1>2, <1>3

LEMMA UpdatedTotals ==
  ASSUME NEW row \in StatsRows, NEW done, IsFiniteSet(done), NEW c, c \notin done,
         NEW f, NEW g, TotalsOf(row, done, f, g),
         \A x \in done \cup {c} : f[x] \in Nat /\ g[x] \in Nat,
         g[c] <= f[c], NEW today
  PROVE  TotalsOf(Updated(row, f[c], g[c], today), done \cup {c}, f, g)
<1> DEFINE new == Updated(row, f[c], g[c], today)
           all == done \cup {c}
<1>1. Cardinality(all) = Cardinality(done) + 1
  BY FS_AddElement
<1>2. /\ SumFunctionOnSet(f, all) = f[c] + SumFunctionOnSet(f, done)
      /\ SumFunctionOnSet(g, all) = g[c] + SumFunctionOnSet(g, done)
  BY SumOneMore
<1>3. /\ new.total_sessions = row.total_sessions + 1
      /\ new.total_correct = row.total_correct + g[c]
      /\ new.total_cards_studied = row.total_cards_studied + f[c]
      /\ new.xp = row.xp + (10 + 2 * g[c])
  BY DEF Updated, XpGained
<1>4. /\ row.total_sessions \in Nat /\ row.total_correct \in Nat
      /\ row.total_cards_studied \in Nat /\ row.xp \in Nat
      /\ f[c] \in Nat /\ g[c] \in Nat
  BY DEF StatsRows
<1>5. /\ row.total_sessions = Cardinality(done)
      /\ row.total_cards_studied = SumFunctionOnSet(f, done)
      /\ row.total_correct = SumFunctionOnSet(g, done)
      /\ row.total_correct <= row.total_cards_studied
      /\ row.xp = 10 * row.total_sessions + 2 * row.total_correct
  BY DEF TotalsOf
<1> HIDE DEF new, all
<1>6. /\ new.total_sessions = Cardinality(all)
      /\ new.total_cards_studied = SumFunctionOnSet(f, all)
      /\ new.total_correct = SumFunctionOnSet(g, all)
  BY <1>1, <1>2, <1>3, <1>4, <1>5
<1>7. /\ new.total_correct <= new.total_cards_studied
      /\ new.xp = 10 * new.total_sessions + 2 * new.total_correct
  BY <1>3, <1>4, <1>5
<1>8. TotalsOf(new, all, f, g)
  BY <1>6, <1>7 DEF TotalsOf
<1> QED
  BY <1>8 DEF new, all

\* A step that leaves the calls of a user that ran, and its row, alone.
LEMMA TotalsKept ==
  ASSUME TypeOK, NEW u \in Users, RowTotals(u), stats'[u] = stats[u],
         Done(u)' = Done(u),
         \A c \in Done(u) : /\ call'[c].studied = call[c].studied
                            /\ call'[c].correct = call[c].correct
  PROVE  RowTotals(u)'
<1>1. IsFiniteSet(Done(u)) /\ Done(u) \subseteq Calls
  BY DoneType
<1>2. \A c \in Done(u) : Studied[c] = Studied'[c] /\ Answered[c] = Answered'[c]
  BY <1>1 DEF Studied, Answered
<1>3. TotalsOf(stats[u], Done(u), Studied', Answered')
  BY <1>1, <1>2, TotalsStay DEF RowTotals
<1> QED
  BY <1>3 DEF RowTotals

LEMMA NextTotals == TypeOK /\ TotalsInv /\ [Next]_vars => TotalsInv'
<1> SUFFICES ASSUME TypeOK, TotalsInv, [Next]_vars PROVE TotalsInv'
  OBVIOUS
<1>0. \A u \in Users : RowTotals(u)
  BY TotalsAre DEF TotalsInv
<1>a. ASSUME \A u \in Users : RowTotals(u)',
             \A c \in Calls : call'[c].pc = "called" => call'[c].correct <= call'[c].studied
      PROVE  TotalsInv'
  <2>1. TotalsAddUp'
    BY <1>a DEF TotalsAddUp, RowTotals, TotalsOf, StudiedBy, CorrectBy, Studied, Answered
  <2> QED
    BY <1>a, <2>1 DEF TotalsInv
<1>1. ASSUME NEW c \in Calls, Call(c) PROVE TotalsInv'
  <2>1. PICK u \in Users, n \in 0..MaxCards : \E k \in 0..n :
               call' = [call EXCEPT ![c] =
                          [pc |-> "called", user |-> u, studied |-> n,
                           correct |-> k, today |-> day]]
    BY <1>1 DEF Call
  <2>2. PICK k \in 0..n :
               call' = [call EXCEPT ![c] =
                          [pc |-> "called", user |-> u, studied |-> n,
                           correct |-> k, today |-> day]]
    BY <2>1
  <2>3. ASSUME NEW v \in Users PROVE RowTotals(v)'
    <3>1. Done(v)' = Done(v) /\ c \notin Done(v)
      BY <1>1, <2>2 DEF Call, Done, TypeOK, Idle
    <3>2. \A b \in Done(v) : call'[b] = call[b]
      BY <2>2, <3>1 DEF Done, TypeOK
    <3> QED
      BY <1>0, <1>1, <3>1, <3>2, TotalsKept DEF Call
  <2>4. k <= n
    BY StatsAssumption
  <2>5. ASSUME NEW b \in Calls, call'[b].pc = "called"
        PROVE  call'[b].correct <= call'[b].studied
    <3>1. CASE b = c
      BY <2>2, <2>4, <3>1 DEF TypeOK
    <3>2. CASE b # c
      BY <2>2, <2>5, <3>2 DEF TypeOK, TotalsInv
    <3> QED
      BY <3>1, <3>2
  <2> QED
    BY <1>a, <2>3, <2>5
<1>2. ASSUME NEW c \in Calls, Upsert(c) PROVE TotalsInv'
  <2>1. call[c] \in CallRecord /\ call[c].pc = "called"
    BY <1>2 DEF Upsert, TypeOK, Idle
  <2>2. PICK today \in call[c].today..day :
               /\ stats' = [stats EXCEPT ![call[c].user] =
                      Updated(@, call[c].studied, call[c].correct, today)]
               /\ call' = [call EXCEPT ![c].pc = "done", ![c].today = today]
    BY <1>2 DEF Upsert
  <2>3. ASSUME NEW v \in Users
        PROVE  Done(v)' = IF v = call[c].user THEN Done(v) \cup {c} ELSE Done(v)
    BY <2>1, <2>2 DEF Done, TypeOK, CallRecord
  <2>a. \A b \in Calls : /\ call'[b].studied = call[b].studied
                         /\ call'[b].correct = call[b].correct
    <3>1. \A b \in Calls : b # c => call'[b] = call[b]
      BY <2>2 DEF TypeOK
    <3>2. call'[c].studied = call[c].studied /\ call'[c].correct = call[c].correct
      BY <2>1, <2>2 DEF TypeOK, CallRecord
    <3> QED
      BY <3>1, <3>2
  <2>4. ASSUME NEW v \in Users PROVE RowTotals(v)'
    <3>1. CASE v = call[c].user
      <4>1. /\ IsFiniteSet(Done(v)) /\ c \notin Done(v)
            /\ \A x \in Done(v) \cup {c} : Studied[x] \in Nat /\ Answered[x] \in Nat
        BY <2>1, DoneType DEF Done, Studied, Answered, CallRecord
      <4>2. stats'[v] = Updated(stats[v], Studied[c], Answered[c], today)
        BY <2>1, <2>2, <3>1 DEF TypeOK, Studied, Answered
      <4>3. stats[v] \in StatsRows /\ Answered[c] <= Studied[c]
        BY <2>1 DEF TypeOK, TotalsInv, Studied, Answered
      <4>4. TotalsOf(stats'[v], Done(v)', Studied, Answered)
        BY <1>0, <2>3, <3>1, <4>1, <4>2, <4>3, UpdatedTotals DEF RowTotals
      <4>5. Studied' = Studied /\ Answered' = Answered
        BY <2>a DEF Studied, Answered
      <4> QED
        BY <4>4, <4>5 DEF RowTotals
    <3>2. CASE v # call[c].user
      <4>1. stats'[v] = stats[v]
        BY <2>1, <2>2, <3>2 DEF TypeOK, CallRecord
      <4>2. Done(v) \subseteq Calls
        BY DEF Done
      <4> QED
        BY <1>0, <2>3, <2>a, <3>2, <4>1, <4>2, TotalsKept
    <3> QED
      BY <3>1, <3>2
  <2>5. ASSUME NEW b \in Calls, call'[b].pc = "called"
        PROVE  call'[b].correct <= call'[b].studied
    <3>1. b # c
      BY <2>1, <2>2, <2>5 DEF TypeOK, CallRecord
    <3> QED
      BY <2>2, <2>5, <3>1 DEF TypeOK, TotalsInv
  <2> QED
    BY <1>a, <2>4, <2>5
<1>3. ASSUME NEW c \in Calls, Drop(c) PROVE TotalsInv'
  <2>1. ASSUME NEW v \in Users PROVE RowTotals(v)'
    <3>1. Done(v)' = Done(v) /\ c \notin Done(v)
      BY <1>3 DEF Drop, Done, TypeOK, Idle
    <3>2. \A b \in Done(v) : call'[b] = call[b]
      BY <1>3, <3>1 DEF Drop, Done, TypeOK
    <3> QED
      BY <1>0, <1>3, <3>1, <3>2, TotalsKept DEF Drop
  <2>2. ASSUME NEW b \in Calls, call'[b].pc = "called"
        PROVE  call'[b].correct <= call'[b].studied
    BY <1>3, <2>2 DEF Drop, TypeOK, TotalsInv, Idle
  <2> QED
    BY <1>a, <2>1, <2>2
<1>4. CASE UNCHANGED <<stats, call>>
  <2>1. ASSUME NEW v \in Users PROVE RowTotals(v)'
    BY <1>0, <1>4 DEF RowTotals, Done, Studied, Answered
  <2> QED
    BY <1>4, <1>a, <2>1 DEF TotalsInv
<1> QED
  BY <1>1, <1>2, <1>3, <1>4 DEF Next, NextDay, vars

\* For every number of users, calls and days: concurrent completions lose and
\* repeat nothing in the totals.  The cards and the correct cards of a user are the
\* sums of what the calls that ran handed over, and XP is always 10 per session and
\* 2 per correct card of the sessions counted.
THEOREM TotalsTheorem == Spec => []TotalsAddUp
<1>1. TotalsInv => TotalsAddUp
  BY DEF TotalsInv
<1> QED
  BY TypeCorrect, InitTotals, NextTotals, <1>1, PTL DEF Spec
=============================================================================
