--------------------------- MODULE RatingsProofs ----------------------------
(***************************************************************************)
(* Theorems about Ratings, for any users, calls, scores and failures.      *)
(***************************************************************************)
EXTENDS Ratings, FiniteSetTheorems, TLAPS

-----------------------------------------------------------------------------
(* Types *)

\* A deck nobody has rated shows 0.
LEMMA NoAverage == NoVotes \in Votes /\ Average(NoVotes) = 0 /\ 0 \in Averages
<1>1. NoVotes \in Votes
  BY DEF NoVotes, Votes
<1>2. {u \in Users : NoVotes[u] # 0} = {}
  BY DEF NoVotes
<1>3. Average(NoVotes) = 0
  BY <1>2, FS_EmptySet DEF Average
<1> QED
  BY <1>1, <1>3 DEF Averages

LEMMA InitType == Init => TypeOK
BY NoAverage, RatingsAssumption DEF Init, TypeOK

LEMMA NextType == TypeOK /\ [Next]_vars => TypeOK'
<1> SUFFICES ASSUME TypeOK, [Next]_vars PROVE TypeOK'
  OBVIOUS
<1> USE RatingsAssumption DEF Goto, tables, Recounting, Outcomes
<1>1. ASSUME NEW u \in Users, CompleteSession(u) PROVE TypeOK'
  BY <1>1 DEF CompleteSession, TypeOK
<1>2. ASSUME NEW u \in Users, DeleteSessions(u) PROVE TypeOK'
  BY <1>2 DEF DeleteSessions, TypeOK
<1>3. ASSUME DeleteDeck PROVE TypeOK'
  BY <1>3, NoAverage DEF DeleteDeck, TypeOK
<1>4. ASSUME NEW c \in Calls, Submit(c) PROVE TypeOK'
  BY <1>4 DEF Submit, TypeOK
<1>5. ASSUME NEW c \in Calls, Permit(c) \/ PermitFails(c) PROVE TypeOK'
  BY <1>5 DEF Permit, PermitFails, TypeOK
<1>6. ASSUME NEW c \in Calls, Upsert(c) PROVE TypeOK'
  <2>1. pc[c] = "upsert" /\ score[c] \in Scores /\ user[c] \in Users
    BY <1>6 DEF Upsert, TypeOK
  <2>2. vote' \in Votes
    BY <1>6, <2>1 DEF Upsert, TypeOK, Votes
  <2>3. late' \in [Calls -> SUBSET Calls]
    BY <1>6 DEF Upsert, TypeOK
  <2> QED
    BY <1>6, <2>1, <2>2, <2>3 DEF Upsert, TypeOK
<1>7. ASSUME NEW c \in Calls, UpsertFails(c) \/ RecountFails(c) PROVE TypeOK'
  BY <1>7 DEF UpsertFails, RecountFails, TypeOK
<1>8. ASSUME NEW c \in Calls, TakeSnapshot(c) PROVE TypeOK'
  BY <1>8 DEF TakeSnapshot, TypeOK
<1>9. ASSUME NEW c \in Calls, WriteAverage(c) PROVE TypeOK'
  <2>1. Average(seen[c]) \in Averages
    BY DEF TypeOK, Averages
  <2> QED
    BY <1>9, <2>1 DEF WriteAverage, TypeOK
<1>10. CASE UNCHANGED vars
  BY <1>10 DEF vars, TypeOK
<1> QED
  BY <1>1, <1>2, <1>3, <1>4, <1>5, <1>6, <1>7, <1>8, <1>9, <1>10 DEF Next

\* Tables and requests keep their types; decks.rating is always the average of
\* some ratings of the users.
THEOREM TypeCorrect == Spec => []TypeOK
BY InitType, NextType, PTL DEF Spec

-----------------------------------------------------------------------------
(* Who votes *)

\* VotesEarned is not inductive: a call may use the answer of CanRate long after
\* it was given.  But who has completed the deck once has done so for good.
EarnedInv ==
  /\ VotesEarned
  /\ \A c \in Calls : pc[c] = "upsert" => user[c] # Author /\ user[c] \in students

LEMMA NextEarned == TypeOK /\ EarnedInv /\ [Next]_vars => EarnedInv'
<1> SUFFICES ASSUME TypeOK, EarnedInv, [Next]_vars PROVE EarnedInv'
  OBVIOUS
<1> USE DEF Goto, tables
<1>1. ASSUME NEW u \in Users, CompleteSession(u) \/ DeleteSessions(u) PROVE EarnedInv'
  BY <1>1 DEF CompleteSession, DeleteSessions, TypeOK, EarnedInv, VotesEarned
<1>2. ASSUME DeleteDeck PROVE EarnedInv'
  BY <1>2 DEF DeleteDeck, NoVotes, EarnedInv, VotesEarned
<1>3. ASSUME NEW c \in Calls, Submit(c) PROVE EarnedInv'
  BY <1>3 DEF Submit, TypeOK, EarnedInv, VotesEarned
<1>4. ASSUME NEW c \in Calls, Permit(c) \/ PermitFails(c) PROVE EarnedInv'
  BY <1>4 DEF Permit, PermitFails, MayRate, TypeOK, EarnedInv, VotesEarned
<1>5. ASSUME NEW c \in Calls, Upsert(c) PROVE EarnedInv'
  <2>1. \A u \in Users : vote'[u] # 0 => (u = user[c] /\ deck = "live") \/ vote[u] # 0
    BY <1>5 DEF Upsert, TypeOK, Votes
  <2>2. \A o \in Calls : pc'[o] = "upsert" => pc[o] = "upsert"
    BY <1>5 DEF Upsert, TypeOK
  <2>3. pc[c] = "upsert" /\ user' = user /\ students' = students /\ deck' = deck
    BY <1>5 DEF Upsert
  <2> QED
    BY <2>1, <2>2, <2>3 DEF EarnedInv, VotesEarned
<1>6. ASSUME NEW c \in Calls,
             UpsertFails(c) \/ TakeSnapshot(c) \/ WriteAverage(c) \/ RecountFails(c)
      PROVE  EarnedInv'
  BY <1>6 DEF UpsertFails, TakeSnapshot, WriteAverage, RecountFails, TypeOK, EarnedInv,
              VotesEarned
<1>7. CASE UNCHANGED vars
  BY <1>7 DEF vars, EarnedInv, VotesEarned
<1> QED
  BY <1>1, <1>2, <1>3, <1>4, <1>5, <1>6, <1>7 DEF Next

\* For any number of users, calls and failures, and however old the answer of
\* CanRate: only students of the deck who did not write it have a rating in it.
THEOREM EarnedTheorem == Spec => []VotesEarned
<1>1. Init => EarnedInv
  BY DEF Init, NoVotes, EarnedInv, VotesEarned
<1>2. EarnedInv => VotesEarned
  BY DEF EarnedInv
<1> QED
  BY <1>1, <1>2, NextEarned, TypeCorrect, PTL DEF Spec

-----------------------------------------------------------------------------
(* The average *)

\* What a write relies on: as long as no vote has come after it, the snapshot
\* shows the votes there are.
SnapshotCurrent ==
  \A c \in Calls :
    (pc[c] = "write" /\ late[c] = {} /\ deck = "live") => seen[c] = vote

LEMMA NextSnapshot == TypeOK /\ SnapshotCurrent /\ [Next]_vars => SnapshotCurrent'
<1> SUFFICES ASSUME TypeOK, SnapshotCurrent, [Next]_vars,
                    NEW o \in Calls, pc'[o] = "write", late'[o] = {}, deck' = "live"
             PROVE  seen'[o] = vote'
  BY DEF SnapshotCurrent
<1> USE DEF Goto, tables, Recounting
<1>1. ASSUME NEW u \in Users, CompleteSession(u) \/ DeleteSessions(u)
      PROVE  seen'[o] = vote'
  BY <1>1 DEF CompleteSession, DeleteSessions, SnapshotCurrent
<1>2. CASE DeleteDeck
  BY <1>2 DEF DeleteDeck
<1>3. ASSUME NEW c \in Calls,
             \/ Submit(c) \/ Permit(c) \/ PermitFails(c)
             \/ UpsertFails(c) \/ WriteAverage(c) \/ RecountFails(c)
      PROVE  seen'[o] = vote'
  <2>1. pc[o] = "write" /\ UNCHANGED <<late, deck, seen, vote>>
    BY <1>3 DEF Submit, Permit, PermitFails, UpsertFails, WriteAverage, RecountFails,
                TypeOK
  <2> QED
    BY <2>1 DEF SnapshotCurrent
<1>4. ASSUME NEW c \in Calls, Upsert(c) PROVE seen'[o] = vote'
  <2>1. pc[o] = "write" /\ deck = "live"
    BY <1>4 DEF Upsert, TypeOK
  <2>2. late'[o] = late[o] \cup {c}
    BY <1>4, <2>1 DEF Upsert
  <2> QED
    BY <2>2
<1>5. ASSUME NEW c \in Calls, TakeSnapshot(c) PROVE seen'[o] = vote'
  <2>1. UNCHANGED <<late, deck, vote>>
    BY <1>5 DEF TakeSnapshot
  <2>2. CASE o = c
    BY <1>5, <2>1, <2>2 DEF TakeSnapshot, TypeOK
  <2>3. CASE o # c
    BY <1>5, <2>1, <2>3 DEF TakeSnapshot, TypeOK, SnapshotCurrent
  <2> QED
    BY <2>2, <2>3
<1>6. CASE UNCHANGED vars
  BY <1>6 DEF vars, SnapshotCurrent
<1> QED
  BY <1>1, <1>2, <1>3, <1>4, <1>5, <1>6 DEF Next

THEOREM SnapshotTheorem == Spec => [](TypeOK /\ SnapshotCurrent)
<1>1. Init => SnapshotCurrent
  BY DEF Init, SnapshotCurrent
<1> QED
  BY <1>1, NextSnapshot, TypeCorrect, PTL DEF Spec

\* What may make the average stale, once it has happened.
Excused ==
  \E c \in Calls : \/ pc[c] \in Recounting \cup {"halfway"}
                   \/ \E o \in Calls : pc[o] = "rated" /\ c \in late[o]

\* Only a write that makes the average exact takes the last excuse away.
LEMMA ExcuseStays ==
  ASSUME TypeOK, SnapshotCurrent, [Next]_vars, Excused, deck' = "live"
  PROVE  Excused' \/ shown' = Average(vote')
<1> USE DEF Goto, tables, Recounting
<1>1. ASSUME NEW u \in Users, CompleteSession(u) \/ DeleteSessions(u) PROVE Excused'
  BY <1>1 DEF CompleteSession, DeleteSessions, Excused
<1>2. ASSUME NEW c \in Calls,
             \/ Submit(c) \/ Permit(c) \/ PermitFails(c) \/ Upsert(c)
             \/ UpsertFails(c) \/ TakeSnapshot(c) \/ RecountFails(c)
      PROVE  Excused'
  <2>1. \A o \in Calls : pc[o] = "rated" => pc'[o] = "rated" /\ late[o] \subseteq late'[o]
    BY <1>2 DEF Submit, Permit, PermitFails, Upsert, UpsertFails, TakeSnapshot,
                RecountFails, TypeOK
  <2>2. \A o \in Calls : pc[o] \in {"recount", "write", "halfway"}
                           => pc'[o] \in {"recount", "write", "halfway"}
    BY <1>2 DEF Submit, Permit, PermitFails, Upsert, UpsertFails, TakeSnapshot,
                RecountFails, TypeOK
  <2> QED
    BY <2>1, <2>2 DEF Excused
<1>3. ASSUME NEW c \in Calls, WriteAverage(c)
      PROVE  Excused' \/ shown' = Average(vote')
  <2>1. /\ pc[c] = "write" /\ deck = "live" /\ pc'[c] = "rated"
        /\ UNCHANGED <<vote, late>> /\ shown' = Average(seen[c])
    BY <1>3 DEF WriteAverage, TypeOK
  <2>2. CASE late[c] = {}
    BY <2>1, <2>2 DEF SnapshotCurrent
  <2>3. CASE late[c] # {}
    <3>1. PICK o \in Calls : o \in late[c]
      BY <2>3 DEF TypeOK
    <3> QED
      BY <2>1, <3>1 DEF Excused
  <2> QED
    BY <2>2, <2>3
<1>4. ASSUME DeleteDeck PROVE FALSE
  BY <1>4 DEF DeleteDeck
<1>5. ASSUME UNCHANGED vars PROVE Excused'
  BY <1>5 DEF vars, Excused
<1> QED
  BY <1>1, <1>2, <1>3, <1>4, <1>5 DEF Next

LEMMA NextAccounted ==
  TypeOK /\ SnapshotCurrent /\ AverageAccounted /\ [Next]_vars => AverageAccounted'
<1> SUFFICES ASSUME TypeOK, SnapshotCurrent, AverageAccounted, [Next]_vars,
                    deck' = "live", shown' # Average(vote')
             PROVE  Excused'
  BY DEF AverageAccounted, Excused
<1>1. CASE Excused
  BY <1>1, ExcuseStays
<1>2. CASE ~Excused
  <2>1. deck = "live" => shown = Average(vote)
    BY <1>2 DEF AverageAccounted, Excused
  <2>2. deck = "live"
    BY DEF Next, vars, tables, CompleteSession, DeleteSessions, DeleteDeck, Submit, Permit,
           PermitFails, Upsert, UpsertFails, TakeSnapshot, WriteAverage, RecountFails
  <2>3. PICK c \in Calls : Upsert(c) \/ WriteAverage(c)
    BY <2>1, <2>2 DEF Next, vars, tables, CompleteSession, DeleteSessions, DeleteDeck,
           Submit, Permit, PermitFails, UpsertFails, TakeSnapshot, RecountFails
  <2>4. CASE Upsert(c)
    BY <2>2, <2>4 DEF Upsert, Goto, TypeOK, Recounting, Excused
  <2>5. CASE WriteAverage(c)
    BY <1>2, <2>5 DEF WriteAverage, Recounting, Excused
  <2> QED
    BY <2>3, <2>4, <2>5
<1> QED
  BY <1>1, <1>2

\* For any number of calls and failures: a stale average is due to a rating in
\* flight, to one that failed halfway, or to one that came between the snapshot
\* and the write of another.
THEOREM AverageTheorem == Spec => []AverageAccounted
<1>1. Init => AverageAccounted
  BY NoAverage DEF Init, AverageAccounted
<1> QED
  BY <1>1, NextAccounted, SnapshotTheorem, PTL DEF Spec

\* And it does not last: the next rating no vote comes in between makes it exact.
THEOREM RepairTheorem == Spec => LoneRatingRepairs
<1>1. ASSUME TypeOK, SnapshotCurrent, [Next]_vars, NEW c \in Calls,
             pc[c] = "write", pc'[c] = "rated", late[c] = {}, deck = "live"
      PROVE  shown' = Average(vote')
  <2>1. WriteAverage(c)
    BY <1>1 DEF Next, vars, tables, Goto, TypeOK, CompleteSession, DeleteSessions,
           DeleteDeck, Submit, Permit, PermitFails, Upsert, UpsertFails, TakeSnapshot,
           WriteAverage, RecountFails
  <2> QED
    BY <1>1, <2>1 DEF WriteAverage, SnapshotCurrent
<1>2. TypeOK /\ SnapshotCurrent /\ [Next]_vars =>
        [\A c \in Calls :
           (pc[c] = "write" /\ pc'[c] = "rated" /\ late[c] = {} /\ deck = "live")
              => shown' = Average(vote')]_vars
  BY <1>1
<1> QED
  BY <1>2, SnapshotTheorem, PTL DEF Spec, LoneRatingRepairs
=============================================================================
