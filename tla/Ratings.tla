------------------------------ MODULE Ratings -------------------------------
(***************************************************************************)
(* The ratings of a deck (models/rating.go, api/deck.go:284-315): the rows *)
(* of deck_ratings and decks.rating, which caches their average.  Ratings  *)
(* of different decks do not meet, so there is one deck.                   *)
(*                                                                         *)
(* Rate is two statements outside any transaction.  The second is an       *)
(* UPDATE of decks whose value is a subquery on deck_ratings: PostgreSQL   *)
(* evaluates it on the snapshot the statement starts with, and writes when *)
(* it has the lock of the deck's row, so the two are two steps here.       *)
(***************************************************************************)
EXTENDS Integers, FiniteSets, Functions

CONSTANTS Users, Author,
          Calls,         \* each element is one POST /api/decks/{id}/rate
          Scores,        \* the ratings sent: some of 1..5
          MaxFaults      \* bound on failing statements

ASSUME RatingsAssumption ==
  Author \in Users /\ Scores \subseteq 1..5 /\ MaxFaults \in Nat

VARIABLES deck,          \* decks: is the row there?
          completed,     \* users with a completed study session of the deck
          vote,          \* deck_ratings: the rating of each user, 0 without a row
          shown,         \* decks.rating, in tenths
          pc, user, score,     \* the Rate calls
          seen,                \* the votes in the snapshot of its UPDATE
          \* History, not read by any action: who completed the deck at some
          \* time, and the calls whose vote came between snapshot and write.
          students, late,
          faults

tables == <<deck, completed, vote, shown>>
vars == <<tables, pc, user, score, seen, students, late, faults>>

Votes   == [Users -> {0} \cup Scores]
NoVotes == [u \in Users |-> 0]

\* COALESCE(AVG(rating)::DECIMAL(3,1), 0), in tenths: rounded half up.
Average(v) ==
  LET n == Cardinality({u \in Users : v[u] # 0})
  IN IF n = 0 THEN 0 ELSE (20 * FoldFunction(+, 0, v) + n) \div (2 * n)

Averages == {Average(v) : v \in Votes}

\* "halfway": answered 500 after its vote was stored.
Recounting == {"recount", "write"}
Outcomes   == {"refused", "failed", "halfway", "rated"}

TypeOK ==
  /\ deck \in {"live", "gone"}
  /\ completed \subseteq students /\ students \subseteq Users
  /\ vote \in Votes
  /\ shown \in Averages
  /\ pc \in [Calls -> {"idle", "permit", "upsert"} \cup Recounting \cup Outcomes]
  /\ user \in [Calls -> Users]
  /\ score \in [Calls -> {0} \cup Scores]
  /\ \A c \in Calls : pc[c] # "idle" => score[c] \in Scores
  /\ seen \in [Calls -> Votes]
  /\ late \in [Calls -> SUBSET Calls]
  /\ faults \in 0..MaxFaults

Init ==
  /\ deck = "live"
  /\ completed = {} /\ students = {}
  /\ vote = NoVotes
  /\ shown = 0
  /\ pc = [c \in Calls |-> "idle"]
  /\ user = [c \in Calls |-> Author]
  /\ score = [c \in Calls |-> 0]
  /\ seen = [c \in Calls |-> NoVotes]
  /\ late = [c \in Calls |-> {}]
  /\ faults = 0

Goto(c, step) == pc' = [pc EXCEPT ![c] = step]

-----------------------------------------------------------------------------
(* The rest of the program *)

\* The last answer of a session: see Study.  An author may study the deck, too.
CompleteSession(u) ==
  /\ deck = "live"
  /\ completed' = completed \cup {u}
  /\ students' = students \cup {u}
  /\ UNCHANGED <<deck, vote, shown, pc, user, score, seen, late, faults>>

\* DELETE /api/decks/{id}/study deletes the sessions of a user, completed ones
\* included.
DeleteSessions(u) ==
  /\ completed' = completed \ {u}
  /\ UNCHANGED <<deck, vote, shown, pc, user, score, seen, students, late, faults>>

\* Sessions and ratings go with the deck.
DeleteDeck ==
  /\ deck = "live"
  /\ deck' = "gone"
  /\ completed' = {}
  /\ vote' = NoVotes
  /\ shown' = 0
  /\ UNCHANGED <<pc, user, score, seen, students, late, faults>>

-----------------------------------------------------------------------------
(* Rate *)

\* Mutant: the handler lets a rating below 1 pass.
SubmitUnchecked(c) ==
  /\ pc[c] = "idle"
  /\ \E u \in Users, r \in {0} \cup Scores : /\ user' = [user EXCEPT ![c] = u]
                                            /\ score' = [score EXCEPT ![c] = r]
  /\ Goto(c, "permit")
  /\ UNCHANGED <<tables, seen, students, late, faults>>

Submit(c) ==
  /\ pc[c] = "idle"
  /\ \E u \in Users, r \in Scores : /\ user' = [user EXCEPT ![c] = u]
                                    /\ score' = [score EXCEPT ![c] = r]
  /\ Goto(c, "permit")
  /\ UNCHANGED <<tables, seen, students, late, faults>>

\* Mutant: CanRate counts the sessions that were begun, not those completed.
MayRateUnfinished(u) == u # Author

\* CanRate reads the author, who never changes, and counts the sessions, of which
\* there are none without the deck: as good as one read.
MayRate(u) == u # Author /\ u \in completed

Permit(c) ==
  /\ pc[c] = "permit"
  /\ Goto(c, IF MayRate(user[c]) THEN "upsert" ELSE "refused")
  /\ UNCHANGED <<tables, user, score, seen, students, late, faults>>

\* Either read of CanRate fails: false.
PermitFails(c) ==
  /\ pc[c] = "permit"
  /\ faults < MaxFaults
  /\ faults' = faults + 1
  /\ Goto(c, "refused")
  /\ UNCHANGED <<tables, user, score, seen, students, late>>

\* INSERT ... ON CONFLICT DO UPDATE; the foreign key refuses a deck that is gone.
Upsert(c) ==
  /\ pc[c] = "upsert"
  /\ \/ /\ deck = "live"
        /\ vote' = [vote EXCEPT ![user[c]] = score[c]]
        /\ late' = [o \in Calls |-> IF pc[o] = "write" THEN late[o] \cup {c} ELSE late[o]]
        /\ Goto(c, "recount")
     \/ /\ deck # "live"
        /\ Goto(c, "failed")
        /\ UNCHANGED <<vote, late>>
  /\ UNCHANGED <<deck, completed, shown, user, score, seen, students, faults>>

UpsertFails(c) ==
  /\ pc[c] = "upsert"
  /\ faults < MaxFaults
  /\ faults' = faults + 1
  /\ Goto(c, "failed")
  /\ UNCHANGED <<tables, user, score, seen, students, late>>

\* Mutant: one statement for both, with the INSERT in a WITH clause: its subquery
\* does not see the new vote.
TakeSnapshotWithout(c) ==
  /\ pc[c] = "recount"
  /\ seen' = [seen EXCEPT ![c] = [vote EXCEPT ![user[c]] = 0]]
  /\ Goto(c, "write")
  /\ UNCHANGED <<tables, user, score, students, late, faults>>

\* UpdateDeckRating starts: its subquery will see the votes of now.
TakeSnapshot(c) ==
  /\ pc[c] = "recount"
  /\ seen' = [seen EXCEPT ![c] = vote]
  /\ Goto(c, "write")
  /\ UNCHANGED <<tables, user, score, students, late, faults>>

\* Mutant: a running average, which takes every rating for a new one.
WriteRunningAverage(c) ==
  LET n == Cardinality({u \in Users : seen[c][u] # 0})
  IN /\ pc[c] = "write"
     /\ shown' = IF deck = "live" /\ n > 0
                   THEN (shown * (n - 1) + 10 * score[c]) \div n ELSE shown
     /\ Goto(c, "rated")
     /\ UNCHANGED <<deck, completed, vote, user, score, seen, students, late, faults>>

\* It has the row of the deck, if there is one.  The reply reads the deck again
\* and answers 200 either way.
WriteAverage(c) ==
  /\ pc[c] = "write"
  /\ shown' = IF deck = "live" THEN Average(seen[c]) ELSE shown
  /\ Goto(c, "rated")
  /\ UNCHANGED <<deck, completed, vote, user, score, seen, students, late, faults>>

\* The UPDATE fails, or the server dies: the vote stays.
RecountFails(c) ==
  /\ pc[c] \in Recounting
  /\ faults < MaxFaults
  /\ faults' = faults + 1
  /\ Goto(c, "halfway")
  /\ UNCHANGED <<tables, user, score, seen, students, late>>

Next ==
  \/ \E u \in Users : CompleteSession(u) \/ DeleteSessions(u)
  \/ DeleteDeck
  \/ \E c \in Calls : \/ Submit(c) \/ Permit(c) \/ PermitFails(c) \/ Upsert(c)
                      \/ UpsertFails(c) \/ TakeSnapshot(c) \/ WriteAverage(c)
                      \/ RecountFails(c)

Spec == Init /\ [][Next]_vars

-----------------------------------------------------------------------------
\* However late the answer of CanRate is used, a row of deck_ratings belongs to
\* somebody who is not the author and has completed the deck at some time, and to
\* a deck that is there (models/rating.go:58-73, 21-34).
VotesEarned ==
  \A u \in Users :
    vote[u] # 0 => u # Author /\ u \in students /\ deck = "live"

\* decks.rating differs from the average of the rows only while a rating is
\* between its two statements, after one that failed there, or after one whose
\* vote came between the snapshot and the write of another: nothing else makes
\* it stale (models/rating.go:21-34, 76-87).
AverageAccounted ==
  (deck = "live" /\ shown # Average(vote)) =>
     \E c \in Calls : \/ pc[c] \in Recounting \cup {"halfway"}
                      \/ \E o \in Calls : pc[o] = "rated" /\ c \in late[o]

\* A rating no other vote comes in between leaves the average exact, whatever had
\* failed or overlapped before it (models/rating.go:76-87).
LoneRatingRepairs ==
  [][\A c \in Calls :
       (pc[c] = "write" /\ pc'[c] = "rated" /\ late[c] = {} /\ deck = "live")
          => shown' = Average(vote')]_vars
=============================================================================
