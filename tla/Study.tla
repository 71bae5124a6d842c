------------------------------- MODULE Study --------------------------------
(***************************************************************************)
(* Study sessions (api/session.go with models/session.go,                  *)
(* user_card_progress.go, deck.go:165-210 and user_stats.go): starting a   *)
(* session, answering its cards, completing it, stopping it, while the     *)
(* author of the deck adds and deletes cards or deletes the deck.          *)
(*                                                                         *)
(* A handler is a process.  Each SQL statement is one atomic step: no      *)
(* handler of this module opens a transaction, so requests interleave      *)
(* between any two statements.  The cascades of db/database.sql belong to  *)
(* the DELETE that sets them off.  A row that does not exist reads as the  *)
(* defaults the code uses for it.                                          *)
(***************************************************************************)
EXTENDS FSRS, StatsRow, FiniteSets

CONSTANTS Users, Decks, Cards,
          Sessions,      \* ids of study_sessions; each stands for the request
                         \* that starts it as well
          Answers,       \* each element is one POST /api/sessions/{id}/answer
          CardDeck,      \* the deck of every card id
          SessionUser,   \* the user and the deck of every session id
          SessionDeck,
          NoDeck,        \* the deck of a session that could not be read
          Ratings,       \* bound on the ratings sent
          MaxDay,        \* bound on the clock
          MaxFaults      \* bound on failing statements and dying handlers

ASSUME StudyAssumption ==
  /\ IsFiniteSet(Cards) /\ IsFiniteSet(Answers)
  /\ CardDeck \in [Cards -> Decks]
  /\ SessionUser \in [Sessions -> Users]
  /\ SessionDeck \in [Sessions -> Decks]
  /\ NoDeck \notin Decks
  /\ Ratings \subseteq AllRatings
  /\ MaxDay \in Nat \ {0}
  /\ MaxFaults \in Nat

VARIABLES deck,          \* decks: is the row there?
          card,          \* cards: not yet, there, or deleted
          progress,      \* user_card_progress
          session,       \* study_sessions
          log,           \* session_cards: the answers that were logged
          mastery,       \* user_deck_mastery.mastery_percent
          bookmarks,     \* bookmarks
          stats,         \* user_stats
          start,         \* where the handler Start of each session is
          pc, req, mem,  \* where Answer is, its request, its local variables
          day, faults

tables   == <<deck, card, progress, session, log, mastery, bookmarks, stats>>
handlers == <<start, pc, req, mem>>
vars     == <<tables, handlers, day, faults>>

Days == 1..MaxDay

ProgressRows == [times_reviewed : Nat, times_correct : Nat, memory : Memories]
NoProgress == [times_reviewed |-> 0, times_correct |-> 0, memory |-> NewMemory]

SessionRows == [live : BOOLEAN, cards_studied : Nat, correct_count : Nat,
                completed : BOOLEAN]
NoSession == [live |-> FALSE, cards_studied |-> 0, correct_count |-> 0,
              completed |-> FALSE]

\* The request of an answer.  "last" is the field "completed" of its body.
Requests == [user : Users, session : Sessions, card : Cards,
             rating : Ratings, last : BOOLEAN]
NoRequest == [user |-> "nobody"]

\* The local variables: the memory RecordFSRSReview is to write, the deck of the
\* session as loaded, the mastery its statement counted, the tallies Complete
\* re-read, and the date of UpdateAfterSession.  "early" is history, which the
\* code does not keep: the tally was to be bumped before the session had a row.
Locals == [memory : Memories, deck : Decks \cup {NoDeck}, percent : 0..100,
           studied : Nat, correct : Nat, today : Days, early : BOOLEAN]
NoLocals == [memory |-> NewMemory, deck |-> NoDeck, percent |-> 0,
             studied |-> 0, correct |-> 0, today |-> 1, early |-> FALSE]

\* "failed": 500 to the client.  "answered" and the two outcomes of Complete,
\* "credited" and "unrecorded", are the same 200 to the client.
Steps == {"read", "review", "bump", "log", "load", "snapshot", "write",
          "complete", "reload", "credit"}
Outcomes == {"answered", "credited", "unrecorded", "failed"}

TypeOK ==
  /\ deck \in [Decks -> {"live", "gone"}]
  /\ card \in [Cards -> {"new", "live", "gone"}]
  /\ progress \in [Users -> [Cards -> ProgressRows]]
  /\ session \in [Sessions -> SessionRows]
  /\ log \subseteq Answers
  /\ mastery \in [Users -> [Decks -> 0..100]]
  /\ bookmarks \subseteq Users \X Decks
  /\ stats \in [Users -> StatsRows]
  /\ start \in [Sessions -> {"idle", "insert", "bookmark", "started", "refused"}]
  /\ pc \in [Answers -> {"idle"} \cup Steps \cup Outcomes]
  /\ req \in [Answers -> Requests \cup {NoRequest}]
  /\ \A a \in Answers : pc[a] # "idle" => req[a] \in Requests
  /\ mem \in [Answers -> Locals]
  /\ day \in Days
  /\ faults \in 0..MaxFaults

Init ==
  /\ deck = [d \in Decks |-> "live"]
  /\ card \in [Cards -> {"new", "live"}]
  /\ progress = [u \in Users |-> [c \in Cards |-> NoProgress]]
  /\ session = [s \in Sessions |-> NoSession]
  /\ log = {}
  /\ mastery = [u \in Users |-> [d \in Decks |-> 0]]
  /\ bookmarks = {}
  /\ stats = [u \in Users |-> SeedRow]
  /\ start = [s \in Sessions |-> "idle"]
  /\ pc = [a \in Answers |-> "idle"]
  /\ req = [a \in Answers |-> NoRequest]
  /\ mem = [a \in Answers |-> NoLocals]
  /\ day = 1
  /\ faults = 0

CardsOf(d) == {c \in Cards : card[c] = "live" /\ CardDeck[c] = d}

-----------------------------------------------------------------------------
(* POST /api/decks/{id}/study *)

\* The deck exists and has cards; otherwise the request ends without an effect.
BeginStart(s) ==
  /\ start[s] = "idle"
  /\ deck[SessionDeck[s]] = "live"
  /\ CardsOf(SessionDeck[s]) # {}
  /\ start' = [start EXCEPT ![s] = "insert"]
  /\ UNCHANGED <<tables, pc, req, mem, day, faults>>

\* SessionModel.Create.  The foreign key refuses a deck deleted meanwhile.
InsertSession(s) ==
  /\ start[s] = "insert"
  /\ \/ /\ deck[SessionDeck[s]] = "live"
        /\ session' = [session EXCEPT ![s].live = TRUE]
        /\ start' = [start EXCEPT ![s] = "bookmark"]
     \/ /\ deck[SessionDeck[s]] # "live"
        /\ start' = [start EXCEPT ![s] = "refused"]
        /\ UNCHANGED session
  /\ UNCHANGED <<deck, card, progress, log, mastery, bookmarks, stats,
                 pc, req, mem, day, faults>>

\* BookmarkModel.Add; its error is ignored.
AddBookmark(s) ==
  /\ start[s] = "bookmark"
  /\ start' = [start EXCEPT ![s] = "started"]
  /\ bookmarks' = IF deck[SessionDeck[s]] = "live"
                    THEN bookmarks \cup {<<SessionUser[s], SessionDeck[s]>>}
                    ELSE bookmarks
  /\ UNCHANGED <<deck, card, progress, session, log, mastery, stats,
                 pc, req, mem, day, faults>>

\* Mutant: session_cards has no ON DELETE CASCADE.
StopKeepsLog(u, d) ==
  LET ended == {s \in Sessions : SessionUser[s] = u /\ SessionDeck[s] = d
                                 /\ session[s].live}
  IN /\ ended # {}
     /\ session' = [s \in Sessions |-> IF s \in ended THEN NoSession
                                                      ELSE session[s]]
     /\ UNCHANGED <<deck, card, progress, log, mastery, bookmarks, stats,
                    handlers, day, faults>>

\* DELETE /api/decks/{id}/study.  session_cards goes with the sessions.
Stop(u, d) ==
  LET ended == {s \in Sessions : SessionUser[s] = u /\ SessionDeck[s] = d
                                 /\ session[s].live}
  IN /\ ended # {}
     /\ session' = [s \in Sessions |-> IF s \in ended THEN NoSession
                                                      ELSE session[s]]
     /\ log' = {a \in log : req[a].session \notin ended}
     /\ UNCHANGED <<deck, card, progress, mastery, bookmarks, stats,
                    handlers, day, faults>>

-----------------------------------------------------------------------------
(* POST /api/sessions/{id}/answer *)

Goto(a, step) == pc' = [pc EXCEPT ![a] = step]

\* Any request with a valid rating: the handler does not ask whether the session
\* and the card are there, whose they are, or whether they belong together.  Ids
\* are consecutive, so a client may name one that is only handed out later.
Submit(a) ==
  /\ pc[a] = "idle"
  /\ \E r \in Requests : req' = [req EXCEPT ![a] = r]
  /\ Goto(a, "read")
  /\ UNCHANGED <<tables, start, mem, day, faults>>

\* Mutant: the stored row is not passed to the scheduler.
ReadProgressFresh(a) ==
  /\ pc[a] = "read"
  /\ mem' = [mem EXCEPT ![a].memory = Review(NewMemory, req[a].rating)]
  /\ Goto(a, "review")
  /\ UNCHANGED <<tables, start, req, day, faults>>

\* GetOrCreate, and the scheduler on what it returned.
ReadProgress(a) ==
  /\ pc[a] = "read"
  /\ mem' = [mem EXCEPT ![a].memory =
               Review(progress[req[a].user][req[a].card].memory, req[a].rating)]
  /\ Goto(a, "review")
  /\ UNCHANGED <<tables, start, req, day, faults>>

\* The upsert of RecordFSRSReview: the counts are incremented in the database,
\* the memory is overwritten.  The foreign key refuses a deleted card.
RecordReview(a) ==
  /\ pc[a] = "review"
  /\ \/ /\ card[req[a].card] = "live"
        /\ progress' =
             [progress EXCEPT ![req[a].user][req[a].card] =
                [times_reviewed |-> @.times_reviewed + 1,
                 times_correct |-> @.times_correct
                                     + (IF Correct(req[a].rating) THEN 1 ELSE 0),
                 memory |-> mem[a].memory]]
        /\ Goto(a, "bump")
     \/ /\ card[req[a].card] # "live"
        /\ Goto(a, "failed")
        /\ UNCHANGED progress
  /\ UNCHANGED <<deck, card, session, log, mastery, bookmarks, stats,
                 start, req, mem, day, faults>>

\* The first statement of RecordAnswer.  It is no error to update no row.
BumpTally(a) ==
  LET s == req[a].session IN
  /\ pc[a] = "bump"
  /\ mem' = [mem EXCEPT ![a].early = start[s] \in {"idle", "insert"}]
  /\ session' =
       IF session[s].live
         THEN [session EXCEPT
                 ![s].cards_studied = @ + 1,
                 ![s].correct_count = @ + (IF Correct(req[a].rating) THEN 1 ELSE 0)]
         ELSE session
  /\ Goto(a, "log")
  /\ UNCHANGED <<deck, card, progress, log, mastery, bookmarks, stats,
                 start, req, day, faults>>

\* The second statement of RecordAnswer, with two foreign keys.
LogAnswer(a) ==
  /\ pc[a] = "log"
  /\ IF session[req[a].session].live /\ card[req[a].card] = "live"
       THEN log' = log \cup {a} /\ Goto(a, "load")
       ELSE Goto(a, "failed") /\ UNCHANGED log
  /\ UNCHANGED <<deck, card, progress, session, mastery, bookmarks, stats,
                 start, req, mem, day, faults>>

\* GetById.  Its error is ignored: the deck of a lost session is none.
LoadSession(a) ==
  /\ pc[a] = "load"
  /\ mem' = [mem EXCEPT ![a].deck = IF session[req[a].session].live
                                      THEN SessionDeck[req[a].session] ELSE NoDeck]
  /\ Goto(a, "snapshot")
  /\ UNCHANGED <<tables, start, req, day, faults>>

\* Mutant: the percentage is rounded up by adding one.
PercentPlusOne(u, d) ==
  LET total    == Cardinality(CardsOf(d))
      mastered == {c \in CardsOf(d) : progress[u][c].memory.state = Mastered}
  IN IF total = 0 THEN 0 ELSE ((Cardinality(mastered) * 100) \div total) + 1

Percent(u, d) ==
  LET total    == Cardinality(CardsOf(d))
      mastered == {c \in CardsOf(d) : progress[u][c].memory.state = Mastered}
  IN IF total = 0 THEN 0 ELSE (Cardinality(mastered) * 100) \div total

\* UpdateUserMastery is one statement in two steps: what it counts is what was
\* committed when it began, and it may then wait for another to release the row.
CountMastered(a) ==
  /\ pc[a] = "snapshot"
  /\ mem' = [mem EXCEPT ![a].percent = Percent(req[a].user, mem[a].deck)]
  /\ Goto(a, "write")
  /\ UNCHANGED <<tables, start, req, day, faults>>

\* Mutant: only a correct last answer completes the session.
AfterMasteryIfCorrect(a) ==
  Goto(a, IF req[a].last /\ Correct(req[a].rating) THEN "complete" ELSE "answered")

\* Whether the handler goes on to Complete.
AfterMastery(a) == Goto(a, IF req[a].last THEN "complete" ELSE "answered")

\* Mutant: mastery_percent only ever rises.
WriteMasteryGreatest(a) ==
  LET d == mem[a].deck IN
  /\ pc[a] = "write"
  /\ mastery' = IF d # NoDeck /\ deck[d] = "live"
                  THEN [mastery EXCEPT ![req[a].user][d] = Greatest(@, mem[a].percent)]
                  ELSE mastery
  /\ Goto(a, IF req[a].last THEN "complete" ELSE "answered")
  /\ UNCHANGED <<deck, card, progress, session, log, bookmarks, stats,
                 start, req, mem, day, faults>>

\* The foreign key refuses a deck that is gone; the error is ignored.
WriteMastery(a) ==
  LET d == mem[a].deck IN
  /\ pc[a] = "write"
  /\ mastery' = IF d # NoDeck /\ deck[d] = "live"
                  THEN [mastery EXCEPT ![req[a].user][d] = mem[a].percent]
                  ELSE mastery
  /\ AfterMastery(a)
  /\ UNCHANGED <<deck, card, progress, session, log, bookmarks, stats,
                 start, req, mem, day, faults>>

\* The first statement of Complete, without a condition on completed_at.
MarkCompleted(a) ==
  LET s == req[a].session IN
  /\ pc[a] = "complete"
  /\ session' = [session EXCEPT ![s].completed = session[s].live]
  /\ Goto(a, "reload")
  /\ UNCHANGED <<deck, card, progress, log, mastery, bookmarks, stats,
                 start, req, mem, day, faults>>

\* Mutant: the two tallies change places on the way to UpdateAfterSession.
ReloadSessionSwapped(a) ==
  LET s == req[a].session IN
  /\ pc[a] = "reload"
  /\ session[s].live
  /\ mem' = [mem EXCEPT ![a].studied = session[s].correct_count,
                        ![a].correct = session[s].cards_studied,
                        ![a].today = day]
  /\ Goto(a, "credit")
  /\ UNCHANGED <<tables, start, req, day, faults>>

\* Complete reads the session back and hands its tallies to UpdateAfterSession.
ReloadSession(a) ==
  LET s == req[a].session IN
  /\ pc[a] = "reload"
  /\ \/ /\ session[s].live
        /\ mem' = [mem EXCEPT ![a].studied = session[s].cards_studied,
                              ![a].correct = session[s].correct_count,
                              ![a].today = day]
        /\ Goto(a, "credit")
     \/ /\ ~session[s].live
        /\ Goto(a, "unrecorded")
        /\ UNCHANGED mem
  /\ UNCHANGED <<tables, start, req, day, faults>>

\* UpdateAfterSession: the clock is read some time before the upsert runs.
CreditUser(a) ==
  /\ pc[a] = "credit"
  /\ \E today \in mem[a].today..day :
       /\ stats' = [stats EXCEPT ![SessionUser[req[a].session]] =
                      Updated(@, mem[a].studied, mem[a].correct, today)]
       /\ mem' = [mem EXCEPT ![a].today = today]
  /\ Goto(a, "credited")
  /\ UNCHANGED <<deck, card, progress, session, log, mastery, bookmarks,
                 start, req, day, faults>>

Answer(a) == \/ ReadProgress(a) \/ RecordReview(a)
             \/ BumpTally(a) \/ LogAnswer(a) \/ LoadSession(a)
             \/ CountMastered(a) \/ WriteMastery(a)
             \/ MarkCompleted(a) \/ ReloadSession(a) \/ CreditUser(a)

-----------------------------------------------------------------------------
(* Failures *)

\* The statement a handler is at returns an error (no connection, a timeout).
\* GetOrCreate takes any error for a missing row.
StatementFails(a) ==
  /\ faults < MaxFaults
  /\ faults' = faults + 1
  /\ \/ /\ pc[a] = "read"
        /\ mem' = [mem EXCEPT ![a].memory = Review(NewMemory, req[a].rating)]
        /\ Goto(a, "review")
     \/ /\ pc[a] \in {"review", "bump", "log"}
        /\ Goto(a, "failed")
        /\ UNCHANGED mem
     \/ /\ pc[a] = "load"
        /\ mem' = [mem EXCEPT ![a].deck = NoDeck]
        /\ Goto(a, "snapshot")
     \/ /\ pc[a] \in {"snapshot", "write"}
        /\ AfterMastery(a)
        /\ UNCHANGED mem
     \/ /\ pc[a] \in {"complete", "reload", "credit"}
        /\ Goto(a, "unrecorded")
        /\ UNCHANGED mem
  /\ UNCHANGED <<tables, start, req, day>>

\* The server dies between two statements, or its answer is lost.
HandlerDies(a) ==
  /\ pc[a] \in Steps
  /\ faults < MaxFaults
  /\ faults' = faults + 1
  /\ Goto(a, "failed")
  /\ UNCHANGED <<tables, start, req, mem, day>>

StartFails(s) ==
  /\ start[s] \in {"insert", "bookmark"}
  /\ faults < MaxFaults
  /\ faults' = faults + 1
  /\ start' = [start EXCEPT ![s] = IF @ = "insert" THEN "refused" ELSE "started"]
  /\ UNCHANGED <<tables, pc, req, mem, day>>

-----------------------------------------------------------------------------
(* The author edits the deck, and time passes *)

\* The INSERT of CardModel.Create.
CreateCard(c) ==
  /\ card[c] = "new"
  /\ deck[CardDeck[c]] = "live"
  /\ card' = [card EXCEPT ![c] = "live"]
  /\ UNCHANGED <<deck, progress, session, log, mastery, bookmarks, stats,
                 handlers, day, faults>>

ForgetCards(gone) ==
  /\ card' = [c \in Cards |-> IF c \in gone THEN "gone" ELSE card[c]]
  /\ progress' = [u \in Users |-> [c \in Cards |-> IF c \in gone THEN NoProgress
                                                   ELSE progress[u][c]]]

\* The DELETE of CardModel.Delete and its cascades.
DeleteCard(c) ==
  /\ card[c] = "live"
  /\ ForgetCards({c})
  /\ log' = {a \in log : req[a].card # c}
  /\ UNCHANGED <<deck, session, mastery, bookmarks, stats, handlers, day, faults>>

\* The DELETE of DeckModel.Delete and its cascades.
DeleteDeck(d) ==
  /\ deck[d] = "live"
  /\ deck' = [deck EXCEPT ![d] = "gone"]
  /\ ForgetCards(CardsOf(d))
  /\ session' = [s \in Sessions |-> IF SessionDeck[s] = d THEN NoSession
                                                          ELSE session[s]]
  /\ log' = {a \in log : /\ SessionDeck[req[a].session] # d
                         /\ CardDeck[req[a].card] # d}
  /\ mastery' = [u \in Users |-> [mastery[u] EXCEPT ![d] = 0]]
  /\ bookmarks' = {b \in bookmarks : b[2] # d}
  /\ UNCHANGED <<stats, handlers, day, faults>>

NextDay ==
  /\ day < MaxDay
  /\ day' = day + 1
  /\ UNCHANGED <<tables, handlers, faults>>

Next ==
  \/ \E s \in Sessions : BeginStart(s) \/ InsertSession(s) \/ AddBookmark(s)
                         \/ StartFails(s)
  \/ \E u \in Users, d \in Decks : Stop(u, d)
  \/ \E a \in Answers : Submit(a) \/ Answer(a) \/ StatementFails(a)
                        \/ HandlerDies(a)
  \/ \E c \in Cards : CreateCard(c) \/ DeleteCard(c)
  \/ \E d \in Decks : DeleteDeck(d)
  \/ NextDay

Spec == Init /\ [][Next]_vars

-----------------------------------------------------------------------------
(* What holds whatever the interleaving and the failures *)

LoggedIn(s)       == {a \in log : req[a].session = s}
LoggedFor(u, c)   == {a \in log : req[a].user = u /\ req[a].card = c}
CorrectIn(logged) == {a \in logged : Correct(req[a].rating)}

\* The memory of a card never holds more than its history does: every repetition
\* and every lapse is a review that was counted, and the lapses are among the
\* reviews not counted as correct.  Overlapping reviews and a failed read may
\* only lose some (models/user_card_progress.go:49-106: the counts are added to
\* in the database, the memory is computed from an earlier read).
MemoryAccounted ==
  \A u \in Users, c \in Cards :
    LET row == progress[u][c] IN
      /\ row.memory.reps + row.memory.lapses <= row.times_reviewed
      /\ row.memory.lapses + row.times_correct <= row.times_reviewed

\* session_cards never shows an answer that the progress of its card has not
\* counted, and none that the tallies of its session have not, but for one case:
\* an answer sent to a session id before it was handed out.  The statements of
\* Answer run in the order upsert progress, bump tallies, insert log row, and what
\* deletes the counts deletes the log rows too; but the UPDATE of the tallies may
\* find no row where the INSERT after it finds one (api/session.go:102-111,
\* models/session.go:52-70, the cascades of db/database.sql).
LogCounted ==
  /\ \A s \in Sessions :
       LET timely == {a \in LoggedIn(s) : ~mem[a].early} IN
         /\ Cardinality(timely) <= session[s].cards_studied
         /\ Cardinality(CorrectIn(timely)) <= session[s].correct_count
  /\ \A u \in Users, c \in Cards :
       /\ Cardinality(LoggedFor(u, c)) <= progress[u][c].times_reviewed
       /\ Cardinality(CorrectIn(LoggedFor(u, c))) <= progress[u][c].times_correct

\* The completions drive the cached statistics as UserStats says.
StatsCall(a) ==
  LET outcome == [user |-> SessionUser[req[a].session],
                  studied |-> mem[a].studied, correct |-> mem[a].correct,
                  today |-> mem[a].today, pc |-> "called"]
  IN CASE pc[a] = "credit"   -> outcome
       [] pc[a] = "credited" -> [outcome EXCEPT !.pc = "done"]
       [] OTHER              -> [pc |-> "idle"]

Stats == INSTANCE UserStats WITH Calls <- Answers,
                                 MaxCards <- Cardinality(Answers),
                                 call <- [a \in Answers |-> StatsCall(a)]

\* Every behaviour of the study handlers is one of the statistics module: a
\* completion hands over at most one outcome, with correct_count within
\* cards_studied, and its upsert is applied at most once (models/session.go:72-91).
DrivesStats == Stats!Spec

\* XP is 10 per session and 2 per correct card (models/user_stats.go:39): no user
\* has more than the sessions started and the correct answers given are worth.
XpFormula ==
  \A u \in Users :
    stats[u].xp <=
      10 * Cardinality({s \in Sessions : /\ SessionUser[s] = u
                                        /\ start[s] \in {"bookmark", "started"}})
      + 2 * Cardinality({a \in Answers : /\ pc[a] # "idle"
                                         /\ SessionUser[req[a].session] = u
                                         /\ Correct(req[a].rating)})
=============================================================================
